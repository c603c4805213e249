-------------------------- MODULE AlgorithmProofs --------------------------
(***************************************************************************)
(* What the pure parts of the gateway compute, for every configuration,    *)
(* every width of a duration, every header and every response.             *)
(*                                                                         *)
(* The loops over the model list and over a model's providers are followed *)
(* turn by turn: a set of numbers that has 0 and with each number the next *)
(* one has them all, because a set that is not empty has a smallest one.   *)
(* What a vector's checks and the sort compute is told without induction,  *)
(* by counting: a map of n positions to n indexes that doubles none misses *)
(* none, and one that rises cannot be anywhere but at k - 1.               *)
(***************************************************************************)
EXTENDS Algorithms, FiniteSetTheorems, SequenceTheorems, TLAPS

Attempts == {0, 1, 5}

\* A finished task holds what its function gives for its input.
Computed ==
  /\ task = "configuration" =>
       /\ input \in Configs
       /\ result \in {<<>>, <<Load(input)>>}
  /\ task = "wait" =>
       /\ input \in Headers \X Attempts \X (0 .. Jitter - 1)
       /\ result \in {<<>>, <<Delay(input[1], input[2], input[3])>>}
  /\ task = "vectors" =>
       /\ input \in Responses
       /\ result \in {<<>>, <<Normalize(input.input, input.readable, input.vectors)>>}

\* Every step of the gateway's pure parts leaves behind what they compute.
LEMMA ResultsAreComputed == Spec => []Computed
<1>1. Init => Computed
  BY DEF Init, Computed, Attempts
<1>2. Computed /\ [Next]_vars => Computed'
  <2> SUFFICES ASSUME Computed, [Next]_vars PROVE Computed'
    OBVIOUS
  <2>1. CASE LoadConfiguration
    BY <2>1, Zenon DEF Computed, LoadConfiguration, Finish
  <2>2. CASE WaitForRetry
    BY <2>2, Zenon DEF Computed, WaitForRetry, Finish
  <2>3. CASE NormalizeVectors
    BY <2>3, Zenon DEF Computed, NormalizeVectors, Finish
  <2>4. CASE UNCHANGED vars
    BY <2>4, Zenon DEF Computed, vars
  <2> QED  BY <2>1, <2>2, <2>3, <2>4 DEF Next, Finished
<1> QED  BY <1>1, <1>2, PTL DEF Spec

-----------------------------------------------------------------------------
\* A set of numbers that is not empty has a smallest one.
LEMMA LeastElement ==
  ASSUME NEW T \in SUBSET Nat, T # {}
  PROVE  \E x \in T : \A y \in T : x <= y
<1> DEFINE R == OpToRel(<, Nat)
<1>1. IsWellFoundedOn(R, Nat)
  BY NatLessThanWellFounded, Zenon
<1>2. \A x, y \in Nat : x < y => <<x, y>> \in R
  BY DEF OpToRel
<1> HIDE DEF R
<1>3. PICK x \in T : \A y \in T : ~(<<y, x>> \in R)
  BY <1>1, WFMin
<1>4. \A y \in T : x <= y
  <2> TAKE y \in T
  <2>1. x \in Nat /\ y \in Nat /\ ~(y < x)
    BY <1>2, <1>3
  <2> QED  BY <2>1
<1> QED  BY <1>4

\* A set that has 0 and with a number the next one has all of them.
LEMMA SetInduction ==
  ASSUME NEW T, 0 \in T, \A n \in Nat : n \in T => n + 1 \in T
  PROVE  \A n \in Nat : n \in T
<1> SUFFICES ASSUME NEW n \in Nat, n \notin T PROVE FALSE
  OBVIOUS
<1> DEFINE M == {k \in Nat : k \notin T}
<1>1. M \in SUBSET Nat /\ M # {}
  OBVIOUS
<1>2. PICK k \in M : \A j \in M : k <= j
  BY <1>1, LeastElement
<1>3. k # 0 /\ k - 1 \in Nat
  BY <1>2
<1>4. k - 1 \in T
  BY <1>2, <1>3
<1> QED BY <1>2, <1>3, <1>4

-----------------------------------------------------------------------------
\* The configurations the loop over the model list goes through.
Walks(c, n, f) ==
  f = [i \in 0 .. n |-> IF i = 0 THEN c ELSE AddEntry(f[i - 1], c.modelList[i])]

LEMMA WalkGoesOn ==
  ASSUME NEW c, NEW n \in Nat, NEW f, Walks(c, n, f)
  PROVE  \E g : Walks(c, n + 1, g)
<1> DEFINE g == [i \in 0 .. n + 1 |->
                   IF i <= n THEN f[i] ELSE AddEntry(f[n], c.modelList[n + 1])]
           h == [i \in 0 .. n + 1 |->
                   IF i = 0 THEN c ELSE AddEntry(g[i - 1], c.modelList[i])]
<1>1. \A i \in 0 .. n : f[i] = IF i = 0 THEN c ELSE AddEntry(f[i - 1], c.modelList[i])
  BY Zenon DEF Walks
<1>2. ASSUME NEW i \in 0 .. n + 1 PROVE g[i] = h[i]
  <2>1. CASE i = 0
    BY <1>1, <2>1
  <2>2. CASE i \in 1 .. n
    <3>1. g[i - 1] = f[i - 1] /\ g[i] = f[i]
      BY <2>2
    <3>2. i \in 0 .. n /\ i # 0 /\ i \in 0 .. n + 1
      BY <2>2
    <3> HIDE DEF g
    <3> QED  BY <1>1, <3>1, <3>2, Zenon
  <2>3. CASE i = n + 1
    <3>1. g[i - 1] = f[n] /\ g[i] = AddEntry(f[n], c.modelList[i])
      BY <2>3
    <3>2. i # 0 /\ i \in 0 .. n + 1
      BY <2>3
    <3> HIDE DEF g
    <3> QED  BY <3>1, <3>2, Zenon
  <2> QED  BY <2>1, <2>2, <2>3
<1>3. g = h
  <2> DEFINE S == 0 .. n + 1
  <2>1. /\ g = [i \in S |-> g[i]]
        /\ h = [i \in S |-> h[i]]
    OBVIOUS
  <2>2. \A i \in S : g[i] = h[i]
    BY <1>2
  <2> HIDE DEF g, h, S
  <2> QED  BY <2>1, <2>2
<1>4. Walks(c, n + 1, g)
  BY <1>3 DEF Walks
<1> QED  BY <1>4

LEMMA WalkExists ==
  ASSUME NEW c
  PROVE  \A n \in Nat : \E f : Walks(c, n, f)
<1> DEFINE T == {n \in Nat : \E f : Walks(c, n, f)}
<1>1. 0 \in T
  <2> DEFINE f == [i \in 0 .. 0 |-> c]
  <2>1. Walks(c, 0, f)
    <3>1. \A i \in 0 .. 0 : i = 0
      OBVIOUS
    <3> QED  BY <3>1, Zenon DEF Walks
  <2> QED  BY <2>1
<1>2. \A n \in Nat : n \in T => n + 1 \in T
  BY WalkGoesOn
<1> HIDE DEF T
<1>3. \A n \in Nat : n \in T
  BY <1>1, <1>2, SetInduction
<1> QED  BY <1>3 DEF T

\* What normalizeModelRoutes returns is where the loop ends.
LEMMA WalkEnds ==
  ASSUME NEW c, Len(c.modelList) \in Nat
  PROVE  \E f : Walks(c, Len(c.modelList), f)
                /\ NormalizeModelRoutes(c) = f[Len(c.modelList)]
<1> DEFINE n == Len(c.modelList)
           f == CHOOSE f : Walks(c, n, f)
<1>1. \E g : Walks(c, n, g)
  BY WalkExists
<1>2. Walks(c, n, f)
  BY <1>1, Zenon
<1>3. NormalizeModelRoutes(c) = f[n]
  BY Zenon DEF NormalizeModelRoutes, Walks
<1> QED  BY <1>2, <1>3

ConfigFields   == {"settings", "clearText", "providers", "routes", "rules", "modelList"}
ProviderFields == {"url", "kind", "key", "aliases"}

\* What the loop leaves alone.
Keeps(c, d) ==
  /\ DOMAIN d = ConfigFields
  /\ d.settings = c.settings /\ d.rules = c.rules /\ d.modelList = c.modelList
  /\ DOMAIN d.providers = DOMAIN c.providers
  /\ \A p \in DOMAIN d.providers : /\ DOMAIN d.providers[p] = ProviderFields
                                   /\ d.providers[p].url = c.providers[p].url

\* What one turn of it changes.
LEMMA EntryAdded ==
  ASSUME NEW d, DOMAIN d = ConfigFields,
         \A p \in DOMAIN d.providers : DOMAIN d.providers[p] = ProviderFields,
         NEW e, e.name # Empty, e.provider # Empty, NEW next, next = AddEntry(d, e)
  PROVE  /\ DOMAIN next = ConfigFields
         /\ next.settings = d.settings /\ next.rules = d.rules
         /\ next.modelList = d.modelList
         /\ next.routes = Put(d.routes, e.name, e.provider)
         /\ DOMAIN next.providers = DOMAIN d.providers
         /\ \A p \in DOMAIN d.providers :
              /\ DOMAIN next.providers[p] = ProviderFields
              /\ next.providers[p].url = d.providers[p].url
              /\ next.providers[p].aliases =
                   IF p = e.provider /\ e.upstream # Empty
                   THEN Put(d.providers[p].aliases, e.name, e.upstream)
                   ELSE d.providers[p].aliases
<1>1. /\ DOMAIN next = ConfigFields
      /\ next.settings = d.settings /\ next.rules = d.rules
      /\ next.modelList = d.modelList
      /\ next.routes = Put(d.routes, e.name, e.provider)
      /\ next.providers = AddAlias(d.providers, e)
  <2>1. next = [d EXCEPT !.routes = Put(d.routes, e.name, e.provider),
                         !.providers = AddAlias(d.providers, e)]
    BY Zenon DEF AddEntry
  <2> QED  BY ONLY DOMAIN d = ConfigFields, <2>1 DEF ConfigFields
<1>2. CASE e.provider \in DOMAIN d.providers /\ e.upstream # Empty
  <2>1. next.providers = [d.providers EXCEPT ![e.provider].aliases =
                            Put(@, e.name, e.upstream)]
    BY <1>1, <1>2, Zenon DEF AddAlias
  <2> QED  BY <1>1, <1>2, <2>1 DEF ProviderFields
<1>3. CASE ~(e.provider \in DOMAIN d.providers /\ e.upstream # Empty)
  <2>1. next.providers = d.providers
    BY <1>1, <1>3, Zenon DEF AddAlias
  <2> QED  BY <1>1, <1>3, <2>1
<1> QED  BY <1>2, <1>3

\* A configuration as a file gives it.
WellFormed(c) ==
  /\ DOMAIN c = ConfigFields
  /\ \A p \in DOMAIN c.providers : DOMAIN c.providers[p] = ProviderFields
  /\ Len(c.modelList) \in Nat

\* Every entry names a model and a provider.
Complete(list) ==
  \A i \in 1 .. Len(list) : list[i].name # Empty /\ list[i].provider # Empty

LEMMA WalkKeeps ==
  ASSUME NEW c, WellFormed(c), NEW f, Walks(c, Len(c.modelList), f)
  PROVE  \A n \in 0 .. Len(c.modelList) : Keeps(c, f[n])
<1> DEFINE N == Len(c.modelList)
           T == {n \in Nat : n <= N => Keeps(c, f[n])}
<1>1. N \in Nat
  BY DEF WellFormed
<1>2. \A n \in 0 .. N : f[n] = IF n = 0 THEN c ELSE AddEntry(f[n - 1], c.modelList[n])
  BY Zenon DEF Walks
<1> HIDE DEF N
<1>3. 0 \in T
  <2>1. f[0] = c
    BY <1>1, <1>2
  <2> QED  BY <2>1 DEF WellFormed, Keeps
<1>4. ASSUME NEW n \in Nat, n \in T PROVE n + 1 \in T
  <2> SUFFICES ASSUME n + 1 <= N PROVE Keeps(c, f[n + 1])
    OBVIOUS
  <2>1. n <= N /\ n + 1 \in 0 .. N /\ n + 1 # 0 /\ n + 1 - 1 = n
    BY <1>1
  <2> DEFINE d == f[n]
             next == f[n + 1]
             e == c.modelList[n + 1]
  <2>2. Keeps(c, d)
    BY <1>4, <2>1
  <2>3. next = AddEntry(d, e)
    BY <1>2, <2>1
  <2> HIDE DEF d, next, e
  <2>4. CASE e.name = Empty \/ e.provider = Empty
    <3>1. next = d
      BY <2>3, <2>4, Zenon DEF AddEntry
    <3> QED  BY <2>2, <3>1 DEF next
  <2>5. CASE e.name # Empty /\ e.provider # Empty
    <3>1. /\ DOMAIN d = ConfigFields
          /\ \A p \in DOMAIN d.providers : DOMAIN d.providers[p] = ProviderFields
      BY <2>2, Zenon DEF Keeps
    <3>2. /\ DOMAIN next = ConfigFields
          /\ next.settings = d.settings /\ next.rules = d.rules
          /\ next.modelList = d.modelList
          /\ DOMAIN next.providers = DOMAIN d.providers
          /\ \A p \in DOMAIN d.providers : /\ DOMAIN next.providers[p] = ProviderFields
                                            /\ next.providers[p].url = d.providers[p].url
      BY ONLY <2>3, <2>5, <3>1, EntryAdded
    <3>3. Keeps(c, next)
      BY <2>2, <3>2, Zenon DEF Keeps
    <3> QED  BY <3>3 DEF next
  <2> QED  BY <2>4, <2>5
<1> HIDE DEF T
<1>5. \A n \in Nat : n \in T
  BY <1>3, <1>4, SetInduction
<1> QED  BY <1>1, <1>5 DEF T, N

\* The last entry of a name decides on its route and on its provider's alias.
LastWins(c, d, n) ==
  \A i \in 1 .. n :
    LET e == c.modelList[i]
    IN (\A j \in i + 1 .. n : c.modelList[j].name # e.name) =>
         /\ e.name \in DOMAIN d.routes /\ d.routes[e.name] = e.provider
         /\ e.provider \in DOMAIN d.providers /\ e.upstream # Empty =>
              /\ e.name \in DOMAIN d.providers[e.provider].aliases
              /\ d.providers[e.provider].aliases[e.name] = e.upstream

LEMMA LastEntryWins ==
  ASSUME NEW c, WellFormed(c), Complete(c.modelList),
         NEW f, Walks(c, Len(c.modelList), f)
  PROVE  LastWins(c, f[Len(c.modelList)], Len(c.modelList))
<1> DEFINE N == Len(c.modelList)
           T == {n \in Nat : n <= N => LastWins(c, f[n], n)}
<1>1. N \in Nat
  BY DEF WellFormed
<1>2. \A n \in 0 .. N : f[n] = IF n = 0 THEN c ELSE AddEntry(f[n - 1], c.modelList[n])
  BY Zenon DEF Walks
<1>3. \A n \in 0 .. N : Keeps(c, f[n])
  BY WalkKeeps
<1>4. \A i \in 1 .. N : c.modelList[i].name # Empty /\ c.modelList[i].provider # Empty
  BY Zenon DEF Complete
<1> HIDE DEF N
<1>5. 0 \in T
  <2>1. \A i \in 1 .. 0 : FALSE
    OBVIOUS
  <2>2. LastWins(c, f[0], 0)
    BY <2>1, Zenon DEF LastWins
  <2> QED  BY <2>2
<1>6. ASSUME NEW n \in Nat, n \in T PROVE n + 1 \in T
  <2> SUFFICES ASSUME n + 1 <= N PROVE LastWins(c, f[n + 1], n + 1)
    OBVIOUS
  <2>1. n <= N /\ n + 1 \in 1 .. N /\ n + 1 \in 0 .. N /\ n \in 0 .. N /\ n + 1 - 1 = n
    BY <1>1
  <2> DEFINE d == f[n]
             next == f[n + 1]
             new == c.modelList[n + 1]
  <2>2. LastWins(c, d, n) /\ Keeps(c, d)
    BY <1>3, <1>6, <2>1
  <2>3. next = AddEntry(d, new) /\ new.name # Empty /\ new.provider # Empty
    BY <1>2, <1>4, <2>1
  <2> HIDE DEF d, next
  <2>4. /\ next.routes = Put(d.routes, new.name, new.provider)
        /\ DOMAIN next.providers = DOMAIN d.providers
        /\ \A p \in DOMAIN d.providers :
             next.providers[p].aliases =
               IF p = new.provider /\ new.upstream # Empty
               THEN Put(d.providers[p].aliases, new.name, new.upstream)
               ELSE d.providers[p].aliases
    <3>1. /\ DOMAIN d = ConfigFields
          /\ \A p \in DOMAIN d.providers : DOMAIN d.providers[p] = ProviderFields
      BY <2>2, Zenon DEF Keeps
    <3> HIDE DEF new
    <3> QED  BY ONLY <2>3, <3>1, EntryAdded
  <2>5. ASSUME NEW i \in 1 .. n + 1,
               \A j \in i + 1 .. n + 1 : c.modelList[j].name # c.modelList[i].name
        PROVE  LET e == c.modelList[i]
               IN /\ e.name \in DOMAIN next.routes /\ next.routes[e.name] = e.provider
                  /\ e.provider \in DOMAIN next.providers /\ e.upstream # Empty =>
                       /\ e.name \in DOMAIN next.providers[e.provider].aliases
                       /\ next.providers[e.provider].aliases[e.name] = e.upstream
    <3> DEFINE e == c.modelList[i]
    <3>1. CASE i = n + 1
      <4>1. e = new
        BY <3>1
      <4> HIDE DEF e, new
      <4>2. e.name \in DOMAIN next.routes /\ next.routes[e.name] = e.provider
        BY ONLY <2>4, <4>1 DEF Put
      <4>3. ASSUME e.provider \in DOMAIN next.providers, e.upstream # Empty
            PROVE  /\ e.name \in DOMAIN next.providers[e.provider].aliases
                   /\ next.providers[e.provider].aliases[e.name] = e.upstream
        <5>1. next.providers[e.provider].aliases =
                Put(d.providers[e.provider].aliases, e.name, e.upstream)
          BY ONLY <2>4, <4>1, <4>3
        <5> QED  BY ONLY <5>1 DEF Put
      <4> QED  BY ONLY <4>2, <4>3 DEF e
    <3>2. CASE i \in 1 .. n
      <4>1. new.name # e.name
        <5>1. n + 1 \in i + 1 .. n + 1
          BY <3>2
        <5> QED  BY <2>5, <5>1
      <4>2. \A j \in i + 1 .. n : c.modelList[j].name # e.name
        BY <2>5, <3>2
      <4>3. /\ e.name \in DOMAIN d.routes /\ d.routes[e.name] = e.provider
            /\ e.provider \in DOMAIN d.providers /\ e.upstream # Empty =>
                 /\ e.name \in DOMAIN d.providers[e.provider].aliases
                 /\ d.providers[e.provider].aliases[e.name] = e.upstream
        BY <2>2, <3>2, <4>2, Zenon DEF LastWins
      <4> HIDE DEF e, new
      <4>4. e.name \in DOMAIN next.routes /\ next.routes[e.name] = e.provider
        BY ONLY <2>4, <4>1, <4>3 DEF Put
      <4>5. ASSUME e.provider \in DOMAIN next.providers, e.upstream # Empty
            PROVE  /\ e.name \in DOMAIN next.providers[e.provider].aliases
                   /\ next.providers[e.provider].aliases[e.name] = e.upstream
        <5>1. /\ e.provider \in DOMAIN d.providers
              /\ e.name \in DOMAIN d.providers[e.provider].aliases
              /\ d.providers[e.provider].aliases[e.name] = e.upstream
          BY <2>4, <4>3, <4>5
        <5> DEFINE before == d.providers[e.provider].aliases
        <5>2. next.providers[e.provider].aliases =
                IF e.provider = new.provider /\ new.upstream # Empty
                THEN Put(before, new.name, new.upstream) ELSE before
          BY <2>4, <5>1, Zenon
        <5> HIDE DEF before
        <5>3. e.name \in DOMAIN before /\ before[e.name] = e.upstream
          BY <5>1 DEF before
        <5> QED  BY ONLY <4>1, <5>2, <5>3 DEF Put
      <4> QED  BY ONLY <4>4, <4>5 DEF e
    <3>3. i = n + 1 \/ i \in 1 .. n
      BY <2>5
    <3> QED  BY <3>1, <3>2, <3>3, Zenon
  <2> QED  BY <2>5 DEF LastWins, next
<1> HIDE DEF T
<1>7. \A n \in Nat : n \in T
  BY <1>5, <1>6, SetInduction
<1> QED  BY <1>1, <1>7 DEF T, N

\* What environment and flags make of the configuration d the loop left.
Overridden(i, d, l) ==
  /\ l.settings = Over(i.flags, Over(i.env.settings, d.settings))
  /\ l.clearText = i.env.clearText
  /\ l.routes = d.routes /\ l.rules = d.rules /\ l.modelList = d.modelList
  /\ DOMAIN l.providers = DOMAIN d.providers
  /\ \A p \in DOMAIN d.providers :
       /\ l.providers[p].url = IF p = Ollama /\ i.env.ollamaBase # "unset"
                               THEN i.env.ollamaBase ELSE d.providers[p].url
       /\ l.providers[p].aliases =
            IF p = Ollama /\ i.env.chatModel # Empty
            THEN Put(d.providers[p].aliases, ChatAlias, i.env.chatModel)
            ELSE d.providers[p].aliases

LEMMA EnvironmentOverrides ==
  ASSUME NEW i, NEW d, DOMAIN d = ConfigFields,
         \A p \in DOMAIN d.providers : DOMAIN d.providers[p] = ProviderFields
  PROVE  Overridden(i, d, WithFlags(ApplyEnvironment(d, i.env), i.flags))
<1> DEFINE env == i.env
           a == ApplyEnvironment(d, env)
           l == WithFlags(a, i.flags)
           settings == Over(env.settings, d.settings)
           providers == [p \in DOMAIN d.providers |->
                           [IF p = Ollama THEN OllamaWith(d.providers[p], env)
                            ELSE d.providers[p] EXCEPT !.key = p \in env.keys]]
<1>1. a = [d EXCEPT !.settings = settings, !.clearText = env.clearText,
                    !.providers = providers]
  BY Zenon DEF ApplyEnvironment
<1> HIDE DEF a, settings, providers
<1>2. /\ DOMAIN a = ConfigFields
      /\ a.settings = settings /\ a.clearText = env.clearText
      /\ a.providers = providers
      /\ a.routes = d.routes /\ a.rules = d.rules /\ a.modelList = d.modelList
  BY <1>1 DEF ConfigFields
<1>3. /\ l.settings = Over(i.flags, settings) /\ l.clearText = env.clearText
      /\ l.providers = providers
      /\ l.routes = d.routes /\ l.rules = d.rules /\ l.modelList = d.modelList
  <2>1. l = [a EXCEPT !.settings = Over(i.flags, a.settings)]
    BY Zenon DEF WithFlags
  <2> HIDE DEF l
  <2> QED  BY <1>2, <2>1 DEF ConfigFields
<1>4. DOMAIN providers = DOMAIN d.providers
  BY DEF providers
<1>5. ASSUME NEW p \in DOMAIN d.providers
      PROVE  /\ providers[p].url = IF p = Ollama /\ env.ollamaBase # "unset"
                                   THEN env.ollamaBase ELSE d.providers[p].url
             /\ providers[p].aliases =
                  IF p = Ollama /\ env.chatModel # Empty
                  THEN Put(d.providers[p].aliases, ChatAlias, env.chatModel)
                  ELSE d.providers[p].aliases
  <2> DEFINE r == d.providers[p]
             key == p \in env.keys
             q == providers[p]
  <2>1. q = [IF p = Ollama THEN OllamaWith(r, env) ELSE r EXCEPT !.key = key]
    BY Zenon DEF providers
  <2>2. DOMAIN r = ProviderFields
    OBVIOUS
  <2> HIDE DEF q, r, key
  <2> DEFINE w == OllamaWith(r, env)
             url == IF env.ollamaBase = "unset" THEN r.url ELSE env.ollamaBase
             aliases == IF env.chatModel = Empty THEN r.aliases
                        ELSE Put(r.aliases, ChatAlias, env.chatModel)
  <2>3. DOMAIN w = ProviderFields /\ w.url = url /\ w.aliases = aliases
    <3>1. w = [r EXCEPT !.url = url, !.aliases = aliases]
      BY Zenon DEF OllamaWith
    <3> HIDE DEF w, url, aliases
    <3> QED  BY ONLY <2>2, <3>1 DEF ProviderFields
  <2> HIDE DEF w
  <2>4. CASE p = Ollama
    <3>1. q = [w EXCEPT !.key = key]
      BY <2>1, <2>4, Zenon DEF w
    <3>2. q.url = w.url /\ q.aliases = w.aliases
      BY ONLY <2>3, <3>1 DEF ProviderFields
    <3> QED  BY <2>3, <2>4, <3>2, Zenon DEF q, r
  <2>5. CASE p # Ollama
    <3>1. q = [r EXCEPT !.key = key]
      BY <2>1, <2>5, Zenon
    <3>2. q.url = r.url /\ q.aliases = r.aliases
      BY ONLY <2>2, <3>1 DEF ProviderFields
    <3> QED  BY <2>5, <3>2, Zenon DEF q, r
  <2> QED  BY <2>4, <2>5
<1> HIDE DEF l
<1>6. Overridden(i, d, l)
  BY <1>3, <1>4, <1>5, Zenon DEF Overridden, settings
<1> QED  BY <1>6, Zenon DEF l, a

-----------------------------------------------------------------------------
\* The lists the loop over the names of a model's providers goes through.
Lists(c, names, n, f) ==
  f = [i \in 0 .. n |->
         IF i = 0 THEN <<>>
         ELSE IF names[i] \in DOMAIN c.providers THEN Append(f[i - 1], names[i])
         ELSE f[i - 1]]

LEMMA ListGoesOn ==
  ASSUME NEW c, NEW names, NEW n \in Nat, NEW f, Lists(c, names, n, f)
  PROVE  \E g : Lists(c, names, n + 1, g)
<1> DEFINE With(list, i) == IF names[i] \in DOMAIN c.providers
                            THEN Append(list, names[i]) ELSE list
           g == [i \in 0 .. n + 1 |-> IF i <= n THEN f[i] ELSE With(f[n], n + 1)]
           h == [i \in 0 .. n + 1 |-> IF i = 0 THEN <<>> ELSE With(g[i - 1], i)]
<1>1. \A i \in 0 .. n : f[i] = IF i = 0 THEN <<>> ELSE With(f[i - 1], i)
  BY Zenon DEF Lists
<1> HIDE DEF With
<1>2. ASSUME NEW i \in 0 .. n + 1 PROVE g[i] = h[i]
  <2>1. CASE i = 0
    BY <1>1, <2>1
  <2>2. CASE i \in 1 .. n
    <3>1. g[i - 1] = f[i - 1] /\ g[i] = f[i]
      BY <2>2
    <3>2. i \in 0 .. n /\ i # 0 /\ i \in 0 .. n + 1
      BY <2>2
    <3> HIDE DEF g
    <3> QED  BY <1>1, <3>1, <3>2, Zenon
  <2>3. CASE i = n + 1
    <3>1. g[i - 1] = f[n] /\ g[i] = With(f[n], i)
      BY <2>3
    <3>2. i # 0 /\ i \in 0 .. n + 1
      BY <2>3
    <3> HIDE DEF g
    <3> QED  BY <3>1, <3>2, Zenon
  <2> QED  BY <2>1, <2>2, <2>3
<1>3. g = h
  <2> DEFINE S == 0 .. n + 1
  <2>1. /\ g = [i \in S |-> g[i]]
        /\ h = [i \in S |-> h[i]]
    OBVIOUS
  <2>2. \A i \in S : g[i] = h[i]
    BY <1>2
  <2> HIDE DEF g, h, S
  <2> QED  BY <2>1, <2>2
<1>4. Lists(c, names, n + 1, g)
  <2>1. g = [i \in 0 .. n + 1 |-> IF i = 0 THEN <<>> ELSE With(g[i - 1], i)]
    BY <1>3
  <2> HIDE DEF g
  <2> QED  BY <2>1, Zenon DEF Lists, With
<1> QED  BY <1>4

LEMMA ListExists ==
  ASSUME NEW c, NEW names
  PROVE  \A n \in Nat : \E f : Lists(c, names, n, f)
<1> DEFINE T == {n \in Nat : \E f : Lists(c, names, n, f)}
<1>1. 0 \in T
  <2> DEFINE f == [i \in 0 .. 0 |-> <<>>]
  <2>1. Lists(c, names, 0, f)
    <3>1. \A i \in 0 .. 0 : i = 0
      OBVIOUS
    <3> QED  BY <3>1, Zenon DEF Lists
  <2> QED  BY <2>1
<1>2. \A n \in Nat : n \in T => n + 1 \in T
  BY ListGoesOn
<1> HIDE DEF T
<1>3. \A n \in Nat : n \in T
  BY <1>1, <1>2, SetInduction
<1> QED  BY <1>3 DEF T

\* What is left of some names are configured ones, and the first of them stays
\* first if it is configured.
LEMMA ExistingFacts ==
  ASSUME NEW c, NEW names, Len(names) \in Nat
  PROVE  /\ Existing(c, names) \in Seq(DOMAIN c.providers)
         /\ Len(names) > 0 /\ names[1] \in DOMAIN c.providers =>
              Len(Existing(c, names)) > 0 /\ Existing(c, names)[1] = names[1]
<1> DEFINE N == Len(names)
           D == DOMAIN c.providers
           f == CHOOSE f : Lists(c, names, N, f)
           Right(n) == /\ f[n] \in Seq(D)
                       /\ n > 0 /\ names[1] \in D =>
                            Len(f[n]) > 0 /\ f[n][1] = names[1]
           T == {n \in Nat : n <= N => Right(n)}
<1>1. Lists(c, names, N, f)
  <2>1. \E g : Lists(c, names, N, g)
    BY ListExists
  <2> QED  BY <2>1, Zenon
<1>2. Existing(c, names) = f[N]
  BY Zenon DEF Existing, Lists
<1>3. \A n \in 0 .. N :
        f[n] = IF n = 0 THEN <<>>
               ELSE IF names[n] \in D THEN Append(f[n - 1], names[n]) ELSE f[n - 1]
  <2> HIDE DEF f
  <2> QED  BY <1>1, Zenon DEF Lists
<1> HIDE DEF f, N, D
<1>4. 0 \in T
  <2>1. f[0] = <<>>
    BY <1>3 DEF N
  <2>2. f[0] \in Seq(D)
    BY ONLY <2>1
  <2>3. Right(0)
    BY <2>2
  <2> HIDE DEF Right
  <2> QED  BY <2>3
<1>5. ASSUME NEW n \in Nat, n \in T PROVE n + 1 \in T
  <2> SUFFICES ASSUME n + 1 <= N PROVE Right(n + 1)
    OBVIOUS
  <2>1. n <= N /\ n + 1 \in 0 .. N /\ n + 1 # 0 /\ n + 1 - 1 = n
    BY DEF N
  <2> DEFINE list == f[n]
             next == f[n + 1]
             name == names[n + 1]
  <2>2. /\ list \in Seq(D)
        /\ n > 0 /\ names[1] \in D => Len(list) > 0 /\ list[1] = names[1]
    BY <1>5, <2>1
  <2>3. next = IF name \in D THEN Append(list, name) ELSE list
    BY <1>3, <2>1
  <2>4. n = 0 => list = <<>> /\ name = names[1]
    BY <1>3, <2>1
  <2> HIDE DEF list, next, name
  <2>5. CASE name \in D
    <3>1. next = Append(list, name)
      BY <2>3, <2>5
    <3>2. next \in Seq(D) /\ Len(next) = Len(list) + 1 /\ Len(list) \in Nat
      BY <2>2, <2>5, <3>1
    <3>3. next[Len(list) + 1] = name /\ \A j \in 1 .. Len(list) : next[j] = list[j]
      BY <2>2, <2>5, <3>1
    <3>4. CASE n = 0
      <4>1. Len(list) = 0
        BY <2>4, <3>4
      <4> QED  BY <2>4, <3>2, <3>3, <3>4, <4>1 DEF next
    <3>5. CASE n > 0
      BY <2>2, <3>2, <3>3, <3>5 DEF next
    <3> QED  BY <3>4, <3>5
  <2>6. CASE name \notin D
    <3>1. next = list /\ (n = 0 => names[1] \notin D)
      BY <2>3, <2>4, <2>6
    <3> QED  BY <2>2, <3>1 DEF next
  <2> QED  BY <2>5, <2>6
<1>6. \A n \in Nat : n \in T
  <2> HIDE DEF T
  <2> QED  BY <1>4, <1>5, SetInduction
<1>7. Right(N)
  BY <1>6 DEF N
<1> QED  BY <1>2, <1>7 DEF N, D

-----------------------------------------------------------------------------
\* What is known of the configuration l that was loaded from i.
FromLayers(i, l) ==
  /\ Valid(l)
  /\ l.settings = Over(i.flags, Over(i.env.settings, Over(i.file.settings, Defaults)))
  /\ l.clearText = i.env.clearText
  /\ l.modelList = i.file.modelList
  /\ DOMAIN l.providers = DOMAIN i.file.providers
  /\ \A p \in DOMAIN l.providers :
       l.providers[p].url = IF p = Ollama /\ i.env.ollamaBase # "unset"
                            THEN i.env.ollamaBase ELSE i.file.providers[p].url

\* And of an entry that is the last one of its name.
Decides(i, l, e) ==
  /\ e.name \in DOMAIN l.routes /\ l.routes[e.name] = e.provider
  /\ e.provider \in DOMAIN l.providers
  /\ LET upstream == IF e.provider = Ollama /\ e.name = ChatAlias
                           /\ i.env.chatModel # Empty
                      THEN i.env.chatModel ELSE e.upstream
     IN upstream # Empty =>
          /\ e.name \in DOMAIN l.providers[e.provider].aliases
          /\ l.providers[e.provider].aliases[e.name] = upstream

LEMMA LoadedIsSound ==
  ASSUME NEW i \in Configs, Load(i) # Refused, NEW l, l = Load(i)[1]
  PROVE  /\ FromLayers(i, l)
         /\ \A k \in 1 .. Len(l.modelList) :
              (\A j \in k + 1 .. Len(l.modelList) :
                  l.modelList[j].name # l.modelList[k].name)
              => Decides(i, l, l.modelList[k])
<1> DEFINE c == Read(i.file)
           d == NormalizeModelRoutes(c)
           final == WithFlags(ApplyEnvironment(d, i.env), i.flags)
           list == i.file.modelList
           N == Len(list)
<1>1. /\ DOMAIN c = ConfigFields
      /\ c.settings = Over(i.file.settings, Defaults)
      /\ c.providers = i.file.providers /\ c.modelList = list
  BY DEF Read, ConfigFields
<1>2. l = final /\ Valid(final)
  <2>1. Load(i) = Checked(i, final)
    BY Zenon DEF Load
  <2>2. Checked(i, final) = <<final>> /\ Valid(final)
    BY <2>1, Zenon DEF Checked
  <2> HIDE DEF final
  <2>3. <<final>>[1] = final
    OBVIOUS
  <2> QED  BY <2>1, <2>2, <2>3
<1>3. WellFormed(c)
  <2>1. list \in Seq(Entry)
    BY ConfigsAssumption
  <2>2. Len(list) \in Nat
    BY <2>1, LenProperties, Zenon
  <2>3. \A p \in DOMAIN i.file.providers :
          DOMAIN i.file.providers[p] = ProviderFields
    BY ConfigsAssumption DEF ProviderFields
  <2> HIDE DEF c, list
  <2>4. \A p \in DOMAIN c.providers : DOMAIN c.providers[p] = ProviderFields
    BY <1>1, <2>3, Zenon
  <2>5. Len(c.modelList) \in Nat
    BY <1>1, <2>2, Zenon
  <2> QED  BY <1>1, <2>4, <2>5, Zenon DEF WellFormed
<1> HIDE DEF c, final
<1>4. PICK f : Walks(c, N, f) /\ d = f[N]
  BY <1>1, <1>3, WalkEnds DEF WellFormed
<1> HIDE DEF d
<1>5. Keeps(c, d)
  <2>1. N \in 0 .. N
    BY <1>1, <1>3 DEF WellFormed
  <2> QED  BY <1>1, <1>3, <1>4, <2>1, WalkKeeps
<1>6. Overridden(i, d, final)
  BY <1>5, EnvironmentOverrides DEF Keeps, final
<1>7. l.modelList = list
  BY <1>1, <1>2, <1>5, <1>6, Zenon DEF Keeps, Overridden
<1>8. FromLayers(i, l)
  <2>1. /\ l.settings = Over(i.flags, Over(i.env.settings, d.settings))
        /\ l.clearText = i.env.clearText
        /\ DOMAIN l.providers = DOMAIN d.providers
        /\ \A p \in DOMAIN d.providers :
             l.providers[p].url = IF p = Ollama /\ i.env.ollamaBase # "unset"
                                  THEN i.env.ollamaBase ELSE d.providers[p].url
    BY <1>2, <1>6, Zenon DEF Overridden
  <2>2. /\ d.settings = Over(i.file.settings, Defaults)
        /\ DOMAIN d.providers = DOMAIN i.file.providers
        /\ \A p \in DOMAIN d.providers : d.providers[p].url = c.providers[p].url
    BY <1>1, <1>5, Zenon DEF Keeps
  <2>3. l.settings = Over(i.flags, Over(i.env.settings,
                                        Over(i.file.settings, Defaults)))
    BY <2>1, <2>2, Zenon
  <2>4. ASSUME NEW p \in DOMAIN l.providers
        PROVE  l.providers[p].url = IF p = Ollama /\ i.env.ollamaBase # "unset"
                                    THEN i.env.ollamaBase ELSE i.file.providers[p].url
    BY <1>1, <2>1, <2>2, Zenon
  <2>5. DOMAIN l.providers = DOMAIN i.file.providers
    BY <2>1, <2>2, Zenon
  <2> QED  BY <1>2, <1>7, <2>1, <2>3, <2>4, <2>5, Zenon DEF FromLayers
<1>9. \A k \in DOMAIN list : ValidEntry(l, list[k])
  BY <1>2, <1>7, Zenon DEF Valid
<1>10. DOMAIN list = 1 .. N
  BY ConfigsAssumption DEF N
<1>11. LastWins(c, d, N)
  <2>1. Complete(list)
    BY <1>9, <1>10, Zenon DEF Complete, ValidEntry, N
  <2> QED  BY <1>1, <1>3, <1>4, <2>1, LastEntryWins
<1>12. ASSUME NEW k \in 1 .. N,
              \A j \in k + 1 .. N : list[j].name # list[k].name
       PROVE  Decides(i, l, list[k])
  <2> DEFINE e == list[k]
             upstream == IF e.provider = Ollama /\ e.name = ChatAlias
                              /\ i.env.chatModel # Empty
                         THEN i.env.chatModel ELSE e.upstream
             before == d.providers[e.provider].aliases
             after == l.providers[e.provider].aliases
  <2>1. e.provider \in DOMAIN l.providers
    BY <1>9, <1>10, Zenon DEF ValidEntry
  <2>2. DOMAIN l.providers = DOMAIN d.providers /\ l.routes = d.routes
    BY <1>2, <1>6, Zenon DEF Overridden
  <2>3. /\ e.name \in DOMAIN d.routes /\ d.routes[e.name] = e.provider
        /\ e.upstream # Empty => e.name \in DOMAIN before /\ before[e.name] = e.upstream
    BY <1>1, <1>11, <1>12, <2>1, <2>2, Zenon DEF LastWins
  <2>4. after = IF e.provider = Ollama /\ i.env.chatModel # Empty
                THEN Put(before, ChatAlias, i.env.chatModel) ELSE before
    BY <1>2, <1>6, <2>1, <2>2, Zenon DEF Overridden
  <2> HIDE DEF e, before, after
  <2>5. upstream # Empty => e.name \in DOMAIN after /\ after[e.name] = upstream
    BY ONLY <2>3, <2>4 DEF Put
  <2> QED  BY <2>1, <2>2, <2>3, <2>5, Zenon DEF Decides, e, after
<1> QED  BY <1>7, <1>8, <1>12 DEF N

\* What an accepted configuration comes from.
LEMMA AcceptedIsLoaded ==
  ASSUME Computed, Accepted
  PROVE  /\ input \in Configs
         /\ FromLayers(input, Loaded)
         /\ \A k \in 1 .. Len(Loaded.modelList) :
              (\A j \in k + 1 .. Len(Loaded.modelList) :
                  Loaded.modelList[j].name # Loaded.modelList[k].name)
              => Decides(input, Loaded, Loaded.modelList[k])
<1>1. task = "configuration" /\ result # <<>> /\ result[1] # Refused
  BY DEF Accepted, Done
<1>2. input \in Configs /\ result = <<Load(input)>>
  BY <1>1, Zenon DEF Computed
<1> DEFINE c == Load(input)
           l == Loaded
<1>3. result[1] = c
  <2> HIDE DEF c
  <2> QED  BY <1>2 DEF c
<1>4. Load(input) # Refused /\ l = Load(input)[1]
  BY <1>1, <1>3, Zenon DEF Loaded
<1> HIDE DEF c, l
<1>5. /\ FromLayers(input, l)
      /\ \A k \in 1 .. Len(l.modelList) :
           (\A j \in k + 1 .. Len(l.modelList) :
               l.modelList[j].name # l.modelList[k].name)
           => Decides(input, l, l.modelList[k])
  BY ONLY <1>2, <1>4, LoadedIsSound
<1> QED  BY <1>2, <1>5, Zenon DEF l

\* A configuration that is accepted can be run: every part of it comes from the
\* layer that wins, and is sound, and has a provider where it names one.
THEOREM AcceptedRuns == Spec => []AcceptedIsRunnable
<1>1. Computed => AcceptedIsRunnable
  <2> SUFFICES ASSUME Computed, Accepted PROVE AcceptedIsRunnable
    BY DEF AcceptedIsRunnable
  <2> DEFINE l == Loaded
             i == input
  <2>1. FromLayers(i, l)
    BY AcceptedIsLoaded
  <2> HIDE DEF l
  <2>2. ASSUME NEW s \in Settings
        PROVE  LET n == SelectInSeq(Layers, LAMBDA layer : layer[s] # "unset")
               IN l.settings[s] = Layers[n][s] /\ l.settings[s] # "invalid"
    <3>1. l.settings[s] # "invalid"
      BY <2>1, Zenon DEF FromLayers, Valid
    <3>2. l.settings = Over(i.flags, Over(i.env.settings,
                                          Over(i.file.settings, Defaults)))
      BY <2>1, Zenon DEF FromLayers
    <3>3. l.settings[s] =
            IF i.flags[s] # "unset" THEN i.flags[s]
            ELSE IF i.env.settings[s] # "unset" THEN i.env.settings[s]
            ELSE IF i.file.settings[s] # "unset" THEN i.file.settings[s]
            ELSE Defaults[s]
      BY <3>2 DEF Over
    <3> DEFINE T == {n \in 1 .. Len(Layers) : Layers[n][s] # "unset"}
               n == Min(T)
    <3>4. /\ Len(Layers) = 4 /\ Layers[1] = i.flags /\ Layers[2] = i.env.settings
          /\ Layers[3] = i.file.settings /\ Layers[4] = Defaults
      BY DEF Layers
    <3>5. Defaults[s] # "unset"
      BY DEF Defaults
    <3>6. T \in SUBSET Nat /\ T # {}
      BY <3>4, <3>5
    <3>7. n \in T /\ \A m \in T : n <= m
      <4>1. \E m \in T : \A k \in T : m <= k
        BY <3>6, LeastElement
      <4> QED  BY <4>1, Zenon DEF Min
    <3>8. SelectInSeq(Layers, LAMBDA layer : layer[s] # "unset") = n
      BY <3>6, Zenon DEF SelectInSeq
    <3> HIDE DEF n
    <3>9. l.settings[s] = Layers[n][s]
      BY <3>3, <3>4, <3>7
    <3> QED  BY <3>1, <3>8, <3>9, Zenon
  <2>3. ASSUME NEW p \in DOMAIN l.providers
        PROVE  LET url == IF p = Ollama /\ i.env.ollamaBase # "unset"
                          THEN i.env.ollamaBase ELSE i.file.providers[p].url
               IN /\ l.providers[p].url = url
                  /\ \/ url = "https"
                     \/ url \in {"http", "local"} /\ i.env.clearText
                     \/ url = "local" /\ p = Ollama
    BY <2>1, <2>3, Zenon DEF FromLayers, Valid, ValidProvider
  <2>4. \A k \in DOMAIN l.rules : l.rules[k].provider \in DOMAIN l.providers
    BY <2>1, Zenon DEF FromLayers, Valid, ValidRule
  <2> QED  BY <2>2, <2>3, <2>4, Zenon DEF AcceptedIsRunnable, l
<1> QED  BY <1>1, ResultsAreComputed, PTL

\* The first of some names that is not empty, if that is the first of all.
LEMMA FirstNamedFirst ==
  ASSUME NEW names, Len(names) \in Nat, Len(names) > 0, names[1] # Empty
  PROVE  FirstNamed(names) = names[1]
<1> DEFINE T == {n \in 1 .. Len(names) : names[n] # Empty}
<1>1. T \in SUBSET Nat /\ 1 \in T /\ \A n \in T : 1 <= n
  OBVIOUS
<1>2. Min(T) = 1
  <2>1. Min(T) \in T /\ \A n \in T : Min(T) <= n
    BY <1>1, Zenon DEF Min
  <2> QED  BY <1>1, <2>1
<1>3. SelectInSeq(names, LAMBDA name : name # Empty) = 1
  BY <1>1, <1>2, Zenon DEF SelectInSeq
<1> QED  BY <1>3 DEF FirstNamed

\* A model whose provider is configured is tried at that first, and then at
\* none that is not.
LEMMA FirstCandidate ==
  ASSUME NEW c, c.modelList \in Seq(Entry), NEW model,
         ProviderFor(c, model) \in DOMAIN c.providers, ProviderFor(c, model) # Empty
  PROVE  /\ Candidates(c, model) \in Seq(DOMAIN c.providers)
         /\ Candidates(c, model) # <<>>
         /\ Candidates(c, model)[1] = ProviderFor(c, model)
<1> DEFINE p == ProviderFor(c, model)
           list == c.modelList
           T == {n \in 1 .. Len(list) : list[n].name = model}
           i == IF T # {} THEN Min(T) ELSE 0
           more == IF i = 0 THEN <<>> ELSE list[i].fallbacks
           names == <<p>> \o more
           got == Existing(c, names)
<1>1. SelectInSeq(list, LAMBDA entry : entry.name = model) = i
  BY Zenon DEF SelectInSeq
<1>2. Candidates(c, model) = got
  BY <1>1, Zenon DEF Candidates
<1>3. i = 0 \/ i \in 1 .. Len(list)
  <2>1. CASE T = {}
    BY <2>1
  <2>2. CASE T # {}
    <3>1. T \in SUBSET Nat
      OBVIOUS
    <3>2. \E x \in T : \A y \in T : x <= y
      BY <2>2, <3>1, LeastElement
    <3>3. Min(T) \in T
      BY <3>2, Zenon DEF Min
    <3> QED  BY <3>3
  <2> QED  BY <2>1, <2>2
<1> HIDE DEF i, p
<1>4. \E S : more \in Seq(S)
  <2>1. CASE i = 0
    <3>1. <<>> \in Seq({})
      OBVIOUS
    <3> QED  BY <2>1, <3>1
  <2>2. CASE i # 0
    <3>1. list[i] \in Entry
      BY <1>3, <2>2
    <3>2. list[i].fallbacks \in Seq(Seq(STRING))
      BY <3>1 DEF Entry
    <3> QED  BY <2>2, <3>2
  <2> QED  BY <2>1, <2>2
<1> HIDE DEF more, list
<1>5. Len(names) \in Nat /\ Len(names) > 0 /\ names[1] = p
  <2>1. PICK S : more \in Seq(S)
    BY <1>4
  <2>2. <<p>> \in Seq({p}) /\ Len(<<p>>) = 1 /\ <<p>>[1] = p
    OBVIOUS
  <2> DEFINE U == S \union {p}
             head == <<p>>
  <2>3. head \in Seq(U) /\ more \in Seq(U)
    BY <2>1, <2>2
  <2>4. Len(head) = 1 /\ head[1] = p
    BY <2>2
  <2> HIDE DEF head, U
  <2>5. /\ Len(more) \in Nat /\ Len(head \o more) = Len(head) + Len(more)
        /\ (head \o more)[1] = head[1]
    <3>1. Len(more) \in Nat
      BY ONLY <2>3
    <3>2. Len(head \o more) = Len(head) + Len(more)
      BY ONLY <2>3
    <3>3. \A k \in 1 .. Len(head) : (head \o more)[k] = head[k]
      BY ONLY <2>3
    <3> QED  BY <2>4, <3>1, <3>2, <3>3
  <2> QED  BY <2>4, <2>5 DEF head
<1>6. p \in DOMAIN c.providers
  BY DEF p
<1> HIDE DEF names
<1>7. /\ got \in Seq(DOMAIN c.providers)
      /\ Len(got) > 0 /\ got[1] = names[1]
  BY <1>5, <1>6, ExistingFacts
<1> HIDE DEF got
<1> QED  BY <1>2, <1>5, <1>7 DEF p

\* A set of numbers that is not empty and ends has a largest one.
LEMMA LastElement ==
  ASSUME NEW N \in Nat, NEW T \in SUBSET (1 .. N), T # {}
  PROVE  \E x \in T : \A y \in T : y <= x
<1> DEFINE R == {N - x : x \in T}
<1>1. \A x \in T : x \in Nat /\ x <= N
  OBVIOUS
<1>2. R \in SUBSET Nat /\ R # {}
  <2>1. \A x \in T : N - x \in Nat
    BY <1>1
  <2> QED  BY <2>1
<1>3. PICK r \in R : \A q \in R : r <= q
  BY <1>2, LeastElement
<1>4. PICK x \in T : r = N - x
  BY <1>3
<1>5. ASSUME NEW y \in T PROVE y <= x
  <2>1. r <= N - y
    BY <1>3
  <2> QED  BY <1>1, <1>4, <2>1
<1> QED  BY <1>5

\* What is served of the models on the list of an accepted configuration, and
\* by whom first.
LEMMA ListedIsRouted ==
  ASSUME Computed, Accepted, NEW name, EntriesOf(name) # {}, NEW last,
         last = CHOOSE i \in EntriesOf(name) : \A j \in EntriesOf(name) : j <= i
  PROVE  /\ last \in EntriesOf(name)
         /\ Loaded.modelList \in Seq(Entry)
         /\ Decides(input, Loaded, Loaded.modelList[last])
         /\ ProviderFor(Loaded, name) = Loaded.modelList[last].provider
         /\ ProviderFor(Loaded, name) # Empty
<1> DEFINE l == Loaded
           list == l.modelList
           N == Len(list)
           e == list[last]
<1>1. /\ input \in Configs /\ FromLayers(input, l)
      /\ \A k \in 1 .. N : (\A j \in k + 1 .. N : list[j].name # list[k].name)
                             => Decides(input, l, list[k])
  BY AcceptedIsLoaded
<1>2. EntriesOf(name) = {n \in DOMAIN list : list[n].name = name}
  BY Zenon DEF EntriesOf
<1> HIDE DEF l
<1>3. list \in Seq(Entry)
  BY <1>1, ConfigsAssumption DEF FromLayers
<1>4. DOMAIN list = 1 .. N /\ N \in Nat
  BY <1>3
<1>5. last \in EntriesOf(name) /\ \A n \in EntriesOf(name) : n <= last
  <2>1. \E x \in EntriesOf(name) : \A y \in EntriesOf(name) : y <= x
    <3> HIDE DEF N, list
    <3>1. EntriesOf(name) \in SUBSET (1 .. N)
      BY <1>2, <1>4
    <3> QED  BY <1>4, <3>1, LastElement
  <2> QED  BY <2>1, Zenon
<1> HIDE DEF N, list
<1>6. last \in 1 .. N /\ e.name = name
  BY <1>2, <1>4, <1>5
<1>7. \A j \in last + 1 .. N : list[j].name # name
  <2> SUFFICES ASSUME NEW j \in last + 1 .. N, list[j].name = name PROVE FALSE
    OBVIOUS
  <2>1. j \in 1 .. N /\ ~(j <= last)
    BY <1>4, <1>6
  <2> QED  BY <1>2, <1>4, <1>5, <2>1
<1>8. Decides(input, l, e)
  BY <1>1, <1>6, <1>7
<1>9. e.provider # Empty
  BY <1>1, <1>4, <1>6, Zenon DEF FromLayers, Valid, ValidEntry, list
<1>10. ByModel(l, name) = e.provider
  BY <1>6, <1>8, Zenon DEF Decides, ByModel
<1>11. ProviderFor(l, name) = e.provider
  <2> DEFINE q == ByQualifier(l, name)
             r == ByRule(l.rules, name)
             p == e.provider
             names == <<p, q, r>>
  <2>1. ProviderFor(l, name) = FirstNamed(names)
    BY <1>10, Zenon DEF ProviderFor
  <2> HIDE DEF q, r, p
  <2>2. Len(names) = 3 /\ names[1] = p
    OBVIOUS
  <2>3. p # Empty
    BY <1>9 DEF p
  <2> HIDE DEF names
  <2>4. FirstNamed(names) = names[1]
    BY ONLY <2>2, <2>3, FirstNamedFirst
  <2> QED  BY <2>1, <2>2, <2>4 DEF p
<1> QED  BY <1>3, <1>5, <1>8, <1>9, <1>11, Zenon DEF l, list, e

\* A model of the list is served, whatever rules and routes say: first by the
\* provider its last entry names, then by providers that exist.
THEOREM ListedAreServed == Spec => []ListedModelsAreServed
<1>1. Computed => ListedModelsAreServed
  <2> SUFFICES ASSUME Computed, Accepted, NEW name \in Names, EntriesOf(name) # {},
                      NEW last, last = CHOOSE i \in EntriesOf(name) :
                                         \A j \in EntriesOf(name) : j <= i
               PROVE  /\ Candidates(Loaded, name) # <<>>
                      /\ Candidates(Loaded, name)[1] = Loaded.modelList[last].provider
                      /\ \A i \in DOMAIN Candidates(Loaded, name) :
                           Candidates(Loaded, name)[i] \in DOMAIN Loaded.providers
    BY Zenon DEF ListedModelsAreServed
  <2> DEFINE l == Loaded
             e == l.modelList[last]
             candidates == Candidates(l, name)
  <2>1. /\ l.modelList \in Seq(Entry) /\ Decides(input, l, e)
        /\ ProviderFor(l, name) = e.provider /\ ProviderFor(l, name) # Empty
    BY ListedIsRouted, Zenon
  <2> HIDE DEF l
  <2>2. e.provider \in DOMAIN l.providers
    BY <2>1, Zenon DEF Decides
  <2> HIDE DEF e
  <2>3. /\ candidates \in Seq(DOMAIN l.providers) /\ candidates # <<>>
        /\ candidates[1] = e.provider
    BY <2>1, <2>2, FirstCandidate
  <2> HIDE DEF candidates
  <2>4. \A i \in DOMAIN candidates : candidates[i] \in DOMAIN l.providers
    BY <2>3
  <2> QED  BY <2>3, <2>4, Zenon DEF candidates, e, l
<1> QED  BY <1>1, ResultsAreComputed, PTL

\* When /ready says so, some model has a provider with a key, which is tried
\* first and reported as configured.
THEOREM ReadyIsServed == Spec => []ReadyMeansServed
<1>1. Computed => ReadyMeansServed
  <2> SUFFICES ASSUME Computed, Accepted, Ready(Loaded),
                      Empty \notin DOMAIN Loaded.providers
               PROVE  \E model \in DOMAIN Loaded.routes :
                        /\ Candidates(Loaded, model) # <<>>
                        /\ Loaded.providers[Candidates(Loaded, model)[1]].key
                        /\ ModelStatus(Loaded, model) = "configured"
    BY Zenon DEF ReadyMeansServed
  <2>1. input \in Configs /\ FromLayers(input, Loaded)
    BY AcceptedIsLoaded
  <2> DEFINE l == Loaded
  <2>2. PICK model \in DOMAIN l.routes : HasKey(l, ProviderFor(l, model))
    BY Zenon DEF Ready
  <2> HIDE DEF l
  <2>3. l.modelList \in Seq(Entry)
    BY <2>1, ConfigsAssumption DEF FromLayers, l
  <2> DEFINE p == ProviderFor(l, model)
  <2>4. p \in DOMAIN l.providers /\ l.providers[p].key /\ p # Empty
    BY <2>2, Zenon DEF HasKey, l
  <2>5. Candidates(l, model) # <<>> /\ Candidates(l, model)[1] = p
    BY <2>3, <2>4, FirstCandidate
  <2>6. ModelStatus(l, model) = "configured"
    BY <2>2, <2>4, Zenon DEF ModelStatus
  <2> QED  BY <2>4, <2>5, <2>6, Zenon DEF l
<1> QED  BY <1>1, ResultsAreComputed, PTL

-----------------------------------------------------------------------------
Slash(name) == SelectInSeq(name, LAMBDA token : token = "/")

\* Where a name is cut.
LEMMA SlashFacts ==
  ASSUME NEW name, Len(name) \in Nat, NEW slash, slash = Slash(name)
  PROVE  /\ slash \in 0 .. Len(name)
         /\ slash > 0 => name[slash] = "/" /\ \A k \in 1 .. slash - 1 : name[k] # "/"
         /\ slash = 0 => \A k \in 1 .. Len(name) : name[k] # "/"
<1> DEFINE T == {n \in 1 .. Len(name) : name[n] = "/"}
<1>1. slash = IF T # {} THEN Min(T) ELSE 0
  BY Zenon DEF Slash, SelectInSeq
<1>2. CASE T = {}
  BY <1>1, <1>2
<1>3. CASE T # {}
  <2>1. T \in SUBSET Nat
    OBVIOUS
  <2>2. \E x \in T : \A y \in T : x <= y
    BY <1>3, <2>1, LeastElement
  <2>3. slash \in T /\ \A y \in T : slash <= y
    BY <1>1, <1>3, <2>2, Zenon DEF Min
  <2> QED  BY <2>3
<1> QED  BY <1>2, <1>3

\* A sequence begins with p and a slash if its first elements are these.
LEMMA QualifiedIf ==
  ASSUME NEW S, "/" \in S, NEW p \in Seq(S), NEW name \in Seq(S), NEW n, n = Len(p) + 1
  PROVE  /\ Qualified(p, name) => /\ n <= Len(name) /\ name[n] = "/"
                                  /\ \A k \in 1 .. Len(p) : name[k] = p[k]
         /\ n <= Len(name) /\ name[n] = "/" /\ (\A k \in 1 .. Len(p) : name[k] = p[k])
              => Qualified(p, name)
<1> DEFINE q == p \o <<"/">>
           s == SubSeq(q, 1, Len(q))
           t == SubSeq(name, 1, Len(q))
<1>1. <<"/">> \in Seq(S) /\ Len(<<"/">>) = 1 /\ <<"/">>[1] = "/"
  <2> DEFINE token == "/"
  <2>2. token \in S
    OBVIOUS
  <2> HIDE DEF token
  <2>3. <<token>> \in Seq(S) /\ Len(<<token>>) = 1 /\ <<token>>[1] = token
    BY ONLY <2>2
  <2> QED  BY <2>3 DEF token
<1>2. /\ q \in Seq(S) /\ Len(q) = n /\ n \in Nat \ {0}
      /\ \A k \in 1 .. n : q[k] = IF k <= Len(p) THEN p[k] ELSE "/"
  <2> DEFINE tail == <<"/">>
  <2>1. tail \in Seq(S) /\ Len(tail) = 1 /\ tail[1] = "/"
    BY <1>1
  <2> HIDE DEF tail
  <2>2. /\ p \o tail \in Seq(S) /\ Len(p \o tail) = Len(p) + Len(tail)
        /\ \A k \in 1 .. Len(p) + Len(tail) :
             (p \o tail)[k] = IF k <= Len(p) THEN p[k] ELSE tail[k - Len(p)]
    BY <2>1, ConcatProperties
  <2>3. Len(p) \in Nat
    OBVIOUS
  <2>4. /\ p \o tail \in Seq(S) /\ Len(p \o tail) = n /\ n \in Nat \ {0}
        /\ \A k \in 1 .. n : (p \o tail)[k] = IF k <= Len(p) THEN p[k] ELSE "/"
    BY ONLY n = Len(p) + 1, <2>1, <2>2, <2>3
  <2> QED  BY <2>4 DEF tail
<1>3. Qualified(p, name) <=> Len(q) <= Len(name) /\ s = t
  BY Zenon DEF Qualified, IsPrefix
<1> HIDE DEF q
<1>4. s \in Seq(S) /\ Len(s) = n /\ \A k \in 1 .. n : s[k] = q[k]
  <2>1. \A k \in 1 .. n : q[k] \in S
    BY <1>2
  <2>2. /\ SubSeq(q, 1, n) \in Seq(S)
        /\ Len(SubSeq(q, 1, n)) = IF 1 <= n THEN n - 1 + 1 ELSE 0
        /\ \A k \in 1 .. n - 1 + 1 : SubSeq(q, 1, n)[k] = q[1 + k - 1]
    BY <1>2, <2>1, SubSeqProperties
  <2>3. s = SubSeq(q, 1, n)
    BY <1>2
  <2> HIDE DEF s
  <2> QED  BY <1>2, <2>2, <2>3
<1>5. ASSUME n <= Len(name)
      PROVE  t \in Seq(S) /\ Len(t) = n /\ \A k \in 1 .. n : t[k] = name[k]
  <2>1. \A k \in 1 .. n : name[k] \in S
    BY <1>2, <1>5
  <2>2. /\ SubSeq(name, 1, n) \in Seq(S)
        /\ Len(SubSeq(name, 1, n)) = IF 1 <= n THEN n - 1 + 1 ELSE 0
        /\ \A k \in 1 .. n - 1 + 1 : SubSeq(name, 1, n)[k] = name[1 + k - 1]
    BY <1>2, <2>1, SubSeqProperties
  <2>3. t = SubSeq(name, 1, n)
    BY <1>2
  <2> HIDE DEF t
  <2> QED  BY <1>2, <2>2, <2>3
<1> HIDE DEF s, t
<1>6. ASSUME Qualified(p, name)
      PROVE  /\ n <= Len(name) /\ name[n] = "/"
             /\ \A k \in 1 .. Len(p) : name[k] = p[k]
  <2>1. n <= Len(name) /\ \A k \in 1 .. n : name[k] = q[k]
    BY <1>2, <1>3, <1>4, <1>5, <1>6
  <2> QED  BY <1>2, <2>1
<1>7. ASSUME n <= Len(name), name[n] = "/", \A k \in 1 .. Len(p) : name[k] = p[k]
      PROVE  Qualified(p, name)
  <2>1. \A k \in 1 .. n : t[k] = s[k]
    BY <1>2, <1>4, <1>5, <1>7
  <2>2. s = t
    BY <1>4, <1>5, <1>7, <2>1, SeqEqual
  <2> QED  BY <1>2, <1>3, <1>7, <2>2
<1> QED  BY <1>6, <1>7

\* A provider is asked for a name that it does not qualify as it is.
LEMMA StripLeaves ==
  ASSUME NEW S, "/" \in S, NEW p \in Seq(S), NEW name \in Seq(S), ~Qualified(p, name)
  PROVE  Strip(p, name) = name
<1> DEFINE slash == Slash(name)
           before == SubSeq(name, 1, slash - 1)
<1>1. Cut(name).found = (slash > 0) /\ Cut(name).before = before
  BY DEF Cut, Slash
<1>2. Len(name) \in Nat
  OBVIOUS
<1>3. /\ slash \in 0 .. Len(name)
      /\ slash > 0 => name[slash] = "/"
  BY <1>2, SlashFacts
<1> HIDE DEF slash
<1>4. ~(slash > 0 /\ before = p)
  <2> SUFFICES ASSUME slash > 0, before = p PROVE FALSE
    OBVIOUS
  <2>1. slash - 1 \in Nat /\ slash <= Len(name) /\ name[slash] = "/"
    BY <1>2, <1>3
  <2> DEFINE m == slash - 1
  <2>2. m \in Nat /\ m \in Int /\ m < Len(name) /\ m + 1 = slash
    BY <1>2, <1>3, <2>1
  <2>3. /\ Len(SubSeq(name, 1, m)) = IF 1 <= m THEN m - 1 + 1 ELSE 0
        /\ \A k \in 1 .. m - 1 + 1 : SubSeq(name, 1, m)[k] = name[1 + k - 1]
    <3> HIDE DEF m
    <3>1. \A k \in 1 .. m : name[k] \in S
      BY <1>2, <2>2
    <3> QED  BY <2>2, <3>1, SubSeqProperties
  <2>4. Len(p) = m /\ \A k \in 1 .. Len(p) : name[k] = p[k]
    <3>1. p = SubSeq(name, 1, m)
      OBVIOUS
    <3> HIDE DEF m, before
    <3> QED  BY <2>2, <2>3, <3>1
  <2> HIDE DEF m
  <2>5. slash = Len(p) + 1
    BY <2>2, <2>4
  <2>6. Qualified(p, name)
    BY ONLY "/" \in S, p \in Seq(S), name \in Seq(S), <2>1, <2>4, <2>5, QualifiedIf
  <2> QED  BY <2>6
<1> QED  BY <1>1, <1>4, Zenon DEF Strip

\* And for one that it does qualify without that, if anything is left.
LEMMA StripCuts ==
  ASSUME NEW S, "/" \in S, NEW p \in Seq(S), NEW name \in Seq(S), Qualified(p, name),
         ~Contains(p, "/"), NEW own, own = SubSeq(name, Len(p) + 2, Len(name)),
         own # Empty
  PROVE  Strip(p, name) = own /\ own \in Seq(S)
<1> DEFINE slash == Slash(name)
           n == Len(p) + 1
           before == SubSeq(name, 1, slash - 1)
           after == SubSeq(name, slash + 1, Len(name))
<1>1. Cut(name).found = (slash > 0) /\ Cut(name).before = before
      /\ Cut(name).after = after
  BY DEF Cut, Slash
<1>2. Len(name) \in Nat /\ Len(p) \in Nat
  OBVIOUS
<1>3. /\ slash \in 0 .. Len(name)
      /\ slash > 0 => name[slash] = "/" /\ \A k \in 1 .. slash - 1 : name[k] # "/"
      /\ slash = 0 => \A k \in 1 .. Len(name) : name[k] # "/"
  BY <1>2, SlashFacts
<1>4. n <= Len(name) /\ name[n] = "/" /\ \A k \in 1 .. Len(p) : name[k] = p[k]
  BY QualifiedIf
<1>5. \A k \in 1 .. Len(p) : p[k] # "/"
  BY Zenon DEF Contains
<1> HIDE DEF slash
<1>6. slash = n
  <2>1. n \in 1 .. Len(name)
    BY <1>2, <1>4
  <2>2. \A k \in 1 .. Len(p) : name[k] # "/"
    BY <1>4, <1>5
  <2>3. slash \notin 1 .. Len(p)
    BY <1>3, <2>2
  <2>4. slash # 0
    BY <1>3, <1>4, <2>1
  <2>5. ~(n < slash)
    BY <1>2, <1>3, <1>4, <2>1
  <2> QED  BY <1>2, <1>3, <2>3, <2>4, <2>5
<1>7. before = p
  <2>1. before = SubSeq(name, 1, Len(p))
    BY <1>2, <1>6
  <2>2. \A k \in 1 .. Len(p) : name[k] \in S
    BY <1>2, <1>4
  <2> DEFINE m == Len(p)
  <2>3. m \in Nat
    BY <1>2
  <2>4. /\ SubSeq(name, 1, m) \in Seq(S)
        /\ Len(SubSeq(name, 1, m)) = IF 1 <= m THEN m - 1 + 1 ELSE 0
        /\ \A k \in 1 .. m - 1 + 1 : SubSeq(name, 1, m)[k] = name[1 + k - 1]
    <3> HIDE DEF m
    <3>1. \A k \in 1 .. m : name[k] \in S
      BY <2>2 DEF m
    <3> QED  BY <2>3, <3>1, SubSeqProperties
  <2>5. before = SubSeq(name, 1, m)
    BY <2>1
  <2> HIDE DEF before
  <2>6. /\ before \in Seq(S) /\ Len(before) = Len(p)
        /\ \A k \in 1 .. Len(p) : before[k] = p[k]
    BY <1>4, <2>3, <2>4, <2>5
  <2> QED  BY <2>6, SeqEqual
<1>8. after = own
  BY <1>2, <1>6
<1>9. own \in Seq(S)
  <2> DEFINE a == Len(p) + 2
             b == Len(name)
  <2>1. a \in Int /\ b \in Int /\ \A k \in a .. b : name[k] \in S
    BY <1>2
  <2> HIDE DEF a, b
  <2>2. SubSeq(name, a, b) \in Seq(S)
    BY <2>1, SubSeqProperties
  <2> QED  BY <2>2 DEF a, b
<1>10. slash > 0
  BY <1>2, <1>6
<1> HIDE DEF n, before, after
<1> QED  BY <1>1, <1>7, <1>8, <1>9, <1>10, Zenon DEF Strip

\* A provider that is asked for a name it does not qualify after its alias was
\* looked up is asked for that, on every endpoint.
LEMMA AskedForIs ==
  ASSUME NEW c, NEW p, NEW model, NEW name, NEW endpoint,
         Strip(p, Aliased(c, p, model)) = name, Strip(p, name) = name
  PROVE  AskedFor(c, p, model, endpoint) = name
BY Zenon DEF AskedFor, PrepareModel

\* The provider a model goes to is asked for what the configuration calls it:
\* the upstream model of its entry or of the environment, or the client's own
\* name without the provider it was qualified with.
THEOREM NamesArrive == Spec => []NamesArriveTranslated
<1> DEFINE S == STRING \union {"/"}
<1>1. "/" \in S /\ Seq(STRING) \subseteq Seq(S)
  <2>1. STRING \subseteq S
    OBVIOUS
  <2> QED  BY <2>1, SeqMonotonic, Zenon
<1> HIDE DEF S
<1>2. Computed => NamesArriveTranslated
  <2> SUFFICES ASSUME Computed, Accepted,
                      NEW name \in Names, NEW endpoint \in {"chat", "embeddings"}
               PROVE  LET p == ProviderFor(Loaded, name)
                          entry == Loaded.modelList[CHOOSE i \in EntriesOf(name) : TRUE]
                          upstream == IF p = Ollama /\ name = ChatAlias
                                           /\ input.env.chatModel # Empty
                                      THEN input.env.chatModel ELSE entry.upstream
                          listed == Cardinality(EntriesOf(name)) = 1 /\ upstream # Empty
                          own == SubSeq(name, Len(p) + 2, Len(name))
                      IN /\ listed /\ ~Qualified(p, upstream) =>
                              AskedFor(Loaded, p, name, endpoint) = upstream
                         /\ /\ EntriesOf(name) = {} /\ p \in DOMAIN Loaded.providers
                            /\ Qualified(p, name)
                            /\ name \notin DOMAIN Loaded.providers[p].aliases
                            /\ ~Contains(p, "/") /\ own # Empty /\ ~Qualified(p, own)
                            => AskedFor(Loaded, p, name, endpoint) = own
    BY Zenon DEF NamesArriveTranslated
  <2> DEFINE l == Loaded
             list == l.modelList
             p == ProviderFor(l, name)
             entry == list[CHOOSE i \in EntriesOf(name) : TRUE]
             upstream == IF p = Ollama /\ name = ChatAlias
                              /\ input.env.chatModel # Empty
                         THEN input.env.chatModel ELSE entry.upstream
             own == SubSeq(name, Len(p) + 2, Len(name))
  <2>1. input \in Configs /\ FromLayers(input, l)
    BY AcceptedIsLoaded
  <2>2. EntriesOf(name) = {i \in DOMAIN list : list[i].name = name}
    BY Zenon DEF EntriesOf
  <2>3. ASSUME Cardinality(EntriesOf(name)) = 1, upstream # Empty,
               ~Qualified(p, upstream)
        PROVE  AskedFor(l, p, name, endpoint) = upstream
    <3> DEFINE last == CHOOSE i \in EntriesOf(name) :
                         \A j \in EntriesOf(name) : j <= i
               e == list[last]
               aliases == l.providers[p].aliases
    <3>1. list \in Seq(Entry)
      BY <2>1, ConfigsAssumption DEF FromLayers
    <3>2. \E x : EntriesOf(name) = {x}
      <4> DEFINE N == Len(list)
      <4>1. N \in Nat /\ DOMAIN list = 1 .. N
        BY <3>1
      <4> HIDE DEF N, list
      <4>2. IsFiniteSet(1 .. N)
        BY <4>1, FS_Interval
      <4>3. EntriesOf(name) \subseteq 1 .. N
        BY <2>2, <4>1
      <4>4. IsFiniteSet(EntriesOf(name))
        BY <4>2, <4>3, FS_Subset
      <4> QED  BY <2>3, <4>4, FS_Singleton
    <3> HIDE DEF list, l, p
    <3>3. EntriesOf(name) # {}
      BY <3>2
    <3>4. /\ last \in EntriesOf(name) /\ Decides(input, l, e)
          /\ p = e.provider
      BY <3>3, ListedIsRouted, Zenon DEF l, p, list
    <3> HIDE DEF last
    <3>5. entry = e /\ e.name = name /\ e \in Entry
      <4>1. (CHOOSE i \in EntriesOf(name) : TRUE) = last
        BY <3>2, <3>4
      <4>2. last \in DOMAIN list /\ list[last].name = name
        BY <2>2, <3>4
      <4>3. list[last] \in Entry
        BY <3>1, <4>2
      <4> QED  BY <4>1, <4>2, <4>3, Zenon
    <3> HIDE DEF entry, e
    <3>6. upstream \in Seq(S) /\ p \in Seq(S)
      <4>1. e.provider \in Seq(STRING) /\ e.upstream \in Seq(STRING)
        BY <3>5 DEF Entry
      <4>2. input.env.chatModel \in Seq(STRING)
        BY <2>1, ConfigsAssumption
      <4> QED  BY <1>1, <3>4, <3>5, <4>1, <4>2, Zenon
    <3>7. name \in DOMAIN aliases /\ aliases[name] = upstream
      BY <2>3, <3>4, <3>5, Zenon DEF Decides, list, l
    <3> HIDE DEF upstream
    <3>8. Strip(p, upstream) = upstream
      BY <1>1, <2>3, <3>6, StripLeaves
    <3>9. Aliased(l, p, name) = upstream
      BY <3>7, Zenon DEF Aliased
    <3> QED  BY <3>8, <3>9, AskedForIs
  <2>4. ASSUME p \in DOMAIN l.providers, Qualified(p, name),
               name \notin DOMAIN l.providers[p].aliases,
               ~Contains(p, "/"), own # Empty, ~Qualified(p, own)
        PROVE  AskedFor(l, p, name, endpoint) = own
    <3>1. p \in Seq(S) /\ name \in Seq(S)
      <4>1. p \in DOMAIN input.file.providers
        BY <2>1, <2>4, Zenon DEF FromLayers
      <4>2. p \in Seq(STRING)
        BY <2>1, <4>1, ConfigsAssumption, Zenon
      <4> QED  BY <1>1, <4>2, NamesAssumption
    <3>2. Aliased(l, p, name) = name
      BY <2>4, Zenon DEF Aliased
    <3> HIDE DEF l, p
    <3> DEFINE left == own
    <3>3. left = SubSeq(name, Len(p) + 2, Len(name))
      OBVIOUS
    <3>4. left # Empty
      BY <2>4
    <3> HIDE DEF left
    <3>5. Strip(p, name) = left /\ left \in Seq(S)
      <4>1. "/" \in S /\ Qualified(p, name) /\ ~Contains(p, "/")
        BY <1>1, <2>4, Zenon
      <4>2. \A x : x = SubSeq(name, Len(p) + 2, Len(name)) /\ x # Empty
                     => Strip(p, name) = x /\ x \in Seq(S)
        BY ONLY <3>1, <4>1, StripCuts, Zenon
      <4> QED  BY ONLY <3>3, <3>4, <4>2
    <3>6. ~Qualified(p, left)
      BY <2>4 DEF left
    <3>7. Strip(p, left) = left
      BY ONLY <1>1, <3>1, <3>5, <3>6, StripLeaves
    <3>8. AskedFor(l, p, name, endpoint) = left
      BY <3>2, <3>5, <3>7, AskedForIs
    <3> QED  BY <3>8 DEF left
  <2> QED  BY <2>3, <2>4, Zenon
<1> QED  BY <1>2, ResultsAreComputed, PTL

-----------------------------------------------------------------------------
\* A number that fits a duration is one.
LEMMA WrapKeeps == ASSUME NEW n \in 0 .. Half - 1 PROVE Wrap(n) = n
<1>1. Half \in Nat
  BY WidthAssumption
<1>2. n + Half \in 0 .. 2 * Half - 1
  BY <1>1
<1>3. \A a, b \in Nat : a < b => a % b = a
  OBVIOUS
<1>4. (n + Half) % (2 * Half) = n + Half
  BY <1>1, <1>2, <1>3
<1> QED  BY <1>1, <1>4 DEF Wrap

\* Whatever the number, what is left of it is one.
LEMMA WrapIsInt == ASSUME NEW n \in Int PROVE Wrap(n) \in Int
<1>1. Half \in Nat /\ Half > 0
  BY WidthAssumption
<1>2. \A a \in Int, b \in Nat : b > 0 => a % b \in Int
  OBVIOUS
<1> QED  BY <1>1, <1>2 DEF Wrap

\* The wait that was asked for is a number before it is bounded.
LEMMA AskedIsInt ==
  ASSUME NEW header \in Headers, NEW attempt \in Attempts
  PROVE  Asked(header, attempt) \in Int
<1>1. header.value \in Int /\ Second \in Int /\ Base \in Int
  BY HeadersAssumption, WidthAssumption, WaitAssumption
<1>2. header.value * Second \in Int
  BY <1>1
<1>3. Wrap(header.value * Second) \in Int
  BY <1>2, WrapIsInt
<1>4. attempt \in Nat
  BY DEF Attempts
<1>5. \A b \in Int, e \in Nat : b * 2 ^ e \in Int
  OBVIOUS
<1>6. Base * 2 ^ (IF attempt < 4 THEN attempt ELSE 4) \in Int
  BY <1>1, <1>4, <1>5
<1> QED  BY <1>1, <1>3, <1>6 DEF Asked

\* Of a header that asks for seconds or a date, the wait that can be
\* represented is the one it asks for.
LEMMA AskedIsKept ==
  ASSUME NEW header \in Headers, NEW attempt \in Attempts, NEW asked,
         header.form \in {"seconds", "date"},
         asked = header.value * (IF header.form = "seconds" THEN Second ELSE 1),
         asked \in 0 .. Half - 1
  PROVE  Asked(header, attempt) = asked
<1>1. header.value \in Int /\ Second \in Nat /\ Second > 0
  BY HeadersAssumption, WidthAssumption
<1>2. CASE header.form = "date"
  <2>1. asked = header.value
    BY <1>1, <1>2
  <2> QED  BY <1>2, <2>1 DEF Asked
<1>3. CASE header.form = "seconds"
  <2>1. asked = header.value * Second
    BY <1>3
  <2>2. header.value >= 0
    <3>1. \A a \in Int, b \in Nat : b > 0 /\ a * b >= 0 => a >= 0
      OBVIOUS
    <3> QED  BY <1>1, <2>1, <3>1
  <2>3. Wrap(header.value * Second) = asked
    BY <2>1, WrapKeeps
  <2> QED  BY <1>3, <2>2, <2>3 DEF Asked
<1> QED  BY <1>2, <1>3

\* The client of a provider that asks for a wait gets it, up to the longest and
\* its jitter, and no header makes it wait longer or less than nothing.
THEOREM WaitIsBounded == Spec => []DelayIsBounded
<1>1. Computed => DelayIsBounded
  <2> SUFFICES ASSUME Computed, task = "wait", result # <<>> PROVE DelayIsBounded
    BY DEF DelayIsBounded, Done
  <2> DEFINE header == input[1]
             jitter == input[3]
             want == Asked(header, input[2])
             asked == header.value * (IF header.form = "seconds" THEN Second ELSE 1)
  <2>1. header \in Headers /\ input[2] \in Attempts /\ jitter \in 0 .. Jitter - 1
    BY DEF Computed
  <2>2. result[1] = Clamp(want) + jitter
    <3>1. result = <<Delay(header, input[2], jitter)>>
      BY Zenon DEF Computed
    <3>2. result[1] = Delay(header, input[2], jitter)
      BY ONLY <3>1
    <3> QED  BY <3>2, Zenon DEF Delay
  <2>3. want \in Int
    BY <2>1, AskedIsInt
  <2>4. Longest \in Nat /\ Jitter \in Nat
    BY WaitAssumption
  <2> HIDE DEF want
  <2>5. result[1] \in 0 .. Longest + Jitter - 1
    BY <2>1, <2>2, <2>3, <2>4 DEF Clamp
  <2>6. ASSUME header.form \in {"seconds", "date"}, asked \in 0 .. Half - 1
        PROVE  result[1] >= asked \/ result[1] >= Longest
    <3>1. want = asked
      BY <2>1, <2>6, AskedIsKept DEF want
    <3> HIDE DEF asked
    <3> QED  BY <2>1, <2>2, <2>3, <2>4, <2>6, <3>1 DEF Clamp
  <2> QED  BY <2>5, <2>6 DEF DelayIsBounded
<1> QED  BY <1>1, ResultsAreComputed, PTL
-----------------------------------------------------------------------------
\* How many numbers there are from a to b.
LEMMA IntervalSize ==
  ASSUME NEW a \in Int, NEW b \in Int, a <= b + 1
  PROVE  IsFiniteSet(a .. b) /\ Cardinality(a .. b) = b - a + 1
<1>1. IsFiniteSet(a .. b) /\ Cardinality(a .. b) = IF a > b THEN 0 ELSE b - a + 1
  BY FS_Interval, Zenon
<1> QED  BY <1>1

\* What does not double anything needs as much room as it takes.
LEMMA NoRoomToSpare ==
  ASSUME NEW S, NEW T, IsFiniteSet(S), IsFiniteSet(T), NEW f \in [S -> T],
         \A x, y \in S : f[x] = f[y] => x = y
  PROVE  ~(Cardinality(T) < Cardinality(S))
<1> SUFFICES ASSUME Cardinality(T) < Cardinality(S) PROVE FALSE
  OBVIOUS
<1>1. \E x, y \in S : x # y /\ f[x] = f[y]
  BY FS_PigeonHole
<1> QED  BY <1>1, Zenon

\* Numbers below n that rise from each position of 1 .. n to the next are 0 to
\* n - 1: there are as many positions up to k as there have to be numbers.
LEMMA RisingIsIdentity ==
  ASSUME NEW n \in Nat, NEW g \in [1 .. n -> 0 .. n - 1],
         \A j, k \in 1 .. n : j < k => g[j] < g[k],
         NEW k \in 1 .. n
  PROVE  g[k] = k - 1
<1>1. g[k] \in 0 .. n - 1
  OBVIOUS
<1> DEFINE below == [i \in 1 .. k |-> g[i]]
           above == [i \in k .. n |-> g[i]]
<1>2. g[k] >= k - 1
  <2>1. below \in [1 .. k -> 0 .. g[k]]
    <3>1. \A i \in 1 .. k : g[i] \in 0 .. g[k]
      <4> TAKE i \in 1 .. k
      <4>1. i \in 1 .. n /\ g[i] \in 0 .. n - 1
        OBVIOUS
      <4>2. i = k \/ g[i] < g[k]
        BY <4>1
      <4> QED  BY <1>1, <4>1, <4>2
    <3> QED  BY <3>1
  <2>2. \A i, j \in 1 .. k : below[i] = below[j] => i = j
    OBVIOUS
  <2>3. Cardinality(1 .. k) = k /\ IsFiniteSet(1 .. k)
    BY IntervalSize
  <2>4. Cardinality(0 .. g[k]) = g[k] + 1 /\ IsFiniteSet(0 .. g[k])
    <3>1. 0 \in Int /\ g[k] \in Int /\ 0 <= g[k] + 1
      BY <1>1
    <3>2. IsFiniteSet(0 .. g[k]) /\ Cardinality(0 .. g[k]) = g[k] - 0 + 1
      BY ONLY <3>1, IntervalSize, Zenon
    <3> QED  BY <1>1, <3>2
  <2> HIDE DEF below
  <2>5. ~(Cardinality(0 .. g[k]) < Cardinality(1 .. k))
    BY ONLY <2>1, <2>2, <2>3, <2>4, NoRoomToSpare
  <2> QED  BY <1>1, <2>3, <2>4, <2>5
<1>3. g[k] <= k - 1
  <2>1. above \in [k .. n -> g[k] .. n - 1]
    <3>1. \A i \in k .. n : g[i] \in g[k] .. n - 1
      <4> TAKE i \in k .. n
      <4>1. i \in 1 .. n /\ g[i] \in 0 .. n - 1
        OBVIOUS
      <4>2. i = k \/ g[k] < g[i]
        BY <4>1
      <4> QED  BY <1>1, <4>1, <4>2
    <3> QED  BY <3>1
  <2>2. \A i, j \in k .. n : above[i] = above[j] => i = j
    OBVIOUS
  <2>3. Cardinality(k .. n) = n - k + 1 /\ IsFiniteSet(k .. n)
    BY IntervalSize
  <2>4. Cardinality(g[k] .. n - 1) = n - g[k] /\ IsFiniteSet(g[k] .. n - 1)
    <3>1. g[k] \in Int /\ n - 1 \in Int /\ g[k] <= n - 1 + 1
      BY <1>1
    <3>2. /\ IsFiniteSet(g[k] .. n - 1)
          /\ Cardinality(g[k] .. n - 1) = n - 1 - g[k] + 1
      BY ONLY <3>1, IntervalSize, Zenon
    <3> QED  BY <1>1, <3>2
  <2> HIDE DEF above
  <2>5. ~(Cardinality(g[k] .. n - 1) < Cardinality(k .. n))
    BY ONLY <2>1, <2>2, <2>3, <2>4, NoRoomToSpare
  <2> QED  BY <1>1, <2>3, <2>4, <2>5
<1> QED  BY <1>1, <1>2, <1>3

\* An answer with as many vectors as there are inputs.
Answers(n) ==
  {v \in Seq([index: Int, length: Nat]) : Len(v) = n}

IndexOf(v)  == [k \in DOMAIN v |-> v[k].index]
LengthOf(v) == [k \in DOMAIN v |-> v[k].length]

LEMMA EntryOf ==
  ASSUME NEW S, NEW s \in Seq(S), NEW k \in 1 .. Len(s)
  PROVE  s[k] \in S
OBVIOUS

LEMMA AnswerShape ==
  ASSUME NEW n \in Nat, NEW v \in Answers(n)
  PROVE  /\ DOMAIN v = 1 .. n
         /\ \A k \in 1 .. n : v[k].index \in Int /\ v[k].length \in Nat
<1>1. v \in Seq([index: Int, length: Nat]) /\ Len(v) = n
  BY DEF Answers
<1>2. DOMAIN v = 1 .. n
  BY <1>1
<1>3. \A k \in 1 .. Len(v) : v[k] \in [index: Int, length: Nat]
  BY ONLY <1>1, EntryOf, Zenon
<1>4. \A k \in 1 .. n : v[k] \in [index: Int, length: Nat]
  BY <1>1, <1>3
<1> QED  BY <1>2, <1>4

\* n indexes below n of which no two are the same are all there are, and the
\* other way round.
LEMMA DistinctAreAll ==
  ASSUME NEW n \in Nat, NEW f \in [1 .. n -> 0 .. n - 1]
  PROVE  (\A j, k \in 1 .. n : f[j] = f[k] => j = k)
           <=> (\A i \in 0 .. n - 1 : \E k \in 1 .. n : f[k] = i)
<1>1. IsFiniteSet(1 .. n) /\ Cardinality(1 .. n) = n
  BY IntervalSize
<1>2. IsFiniteSet(0 .. n - 1) /\ Cardinality(0 .. n - 1) = n
  BY IntervalSize
<1>3. ASSUME \A j, k \in 1 .. n : f[j] = f[k] => j = k
      PROVE  \A i \in 0 .. n - 1 : \E k \in 1 .. n : f[k] = i
  <2>1. f \in Injection(1 .. n, 0 .. n - 1)
    BY <1>3, Zenon DEF Injection, IsInjective
  <2>2. f \in Surjection(1 .. n, 0 .. n - 1)
    BY <1>1, <1>2, <2>1, FS_Injection
  <2> QED  BY <2>2, Zenon DEF Surjection
<1>4. ASSUME \A i \in 0 .. n - 1 : \E k \in 1 .. n : f[k] = i
      PROVE  \A j, k \in 1 .. n : f[j] = f[k] => j = k
  <2>1. f \in Surjection(1 .. n, 0 .. n - 1)
    BY <1>4, Zenon DEF Surjection
  <2>2. f \in Injection(1 .. n, 0 .. n - 1)
    BY <1>1, <1>2, <2>1, FS_Surjection
  <2> QED  BY <2>2, Zenon DEF Injection, IsInjective
<1> QED  BY <1>3, <1>4

\* The lengths are one length if and only if each is as the first.
LEMMA OneLength ==
  ASSUME NEW n \in Nat \ {0}, NEW v \in Answers(n)
  PROVE  Cardinality({v[k].length : k \in DOMAIN v}) = 1
           <=> \A k \in 1 .. n : v[k].length = v[1].length
<1> DEFINE lengths == {v[k].length : k \in DOMAIN v}
           f == [k \in 1 .. n |-> v[k].length]
<1>1. DOMAIN v = 1 .. n /\ 1 \in 1 .. n
  BY AnswerShape
<1>2. v[1].length \in lengths /\ \A k \in 1 .. n : v[k].length \in lengths
  BY <1>1
<1>3. IsFiniteSet(lengths)
  <2>1. f \in Surjection(1 .. n, lengths)
    BY <1>1 DEF Surjection
  <2>2. IsFiniteSet(1 .. n)
    BY IntervalSize
  <2> QED  BY <2>1, <2>2, FS_Surjection
<1>4. ASSUME Cardinality(lengths) = 1
      PROVE  \A k \in 1 .. n : v[k].length = v[1].length
  <2> HIDE DEF lengths
  <2>1. \E x : lengths = {x}
    BY <1>3, <1>4, FS_Singleton
  <2> QED  BY <1>2, <2>1
<1>5. ASSUME \A k \in 1 .. n : v[k].length = v[1].length
      PROVE  Cardinality(lengths) = 1
  <2>1. lengths = {v[1].length}
    BY <1>1, <1>5
  <2> QED  BY <2>1, FS_Singleton
<1> QED  BY <1>4, <1>5

\* The indexes are those below n if and only if each is and no two are the same.
LEMMA AllIndexes ==
  ASSUME NEW n \in Nat \ {0}, NEW v \in Answers(n)
  PROVE  {v[k].index : k \in DOMAIN v} = 0 .. n - 1
           <=> /\ \A k \in 1 .. n : v[k].index \in 0 .. n - 1
               /\ \A j, k \in 1 .. n : v[j].index = v[k].index => j = k
<1> DEFINE f == [k \in 1 .. n |-> v[k].index]
           numbers == 0 .. n - 1
<1>1. DOMAIN v = 1 .. n
  BY AnswerShape
<1>2. ASSUME \A k \in 1 .. n : v[k].index \in 0 .. n - 1
      PROVE  (\A j, k \in 1 .. n : v[j].index = v[k].index => j = k)
               <=> (\A i \in 0 .. n - 1 : \E k \in 1 .. n : v[k].index = i)
  <2>1. f \in [1 .. n -> 0 .. n - 1]
    BY <1>2
  <2>2. \A k \in 1 .. n : f[k] = v[k].index
    OBVIOUS
  <2> HIDE DEF f
  <2>3. (\A j, k \in 1 .. n : f[j] = f[k] => j = k)
          <=> (\A i \in 0 .. n - 1 : \E k \in 1 .. n : f[k] = i)
    BY <2>1, DistinctAreAll
  <2> QED  BY ONLY <2>2, <2>3
<1> HIDE DEF numbers
<1>3. {v[k].index : k \in DOMAIN v} = numbers
        <=> /\ \A k \in 1 .. n : v[k].index \in numbers
            /\ \A i \in numbers : \E k \in 1 .. n : v[k].index = i
  BY <1>1
<1> QED  BY <1>2, <1>3, Zenon DEF numbers

LEMMA InputCountIsNat ==
  ASSUME NEW r \in Responses, r.input # 0
  PROVE  InputCount(r.input) \in Nat \ {0}
BY ResponsesAssumption DEF InputCount, Single

\* The check of one vector after the other accepts the sound responses.
LEMMA FittingIsSound ==
  ASSUME NEW r \in Responses, r.input # 0, r.readable,
         Len(r.vectors) = InputCount(r.input)
  PROVE  Sound(r) <=> \A k \in DOMAIN r.vectors : Fits(r.input, r.vectors, k)
<1> DEFINE n == InputCount(r.input)
           v == r.vectors
<1>1. n \in Nat \ {0}
  BY InputCountIsNat
<1>2. v \in Answers(n)
  BY ResponsesAssumption DEF Answers
<1> HIDE DEF n, v
<1>3. DOMAIN v = 1 .. n /\ 1 \in 1 .. n
  BY <1>1, <1>2, AnswerShape
<1>4. Sound(r) <=> /\ {v[k].index : k \in DOMAIN v} = 0 .. n - 1
                   /\ Cardinality({v[k].length : k \in DOMAIN v}) = 1
                   /\ v[1].length > 0
  BY Zenon DEF Sound, n, v
<1>5. Sound(r) <=> /\ \A k \in 1 .. n : v[k].index \in 0 .. n - 1
                   /\ \A j, k \in 1 .. n : v[j].index = v[k].index => j = k
                   /\ \A k \in 1 .. n : v[k].length = v[1].length
                   /\ v[1].length > 0
  <2>1. {v[k].index : k \in DOMAIN v} = 0 .. n - 1
          <=> /\ \A k \in 1 .. n : v[k].index \in 0 .. n - 1
              /\ \A j, k \in 1 .. n : v[j].index = v[k].index => j = k
    BY ONLY <1>1, <1>2, AllIndexes, Zenon
  <2>2. Cardinality({v[k].length : k \in DOMAIN v}) = 1
          <=> \A k \in 1 .. n : v[k].length = v[1].length
    BY ONLY <1>1, <1>2, OneLength, Zenon
  <2> QED  BY ONLY <1>4, <2>1, <2>2, Zenon
<1>6. \A k \in 1 .. n :
        Fits(r.input, v, k) <=> /\ v[k].index \in 0 .. n - 1
                                /\ \A j \in 1 .. k - 1 : v[j].index # v[k].index
                                /\ v[k].length > 0
                                /\ v[k].length = v[1].length
  BY Zenon DEF Fits, n
<1>7. (\A k \in 1 .. n : \A j \in 1 .. k - 1 : v[j].index # v[k].index)
        <=> \A j, k \in 1 .. n : v[j].index = v[k].index => j = k
  <2>1. \A k \in 1 .. n : \A j \in 1 .. k - 1 : j \in 1 .. n /\ j # k
    BY <1>1
  <2>2. \A j, k \in 1 .. n : j = k \/ j \in 1 .. k - 1 \/ k \in 1 .. j - 1
    BY <1>1
  <2> QED  BY <2>1, <2>2
<1> QED  BY <1>3, <1>5, <1>6, <1>7, Zenon DEF v

\* What the sort compares: the order rises by index.
Rises(v, n, order) ==
  \A j, k \in 1 .. n : j < k => v[order[j]].index < v[order[k]].index

\* Vectors whose indexes are those below n have an order by index, and in any
\* such order the k-th has the index k - 1.
LEMMA SortedByIndex ==
  ASSUME NEW n \in Nat \ {0}, NEW v \in Answers(n),
         {v[k].index : k \in DOMAIN v} = 0 .. n - 1
  PROVE  /\ ByIndex(v) \in [1 .. n -> 1 .. n]
         /\ \A k \in 1 .. n : v[ByIndex(v)[k]].index = k - 1
<1>1. DOMAIN v = 1 .. n
  BY AnswerShape
<1>2. \A k \in 1 .. n : v[k].index \in 0 .. n - 1
  BY AllIndexes
<1>3. \E order \in [1 .. n -> 1 .. n] : Rises(v, n, order)
  <2> DEFINE order == [i \in 1 .. n |-> CHOOSE k \in 1 .. n : v[k].index = i - 1]
  <2>1. \A i \in 1 .. n : \E k \in 1 .. n : v[k].index = i - 1
    <3> TAKE i \in 1 .. n
    <3>1. n \in Nat /\ i \in 1 .. n
      OBVIOUS
    <3>2. i - 1 \in 0 .. n - 1
      BY ONLY <3>1
    <3> QED  BY <1>1, <3>2, Zenon
  <2>2. \A i \in 1 .. n : order[i] \in 1 .. n /\ v[order[i]].index = i - 1
    BY <2>1
  <2>3. order \in [1 .. n -> 1 .. n]
    BY <2>1
  <2> HIDE DEF order
  <2>4. Rises(v, n, order)
    BY <2>2 DEF Rises
  <2> QED  BY <2>3, <2>4
<1>4. ByIndex(v) = CHOOSE order \in [1 .. n -> 1 .. n] : Rises(v, n, order)
  BY <1>1, Zenon DEF ByIndex, Rises
<1>5. ByIndex(v) \in [1 .. n -> 1 .. n] /\ Rises(v, n, ByIndex(v))
  BY <1>3, <1>4, Zenon
<1> DEFINE g == [k \in 1 .. n |-> v[ByIndex(v)[k]].index]
<1>6. ASSUME NEW k \in 1 .. n PROVE v[ByIndex(v)[k]].index = k - 1
  <2>1. g \in [1 .. n -> 0 .. n - 1]
    BY <1>2, <1>5
  <2>2. \A i \in 1 .. n : g[i] = v[ByIndex(v)[i]].index
    OBVIOUS
  <2> HIDE DEF g
  <2>3. \A i, j \in 1 .. n : i < j => g[i] < g[j]
    BY <1>5, <2>2 DEF Rises
  <2>4. g[k] = k - 1
    BY <2>1, <2>3, RisingIsIdentity
  <2> QED  BY <2>2, <2>4
<1> QED  BY <1>5, <1>6

\* A client that asked for n vectors gets the one of its i-th input i-th, in
\* whatever order the provider sent them, and every response that can be
\* ordered so is accepted.
THEOREM VectorsAreOrdered == Spec => []VectorsMatchInputs
<1>1. Computed => VectorsMatchInputs
  <2> SUFFICES ASSUME Computed, task = "vectors", result # <<>>
               PROVE VectorsMatchInputs
    BY DEF VectorsMatchInputs, Done
  <2> DEFINE n == InputCount(input.input)
             v == input.vectors
             order == Normalize(input.input, input.readable, v)
  <2>1. input \in Responses
    BY DEF Computed
  <2>2. result[1] = order
    <3>1. result = <<order>>
      BY Zenon DEF Computed
    <3> QED  BY ONLY <3>1
  <2> DEFINE accepted == /\ input.input # 0 /\ input.readable /\ Len(v) = n
                         /\ \A k \in DOMAIN v : Fits(input.input, v, k)
  <2>3. accepted <=> input.input # 0 /\ Sound(input)
    <3>1. Sound(input) => input.readable /\ Len(v) = n
      BY Zenon DEF Sound
    <3> QED  BY <2>1, <3>1, FittingIsSound, Zenon
  <2>4. CASE ~accepted
    <3>1. order = <<>>
      BY <2>4, Zenon DEF Normalize
    <3> QED  BY <2>2, <2>3, <2>4, <3>1, Zenon DEF VectorsMatchInputs
  <2>5. CASE accepted
    <3>1. n \in Nat \ {0}
      BY <2>1, <2>5, InputCountIsNat, Zenon
    <3>2. v \in Answers(n)
      BY <2>1, <2>5, ResponsesAssumption, Zenon DEF Answers
    <3>3. {v[k].index : k \in DOMAIN v} = 0 .. n - 1
      BY <2>3, <2>5, Zenon DEF Sound
    <3>4. order = IF NeedsNormalization(v) THEN ByIndex(v)
                  ELSE [k \in DOMAIN v |-> k]
      BY <2>5, Zenon DEF Normalize
    <3> HIDE DEF n, v, order, accepted
    <3>5. order \in [1 .. n -> 1 .. n] /\ \A k \in 1 .. n : v[order[k]].index = k - 1
      <4>1. CASE NeedsNormalization(v)
        BY <3>1, <3>2, <3>3, <3>4, <4>1, SortedByIndex, Zenon
      <4>2. CASE ~NeedsNormalization(v)
        <5>1. DOMAIN v = 1 .. n
          BY <3>1, <3>2, AnswerShape
        <5> QED  BY <3>4, <4>2, <5>1 DEF NeedsNormalization
      <4> QED  BY <4>1, <4>2
    <3>6. Len(order) = n /\ DOMAIN order = 1 .. n
      BY <3>1, <3>5
    <3>7. /\ Len(result[1]) = n
          /\ \A k \in DOMAIN result[1] : v[result[1][k]].index = k - 1
      BY <2>2, <3>5, <3>6, Zenon
    <3> QED  BY <2>3, <2>5, <3>7, Zenon DEF VectorsMatchInputs, n, v
  <2> QED  BY <2>4, <2>5
<1> QED  BY <1>1, ResultsAreComputed, PTL
=============================================================================
