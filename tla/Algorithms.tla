----------------------------- MODULE Algorithms -----------------------------
(***************************************************************************)
(* What the pure parts of the gateway compute: the configuration and the   *)
(* routing that follows from it, the wait before a repetition, the order   *)
(* of embedding vectors.  Each behaviour gives one of them one input.      *)
(***************************************************************************)
EXTENDS Config, Embeddings, RetryDelay

CONSTANTS
  Configs,      \* layers: [file, env, flags]
  Headers,      \* Retry-After: [form, value]
  Responses,    \* embedding requests and responses: [input, readable, vectors]
  Names         \* models the clients ask for

\* What the types of the configuration say of it.
Entry == [name: Seq(STRING), provider: Seq(STRING), upstream: Seq(STRING),
          fallbacks: Seq(Seq(STRING))]

ASSUME ConfigsAssumption ==
  \A i \in Configs :
    /\ i.file.modelList \in Seq(Entry) /\ i.env.chatModel \in Seq(STRING)
    /\ \A p \in DOMAIN i.file.providers :
         /\ p \in Seq(STRING)
         /\ DOMAIN i.file.providers[p] = {"url", "kind", "key", "aliases"}

ASSUME NamesAssumption == Names \subseteq Seq(STRING)

ASSUME HeadersAssumption == \A header \in Headers : header.value \in Int

ASSUME ResponsesAssumption ==
  \A r \in Responses : /\ r.input \in Nat \union {Single}
                        /\ r.readable \in BOOLEAN
                        /\ r.vectors \in Seq([index: Int, length: Nat])

VARIABLES task, input, result

vars == <<task, input, result>>

Init ==
  /\ \/ task = "configuration" /\ input \in Configs
     \/ task = "wait" /\ input \in Headers \X {0, 1, 5} \X (0 .. Jitter - 1)
     \/ task = "vectors" /\ input \in Responses
  /\ result = <<>>

Finish(value) == result' = <<value>> /\ UNCHANGED <<task, input>>

LoadConfiguration ==
  task = "configuration" /\ result = <<>> /\ Finish(Load(input))

WaitForRetry ==
  task = "wait" /\ result = <<>> /\ Finish(Delay(input[1], input[2], input[3]))

NormalizeVectors ==
  /\ task = "vectors" /\ result = <<>>
  /\ Finish(Normalize(input.input, input.readable, input.vectors))

Finished == result # <<>> /\ UNCHANGED vars

Next == LoadConfiguration \/ WaitForRetry \/ NormalizeVectors \/ Finished

Spec == Init /\ [][Next]_vars

Done(t) == task = t /\ result # <<>>

-----------------------------------------------------------------------------
Accepted == Done("configuration") /\ result[1] # Refused
Loaded   == result[1][1]

\* The layers of the settings, the one that wins first.
Layers == <<input.flags, input.env.settings, input.file.settings, Defaults>>

\* A configuration that is accepted can be run whatever layer its parts came
\* from: settings sound and from the layer that wins, providers reached in clear
\* text only if that was allowed, and no name in it that nothing stands for.
AcceptedIsRunnable ==
  Accepted =>
    /\ \A s \in Settings :
         LET l == SelectInSeq(Layers, LAMBDA layer : layer[s] # "unset")
         IN Loaded.settings[s] = Layers[l][s] /\ Loaded.settings[s] # "invalid"
    /\ \A p \in DOMAIN Loaded.providers :
         LET url == IF p = Ollama /\ input.env.ollamaBase # "unset"
                    THEN input.env.ollamaBase ELSE input.file.providers[p].url
         IN /\ Loaded.providers[p].url = url
            /\ \/ url = "https"
               \/ url \in {"http", "local"} /\ input.env.clearText
               \/ url = "local" /\ p = Ollama
    /\ \A i \in DOMAIN Loaded.rules :
         Loaded.rules[i].provider \in DOMAIN Loaded.providers

EntriesOf(name) ==
  {i \in DOMAIN Loaded.modelList : Loaded.modelList[i].name = name}

\* A model on the list is served, first by the provider its last entry names
\* whatever rules and routes say, then by providers that all exist.
ListedModelsAreServed ==
  Accepted => \A name \in Names :
    EntriesOf(name) # {} =>
      LET last == CHOOSE i \in EntriesOf(name) : \A j \in EntriesOf(name) : j <= i
          candidates == Candidates(Loaded, name)
      IN /\ candidates # <<>>
         /\ candidates[1] = Loaded.modelList[last].provider
         /\ \A i \in DOMAIN candidates : candidates[i] \in DOMAIN Loaded.providers

Qualified(p, name) == IsPrefix(p \o <<"/">>, name)

\* The provider a listed model is routed to is asked for the upstream model of
\* its entry, or the one the environment sets; a model nobody listed that is
\* qualified with its provider arrives without that.  Excepted are upstream
\* names that begin with their own provider and a slash, which lose it, and
\* providers with a slash in their name, which qualify nothing.
NamesArriveTranslated ==
  Accepted => \A name \in Names, endpoint \in {"chat", "embeddings"} :
    LET p == ProviderFor(Loaded, name)
        entry == Loaded.modelList[CHOOSE i \in EntriesOf(name) : TRUE]
        upstream == IF p = Ollama /\ name = ChatAlias
                         /\ input.env.chatModel # Empty
                    THEN input.env.chatModel ELSE entry.upstream
        listed == Cardinality(EntriesOf(name)) = 1 /\ upstream # Empty
        own == SubSeq(name, Len(p) + 2, Len(name))
    IN /\ listed /\ ~Qualified(p, upstream) =>
            AskedFor(Loaded, p, name, endpoint) = upstream
       /\ /\ EntriesOf(name) = {} /\ p \in DOMAIN Loaded.providers
          /\ Qualified(p, name) /\ name \notin DOMAIN Loaded.providers[p].aliases
          /\ ~Contains(p, "/") /\ own # Empty /\ ~Qualified(p, own)
          => AskedFor(Loaded, p, name, endpoint) = own

\* /ready answers 200 only if some model a client can ask for has a provider
\* with a key to begin with.  A provider without a name is excepted: /ready takes
\* it for that of a model without a provider.
ReadyMeansServed ==
  Accepted /\ Ready(Loaded) /\ Empty \notin DOMAIN Loaded.providers =>
    \E model \in DOMAIN Loaded.routes :
      /\ Candidates(Loaded, model) # <<>>
      /\ Loaded.providers[Candidates(Loaded, model)[1]].key
      /\ ModelStatus(Loaded, model) = "configured"

-----------------------------------------------------------------------------
\* No header makes the client wait less than nothing or more than the longest
\* wait and its jitter, and a wait that was asked for and can be represented is
\* kept up to that.
DelayIsBounded ==
  Done("wait") =>
    LET asked == input[1].value * (IF input[1].form = "seconds" THEN Second ELSE 1)
    IN /\ result[1] \in 0 .. Longest + Jitter - 1
       /\ input[1].form \in {"seconds", "date"} /\ asked \in 0 .. Half - 1 =>
            (result[1] >= asked \/ result[1] >= Longest)

-----------------------------------------------------------------------------
\* What a response has to be: readable, one vector for each input, none
\* missing or double, all of one length that is not zero.
Sound(i) ==
  LET n == InputCount(i.input)
  IN /\ i.readable
     /\ Len(i.vectors) = n
     /\ {i.vectors[k].index : k \in DOMAIN i.vectors} = 0 .. n - 1
     /\ Cardinality({i.vectors[k].length : k \in DOMAIN i.vectors}) = 1
     /\ i.vectors[1].length > 0

\* A client that asked for n vectors gets n of them, the i-th being the one the
\* provider computed for its i-th input, in whatever order the provider sent
\* them; and a response is refused only if no order of it would do.
VectorsMatchInputs ==
  Done("vectors") =>
    IF input.input # 0 /\ Sound(input)
    THEN /\ Len(result[1]) = InputCount(input.input)
         /\ \A k \in DOMAIN result[1] : input.vectors[result[1][k]].index = k - 1
    ELSE result[1] = <<>>
=============================================================================
