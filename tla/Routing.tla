------------------------------- MODULE Routing -------------------------------
(***************************************************************************)
(* From the model a client names to the providers that are tried and the   *)
(* model each of them is asked for (internal/gateway/routes.go,            *)
(* internal/router/router.go: clientsFor, ready, models, modelStatus,      *)
(* internal/provider/provider.go: prepareChatBody, prepareModelBody,       *)
(* stripProviderPrefix).                                                   *)
(*                                                                         *)
(* A name is the sequence of its tokens, "/" and a final "*" being tokens  *)
(* of their own: <<"groq", "/", "m">> is groq/m.  A configuration c has    *)
(* providers (a function from names), routes (from names to provider       *)
(* names), rules and modelList (sequences).                                *)
(***************************************************************************)
EXTENDS Integers, Sequences, SequencesExt

Empty == <<>>    \* the empty name, also: no provider

\* A name cut at its first slash.
Cut(name) ==
  LET slash == SelectInSeq(name, LAMBDA token : token = "/")
  IN [found  |-> slash > 0,
      before |-> SubSeq(name, 1, slash - 1),
      after  |-> SubSeq(name, slash + 1, Len(name))]

IsWild(match) == match # Empty /\ Last(match) = "*"

\* The provider of the first of the rules that match, or Empty.
FirstRule(rules, matching) ==
  IF matching = {} THEN Empty ELSE rules[Min(matching)].provider

ByRule(rules, model) ==
  FirstRule(rules, {i \in DOMAIN rules : /\ IsWild(rules[i].match)
                                         /\ IsPrefix(Front(rules[i].match), model)})

\* provider/model notation: a rule provider/*, or without any rules a provider
\* some model is routed to.
ByQualifier(c, model) ==
  LET p == Cut(model).before
  IN IF ~Cut(model).found \/ p = Empty THEN Empty
     ELSE IF c.rules # <<>>
          THEN FirstRule(c.rules, {i \in DOMAIN c.rules :
                                     c.rules[i].match = p \o <<"/", "*">>})
     ELSE IF \E m \in DOMAIN c.routes : c.routes[m] = p THEN p ELSE Empty

ByModel(c, model) ==
  IF model \in DOMAIN c.routes THEN c.routes[model] ELSE Empty

\* The first of some names that is not empty.
FirstNamed(names) ==
  LET i == SelectInSeq(names, LAMBDA name : name # Empty)
  IN IF i = 0 THEN Empty ELSE names[i]

\* Mutant: rules come before exact names.
ProviderFor_RulesFirst(c, model) ==
  FirstNamed(<<ByQualifier(c, model), ByRule(c.rules, model), ByModel(c, model)>>)

ProviderFor(c, model) ==
  FirstNamed(<<ByModel(c, model), ByQualifier(c, model), ByRule(c.rules, model)>>)

\* Those of some names that are configured, in their order.
Existing(c, names) ==
  LET Kept[n \in 0 .. Len(names)] ==
        IF n = 0 THEN <<>>
        ELSE IF names[n] \in DOMAIN c.providers THEN Append(Kept[n - 1], names[n])
        ELSE Kept[n - 1]
  IN Kept[Len(names)]

\* clientsFor, before cooldowns: the provider of the model and the fallbacks of
\* its first entry, as far as they exist.
Candidates(c, model) ==
  LET i == SelectInSeq(c.modelList, LAMBDA entry : entry.name = model)
      names == <<ProviderFor(c, model)>> \o
                 (IF i = 0 THEN <<>> ELSE c.modelList[i].fallbacks)
  IN IF ProviderFor(c, model) = Empty THEN <<>> ELSE Existing(c, names)

-----------------------------------------------------------------------------
\* What provider p is asked for.
Strip(p, model) ==
  LET cut == Cut(model)
  IN IF cut.found /\ cut.before = p /\ cut.after # Empty THEN cut.after ELSE model

Aliased(c, p, model) ==
  LET aliases == c.providers[p].aliases
  IN IF model \in DOMAIN aliases THEN aliases[model] ELSE model

PrepareModel(c, p, model) == Strip(p, Aliased(c, p, model))

\* A chat request is stripped once more than an embedding request.
AskedFor(c, p, model, endpoint) ==
  IF endpoint = "chat" THEN Strip(p, PrepareModel(c, p, model))
                       ELSE PrepareModel(c, p, model)

-----------------------------------------------------------------------------
\* The read-only endpoints.
HasKey(c, p) == p \in DOMAIN c.providers /\ c.providers[p].key

\* Mutant: a provider is ready if it is configured.
Ready_Unkeyed(c) ==
  \E model \in DOMAIN c.routes \ {Empty} : ProviderFor(c, model) \in DOMAIN c.providers

Ready(c) == \E model \in DOMAIN c.routes \ {Empty} : HasKey(c, ProviderFor(c, model))

ModelStatus(c, model) ==
  IF ProviderFor(c, model) = Empty THEN "not found"
  ELSE IF HasKey(c, ProviderFor(c, model)) THEN "configured"
  ELSE "missing_credentials"
=============================================================================
