---------------------------- MODULE MCAlgorithms ----------------------------
(***************************************************************************)
(* Inputs for TLC.                                                         *)
(***************************************************************************)
EXTENDS Algorithms

Groq == <<"groq">>

AllNames == {<<"m">>, ChatAlias, <<"groq", "/", "m">>, <<"ollama", "/", "m">>,
             <<"groq", "/", "ollama", "/", "m">>}

Unset == [s \in Settings |-> "unset"]
Plain == [url |-> "https", kind |-> "", key |-> FALSE, aliases |-> <<>>]
Both  == [p \in {Ollama, Groq} |-> Plain]

File(settings, providers, modelList, routes, rules) ==
  [settings |-> settings, providers |-> providers, modelList |-> modelList,
   routes |-> routes, rules |-> rules]

Env(settings, base, chatModel, clearText, keys) ==
  [settings |-> settings, ollamaBase |-> base, chatModel |-> chatModel,
   clearText |-> clearText, keys |-> keys]

\* Every layer sets, spoils or leaves out each setting; flags the address only.
LayersInputs ==
  {[file  |-> File(f, Both, <<>>, <<>>, <<>>),
    env   |-> Env(e, "unset", Empty, FALSE, {}),
    flags |-> [Unset EXCEPT !["address"] = a]] :
     f \in [Settings -> {"unset", "file", "invalid"}],
     e \in [Settings -> {"unset", "env", "invalid"}],
     a \in {"unset", "flag"}}

\* Every kind and address of two providers.
ProviderInputs ==
  {[file  |-> File(Unset, [p \in {Ollama, Groq} |->
                             [Plain EXCEPT !.url = IF p = Ollama THEN o ELSE g,
                                           !.kind = k]], <<>>, <<>>, <<>>),
    env   |-> Env(Unset, base, Empty, clear, {}),
    flags |-> Unset] :
     o \in {"https", "http", "local", "none"}, g \in {"https", "http", "local"},
     k \in {"", "ollama", "other"},
     base \in {"unset", "https", "http", "local", "none"}, clear \in BOOLEAN}

Entries ==
  [name: {<<"m">>, ChatAlias, <<"groq", "/", "m">>},
   provider: {Ollama, Groq, <<"unknown">>},
   upstream: {Empty, <<"u">>, <<"ollama", "/", "u">>},
   fallbacks: {<<>>, <<Ollama>>, <<<<"unknown">>>>}]

RuleTables ==
  {<<>>,
   <<[match |-> <<"groq", "/", "*">>, provider |-> Groq]>>,
   <<[match |-> <<"*">>, provider |-> Ollama],
     [match |-> <<"groq", "/", "*">>, provider |-> Groq]>>,
   <<[match |-> <<"groq", "/", "*">>, provider |-> Ollama],
     [match |-> <<"ollama", "/", "*">>, provider |-> Ollama]>>,
   <<[match |-> <<"groq", "/", "m">>, provider |-> Ollama]>>,
   <<[match |-> <<"m">>, provider |-> Groq]>>}

RouteTables == {<<>>, <<"m">> :> Ollama, <<"x">> :> <<"unknown">>,
                (<<"m">> :> Ollama) @@ (<<"x">> :> Groq)}

\* Model lists of up to two entries with every table of rules and routes.
TableInputs ==
  {[file  |-> File(Unset, Both, list, routes, rules),
    env   |-> Env(Unset, "unset", chat, FALSE, keys),
    flags |-> Unset] :
     list \in SeqOf(Entries, 1)
                \union {<<e, f>> : e \in Entries,
                          f \in [name: {<<"m">>, ChatAlias},
                                 provider: {Ollama, Groq}, upstream: {<<"v">>},
                                 fallbacks: {<<>>}]},
     routes \in RouteTables, rules \in RuleTables,
     chat \in {Empty, <<"qwen">>}, keys \in {{}, {Groq}}}

\* A provider without a name beside another one, and what may refer to it.
UnnamedInputs ==
  {[file  |-> File(Unset, [p \in {Empty, Groq} |-> Plain], list, routes, rules),
    env   |-> Env(Unset, "unset", Empty, FALSE, keys),
    flags |-> Unset] :
     list \in {<<>>, <<[name |-> <<"m">>, provider |-> Groq, upstream |-> Empty,
                       fallbacks |-> <<Empty>>]>>},
     routes \in {<<>>, <<"x">> :> Empty},
     rules \in {<<>>, <<[match |-> <<"*">>, provider |-> Empty]>>},
     keys \in SUBSET {Empty, Groq}}

AllConfigs == LayersInputs \union ProviderInputs \union TableInputs
                \union UnnamedInputs

AllHeaders == [form: {"absent", "seconds", "date", "other"},
               value: -Half .. Half - 1]

\* Every response of up to three vectors to up to three inputs.
AllResponses ==
  [input: {Single} \union 0 .. 3, readable: BOOLEAN,
   vectors: SeqOf([index: -1 .. 3, length: 0 .. 2], 3)]
=============================================================================
