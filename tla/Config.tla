------------------------------- MODULE Config -------------------------------
(***************************************************************************)
(* Loading the configuration (internal/config/config.go).                  *)
(*                                                                         *)
(* An input has the layers file, env and flags.  Of the settings, three    *)
(* stand for the others: "address" can be set by every layer, "timeout" is *)
(* text parsed when the result is validated, "limit" is a number the       *)
(* environment's text is parsed for at once.  A value is the name of the   *)
(* layer it comes from, "invalid", or "unset".                             *)
(***************************************************************************)
EXTENDS Routing

Settings == {"address", "timeout", "limit"}

Ollama    == <<"ollama">>
ChatAlias == <<"ollama-qwen3">>    \* ollama-nomic-embed is treated alike

Defaults == [s \in Settings |-> "default"]

\* One layer of settings over another.
Over(upper, lower) ==
  [s \in Settings |-> IF upper[s] = "unset" THEN lower[s] ELSE upper[s]]

Put(f, key, value) ==
  [k \in DOMAIN f \union {key} |-> IF k = key THEN value ELSE f[k]]

\* normalizeModelRoutes: every entry becomes a route, and an alias of its
\* provider if it names an upstream model; later entries win.
AddAlias(providers, entry) ==
  IF entry.provider \in DOMAIN providers /\ entry.upstream # Empty
  THEN [providers EXCEPT ![entry.provider].aliases =
          Put(@, entry.name, entry.upstream)]
  ELSE providers

AddEntry(c, entry) ==
  IF entry.name = Empty \/ entry.provider = Empty THEN c
  ELSE [c EXCEPT !.routes = Put(@, entry.name, entry.provider),
                 !.providers = AddAlias(@, entry)]

NormalizeModelRoutes(c) ==
  LET After[n \in 0 .. Len(c.modelList)] ==
        IF n = 0 THEN c ELSE AddEntry(After[n - 1], c.modelList[n])
  IN After[Len(c.modelList)]

\* applyEnvironment: a key for each provider; for ollama an address and an
\* upstream model as well.
OllamaWith(p, env) ==
  [p EXCEPT !.url = IF env.ollamaBase = "unset" THEN @ ELSE env.ollamaBase,
            !.aliases = IF env.chatModel = Empty THEN @
                        ELSE Put(@, ChatAlias, env.chatModel)]

ApplyEnvironment(c, env) ==
  [c EXCEPT
     !.settings = Over(env.settings, @),
     !.clearText = env.clearText,
     !.providers =
        [p \in DOMAIN @ |->
           [IF p = Ollama THEN OllamaWith(@[p], env) ELSE @[p]
              EXCEPT !.key = p \in env.keys]]]

-----------------------------------------------------------------------------
ValidProvider(c, p) ==
  /\ c.providers[p].kind \in {"", "openai-compatible", "ollama"}
  /\ \/ c.providers[p].url = "https"
     \/ c.providers[p].url \in {"http", "local"} /\ c.clearText
     \/ c.providers[p].url = "local" /\ p = Ollama

ValidEntry(c, entry) ==
  /\ entry.name # Empty /\ entry.provider # Empty
  /\ entry.provider \in DOMAIN c.providers
  /\ \A i \in DOMAIN entry.fallbacks : entry.fallbacks[i] \in DOMAIN c.providers

ValidRule(c, rule) ==
  /\ rule.match # Empty /\ rule.provider # Empty
  /\ rule.provider \in DOMAIN c.providers
  /\ IsWild(rule.match) \/ Contains(rule.match, "/")

Valid(c) ==
  /\ \A s \in Settings : c.settings[s] # "invalid"
  /\ \A p \in DOMAIN c.providers : ValidProvider(c, p)
  /\ \A i \in DOMAIN c.modelList : ValidEntry(c, c.modelList[i])
  /\ \A i \in DOMAIN c.rules : ValidRule(c, c.rules[i])

Read(file) ==
  [settings  |-> Over(file.settings, Defaults),
   clearText |-> FALSE,
   providers |-> file.providers,
   routes    |-> file.routes,
   rules     |-> file.rules,
   modelList |-> file.modelList]

WithFlags(c, flags) == [c EXCEPT !.settings = Over(flags, @)]

Refused == <<>>

\* A limit that is no number is an error at once.
Checked(input, c) ==
  IF input.env.settings["limit"] # "invalid" /\ Valid(c) THEN <<c>> ELSE Refused

\* Mutant: the environment does not win over what the file says.
Load_NormalizesLast(input) ==
  Checked(input, WithFlags(NormalizeModelRoutes(
                   ApplyEnvironment(Read(input.file), input.env)), input.flags))

\* Mutant: the file is validated, and then overridden.
Load_ValidatesFirst(input) ==
  LET file == NormalizeModelRoutes(Read(input.file))
  IN IF Valid([file EXCEPT !.clearText = input.env.clearText])
     THEN <<WithFlags(ApplyEnvironment(file, input.env), input.flags)>>
     ELSE Refused

\* The configuration in a sequence of one, or Refused.
Load(input) ==
  Checked(input, WithFlags(ApplyEnvironment(
                   NormalizeModelRoutes(Read(input.file)), input.env), input.flags))
=============================================================================
