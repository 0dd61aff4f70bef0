------------------------------- MODULE Config -------------------------------
(***************************************************************************)
(* The configuration file, its loading and its validation (src/config.rs), *)
(* as operators on records.  An optional field is a set of at most one     *)
(* element, a string is the class of strings the code tells apart, a tuple *)
(* of checks is in the order of the source.                                *)
(***************************************************************************)
EXTENDS Integers, Sequences, FiniteSets, FiniteSetsExt, Functions

CONSTANT U32  \* bound: the number of values of a u32

ASSUME ConfigAssumption == U32 \in Nat \ {0, 1}

CloudKinds == {"openai", "groq", "anthropic"}

The(option) == CHOOSE x \in option : TRUE

Unless(holds, error) == IF holds THEN "ok" ELSE error

FirstFault(checks) ==
  LET faults == {i \in DOMAIN checks : checks[i] # "ok"}
  IN  IF faults = {} THEN "ok" ELSE checks[Min(faults)]

\* What a deserialized file leaves open.
DefaultModel ==
  [id |-> "", backend |-> "local", path |-> {}, url |-> {}, key |-> {}, repo |-> {}, adapters |-> <<>>,
   lazy |-> FALSE, vram |-> {}, size |-> 0, pin |-> FALSE, gpus |-> <<>>]

DefaultConfig ==
  [file |-> "toml", host |-> "public", keys |-> <<>>, allowOpen |-> FALSE, plaintext |-> FALSE,
   origins |-> <<>>, metrics |-> [enabled |-> FALSE, bind |-> {}], level |-> "info",
   budget |-> [auto |-> FALSE, mb |-> 0], headroom |-> 2, overrides |-> <<>>, grace |-> 30,
   models |-> <<>>, routes |-> <<>>]

BackendTypes == {"local", "hf"} \cup CloudKinds

Texts == {"set", "blank", "ref", "malformed"}

\* What deserialization guarantees of a file, faulty or not: the types of ModelConfig,
\* RouteConfig and ServerConfig.
ModelType ==
  [id : STRING, backend : BackendTypes, path : SUBSET {"file", "missing"},
   url : SUBSET [text : Texts, scheme : STRING, host : {"public", "private", "none"}],
   key : SUBSET Texts, repo : SUBSET STRING, adapters : Seq([path : SUBSET STRING, repo : SUBSET STRING]),
   lazy : BOOLEAN, vram : SUBSET Nat, size : Nat, pin : BOOLEAN, gpus : Seq(0 .. (U32 - 1))]

RouteType == [id : STRING, rules : Seq([matchers : SUBSET STRING, targets : Seq(STRING)])]

IsConfig(c) ==
  /\ DOMAIN c = DOMAIN DefaultConfig
  /\ c.keys \in Seq(Texts) /\ c.origins \in Seq(STRING)
  /\ c.allowOpen \in BOOLEAN /\ c.plaintext \in BOOLEAN
  /\ c.budget \in [auto : BOOLEAN, mb : Nat] /\ c.headroom \in Nat /\ c.grace \in Nat
  /\ c.overrides \in [DOMAIN c.overrides -> Nat]
  /\ c.models \in Seq(ModelType) /\ c.routes \in Seq(RouteType)

\* Matchers::is_empty; a rule's matchers are the set of the fields it gives.
MatchesAll(rule) == rule.matchers = {}
-----------------------------------------------------------------------------
(* Loading.  A text is "set", "blank", "ref" (to the one variable, whose   *)
(* value env is "set", "blank" or "unset") or "malformed".                 *)

ExpandFault(text, env) ==
  CASE text = "malformed"            -> "MalformedEnvRef"
    [] text = "ref" /\ env = "unset" -> "MissingEnvVar"
    [] OTHER                         -> "ok"

Expand(text, env) == IF text = "ref" THEN env ELSE text

\* interpolate_env visits server.api_keys, then each model's api_key and base_url.
InterpolateFault(c, env) ==
  LET ofOption(o)  == FirstFault([k \in DOMAIN o |-> ExpandFault(o[k], env)])
      asTuple(o)   == IF o = {} THEN <<>> ELSE <<The(o)>>
      urlText(m)   == {u.text : u \in m.url}
      ofModel(m)   == ofOption(asTuple(m.key) \o asTuple(urlText(m)))
  IN  FirstFault(<<ofOption(c.keys), FirstFault([i \in DOMAIN c.models |-> ofModel(c.models[i])])>>)

Interpolate(c, env) ==
  LET ofModel(m) == [m EXCEPT !.key = {Expand(t, env) : t \in m.key}]
  IN  [c EXCEPT !.keys = [i \in DOMAIN @ |-> Expand(@[i], env)],
                !.models = [i \in DOMAIN @ |-> ofModel(@[i])]]

\* FlarionConfig::load: unreadable, unparsable (a vram_budget_mb that is neither
\* a number nor "auto" is), then interpolation.
LoadFault(c, env) ==
  FirstFault(<<Unless(c.file # "missing", "ReadFailed"), Unless(c.file # "garbled", "ParseFailed"),
               InterpolateFault(c, env)>>)

\* apply_cli_overrides, for the host: the port and the log level decide nothing.
Override(c, host) == IF host = {} THEN c ELSE [c EXCEPT !.host = The(host)]
-----------------------------------------------------------------------------
(* One model, one rule, one route.                                         *)

\* Where a cloud model is reached; the providers' defaults are all alike.
UpstreamUrl(m) ==
  IF m.url = {} THEN [text |-> "set", scheme |-> "https", host |-> "public"] ELSE The(m.url)

\* validate_upstream_url.
UpstreamFault(m, plaintext) ==
  LET u == UpstreamUrl(m)
  IN  FirstFault(<<Unless(u.scheme \in {"http", "https"}, "InvalidBaseUrl"),
                   Unless(u.scheme = "https" \/ plaintext, "PlaintextUpstreamForbidden"),
                   Unless(u.host # "none", "InvalidBaseUrl"),
                   Unless(u.host # "private" \/ plaintext, "PlaintextUpstreamForbidden")>>)

HfFieldsFault(m) == Unless(m.repo = {} /\ m.adapters = <<>>, "HfFieldOnNonHfBackend")

ExactlyOne(path, repo, both, neither) ==
  FirstFault(<<Unless(path = {} \/ repo = {}, both), Unless(path # {} \/ repo # {}, neither)>>)

\* Lines 645-713 of validate, the arm of the model's backend.
BackendFault(m, plaintext) ==
  CASE m.backend = "local" ->
         FirstFault(<<HfFieldsFault(m), Unless(m.path # {}, "LocalBackendNeedsPath"),
                      Unless(m.path = {"file"}, "ModelPathMissing")>>)
    [] m.backend \in CloudKinds ->
         FirstFault(<<HfFieldsFault(m), Unless(m.path = {}, "PathOnCloudBackend"),
                      Unless(m.key \notin {{}, {"blank"}}, "CloudBackendNeedsApiKey"),
                      UpstreamFault(m, plaintext)>>)
    [] m.backend = "hf" ->
         FirstFault(<<ExactlyOne(m.path, m.repo, "HfBackendPathAndRepoExclusive", "HfBackendNeedsPathOrRepo")>>
                    \o [i \in DOMAIN m.adapters |->
                          ExactlyOne(m.adapters[i].path, m.adapters[i].repo,
                                     "HfAdapterPathAndRepoExclusive", "HfAdapterNeedsPathOrRepo")])

ModelIds(c) == {c.models[i].id : i \in DOMAIN c.models}
RouteIds(c) == {c.routes[k].id : k \in DOMAIN c.routes}

RuleFault(c, rule) ==
  LET targetFault(t) == FirstFault(<<Unless(t \notin RouteIds(c), "RouteTargetsRoute"),
                                     Unless(t \in ModelIds(c), "RouteTargetUnknown")>>)
  IN  FirstFault(<<Unless(rule.targets # <<>>, "RuleNoTargets"),
                   FirstFault([t \in DOMAIN rule.targets |-> targetFault(rule.targets[t])]),
                   Unless("bad_regex" \notin rule.matchers, "InvalidRegex")>>)

RouteFault(c, k) ==
  LET r == c.routes[k]
  IN  FirstFault(<<Unless(r.id # "", "RouteEmptyId"),
                   Unless(\A j \in 1 .. (k - 1) : c.routes[j].id # r.id, "DuplicateRouteId"),
                   Unless(r.id \notin ModelIds(c), "RouteIdCollision"),
                   Unless(r.rules # <<>>, "RouteNoRules"),
                   FirstFault([j \in DOMAIN r.rules |-> RuleFault(c, r.rules[j])]),
                   Unless(\E j \in DOMAIN r.rules : MatchesAll(r.rules[j]), "RouteNoCatchAll")>>)

\* Scheduling fields are for local models, and name a device once.
PlacementFault(m) ==
  LET local == m.backend = "local"
  IN  FirstFault(<<Unless(m.lazy => local, "LazyOnlyForLocal"),
                   Unless(m.vram # {} => local, "VramMbOnlyForLocal"),
                   Unless(m.pin => local, "PinOnlyForLocal"),
                   Unless(m.gpus # <<>> => local, "GpuIdOnCloudBackend"),
                   Unless(IsInjective(m.gpus), "GpuIdDuplicated")>>)

ServerFault(c) ==
  FirstFault(<<FirstFault([i \in DOMAIN c.origins |-> Unless(c.origins[i] = "url", "InvalidCorsOrigin")]),
               Unless(c.metrics.bind # {"garbled"}, "InvalidMetricsBind")>>)

\* The checks before any device is asked.
StaticFault(c) ==
  LET M == c.models
  IN  FirstFault(<<
        Unless(M # <<>>, "NoModelsConfigured"),
        Unless("" \notin ModelIds(c), "EmptyModelId"),
        Unless(Cardinality(ModelIds(c)) = Len(M), "DuplicateModelId"),
        FirstFault([i \in DOMAIN M |-> BackendFault(M[i], c.plaintext)]),
        FirstFault([k \in DOMAIN c.routes |-> RouteFault(c, k)]),
        ServerFault(c),
        FirstFault([i \in DOMAIN M |-> PlacementFault(M[i])])>>)
-----------------------------------------------------------------------------
(* Budgets and what startup is going to reserve.                           *)

\* One more than the greatest device named, a u32 that wraps around in a
\* release build.
DeclaredDevices(c) ==
  LET named == UNION {Range(c.models[i].gpus) : i \in DOMAIN c.models}
  IN  IF named = {} THEN 1 ELSE (Max(named) + 1) % U32

\* resolve_vram_budgets, where found are the totals of the devices detected, <<>>
\* when the driver fails or knows none.  Device g has the budget at g + 1.
BudgetsFault(c, found) ==
  LET count == IF c.budget.auto THEN Len(found) ELSE DeclaredDevices(c)
  IN  FirstFault(<<Unless(c.budget.auto => found # <<>>, "VramAutoDetectFailed"),
                   Unless(c.budget.auto => \A n \in Range(found) : n > c.headroom, "VramAutoDetectInsufficient"),
                   Unless(\A g \in DOMAIN c.overrides : g < count, "VramOverrideUnknownGpu")>>)

Budgets(c, found) ==
  LET start == IF c.budget.auto THEN [i \in DOMAIN found |-> found[i] - c.headroom]
                                ELSE [i \in 1 .. DeclaredDevices(c) |-> c.budget.mb]
  IN  [i \in DOMAIN start |-> IF (i - 1) \in DOMAIN c.overrides THEN c.overrides[i - 1] ELSE start[i]]

\* estimate_vram_mb: the override, or 1.2 times the file.
Estimate(m) == IF m.vram # {} THEN The(m.vram) ELSE (m.size * 6) \div 5

\* from_gpus and per_device_cost: what m costs on device g, nothing while its
\* placement is automatic.
CostOn(m, g) ==
  LET n    == Len(m.gpus)
      base == Estimate(m) \div n
  IN  IF g \notin Range(m.gpus) THEN 0
      ELSE IF g = m.gpus[1] THEN Estimate(m) - base * (n - 1) ELSE base

Eager(m)  == m.backend = "local" /\ ~m.lazy
PinnedLocal(m) == m.backend = "local" /\ m.pin

\* The megabytes of a model are counted as elements of a set, so that the total of
\* several models is the size of a union.
Megabytes(id, mb) == {id} \X (1 .. mb)

\* What the models that count need of device g.
Need(c, counted, g) ==
  Cardinality(UNION {Megabytes(c.models[k].id, CostOn(c.models[k], g)) : k \in counted})

\* Some device's budget is smaller than that.
Overflow(c, budgets, counted) ==
  \E i \in DOMAIN budgets : budgets[i] > 0 /\ Need(c, counted, i - 1) > budgets[i]

EagerOnes(c)  == {k \in DOMAIN c.models : Eager(c.models[k])}
PinnedOnes(c) == {k \in DOMAIN c.models : PinnedLocal(c.models[k])}

\* Eager models are only checked one by one, when they load.
FitFault_NoEagerTotal(c, budgets) ==
  FirstFault(<<
    Unless(\A i \in DOMAIN c.models : \A g \in Range(c.models[i].gpus) : g < Len(budgets), "GpuIdExceedsDetected"),
    Unless(~Overflow(c, budgets, PinnedOnes(c)), "PinnedExceedsBudget")>>)

\* The rest of validate, given the budgets it resolved.
FitFault(c, budgets) ==
  FirstFault(<<
    Unless(\A i \in DOMAIN c.models : \A g \in Range(c.models[i].gpus) : g < Len(budgets), "GpuIdExceedsDetected"),
    Unless(~Overflow(c, budgets, EagerOnes(c)), "EagerLoadsExceedBudget"),
    Unless(~Overflow(c, budgets, PinnedOnes(c)), "PinnedExceedsBudget")>>)

\* FlarionConfig::validate.
ValidateFault(c, found) ==
  IF StaticFault(c) # "ok"              THEN StaticFault(c)
  ELSE IF BudgetsFault(c, found) # "ok" THEN BudgetsFault(c, found)
  ELSE FitFault(c, Budgets(c, found))

\* validate clamps before it checks.
Clamped(c) == [c EXCEPT !.grace = IF @ > 3600 THEN 3600 ELSE @]

BindsLoopback(c) == c.host = "loopback"

\* validate_security_posture: a public bind needs a key or the operator's word.
PostureFault(c) ==
  Unless(c.keys # <<>> \/ c.allowOpen \/ BindsLoopback(c), "PublicBindRequiresAuth")
=============================================================================
