----------------------------- MODULE MCStartup -----------------------------
(***************************************************************************)
(* A good file, files that differ from it in one or two places, and files  *)
(* whose models compete for the budgets of two devices.                    *)
(***************************************************************************)
EXTENDS Startup, TLC

Local(id) == [DefaultModel EXCEPT !.id = id, !.path = {"file"}, !.size = 5]
CloudOf(id, kind) == [DefaultModel EXCEPT !.id = id, !.backend = kind, !.key = {"set"}]
Hf(id) == [DefaultModel EXCEPT !.id = id, !.backend = "hf", !.repo = {"repo"}]
Url(scheme, host) == [text |-> "set", scheme |-> scheme, host |-> host]

On(m, gpus) == [m EXCEPT !.gpus = gpus]
LazyOf(m) == [m EXCEPT !.lazy = TRUE]
PinnedOf(m) == [m EXCEPT !.pin = TRUE]

Rule(matchers, targets) == [matchers |-> matchers, targets |-> targets]
Route(id, rules) == [id |-> id, rules |-> rules]

A == On(Local("a"), <<0>>)
B == LazyOf(On(Local("b"), <<1, 0>>))
C == CloudOf("c", "openai")
R == Route("r", <<Rule({"stream"}, <<"c">>), Rule({}, <<"a", "c">>)>>)

Good ==
  [DefaultConfig EXCEPT !.host = "loopback", !.models = <<A, B, C>>, !.routes = <<R>>,
                        !.budget = [auto |-> FALSE, mb |-> 7], !.overrides = (1 :> 4)]

Auto(c) == [c EXCEPT !.budget = [auto |-> TRUE, mb |-> 0], !.overrides = <<>>]

WithModels(c, models) == [c EXCEPT !.models = models]
WithRule(rule) == [Good EXCEPT !.routes = <<Route("r", <<rule>>)>>]

\* The faults of a model.
OddModels ==
  {[C EXCEPT !.id = ""], [C EXCEPT !.id = "a"], [C EXCEPT !.key = {}], [C EXCEPT !.key = {"blank"}],
   [C EXCEPT !.key = {"malformed"}], [C EXCEPT !.key = {"ref"}], [C EXCEPT !.path = {"file"}], [C EXCEPT !.lazy = TRUE],
   [C EXCEPT !.pin = TRUE], [C EXCEPT !.vram = {3}], [C EXCEPT !.gpus = <<0>>], [C EXCEPT !.repo = {"repo"}],
   [C EXCEPT !.url = {Url("http", "public")}], [C EXCEPT !.url = {Url("https", "private")}],
   [C EXCEPT !.url = {Url("https", "none")}], [C EXCEPT !.url = {Url("ftp", "public")}],
   [Local("c") EXCEPT !.path = {}], [Local("c") EXCEPT !.path = {"missing"}],
   On(Local("c"), <<1, 1>>), On(Local("c"), <<U32 - 1>>), On(Local("c"), <<1>>), PinnedOf(LazyOf(On(Local("c"), <<0>>))),
   Hf("c"), [Hf("c") EXCEPT !.path = {"file"}], [Hf("c") EXCEPT !.repo = {}],
   [Hf("c") EXCEPT !.adapters = <<[path |-> {}, repo |-> {}]>>]}

OddRoutes ==
  {<<Route("", R.rules)>>, <<R, R>>, <<Route("a", R.rules)>>, <<Route("r", <<>>)>>,
   <<R, Route("q", <<Rule({}, <<"r">>)>>)>>}

OddRules ==
  {Rule({}, <<>>), Rule({}, <<"nobody">>), Rule({"stream"}, <<"a">>), Rule({"bad_regex"}, <<"a">>)}

OddServers ==
  {[Good EXCEPT !.file = "missing"], [Good EXCEPT !.file = "garbled"], [Good EXCEPT !.models = <<>>],
   [Good EXCEPT !.origins = <<"url", "garbled">>], [Good EXCEPT !.overrides = (5 :> 1)],
   [Good EXCEPT !.metrics = [enabled |-> TRUE, bind |-> {"garbled"}]],
   [Good EXCEPT !.metrics = [enabled |-> TRUE, bind |-> {}], !.keys = <<"ref">>, !.grace = 4000],
   [Good EXCEPT !.metrics = [enabled |-> TRUE, bind |-> {"address"}], !.keys = <<"set">>],
   [Good EXCEPT !.keys = <<"malformed">>],
   [Good EXCEPT !.host = "public"], [Good EXCEPT !.host = "public", !.allowOpen = TRUE],
   [Good EXCEPT !.plaintext = TRUE, !.models = <<A, [C EXCEPT !.url = {Url("http", "private")}]>>],
   Auto(Good)}

\* Budgets that hold one model each: the order of the file decides.
Tight ==
  {WithModels([Good EXCEPT !.routes = <<>>, !.overrides = <<>>], models) :
     models \in {<<On(Local("a"), <<0>>), Local("b")>>, <<Local("b"), On(Local("a"), <<0>>)>>,
                 <<Local("a"), On(Local("b"), <<1>>)>>, <<On(Local("a"), <<0, 1>>), Local("b")>>,
                 <<LazyOf(PinnedOf(On(Local("a"), <<0>>))), LazyOf(PinnedOf(On(Local("b"), <<0>>)))>>}}
  \cup {Auto(WithModels(Good, <<A, On(Local("b"), <<1>>), C>>))}

MCConfigs ==
  {Good} \cup OddServers \cup Tight
  \cup {WithModels(Good, <<A, B, m>>) : m \in OddModels}
  \cup {[Good EXCEPT !.routes = rs] : rs \in OddRoutes}
  \cup {WithRule(rule) : rule \in OddRules}

MCHostFlags == {{}, {"public"}}
MCDetections == {<<>>, <<9, 9>>, <<9>>, <<9, 2>>}
=============================================================================
