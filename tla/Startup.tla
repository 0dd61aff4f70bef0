------------------------------ MODULE Startup ------------------------------
(***************************************************************************)
(* The life of the server process (src/cli/commands/serve.rs): the         *)
(* configuration is loaded and validated, models are loaded one after      *)
(* another, routes compiled, the evictor bound, the listeners bound; then  *)
(* connections are served until a signal, waited for, and the backends     *)
(* drained.  Up to the listeners it is one task without concurrency, but   *)
(* every step may fail and ends the process.  What lazy models do while    *)
(* serving is ModelLifecycle's.                                            *)
(***************************************************************************)
EXTENDS Config

CONSTANTS
  Configs,      \* the files the server may be started with
  Envs,         \* values of the environment variable: "set", "blank", "unset"
  HostFlags,    \* values of --host: {} when it is not given
  Detections,   \* what the driver may answer: totals of the devices, <<>> = failure
  LoadMayFail,  \* ids of the models whose file, load or HTTP client may fail
  Clients       \* connections made while serving

ASSUME StartupAssumption ==
  /\ IsFiniteSet(Clients)
  /\ \A c \in Configs : IsConfig(c)
  /\ Detections \subseteq Seq(Nat)
  /\ Envs \subseteq {"set", "blank", "unset"}
  /\ HostFlags \subseteq {{}, {"loopback"}, {"public"}}

VARIABLES
  config,     \* the configuration in force
  phase,      \* how far the process is
  found,      \* the answers of the driver: at validation, at startup
  reserved,   \* <<device, model, MB>> of the reservations
  registry,   \* registry[id]: "lazy", "loaded", "cloud" or "route"
  bound,      \* backends that have the evictor
  listening,  \* listeners that are bound: "main", "metrics"
  conn,       \* conn[k]: a connection, with the path, the key and the model asked for
  work,       \* clients whose generation a worker has not finished
  stopping,   \* the signal has come
  drained,    \* backends shut down
  exit        \* "none", "ok" or why the process ended

startupVars ==
  <<config, phase, found, reserved, registry, bound, listening, conn, work, stopping, drained, exit>>

NoConn == [state |-> "none", path |-> "", keyed |-> FALSE, id |-> ""]

StartupInit ==
  /\ config \in Configs
  /\ phase = "read"
  /\ found = <<>>
  /\ reserved = {}
  /\ registry = <<>>
  /\ bound = {}
  /\ listening = {}
  /\ conn = [k \in Clients |-> NoConn]
  /\ work = {}
  /\ stopping = FALSE
  /\ drained = {}
  /\ exit = "none"

Phase(from, to) == phase = from /\ phase' = to /\ UNCHANGED exit

Abort(from, error) == phase = from /\ phase' = "over" /\ exit' = error

\* The step goes on to another phase, or ends the process with the fault.
Pass(from, to, fault) == IF fault = "ok" THEN Phase(from, to) ELSE Abort(from, fault)

serving == <<conn, work, stopping, drained>>
-----------------------------------------------------------------------------
(* Until the listeners are bound.                                          *)

ReadConfig ==
  /\ \E env \in Envs, host \in HostFlags :
       /\ Pass("read", "check", LoadFault(config, env))
       /\ config' = IF LoadFault(config, env) = "ok" THEN Override(Interpolate(config, env), host) ELSE config
  /\ UNCHANGED <<found, reserved, registry, bound, listening, serving>>

Asked == IF config.budget.auto THEN Detections ELSE {<<>>}

\* metrics::install is called for enabled metrics only.
Exporters == IF config.metrics.enabled THEN BOOLEAN ELSE {TRUE}

Check ==
  /\ \E answer \in Asked, installed \in Exporters :
       /\ Pass("check", "budget",
               FirstFault(<<ValidateFault(config, answer), PostureFault(config), Unless(installed, "InstallFailed")>>))
       /\ found' = <<answer>>
  /\ config' = Clamped(config)
  /\ UNCHANGED <<reserved, registry, bound, listening, serving>>

\* The devices are asked again.
ResolveBudgets ==
  /\ \E answer \in Asked :
       /\ Pass("budget", "load", BudgetsFault(config, answer))
       /\ found' = Append(found, answer)
  /\ UNCHANGED <<config, reserved, registry, bound, listening, serving>>

BudgetOf == Budgets(config, found[2])

Devices == 0 .. (Len(BudgetOf) - 1)

Used(g) == Cardinality(UNION {Megabytes(r[2], r[3]) : r \in {x \in reserved : x[1] = g}})

FreeOn(g) == IF Used(g) > BudgetOf[g + 1] THEN 0 ELSE BudgetOf[g + 1] - Used(g)

\* Scheduler::pick_most_free_device; the greatest index wins a tie.
MostFree == CHOOSE g \in Devices : \A h \in Devices : FreeOn(h) < FreeOn(g) \/ (FreeOn(h) = FreeOn(g) /\ h <= g)

\* What loading m now reserves: <<device, model, MB>> for every device of its placement.
Claims(m) ==
  IF m.gpus = <<>> THEN {<<MostFree, m.id, Estimate(m)>>} ELSE {<<g, m.id, CostOn(m, g)>> : g \in Range(m.gpus)}

\* try_reserve_with_eviction while no evictor is bound.
Fits(claim) ==
  LET budget == BudgetOf[claim[1] + 1] IN budget = 0 \/ Used(claim[1]) + claim[3] <= budget

ReserveFault(m) ==
  FirstFault(<<Unless(\A claim \in Claims(m) : claim[1] \in Devices, "InferenceFailed"),
               Unless(\A claim \in Claims(m) : claim[1] \in Devices => Fits(claim), "ModelUnavailable")>>)

Recorded(claims) == {claim \in claims : BudgetOf[claim[1] + 1] > 0}

\* The models are loaded in the order of the file, which validation has made
\* free of duplicates.
Loaded == Cardinality(DOMAIN registry)

Register(id, kind) == registry' = [x \in DOMAIN registry \cup {id} |-> IF x = id THEN kind ELSE registry[x]]

\* Whether or not the binary has the feature.
HfLoadFault == "NotImplemented"

\* load_backend: cloud backends get an HTTP client, and like lazy models are only
\* registered.
LoadBackend(m) ==
  \/ /\ m.id \in LoadMayFail
     /\ m.backend \in CloudKinds \/ (m.backend = "local" /\ (m.lazy => m.vram = {}))
     /\ Abort("load", IF m.lazy THEN "VramEstimateFailed" ELSE "ModelLoadFailed")
     /\ UNCHANGED <<registry, reserved>>
  \/ /\ m.backend = "hf"
     /\ Abort("load", HfLoadFault)
     /\ UNCHANGED <<registry, reserved>>
  \/ /\ m.backend \in CloudKinds \/ (m.backend = "local" /\ m.lazy)
     /\ Register(m.id, IF m.lazy THEN "lazy" ELSE "cloud")
     /\ UNCHANGED <<phase, exit, reserved>>
  \/ /\ Eager(m)
     /\ ReserveFault(m) # "ok"
     /\ Abort("load", ReserveFault(m))
     /\ UNCHANGED <<registry, reserved>>
  \/ /\ Eager(m)
     /\ ReserveFault(m) = "ok"
     /\ reserved' = reserved \cup Recorded(Claims(m))
     /\ Register(m.id, "loaded")
     /\ UNCHANGED <<phase, exit>>

LoadModel ==
  /\ phase = "load"
  /\ Loaded < Len(config.models)
  /\ LoadBackend(config.models[Loaded + 1])
  /\ UNCHANGED <<config, found, bound, listening, serving>>

\* compile_route: every pattern compiles, every target is in the registry by now.
Compiles(r) ==
  \A rule \in Range(r.rules) : "bad_regex" \notin rule.matchers /\ Range(rule.targets) \subseteq DOMAIN registry

CompileRoute ==
  /\ phase = "load"
  /\ Loaded \in Len(config.models) .. (Len(config.models) + Len(config.routes) - 1)
  /\ LET r == config.routes[Loaded - Len(config.models) + 1]
     IN  IF Compiles(r) THEN Register(r.id, "route") /\ UNCHANGED <<phase, exit>>
                        ELSE Abort("load", "RouteCompileFailed") /\ UNCHANGED registry
  /\ UNCHANGED <<config, found, reserved, bound, listening, serving>>

\* The evictor goes to the models that are loaded.
BindEvictor_Loaded ==
  /\ Phase("load", "listen")
  /\ Loaded = Len(config.models) + Len(config.routes)
  /\ bound' = {id \in DOMAIN registry : registry[id] = "loaded"}
  /\ UNCHANGED <<config, found, reserved, registry, listening, serving>>

BindEvictor ==
  /\ Phase("load", "listen")
  /\ Loaded = Len(config.models) + Len(config.routes)
  /\ bound' = DOMAIN registry
  /\ UNCHANGED <<config, found, reserved, registry, listening, serving>>

OwnMetricsListener == config.metrics.enabled /\ config.metrics.bind # {}

\* The main listener, then the one of the metrics if they have their own.
Listen ==
  /\ \/ /\ Abort("listen", "AddrInUse")
        /\ UNCHANGED listening
     \/ /\ IF listening = {} /\ OwnMetricsListener THEN phase = "listen" /\ UNCHANGED <<phase, exit>>
                                                   ELSE Phase("listen", "serving")
        /\ listening' = listening \cup {IF listening = {} THEN "main" ELSE "metrics"}
  /\ UNCHANGED <<config, found, reserved, registry, bound, serving>>
-----------------------------------------------------------------------------
(* Serving.                                                                *)

fixed == <<config, found, reserved, bound, listening>>

\* The metrics are open wherever they are.
Admitted_OpenMetrics(path, keyed) ==
  \/ config.keys = <<>>
  \/ path \in {"/health", "/metrics"}
  \/ keyed

\* auth_middleware; the listener of the metrics has none.
Admitted(path, keyed) ==
  \/ config.keys = <<>>
  \/ path = "/health"
  \/ keyed
  \/ path = "/metrics" /\ OwnMetricsListener

\* Of the admin router, the feed, which has no end of its own.
AdminPaths == {"feed"}

\* Of the API, a short answer, a chat with a local model and the metrics, here or
\* at their own listener.
Paths == {"/health", "chat"} \cup AdminPaths \cup (IF config.metrics.enabled THEN {"/metrics"} ELSE {})

Locals == {config.models[i].id : i \in {j \in DOMAIN config.models : config.models[j].backend = "local"}}

\* A request comes and is answered at once, refused, or stays open.
Connect(k) ==
  /\ phase = "serving"
  /\ ~stopping
  /\ conn[k].state = "none"
  /\ \E path \in Paths, keyed \in BOOLEAN :
       IF path = "chat" /\ Admitted(path, keyed)
       THEN \E id \in Locals :
              /\ conn' = [conn EXCEPT ![k] = [state |-> "waiting", path |-> path, keyed |-> keyed, id |-> id]]
              /\ work' = work \cup {k}
              /\ registry' = [registry EXCEPT ![id] = "loaded"]
       ELSE /\ conn' = [conn EXCEPT ![k] =
                          [state |-> IF ~Admitted(path, keyed) THEN "refused" ELSE IF path = "feed" THEN "open" ELSE "served",
                           path |-> path, keyed |-> keyed, id |-> ""]]
            /\ UNCHANGED <<work, registry>>
  /\ UNCHANGED <<fixed, phase, stopping, drained, exit>>

\* A worker whose client has left waits for it.
GenerationEnds_Awaited(k) ==
  /\ k \in work
  /\ conn[k].state = "waiting"
  /\ work' = work \ {k}
  /\ conn' = [conn EXCEPT ![k].state = "served"]
  /\ UNCHANGED <<fixed, phase, registry, stopping, drained, exit>>

\* A worker finishes a generation, whether or not anybody waits for it.
GenerationEnds(k) ==
  /\ k \in work
  /\ work' = work \ {k}
  /\ conn' = [conn EXCEPT ![k].state = IF @ = "waiting" THEN "served" ELSE @]
  /\ UNCHANGED <<fixed, phase, registry, stopping, drained, exit>>

\* The client leaves, or the 300 seconds of the timeout layer for the head of a
\* response are over; the generation goes on.  A feed has sent its head at once.
Leave(k) ==
  /\ conn[k].state \in {"waiting", "open"}
  /\ conn' = [conn EXCEPT ![k].state = "left"]
  /\ UNCHANGED <<fixed, phase, registry, work, stopping, drained, exit>>

Signal ==
  /\ phase = "serving"
  /\ ~stopping
  /\ stopping' = TRUE
  /\ UNCHANGED <<fixed, phase, registry, conn, work, drained, exit>>

\* with_graceful_shutdown returns when no connection is left.
ConnectionsDone ==
  /\ stopping
  /\ \A k \in Clients : conn[k].state \notin {"waiting", "open"}
  /\ Phase("serving", "draining")
  /\ UNCHANGED <<fixed, registry, serving>>

\* shutdown of one backend, in the order of a hash map.  For a loaded model the
\* grace of two seconds is for the acknowledgement; its thread is joined without
\* one, behind the generation it may be at.
Drain(id) ==
  /\ phase = "draining"
  /\ id \in DOMAIN registry \ drained
  /\ \A k \in work : conn[k].id # id
  /\ drained' = drained \cup {id}
  /\ UNCHANGED <<fixed, phase, exit, registry, conn, work, stopping>>

Exit ==
  /\ drained = DOMAIN registry
  /\ Abort("draining", "ok")
  /\ UNCHANGED <<fixed, registry, serving>>
-----------------------------------------------------------------------------
StartupStep ==
  ReadConfig \/ Check \/ ResolveBudgets \/ LoadModel \/ CompileRoute \/ BindEvictor \/ Listen

Ids == UNION {ModelIds(c) \cup RouteIds(c) : c \in Configs}

DrainStep == ConnectionsDone \/ (\E id \in Ids : Drain(id)) \/ Exit

ClientStep(k) == Connect(k) \/ GenerationEnds(k) \/ Leave(k)

StartupNext == StartupStep \/ DrainStep \/ Signal \/ \E k \in Clients : ClientStep(k)

StartupSpec == StartupInit /\ [][StartupNext]_startupVars

\* Shutdown goes on; generations have a token limit; who is connected leaves some
\* day, which for a feed is up to the client alone.
StartupFairSpec ==
  /\ StartupSpec
  /\ WF_startupVars(DrainStep)
  /\ \A k \in Clients : WF_startupVars(GenerationEnds(k)) /\ WF_startupVars(Leave(k))
-----------------------------------------------------------------------------
\* What validation promises the rest of startup: "compile errors below are
\* unexpected", eager models with devices of their own fit together, and only
\* models placed automatically or a driver that answers differently the second
\* time can still exceed a budget.
ValidatedConfigStarts ==
  /\ exit # "RouteCompileFailed"
  /\ exit \in {"ModelUnavailable", "InferenceFailed"} =>
       \/ found[1] # found[2]
       \/ \E i \in DOMAIN config.models : Eager(config.models[i]) /\ config.models[i].gpus = <<>>

\* Every eager model is loaded within the budgets, every route leads to models and
\* every backend can evict.
Ready ==
  /\ \A i \in DOMAIN config.models : LET m == config.models[i] IN
       /\ m.id \in DOMAIN registry
       /\ Eager(m) => registry[m.id] = "loaded"
  /\ \A k \in DOMAIN config.routes : \A rule \in Range(config.routes[k].rules) :
       \A t \in Range(rule.targets) : t \in DOMAIN registry /\ registry[t] # "route"
  /\ bound = DOMAIN registry
  /\ \A g \in Devices : BudgetOf[g + 1] > 0 => Used(g) <= BudgetOf[g + 1]

\* Nothing is listening before all is ready: from then on a model that needs room
\* may take it, before that it may not.
ReadyBeforeListening == listening # {} => Ready

\* On a public interface a request without a key reaches a handler only when the
\* operator allowed it, at /health, or at the listener of the metrics.
PublicNeedsKey ==
  \A k \in Clients :
    config.host = "public" /\ conn[k].state \notin {"none", "refused"} /\ ~conn[k].keyed =>
      config.allowOpen \/ conn[k].path = "/health" \/ (conn[k].path = "/metrics" /\ "metrics" \in listening)

\* After the signal every generation is waited for, every backend is shut down
\* and the process ends, once the clients of its feeds have gone.
SignalEnds == stopping ~> (exit = "ok" /\ work = {})
=============================================================================
