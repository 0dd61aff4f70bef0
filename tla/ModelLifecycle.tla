--------------------------- MODULE ModelLifecycle ---------------------------
(***************************************************************************)
(* How local models are loaded, used, evicted, unloaded and shut down:     *)
(* LlamaBackend (src/engine/llama/mod.rs), the coordinator shared by all   *)
(* backends, and the registry as their Evictor, over the reservations of   *)
(* ResidentSet.                                                            *)
(*                                                                         *)
(* A task is one async call running to its end: a chat request, a load     *)
(* with no request behind it, an unload or a shutdown.  An action is what  *)
(* a task does between two points where others can interleave: an await, a *)
(* mutex, an atomic.  Each model has one worker thread at a time, which is *)
(* seen here only by the devices it occupies; Notify is modelled with the  *)
(* window between cloning it and subscribing to it.                        *)
(***************************************************************************)
EXTENDS ResidentSet, FiniteSetsExt

CONSTANTS
  Requests,     \* tasks running chat_completion or chat_completion_stream
  Loaders,      \* tasks running load() for the admin API
  Unloaders,    \* tasks running unload() for the admin API
  Drainers,     \* tasks running shutdown() for the server's exit
  Cancellable,  \* tasks whose future a disconnecting client may drop
  LoadMayFail,  \* models whose file may fail to load
  MayPanic,     \* models whose inference may panic
  NoTask, NoModel

Callers == Requests \cup Loaders
Tasks   == Callers \cup Unloaders \cup Drainers

ASSUME LifecycleAssumption ==
  /\ NoTask \notin Tasks
  /\ NoModel \notin Models
  /\ Requests \cap (Loaders \cup Unloaders \cup Drainers) = {}
  /\ Loaders \cap (Unloaders \cup Drainers) = {}
  /\ Unloaders \cap Drainers = {}
  /\ IsFiniteSet(Tasks)
  /\ Tasks \cap Models = {}
  /\ Cancellable \subseteq Tasks
  /\ LoadMayFail \subseteq Models
  /\ MayPanic \subseteq Models

VARIABLES
  loadState,    \* loadState[m]: "Unloaded", "Loading" or "Loaded"
  notify,       \* notify[m]: the task that will notify the Notify in Loading
  placement,    \* placement[m]: devices once resolved, <<>> while Auto
  loadedOn,     \* loadedOn[m]: devices of the worker owned by Loaded
  inFlight,     \* inFlight[m]: InFlightGuards alive
  lastUsed,     \* lastUsed[m]: rank of last_used_ms among the models, 0 = never
  poisoned,     \* models whose worker panicked
  draining,     \* models being shut down
  coordinator,  \* the task holding load_coordinator, or NoTask
  task          \* task[t]: what t is doing

model == <<loadState, notify, placement, loadedOn, inFlight, lastUsed, poisoned, draining>>
vars  == <<reserved, model, coordinator, task>>

IdleTask ==
  [pc      |-> "idle",
   model   |-> NoModel,  \* the model of this call
   devs    |-> <<>>,     \* devices still to reserve or to release
   held    |-> <<>>,     \* devices reserved so far, or those of the worker at hand
   victims |-> <<>>,     \* models still to evict
   evicted |-> FALSE,    \* any_evicted
   awaits  |-> NoTask]   \* who will notify the Notify this task cloned

LCInit ==
  /\ RSInit
  /\ loadState = [m \in Models |-> "Unloaded"]
  /\ notify    = [m \in Models |-> NoTask]
  /\ placement = GpusOf
  /\ loadedOn  = [m \in Models |-> <<>>]
  /\ inFlight  = [m \in Models |-> 0]
  /\ lastUsed  = [m \in Models |-> 0]
  /\ poisoned  = {}
  /\ draining  = {}
  /\ coordinator = NoTask
  /\ task = [t \in Tasks |-> IdleTask]
-----------------------------------------------------------------------------
At(t, l) == task[t].pc = l

Become(t, r) == task' = [task EXCEPT ![t] = r]

Goto(t, l) == Become(t, [task[t] EXCEPT !.pc = l])

Return(t) == Become(t, IdleTask)

\* touch_last_used: now is later than any other use, or in the same
\* millisecond as the latest.  Only the order of times matters, so they are
\* renumbered from one.
Touch(m) ==
  LET latest == Max(Range(lastUsed))
      Ranked(used) ==
        [k \in Models |-> Cardinality({used[j] : j \in {j \in Models : 0 < used[j] /\ used[j] <= used[k]}})]
  IN  \E now \in {latest, latest + 1} :
        /\ now > 0
        /\ lastUsed' = Ranked([lastUsed EXCEPT ![m] = now])

\* A task that cloned the Notify before notify_waiters and subscribes after it
\* has missed the only wakeup there will be.
Notified(u, t) ==
  IF task[u].awaits # t THEN task[u]
  ELSE IF At(u, "waiting") THEN [task[u] EXCEPT !.pc = "lookup", !.awaits = NoTask]
       ELSE [task[u] EXCEPT !.awaits = NoTask]

\* Nobody is woken.
NotifyAll_Nobody(t, r) == Become(t, r)

\* Notify::notify_waiters by t, which goes on as r.
NotifyAll(t, r) == task' = [u \in Tasks |-> IF u = t THEN r ELSE Notified(u, t)]

\* A Notify whose leader is gone is never notified.
Orphaned(t, r) ==
  task' = [u \in Tasks |-> IF u = t THEN r
                           ELSE IF task[u].awaits = t THEN [task[u] EXCEPT !.awaits = NoTask]
                                ELSE task[u]]

\* A guard is forgotten, or dropped by those who never took one.
DropGuard_Never(t) == UNCHANGED inFlight
DropGuard_Always(t) ==
  inFlight' = IF task[t].model \in Models THEN [inFlight EXCEPT ![task[t].model] = @ - 1] ELSE inFlight

DropGuard(t) ==
  inFlight' = IF t \in Requests THEN [inFlight EXCEPT ![task[t].model] = @ - 1] ELSE inFlight
-----------------------------------------------------------------------------
(* ensure_loaded and ensure_loaded_for_request                             *)

\* Flags are read once, before the loop.
Begin(t) ==
  /\ t \in Callers
  /\ At(t, "idle")
  /\ \E m \in Models \ (poisoned \cup draining) :
       Become(t, [IdleTask EXCEPT !.pc = "lookup", !.model = m])
  /\ UNCHANGED <<reserved, model, coordinator>>

\* A request takes its guard under the state lock, a plain load just returns.
FoundLoaded(t) ==
  LET m == task[t].model IN
  /\ At(t, "lookup")
  /\ loadState[m] = "Loaded"
  /\ IF t \in Requests
     THEN /\ inFlight' = [inFlight EXCEPT ![m] = @ + 1]
          /\ Touch(m)
          /\ Goto(t, "guarded")
     ELSE Return(t) /\ UNCHANGED <<inFlight, lastUsed>>
  /\ UNCHANGED <<reserved, loadState, notify, placement, loadedOn, poisoned, draining, coordinator>>

FoundLoading(t) ==
  /\ At(t, "lookup")
  /\ loadState[task[t].model] = "Loading"
  /\ Become(t, [task[t] EXCEPT !.pc = "cloned", !.awaits = notify[task[t].model]])
  /\ UNCHANGED <<reserved, model, coordinator>>

\* The state lock is gone before notified() registers the waiter.
Subscribe(t) ==
  /\ At(t, "cloned")
  /\ Goto(t, "waiting")
  /\ UNCHANGED <<reserved, model, coordinator>>

\* The state stays Unloaded until the load is over.
BecomeLeader_Silently(t) ==
  /\ At(t, "lookup")
  /\ loadState[task[t].model] = "Unloaded"
  /\ Goto(t, IF t \in Requests THEN "sentinel" ELSE "queued")
  /\ UNCHANGED <<reserved, model, coordinator>>

BecomeLeader(t) ==
  LET m == task[t].model IN
  /\ At(t, "lookup")
  /\ loadState[m] = "Unloaded"
  /\ loadState' = [loadState EXCEPT ![m] = "Loading"]
  /\ notify' = [notify EXCEPT ![m] = t]
  /\ Goto(t, IF t \in Requests THEN "sentinel" ELSE "queued")
  /\ UNCHANGED <<reserved, placement, loadedOn, inFlight, lastUsed, poisoned, draining, coordinator>>

\* load_as_leader_for_request: the guard of the request-to-be.
TakeSentinel(t) ==
  /\ At(t, "sentinel")
  /\ inFlight' = [inFlight EXCEPT ![task[t].model] = @ + 1]
  /\ Goto(t, "queued")
  /\ UNCHANGED <<reserved, loadState, notify, placement, loadedOn, lastUsed, poisoned, draining, coordinator>>
-----------------------------------------------------------------------------
(* load_as_leader and try_reserve_with_eviction                            *)

\* Loads of different models are not serialized.
AcquireCoordinator_NoMutex(t) ==
  /\ At(t, "queued")
  /\ Goto(t, "resolving")
  /\ UNCHANGED <<reserved, model, coordinator>>

AcquireCoordinator(t) ==
  /\ At(t, "queued")
  /\ coordinator = NoTask
  /\ coordinator' = t
  /\ Goto(t, "resolving")
  /\ UNCHANGED <<reserved, model>>

\* resolve_placement_or_fail: an Auto model asks again in each round.
ResolvePlacement(t) ==
  LET m    == task[t].model
      devs == IF placement[m] = <<>> THEN <<MostFreeDevice>> ELSE placement[m]
  IN  /\ At(t, "resolving")
      /\ Become(t, [task[t] EXCEPT !.pc = "reserving", !.devs = devs, !.held = <<>>])
      /\ UNCHANGED <<reserved, model, coordinator>>

\* A device is taken without asking whether the model fits.
ReserveDevice_Unchecked(t) ==
  /\ At(t, "reserving")
  /\ task[t].devs # <<>>
  /\ reserved' = [reserved EXCEPT ![Head(task[t].devs)] = @ \cup {task[t].model}]
  /\ Become(t, [task[t] EXCEPT !.devs = Tail(@), !.held = Append(@, Head(task[t].devs))])
  /\ UNCHANGED <<model, coordinator>>

\* try_reserve_split, one device at a time.
ReserveDevice(t) ==
  /\ At(t, "reserving")
  /\ task[t].devs # <<>>
  /\ Reserve(Head(task[t].devs), task[t].model)
  /\ Become(t, [task[t] EXCEPT !.devs = Tail(@), !.held = Append(@, Head(task[t].devs))])
  /\ UNCHANGED <<model, coordinator>>

ReserveRefused(t) ==
  /\ At(t, "reserving")
  /\ task[t].devs # <<>>
  /\ ~Fits(Head(task[t].devs), task[t].model)
  /\ Goto(t, "rollingBack")
  /\ UNCHANGED <<reserved, model, coordinator>>

\* The devices already reserved are forgotten.
RollBackDevice_Forgotten(t) ==
  /\ At(t, "rollingBack")
  /\ task[t].held # <<>>
  /\ Become(t, [task[t] EXCEPT !.held = <<>>])
  /\ UNCHANGED <<reserved, model, coordinator>>

RollBackDevice(t) ==
  /\ At(t, "rollingBack")
  /\ task[t].held # <<>>
  /\ Release(Head(task[t].held), task[t].model)
  /\ Become(t, [task[t] EXCEPT !.held = Tail(@)])
  /\ UNCHANGED <<model, coordinator>>

\* Victims must free the whole share of the model on the device that refused,
\* whatever is free there already; without any the load fails.
PickVictims(t) ==
  LET m     == task[t].model
      g     == Head(task[t].devs)
      lists == EvictionCandidates(g, Share(m, g), lastUsed, inFlight)
  IN  /\ At(t, "rollingBack")
      /\ task[t].held = <<>>
      /\ \/ /\ lists = {}
            /\ Become(t, [task[t] EXCEPT !.pc = "failing", !.devs = <<>>])
         \/ \E s \in lists :
              Become(t, [task[t] EXCEPT !.pc = "unloading", !.devs = <<>>, !.victims = s,
                                        !.evicted = FALSE])
      /\ UNCHANGED <<reserved, model, coordinator>>

\* After the last victim: try again if any was unloaded.
EvictionDone(t) ==
  /\ At(t, "unloading")
  /\ t \in Callers
  /\ task[t].victims = <<>>
  /\ Goto(t, IF task[t].evicted THEN "resolving" ELSE "failing")
  /\ UNCHANGED <<reserved, model, coordinator>>

\* commit_placement: only an Auto model is written.
CommitPlacement(t) ==
  LET m == task[t].model IN
  /\ At(t, "reserving")
  /\ task[t].devs = <<>>
  /\ placement' = [placement EXCEPT ![m] = IF @ = <<>> THEN task[t].held ELSE @]
  /\ Goto(t, "reading")
  /\ UNCHANGED <<reserved, loadState, notify, loadedOn, inFlight, lastUsed, poisoned, draining, coordinator>>

\* The placement is read back; "placement remained Auto" gives up and leaves
\* the reservation where it is.
ReadBack(t) ==
  LET devs == placement[task[t].model] IN
  /\ At(t, "reading")
  /\ Become(t, [task[t] EXCEPT !.pc = IF devs = <<>> THEN "failing" ELSE "spawning", !.held = devs])
  /\ UNCHANGED <<reserved, model, coordinator>>

\* The worker acknowledged Load.
LoadSucceeds(t) ==
  LET m == task[t].model IN
  /\ At(t, "spawning")
  /\ loadState' = [loadState EXCEPT ![m] = "Loaded"]
  /\ notify' = [notify EXCEPT ![m] = NoTask]
  /\ loadedOn' = [loadedOn EXCEPT ![m] = task[t].held]
  /\ Become(t, [task[t] EXCEPT !.pc = "announcing", !.held = <<>>])
  /\ UNCHANGED <<reserved, placement, inFlight, lastUsed, poisoned, draining, coordinator>>

\* notify_waiters, touch_last_used, and the coordinator is given back.
Announce(t) ==
  /\ At(t, "announcing")
  /\ NotifyAll(t, IF t \in Requests THEN [task[t] EXCEPT !.pc = "guarded", !.evicted = FALSE]
                  ELSE IdleTask)
  /\ Touch(task[t].model)
  /\ coordinator' = NoTask
  /\ UNCHANGED <<reserved, loadState, notify, placement, loadedOn, inFlight, poisoned, draining>>

\* A failed load keeps its reservation.
LoadFails_Leaks(t) ==
  /\ At(t, "spawning")
  /\ task[t].model \in LoadMayFail
  /\ Become(t, [task[t] EXCEPT !.pc = "failing", !.held = <<>>])
  /\ UNCHANGED <<reserved, model, coordinator>>

\* The worker refused: its reservation is released device by device ...
LoadFails(t) ==
  /\ At(t, "spawning")
  /\ task[t].model \in LoadMayFail
  /\ Goto(t, "failing")
  /\ UNCHANGED <<reserved, model, coordinator>>

DropReservation(t) ==
  /\ At(t, "failing")
  /\ task[t].held # <<>>
  /\ Release(Head(task[t].held), task[t].model)
  /\ Become(t, [task[t] EXCEPT !.held = Tail(@)])
  /\ UNCHANGED <<model, coordinator>>

\* ... and fail_loading lets the waiters try for themselves.
FailLoading(t) ==
  LET m == task[t].model IN
  /\ At(t, "failing")
  /\ task[t].held = <<>>
  /\ loadState' = [loadState EXCEPT ![m] = "Unloaded"]
  /\ notify' = [notify EXCEPT ![m] = NoTask]
  /\ NotifyAll(t, [IdleTask EXCEPT !.pc = "leaving", !.model = m])
  /\ UNCHANGED <<reserved, placement, loadedOn, inFlight, lastUsed, poisoned, draining, coordinator>>

\* The coordinator is not given back when a load fails.
Leave_KeepsCoordinator(t) ==
  /\ At(t, "leaving")
  /\ DropGuard(t)
  /\ Return(t)
  /\ UNCHANGED <<reserved, loadState, notify, placement, loadedOn, lastUsed, poisoned, draining, coordinator>>

\* The error returns: the coordinator is given back, the sentinel dropped.
Leave(t) ==
  /\ At(t, "leaving")
  /\ coordinator' = NoTask
  /\ DropGuard(t)
  /\ Return(t)
  /\ UNCHANGED <<reserved, loadState, notify, placement, loadedOn, lastUsed, poisoned, draining>>
-----------------------------------------------------------------------------
(* chat_completion after ensure_loaded_for_request                         *)

\* cmd_tx: everything is looked at again before the command is sent.
SendCommand(t) ==
  LET m == task[t].model IN
  /\ At(t, "guarded")
  /\ m \notin poisoned \cup draining
  /\ loadState[m] = "Loaded"
  /\ Goto(t, "running")
  /\ UNCHANGED <<reserved, model, coordinator>>

SendRefused(t) ==
  LET m == task[t].model IN
  /\ At(t, "guarded")
  /\ m \in poisoned \cup draining \/ loadState[m] # "Loaded"
  /\ DropGuard(t)
  /\ Return(t)
  /\ UNCHANGED <<reserved, loadState, notify, placement, loadedOn, lastUsed, poisoned, draining, coordinator>>

\* The worker answers, or dropped the command.
Complete(t) ==
  /\ At(t, "running")
  /\ DropGuard(t)
  /\ Return(t)
  /\ UNCHANGED <<reserved, loadState, notify, placement, loadedOn, lastUsed, poisoned, draining, coordinator>>

\* The worker thread catches a panic of this request, poisons the backend and
\* exits; whoever waits for it gets BackendPoisoned.  Nothing clears the flag.
Panic(t) ==
  LET m == task[t].model IN
  /\ At(t, "running")
  /\ m \in MayPanic \ poisoned
  /\ poisoned' = poisoned \cup {m}
  /\ UNCHANGED <<reserved, loadState, notify, placement, loadedOn, inFlight, lastUsed, draining, coordinator, task>>
-----------------------------------------------------------------------------
(* unload, called by the eviction loop or by the admin API                 *)

\* The model being unloaded or shut down.
Target(t) == IF t \in Callers THEN Head(task[t].victims) ELSE task[t].model

Unloading(t) == At(t, "unloading") /\ (t \in Callers => task[t].victims # <<>>)

\* unload returned to its caller.
AfterUnload(t, ok) ==
  IF t \in Callers
  THEN Become(t, [task[t] EXCEPT !.pc = "unloading", !.devs = <<>>, !.held = <<>>,
                                 !.victims = Tail(@), !.evicted = @ \/ ok])
  ELSE Return(t)

BeginUnload(t) ==
  /\ t \in Unloaders
  /\ At(t, "idle")
  /\ \E m \in Models : Become(t, [IdleTask EXCEPT !.pc = "unloading", !.model = m])
  /\ UNCHANGED <<reserved, model, coordinator>>

Busy(m) == inFlight[m] > 0 \/ loadState[m] = "Loading"

UnloadBusy(t) ==
  /\ Unloading(t)
  /\ Busy(Target(t))
  /\ AfterUnload(t, FALSE)
  /\ UNCHANGED <<reserved, model, coordinator>>

\* Ok is returned for a model that is not loaded, reserved or not.
UnloadNothing(t) ==
  /\ Unloading(t)
  /\ inFlight[Target(t)] = 0
  /\ loadState[Target(t)] = "Unloaded"
  /\ AfterUnload(t, TRUE)
  /\ UNCHANGED <<reserved, model, coordinator>>

\* The guards are looked at without the state lock.
TakeWorker_IgnoresGuards(t) ==
  /\ Unloading(t)
  /\ loadState[Target(t)] = "Loaded"
  /\ loadState' = [loadState EXCEPT ![Target(t)] = "Unloaded"]
  /\ loadedOn' = [loadedOn EXCEPT ![Target(t)] = <<>>]
  /\ Become(t, [task[t] EXCEPT !.pc = "joining", !.held = loadedOn[Target(t)]])
  /\ UNCHANGED <<reserved, notify, placement, inFlight, lastUsed, poisoned, draining, coordinator>>

\* The state is Unloaded from here on, while the worker still has to stop.
TakeWorker(t) ==
  /\ Unloading(t)
  /\ inFlight[Target(t)] = 0
  /\ loadState[Target(t)] = "Loaded"
  /\ loadState' = [loadState EXCEPT ![Target(t)] = "Unloaded"]
  /\ loadedOn' = [loadedOn EXCEPT ![Target(t)] = <<>>]
  /\ Become(t, [task[t] EXCEPT !.pc = "joining", !.held = loadedOn[Target(t)]])
  /\ UNCHANGED <<reserved, notify, placement, inFlight, lastUsed, poisoned, draining, coordinator>>

\* The worker thread is joined, then the placement as it is now is read.
JoinWorker(t) ==
  /\ At(t, "joining")
  /\ Become(t, [task[t] EXCEPT !.pc = "releasing", !.held = <<>>, !.devs = placement[Target(t)]])
  /\ UNCHANGED <<reserved, model, coordinator>>

ReleaseDevice(t) ==
  /\ At(t, "releasing")
  /\ task[t].devs # <<>>
  /\ Release(Head(task[t].devs), Target(t))
  /\ Become(t, [task[t] EXCEPT !.devs = Tail(@)])
  /\ UNCHANGED <<model, coordinator>>

\* An automatically placed model is Auto again, except at shutdown.
FinishUnload(t) ==
  LET m == Target(t) IN
  /\ At(t, "releasing")
  /\ task[t].devs = <<>>
  /\ placement' = IF t \in Drainers THEN placement
                  ELSE [placement EXCEPT ![m] = IF IsAuto(m) THEN <<>> ELSE @]
  /\ AfterUnload(t, TRUE)
  /\ UNCHANGED <<reserved, loadState, notify, loadedOn, inFlight, lastUsed, poisoned, draining, coordinator>>
-----------------------------------------------------------------------------
(* shutdown                                                                *)

BeginShutdown(t) ==
  /\ t \in Drainers
  /\ At(t, "idle")
  /\ \E m \in Models \ draining :
       /\ draining' = draining \cup {m}
       /\ Become(t, [IdleTask EXCEPT !.pc = "draining", !.model = m])
  /\ UNCHANGED <<reserved, loadState, notify, placement, loadedOn, inFlight, lastUsed, poisoned, coordinator>>

\* Whatever the state was is replaced by Unloaded, a load in progress included;
\* a loaded worker is stopped whoever uses it.  If it is dead already shutdown
\* returns without releasing anything.
TakeForShutdown(t) ==
  LET m == task[t].model IN
  /\ At(t, "draining")
  /\ loadState' = [loadState EXCEPT ![m] = "Unloaded"]
  /\ notify' = [notify EXCEPT ![m] = NoTask]
  /\ loadedOn' = [loadedOn EXCEPT ![m] = <<>>]
  /\ \/ loadState[m] = "Loaded" /\ Become(t, [task[t] EXCEPT !.pc = "joining", !.held = loadedOn[m]])
     \/ loadState[m] # "Loaded" /\ Return(t)
     \/ loadState[m] = "Loaded" /\ m \in poisoned /\ Return(t)
  /\ UNCHANGED <<reserved, placement, inFlight, lastUsed, poisoned, draining, coordinator>>
-----------------------------------------------------------------------------
(* A client disconnects: the future is dropped at its await.  Guards fall, *)
(* the coordinator is given back, nothing else is undone: Loading stays,   *)
(* a reservation stays, a worker being stopped stops.                      *)
Cancel(t) ==
  /\ t \in Cancellable
  /\ \/ task[t].pc \in {"waiting", "spawning", "joining", "running"}
     \/ At(t, "queued") /\ coordinator # NoTask
  /\ coordinator' = IF coordinator = t THEN NoTask ELSE coordinator
  /\ IF At(t, "waiting") THEN UNCHANGED inFlight ELSE DropGuard(t)
  /\ notify' = [m \in Models |-> IF notify[m] = t THEN NoTask ELSE notify[m]]
  /\ Orphaned(t, IdleTask)
  /\ UNCHANGED <<reserved, loadState, placement, loadedOn, lastUsed, poisoned, draining>>
-----------------------------------------------------------------------------
Work(t) ==
  \/ FoundLoaded(t) \/ FoundLoading(t) \/ Subscribe(t) \/ BecomeLeader(t) \/ TakeSentinel(t)
  \/ AcquireCoordinator(t) \/ ResolvePlacement(t) \/ ReserveDevice(t) \/ ReserveRefused(t)
  \/ RollBackDevice(t) \/ PickVictims(t) \/ EvictionDone(t) \/ CommitPlacement(t) \/ ReadBack(t)
  \/ LoadSucceeds(t) \/ Announce(t) \/ LoadFails(t) \/ DropReservation(t) \/ FailLoading(t) \/ Leave(t)
  \/ SendCommand(t) \/ SendRefused(t) \/ Complete(t)
  \/ UnloadBusy(t) \/ UnloadNothing(t) \/ TakeWorker(t) \/ JoinWorker(t) \/ ReleaseDevice(t)
  \/ FinishUnload(t) \/ TakeForShutdown(t)

\* What nobody has to do: clients come and go, inference panics.
Environment(t) == Begin(t) \/ BeginUnload(t) \/ BeginShutdown(t) \/ Cancel(t) \/ Panic(t)

LCNext == \E t \in Tasks : Work(t) \/ Environment(t)

LCSpec == LCInit /\ [][LCNext]_vars

\* Every task keeps being polled, a worker answers (generation stops at
\* max_tokens_cap), and the tokio mutex is fair to those queued on it.
LCFairness ==
  /\ \A t \in Tasks : WF_vars(Work(t))
  /\ \A t \in Callers : SF_vars(AcquireCoordinator(t))

LCFairSpec == LCSpec /\ LCFairness
-----------------------------------------------------------------------------
Labels ==
  {"idle", "lookup", "cloned", "waiting", "sentinel", "queued", "resolving", "reserving",
   "rollingBack", "reading", "spawning", "announcing", "failing", "leaving", "guarded",
   "running", "unloading", "joining", "releasing", "draining"}

LCTypeOK ==
  /\ RSTypeOK
  /\ loadState \in [Models -> {"Unloaded", "Loading", "Loaded"}]
  /\ notify \in [Models -> Callers \cup {NoTask}]
  /\ placement \in [Models -> Seq(Gpus)]
  /\ loadedOn \in [Models -> Seq(Gpus)]
  /\ inFlight \in [Models -> Nat]
  /\ lastUsed \in [Models -> Nat]
  /\ poisoned \subseteq Models
  /\ draining \subseteq Models
  /\ coordinator \in Callers \cup {NoTask}
  /\ task \in [Tasks -> [pc : Labels, model : Models \cup {NoModel}, devs : Seq(Gpus),
                         held : Seq(Gpus), victims : Seq(Models), evicted : BOOLEAN,
                         awaits : Callers \cup {NoTask}]]

\* Tasks inside load_as_leader.
Leading(t) ==
  t \in Callers /\ task[t].pc \notin {"idle", "lookup", "cloned", "waiting", "guarded", "running"}

\* Requests whose InFlightGuard, or the sentinel that becomes it, is alive.
Guarding(m) ==
  {t \in Requests : /\ task[t].model = m
                    /\ task[t].pc \notin {"idle", "lookup", "cloned", "waiting", "sentinel"}}

\* in_flight is exactly the number of requests using or loading the model:
\* success, every error return, a forgotten sentinel and a dropped future all
\* keep the count.
InFlightCounts == \A m \in Models : inFlight[m] = Cardinality(Guarding(m))

\* A model that a request has been given stays loaded until the request is
\* over: unload's check of in_flight and the request's increment both happen
\* under the state lock.  Only shutdown may take it away.
GuardKeepsLoaded ==
  \A t \in Requests :
    task[t].pc \in {"announcing", "guarded", "running"} /\ task[t].model \notin draining
      => loadState[task[t].model] = "Loaded"

\* Single flight: a model is in state Loading exactly while one task is loading
\* it, up to the moment its outcome is known.
LoadingIsLed ==
  \A m \in Models :
    LET leaders == {t \in Callers : Leading(t) /\ task[t].model = m
                                      /\ task[t].pc \notin {"announcing", "leaving"}}
    IN  IF loadState[m] = "Loading" THEN Cardinality(leaders) = 1 ELSE leaders = {}

\* What a worker occupies is reserved where it runs, and the placement says so.
LoadedIsReserved ==
  \A m \in Models : loadState[m] = "Loaded" =>
    /\ loadedOn[m] # <<>>
    /\ placement[m] = loadedOn[m]
    /\ \A g \in Range(loadedOn[m]) : Budget[g] # 0 => m \in reserved[g]

\* The workers alive, each as a pair of its owner and its model: those of loaded
\* models, those still loading, those being stopped.
Workers ==
  {<<m, m>> : m \in {m \in Models : loadState[m] = "Loaded"}}
    \cup {<<t, task[t].model>> : t \in {t \in Callers : At(t, "spawning")}}
    \cup {<<t, Target(t)>> : t \in {t \in Tasks : At(t, "joining")}}

DevicesOfWorker(w) == Range(IF w[1] \in Models THEN loadedOn[w[2]] ELSE task[w[1]].held)

\* The memory workers really occupy on a device fits its budget, counting the
\* one being loaded and the one being stopped.
VramFits ==
  \A g \in Gpus : Budget[g] # 0 =>
    Cardinality(UNION {{w[1]} \X Units({w[2]}, g) : w \in {w \in Workers : g \in DevicesOfWorker(w)}})
      <= Budget[g]

\* Every reservation has somebody to give it back: the model is loaded there, or
\* a task is in the middle of loading or of unloading it.
AccountedFor ==
  \A g \in Gpus : \A m \in reserved[g] :
    \/ loadState[m] = "Loaded" /\ g \in Range(loadedOn[m])
    \/ \E t \in Callers : Leading(t) /\ task[t].model = m /\ g \in Range(task[t].held)
    \/ \E t \in Tasks : /\ task[t].pc \in {"joining", "releasing"}
                        /\ Target(t) = m
                        /\ g \in Range(placement[m])

\* No load, by whatever path, takes down a pinned model that serves.
PinnedStays ==
  [][\A m \in Pinned : loadState[m] = "Loaded" => loadState'[m] = "Loaded"]_vars

\* What the callers promise together: see Residency.
R == INSTANCE Residency WITH
  Cost    <- Share,
  where   <- [m \in Models |-> UNION {DevicesOfWorker(w) : w \in {w \in Workers : w[2] = m}}],
  serving <- {m \in Models : loadState[m] = "Loaded"},
  users   <- [m \in Models |->
                Cardinality({t \in Requests : /\ task[t].model = m
                                              /\ task[t].pc \in {"announcing", "guarded", "running"}})]

\* Eviction, single flight, guards and reservations implement the promise.
ImplementsResidency == R!ResSpec

\* Every step does at most one thing to one resident set, and only what
\* try_reserve or release can do: the budget proved for RSSpec holds here.
KeepsToResidentSet == RSSpec

\* A load that was begun comes to an end: leaders wait for the coordinator only,
\* and whoever holds it needs nothing another leader has.
LoadsFinish == \A t \in Callers : Leading(t) ~> ~Leading(t)

\* A task that subscribed to a load in time is woken by its end.
WaitersWake == \A t \in Callers : At(t, "waiting") /\ task[t].awaits # NoTask ~> ~At(t, "waiting")

\* Every request that was begun is answered: ensure_loaded returns Ok when the
\* model is loaded, and otherwise loads it or fails.
RequestsAnswered == \A t \in Requests : ~At(t, "idle") ~> At(t, "idle")

\* A load in progress ends: the state does not stay Loading.
LoadingEnds == \A m \in Models : loadState[m] = "Loading" ~> loadState[m] # "Loading"

=============================================================================
