----------------------- MODULE ModelLifecycle_proofs -----------------------
(***************************************************************************)
(* For any number of requests, loaders, unloaders and shutdowns, of which  *)
(* any may be cancelled, and for any models and devices: in_flight counts  *)
(* the requests that use a model, a model in use stays loaded, and the     *)
(* reservations never exceed a budget.                                     *)
(***************************************************************************)
EXTENDS ModelLifecycle, ResidentSet_proofs, SequenceTheorems

TaskRec ==
  [pc : Labels, model : Models \cup {NoModel}, devs : Seq(Gpus), held : Seq(Gpus),
   victims : Seq(Models), evicted : BOOLEAN, awaits : Callers \cup {NoTask}]

\* Places only a caller can be at.
CallerLabels ==
  {"lookup", "cloned", "waiting", "queued", "resolving", "reserving", "rollingBack", "reading",
   "spawning", "announcing", "failing", "leaving"}

\* What a task at r works on when it unloads or shuts down: Target(t) is
\* TargetOf(t, task[t]).
TargetOf(t, r) == IF t \in Callers THEN Head(r.victims) ELSE r.model

\* Who can be where, and with what at hand: the devices of the model it loads
\* or of the one it takes down, and no pinned victim.
ShapeOf(t, r) ==
  /\ r.pc # "idle" => r.model \in Models
  /\ r.pc \in {"sentinel", "guarded", "running"} => t \in Requests
  /\ r.pc \in CallerLabels => t \in Callers
  /\ r.pc = "unloading" => t \notin Drainers
  /\ r.pc = "draining" => t \in Drainers
  /\ r.pc \in {"joining", "releasing"} /\ t \in Callers => r.victims # <<>>
  /\ r.pc = "rollingBack" => r.devs # <<>>
  /\ r.pc \in {"reserving", "rollingBack"} => r.devs \in Seq(DevicesOf(r.model))
  /\ r.pc = "releasing" => r.devs \in Seq(DevicesOf(TargetOf(t, r)))
  /\ r.pc \in {"reserving", "rollingBack", "reading", "spawning", "failing", "unloading"} =>
       r.held \in Seq(DevicesOf(r.model))
  /\ r.victims \in Seq(Models \ Pinned)

\* A configured placement is never changed, an automatic one names devices.
PlacementKept ==
  \A m \in Models : placement[m] \in Seq(DevicesOf(m)) /\ (~IsAuto(m) => placement[m] # <<>>)

\* Every type but those of the tasks and of inFlight.
RestTyped ==
  /\ RSTypeOK
  /\ loadState \in [Models -> {"Unloaded", "Loading", "Loaded"}]
  /\ notify \in [Models -> Callers \cup {NoTask}]
  /\ placement \in [Models -> Seq(Gpus)]
  /\ loadedOn \in [Models -> Seq(Gpus)]
  /\ lastUsed \in [Models -> Nat]
  /\ poisoned \subseteq Models
  /\ draining \subseteq Models
  /\ coordinator \in Callers \cup {NoTask}
  /\ PlacementKept

TasksShaped == task \in [Tasks -> TaskRec] /\ \A t \in Tasks : ShapeOf(t, task[t])

Counted == inFlight \in [Models -> Nat] /\ InFlightCounts

LCInv == RestTyped /\ TasksShaped /\ Counted

\* A task on its way from becoming the leader of a load to its outcome.
Preparing(t) == Leading(t) /\ task[t].pc \notin {"announcing", "leaving"}

\* Unless the model is being shut down, a load under way has one leader.
SingleFlight ==
  \A t \in Callers :
    Preparing(t) /\ task[t].model \notin draining =>
      /\ loadState[task[t].model] = "Loading"
      /\ \A u \in Callers : Preparing(u) /\ task[u].model = task[t].model => u = t

\* A shutdown works on a model that is marked.
ShutdownIsMarked == \A t \in Tasks : At(t, "draining") => task[t].model \in draining

UsedStaysLoaded == SingleFlight /\ ShutdownIsMarked /\ GuardKeepsLoaded

\* Where no client disconnects and no model is shut down, a model that is being
\* loaded has somebody who will say how it ended.
LoadsAreLed ==
  /\ draining = {}
  /\ \A m \in Models : loadState[m] = "Loading" => \E t \in Callers : Preparing(t) /\ task[t].model = m
-----------------------------------------------------------------------------
(* Facts about the operators.                                              *)

\* A sequence over a set is one over any larger set.
LEMMA WiderSeq ==
  ASSUME NEW T, NEW S \in SUBSET T, NEW s \in Seq(S)
  PROVE  s \in Seq(T)
<1>1. s \in [1 .. Len(s) -> T] /\ Len(s) \in Nat
  OBVIOUS
<1>2. QED
  BY <1>1

\* The ends of a sequence that is not empty.
LEMMA Ends ==
  ASSUME NEW S, NEW s \in Seq(S), s # <<>>
  PROVE  Head(s) \in S /\ Tail(s) \in Seq(S)
  BY HeadTailProperties

\* The devices a placement may name are devices, and a configured list is one
\* of them.
LEMMA DevicesAreGpus == \A m \in Models : DevicesOf(m) \subseteq Gpus /\ GpusOf[m] \in Seq(DevicesOf(m))
<1> SUFFICES ASSUME NEW m \in Models
             PROVE  DevicesOf(m) \subseteq Gpus /\ GpusOf[m] \in Seq(DevicesOf(m))
  OBVIOUS
<1>1. GpusOf[m] \in Seq(Gpus)
  BY ResidentAssumption
<1>2. \A i \in DOMAIN GpusOf[m] : GpusOf[m][i] \in Gpus
  BY <1>1, ElementOfSeq
<1>3. GpusOf[m] \in [1 .. Len(GpusOf[m]) -> Range(GpusOf[m])] /\ Len(GpusOf[m]) \in Nat
  BY <1>1 DEF Range
<1>4. GpusOf[m] \in Seq(Range(GpusOf[m]))
  BY <1>3
<1>5. CASE IsAuto(m)
  BY <1>1, <1>5 DEF DevicesOf, IsAuto
<1>6. CASE ~IsAuto(m)
  BY <1>2, <1>4, <1>6 DEF DevicesOf, Range
<1>7. QED
  BY <1>5, <1>6

\* The most free device is a device.
LEMMA MostFreeIsDevice == RSTypeOK => MostFreeDevice \in Gpus
  BY MostFreeExists

\* Victims are models that are not pinned.
LEMMA VictimsAreUnpinned ==
  ASSUME RSTypeOK, NEW g \in Gpus, NEW n, NEW used, NEW busy,
         NEW s \in EvictionCandidates(g, n, used, busy)
  PROVE  s \in Seq(Models \ Pinned)
<1> DEFINE E == Eligible(g, busy)
<1>1. E \subseteq Models \ Pinned /\ IsFiniteSet(E)
  BY ResidentAssumption, FS_Subset DEF Eligible, RSTypeOK
<1>2. Cardinality(E) \in Nat
  BY <1>1, FS_CardinalityType
<1>3. PICK o \in LruOrders(E, used) : \E k \in DOMAIN o : s = SubSeq(o, 1, k)
  BY DEF EvictionCandidates
<1>4. o \in [1 .. Cardinality(E) -> E]
  BY DEF LruOrders
<1>8. PICK k \in 1 .. Cardinality(E) : s = SubSeq(o, 1, k)
  BY <1>3, <1>4
<1>5. o \in Seq(E) /\ Len(o) = Cardinality(E)
  BY <1>2, <1>4
<1>6. s \in Seq(E)
  BY <1>2, <1>8, <1>5, SubSeqProperties
<1>7. QED
  BY <1>1, <1>6, WiderSeq

\* touch_last_used leaves every model with a natural number.
LEMMA TouchTyped ==
  ASSUME NEW m \in Models, Touch(m)
  PROVE  lastUsed' \in [Models -> Nat]
<1>1. PICK used : lastUsed' =
        [k \in Models |-> Cardinality({used[j] : j \in {j \in Models : 0 < used[j] /\ used[j] <= used[k]}})]
  BY DEF Touch
<1>2. \A k \in Models :
        Cardinality({used[j] : j \in {j \in Models : 0 < used[j] /\ used[j] <= used[k]}}) \in Nat
  <2> SUFFICES ASSUME NEW k \in Models
               PROVE  Cardinality({used[j] : j \in {j \in Models : 0 < used[j] /\ used[j] <= used[k]}}) \in Nat
    OBVIOUS
  <2> DEFINE J == {j \in Models : 0 < used[j] /\ used[j] <= used[k]}
  <2>1. IsFiniteSet(J)
    BY ResidentAssumption, FS_Subset
  <2> HIDE DEF J
  <2> DEFINE U == {used[j] : j \in J}
  <2>2. IsFiniteSet(U)
    <3>1. [j \in J |-> used[j]] \in Surjection(J, U)
      BY DEF Surjection
    <3>2. QED
      BY <2>1, <3>1, FS_Surjection
  <2>3. QED
    BY <2>2, FS_CardinalityType DEF J
<1>3. QED
  BY <1>1, <1>2
-----------------------------------------------------------------------------
(* What a step does to the tasks, to the counts and to the rest.           *)

\* The other tasks stay as they are, but for a wakeup or a lost one.
OthersStay(t) ==
  /\ task' = [u \in Tasks |-> task'[u]]
  /\ \A u \in Tasks \ {t} :
       \/ task'[u] = task[u]
       \/ task'[u] = [task[u] EXCEPT !.awaits = NoTask]
       \/ task[u].pc = "waiting" /\ task'[u] = [task[u] EXCEPT !.pc = "lookup", !.awaits = NoTask]

LEMMA BecomeStays ==
  ASSUME task \in [Tasks -> TaskRec], NEW t \in Tasks, NEW r, Become(t, r)
  PROVE  OthersStay(t) /\ task'[t] = r
  BY DEF Become, OthersStay

LEMMA NotifyStays ==
  ASSUME NEW t \in Tasks, NEW r, NotifyAll(t, r)
  PROVE  OthersStay(t) /\ task'[t] = r
  BY DEF NotifyAll, Notified, OthersStay, At

LEMMA OrphanedStays ==
  ASSUME NEW t \in Tasks, NEW r, Orphaned(t, r)
  PROVE  OthersStay(t) /\ task'[t] = r
  BY DEF Orphaned, OthersStay

\* It is enough to look at the task that acts.
LEMMA ShapedStep ==
  ASSUME TasksShaped, NEW t \in Tasks, OthersStay(t), task'[t] \in TaskRec, ShapeOf(t, task'[t])
  PROVE  TasksShaped'
<1>1. \A u \in Tasks : task'[u] \in TaskRec
  <2> SUFFICES ASSUME NEW u \in Tasks, u # t
               PROVE  task'[u] \in TaskRec
    OBVIOUS
  <2>1. PICK r \in TaskRec : r = task[u]
    BY DEF TasksShaped
  <2>2. [r EXCEPT !.awaits = NoTask] \in TaskRec
    BY DEF TaskRec
  <2>3. [r EXCEPT !.pc = "lookup", !.awaits = NoTask] \in TaskRec
    BY DEF TaskRec, Labels
  <2>4. QED
    BY <2>1, <2>2, <2>3 DEF OthersStay
<1>2. \A u \in Tasks : ShapeOf(u, task'[u])
  <2> SUFFICES ASSUME NEW u \in Tasks, u # t
               PROVE  ShapeOf(u, task'[u])
    OBVIOUS
  <2>1. PICK r \in TaskRec : r = task[u]
    BY DEF TasksShaped
  <2>2. ShapeOf(u, r)
    BY <2>1 DEF TasksShaped
  <2>3. CASE task'[u] = r
    BY <2>2, <2>3
  <2>4. CASE task'[u] = [r EXCEPT !.awaits = NoTask]
    BY <2>2, <2>4 DEF ShapeOf, TargetOf, TaskRec
  <2>5. CASE r.pc = "waiting" /\ task'[u] = [r EXCEPT !.pc = "lookup", !.awaits = NoTask]
    <3>1. u \in Callers /\ r.model \in Models /\ r.victims \in Seq(Models \ Pinned)
      BY <2>2, <2>5 DEF ShapeOf, CallerLabels
    <3>2. QED
      BY <2>5, <3>1 DEF ShapeOf, TaskRec
  <2>6. QED
    BY <2>1, <2>3, <2>4, <2>5 DEF OthersStay
<1>3. QED
  BY <1>1, <1>2 DEF OthersStay, TasksShaped

\* The places of a request whose guard is alive.
Holds(r) == r.pc \notin {"idle", "lookup", "cloned", "waiting", "sentinel"}

\* No guard is taken or dropped.
CountKept(t) ==
  /\ inFlight' = inFlight
  /\ t \in Requests =>
       /\ Holds(task'[t]) <=> Holds(task[t])
       /\ Holds(task[t]) => task'[t].model = task[t].model

CountUp(t) ==
  /\ t \in Requests /\ ~Holds(task[t]) /\ Holds(task'[t])
  /\ task'[t].model = task[t].model /\ task[t].model \in Models
  /\ inFlight' = [inFlight EXCEPT ![task[t].model] = @ + 1]

CountDown(t) ==
  /\ t \in Requests /\ Holds(task[t]) /\ ~Holds(task'[t])
  /\ inFlight' = [inFlight EXCEPT ![task[t].model] = @ - 1]

Counts(t) == CountKept(t) \/ CountUp(t) \/ CountDown(t)

\* A guard dropped by a task that becomes idle.
LEMMA DropCounts ==
  ASSUME NEW t \in Tasks, Holds(task[t]), DropGuard(t), task'[t] = IdleTask
  PROVE  CountDown(t) \/ (t \notin Requests /\ CountKept(t))
  BY DEF DropGuard, CountDown, CountKept, Holds, IdleTask

\* Guarding changes by the acting request alone.
LEMMA OthersGuard ==
  ASSUME NEW t \in Tasks, OthersStay(t), task \in [Tasks -> TaskRec], NEW m
  PROVE  \A u \in Tasks \ {t} : u \in Guarding(m)' <=> u \in Guarding(m)
<1> SUFFICES ASSUME NEW u \in Tasks \ {t}
             PROVE  u \in Guarding(m)' <=> u \in Guarding(m)
  OBVIOUS
<1>1. PICK r \in TaskRec : r = task[u]
  OBVIOUS
<1>2. CASE task'[u] = r
  BY <1>1, <1>2 DEF Guarding
<1>3. CASE task'[u] = [r EXCEPT !.awaits = NoTask]
  BY <1>1, <1>3 DEF Guarding, TaskRec
<1>4. CASE r.pc = "waiting" /\ task'[u] = [r EXCEPT !.pc = "lookup", !.awaits = NoTask]
  BY <1>1, <1>4 DEF Guarding, TaskRec
<1>5. QED
  BY <1>1, <1>2, <1>3, <1>4 DEF OthersStay

\* in_flight stays the number of guards alive.
LEMMA CountStep ==
  ASSUME TasksShaped, Counted, NEW t \in Tasks, OthersStay(t), task'[t] \in TaskRec, Counts(t)
  PROVE  Counted'
<1>1. \A m \in Models : \A u \in Tasks \ {t} : u \in Guarding(m)' <=> u \in Guarding(m)
  BY OthersGuard DEF TasksShaped
<1>2. \A m : t \in Guarding(m) <=> t \in Requests /\ task[t].model = m /\ Holds(task[t])
  BY DEF Guarding, Holds
<1>3. \A m : t \in Guarding(m)' <=> t \in Requests /\ task'[t].model = m /\ Holds(task'[t])
  BY DEF Guarding, Holds
<1>4. \A m : Guarding(m) \subseteq Tasks /\ Guarding(m)' \subseteq Tasks
  BY DEF Guarding, Tasks, Callers
<1>5. \A m : IsFiniteSet(Guarding(m))
  BY <1>4, LifecycleAssumption, FS_Subset
<1>6. /\ inFlight \in [Models -> Nat]
      /\ \A m \in Models : inFlight[m] = Cardinality(Guarding(m))
  BY DEF Counted, InFlightCounts
<1>7. CASE CountKept(t)
  <2>1. \A m \in Models : Guarding(m)' = Guarding(m)
    BY <1>1, <1>2, <1>3, <1>4, <1>7 DEF CountKept
  <2>2. QED
    BY <1>6, <1>7, <2>1 DEF CountKept, Counted, InFlightCounts
<1>8. CASE CountUp(t)
  <2>1. PICK k \in Models : k = task[t].model
    BY <1>8 DEF CountUp
  <2>2. \A m \in Models : Guarding(m)' = IF m = k THEN Guarding(m) \cup {t} ELSE Guarding(m)
    BY <1>1, <1>2, <1>3, <1>4, <1>8, <2>1 DEF CountUp
  <2>3. t \notin Guarding(k)
    BY <1>2, <1>8 DEF CountUp
  <2>4. Cardinality(Guarding(k) \cup {t}) = inFlight[k] + 1
    BY <1>5, <1>6, <2>3, FS_AddElement
  <2>5. inFlight' = [inFlight EXCEPT ![k] = @ + 1]
    BY <1>8, <2>1 DEF CountUp
  <2>6. \A m \in Models : inFlight'[m] = Cardinality(Guarding(m)')
    BY <1>6, <2>2, <2>4, <2>5
  <2>7. inFlight' \in [Models -> Nat]
    BY <1>6, <2>5
  <2>8. QED
    BY <2>6, <2>7 DEF Counted, InFlightCounts
<1>9. CASE CountDown(t)
  <2>1. PICK k \in Models : k = task[t].model
    BY <1>9 DEF CountDown, TasksShaped, ShapeOf, Holds
  <2>2. \A m \in Models : Guarding(m)' = IF m = k THEN Guarding(m) \ {t} ELSE Guarding(m)
    BY <1>1, <1>2, <1>3, <1>4, <1>9, <2>1 DEF CountDown
  <2>3. t \in Guarding(k)
    BY <1>2, <1>9, <2>1 DEF CountDown
  <2>4. Cardinality(Guarding(k) \ {t}) = inFlight[k] - 1 /\ inFlight[k] - 1 \in Nat
    <3>1. /\ Cardinality(Guarding(k) \ {t}) = Cardinality(Guarding(k)) - 1
          /\ IsFiniteSet(Guarding(k) \ {t})
      BY <1>5, <2>3, FS_RemoveElement
    <3>2. Cardinality(Guarding(k) \ {t}) \in Nat
      BY <3>1, FS_CardinalityType
    <3>3. QED
      BY <1>6, <3>1, <3>2
  <2>5. inFlight' = [inFlight EXCEPT ![k] = @ - 1]
    BY <1>9, <2>1 DEF CountDown
  <2>6. \A m \in Models : inFlight'[m] = Cardinality(Guarding(m)')
    BY <1>6, <2>2, <2>4, <2>5
  <2>7. inFlight' \in [Models -> Nat]
    BY <1>6, <2>4, <2>5
  <2>8. QED
    BY <2>6, <2>7 DEF Counted, InFlightCounts
<1>10. QED
  BY <1>7, <1>8, <1>9 DEF Counts
-----------------------------------------------------------------------------
(* What each action does to its own task and to the rest.                  *)

\* The acting task goes on as r; everybody keeps to types, counts and budgets.
Effect(t) ==
  /\ OthersStay(t) /\ task'[t] \in TaskRec /\ ShapeOf(t, task'[t])
  /\ Counts(t)
  /\ RestTyped'
  /\ [RSNext]_reserved

\* A step that leaves everything but tasks, counts and the coordinator alone.
LEMMA QuietRest ==
  ASSUME RestTyped, coordinator' \in Callers \cup {NoTask},
         UNCHANGED <<reserved, loadState, notify, placement, loadedOn, lastUsed, poisoned, draining>>
  PROVE  RestTyped' /\ [RSNext]_reserved
  BY DEF RestTyped, PlacementKept, RSTypeOK

LEMMA IdleShaped == \A t : IdleTask \in TaskRec /\ ShapeOf(t, IdleTask) /\ ~Holds(IdleTask)
<1>1. <<>> \in Seq(Gpus) /\ <<>> \in Seq(Models) /\ <<>> \in Seq(Models \ Pinned)
  OBVIOUS
<1>2. QED
  BY <1>1 DEF IdleTask, TaskRec, ShapeOf, Labels, CallerLabels, Holds

\* A waiter subscribes.
LEMMA SubscribeStep ==
  ASSUME LCInv, NEW t \in Tasks, Subscribe(t)
  PROVE  Effect(t)
<1>1. PICK r \in TaskRec : r = task[t] /\ ShapeOf(t, r)
  BY DEF LCInv, TasksShaped
<1>2. OthersStay(t) /\ task'[t] = [r EXCEPT !.pc = "waiting"]
  BY <1>1, BecomeStays DEF Subscribe, Goto, LCInv, TasksShaped
<1>3. r.pc = "cloned"
  BY <1>1 DEF Subscribe, At
<1>4. task'[t] \in TaskRec /\ ShapeOf(t, task'[t])
  BY <1>1, <1>2, <1>3 DEF TaskRec, Labels, ShapeOf, CallerLabels
<1>5. Counts(t)
  BY <1>1, <1>2, <1>3 DEF Subscribe, Counts, CountKept, Holds, TaskRec, IdleTask, model
<1>6. RestTyped' /\ [RSNext]_reserved
  BY <1>1, <1>2, <1>3, QuietRest DEF Subscribe, model, LCInv, RestTyped
<1>7. QED
  BY <1>2, <1>4, <1>5, <1>6 DEF Effect

\* A waiter clones the Notify.
LEMMA FoundLoadingStep ==
  ASSUME LCInv, NEW t \in Tasks, FoundLoading(t)
  PROVE  Effect(t)
<1>1. PICK r \in TaskRec : r = task[t] /\ ShapeOf(t, r)
  BY DEF LCInv, TasksShaped
<1>2. OthersStay(t) /\ task'[t] = [r EXCEPT !.pc = "cloned", !.awaits = notify[r.model]]
  BY <1>1, BecomeStays DEF FoundLoading, Become, LCInv, TasksShaped
<1>3. r.pc = "lookup" /\ notify[r.model] \in Callers \cup {NoTask}
  BY <1>1 DEF FoundLoading, At, LCInv, RestTyped, ShapeOf
<1>4. task'[t] \in TaskRec /\ ShapeOf(t, task'[t])
  BY <1>1, <1>2, <1>3 DEF TaskRec, Labels, ShapeOf, CallerLabels
<1>5. Counts(t)
  BY <1>1, <1>2, <1>3 DEF FoundLoading, Counts, CountKept, Holds, TaskRec, IdleTask, model
<1>6. RestTyped' /\ [RSNext]_reserved
  BY <1>1, <1>2, <1>3, QuietRest DEF FoundLoading, model, LCInv, RestTyped
<1>7. QED
  BY <1>2, <1>4, <1>5, <1>6 DEF Effect

\* The coordinator is held by a caller.
LEMMA AcquireCoordinatorStep ==
  ASSUME LCInv, NEW t \in Tasks, AcquireCoordinator(t)
  PROVE  Effect(t)
<1>1. PICK r \in TaskRec : r = task[t] /\ ShapeOf(t, r)
  BY DEF LCInv, TasksShaped
<1>2. OthersStay(t) /\ task'[t] = [r EXCEPT !.pc = "resolving"]
  BY <1>1, BecomeStays DEF AcquireCoordinator, Goto, LCInv, TasksShaped
<1>3. r.pc = "queued"
  BY <1>1 DEF AcquireCoordinator, At
<1>4. task'[t] \in TaskRec /\ ShapeOf(t, task'[t])
  BY <1>1, <1>2, <1>3 DEF TaskRec, Labels, ShapeOf, CallerLabels
<1>5. Counts(t)
  BY <1>1, <1>2, <1>3 DEF AcquireCoordinator, Counts, CountKept, Holds, TaskRec, IdleTask, model
<1>6. RestTyped' /\ [RSNext]_reserved
  BY <1>1, <1>2, <1>3, QuietRest DEF AcquireCoordinator, model, LCInv, ShapeOf, CallerLabels
<1>7. QED
  BY <1>2, <1>4, <1>5, <1>6 DEF Effect

\* There is a device to make room on.
LEMMA ReserveRefusedStep ==
  ASSUME LCInv, NEW t \in Tasks, ReserveRefused(t)
  PROVE  Effect(t)
<1>1. PICK r \in TaskRec : r = task[t] /\ ShapeOf(t, r)
  BY DEF LCInv, TasksShaped
<1>2. OthersStay(t) /\ task'[t] = [r EXCEPT !.pc = "rollingBack"]
  BY <1>1, BecomeStays DEF ReserveRefused, Goto, LCInv, TasksShaped
<1>3. r.pc = "reserving" /\ r.devs # <<>>
  BY <1>1 DEF ReserveRefused, At
<1>4. task'[t] \in TaskRec /\ ShapeOf(t, task'[t])
  BY <1>1, <1>2, <1>3 DEF TaskRec, Labels, ShapeOf, CallerLabels
<1>5. Counts(t)
  BY <1>1, <1>2, <1>3 DEF ReserveRefused, Counts, CountKept, Holds, TaskRec, IdleTask, model
<1>6. RestTyped' /\ [RSNext]_reserved
  BY <1>1, <1>2, <1>3, QuietRest DEF ReserveRefused, model, LCInv, RestTyped
<1>7. QED
  BY <1>2, <1>4, <1>5, <1>6 DEF Effect

\* After the victims the leader tries again or gives up.
LEMMA EvictionDoneStep ==
  ASSUME LCInv, NEW t \in Tasks, EvictionDone(t)
  PROVE  Effect(t)
<1>1. PICK r \in TaskRec : r = task[t] /\ ShapeOf(t, r)
  BY DEF LCInv, TasksShaped
<1>2. OthersStay(t) /\ task'[t] = [r EXCEPT !.pc = IF r.evicted THEN "resolving" ELSE "failing"]
  BY <1>1, BecomeStays DEF EvictionDone, Goto, LCInv, TasksShaped
<1>3. r.pc = "unloading" /\ t \in Callers
  BY <1>1 DEF EvictionDone, At
<1>4. task'[t] \in TaskRec /\ ShapeOf(t, task'[t])
  BY <1>1, <1>2, <1>3 DEF TaskRec, Labels, ShapeOf, CallerLabels
<1>5. Counts(t)
  BY <1>1, <1>2, <1>3 DEF EvictionDone, Counts, CountKept, Holds, TaskRec, IdleTask, model
<1>6. RestTyped' /\ [RSNext]_reserved
  BY <1>1, <1>2, <1>3, QuietRest DEF EvictionDone, model, LCInv, RestTyped
<1>7. QED
  BY <1>2, <1>4, <1>5, <1>6 DEF Effect

\* The worker refused.
LEMMA LoadFailsStep ==
  ASSUME LCInv, NEW t \in Tasks, LoadFails(t)
  PROVE  Effect(t)
<1>1. PICK r \in TaskRec : r = task[t] /\ ShapeOf(t, r)
  BY DEF LCInv, TasksShaped
<1>2. OthersStay(t) /\ task'[t] = [r EXCEPT !.pc = "failing"]
  BY <1>1, BecomeStays DEF LoadFails, Goto, LCInv, TasksShaped
<1>3. r.pc = "spawning"
  BY <1>1 DEF LoadFails, At
<1>4. task'[t] \in TaskRec /\ ShapeOf(t, task'[t])
  BY <1>1, <1>2, <1>3 DEF TaskRec, Labels, ShapeOf, CallerLabels
<1>5. Counts(t)
  BY <1>1, <1>2, <1>3 DEF LoadFails, Counts, CountKept, Holds, TaskRec, IdleTask, model
<1>6. RestTyped' /\ [RSNext]_reserved
  BY <1>1, <1>2, <1>3, QuietRest DEF LoadFails, model, LCInv, RestTyped
<1>7. QED
  BY <1>2, <1>4, <1>5, <1>6 DEF Effect

\* A request goes to the worker.
LEMMA SendCommandStep ==
  ASSUME LCInv, NEW t \in Tasks, SendCommand(t)
  PROVE  Effect(t)
<1>1. PICK r \in TaskRec : r = task[t] /\ ShapeOf(t, r)
  BY DEF LCInv, TasksShaped
<1>2. OthersStay(t) /\ task'[t] = [r EXCEPT !.pc = "running"]
  BY <1>1, BecomeStays DEF SendCommand, Goto, LCInv, TasksShaped
<1>3. r.pc = "guarded"
  BY <1>1 DEF SendCommand, At
<1>4. task'[t] \in TaskRec /\ ShapeOf(t, task'[t])
  BY <1>1, <1>2, <1>3 DEF TaskRec, Labels, ShapeOf, CallerLabels
<1>5. Counts(t)
  BY <1>1, <1>2, <1>3 DEF SendCommand, Counts, CountKept, Holds, TaskRec, IdleTask, model
<1>6. RestTyped' /\ [RSNext]_reserved
  BY <1>1, <1>2, <1>3, QuietRest DEF SendCommand, model, LCInv, RestTyped
<1>7. QED
  BY <1>2, <1>4, <1>5, <1>6 DEF Effect

\* The command is not sent.
LEMMA SendRefusedStep ==
  ASSUME LCInv, NEW t \in Tasks, SendRefused(t)
  PROVE  Effect(t)
<1>1. PICK r \in TaskRec : r = task[t] /\ ShapeOf(t, r)
  BY DEF LCInv, TasksShaped
<1>2. OthersStay(t) /\ task'[t] = IdleTask
  BY <1>1, BecomeStays DEF SendRefused, Return, LCInv, TasksShaped
<1>3. r.pc = "guarded"
  BY <1>1 DEF SendRefused, At
<1>4. task'[t] \in TaskRec /\ ShapeOf(t, task'[t])
  BY <1>2, IdleShaped
<1>5. Counts(t)
  BY <1>1, <1>2, <1>3, DropCounts DEF SendRefused, Counts, Holds
<1>6. RestTyped' /\ [RSNext]_reserved
  BY <1>1, <1>2, <1>3, QuietRest DEF SendRefused, model, LCInv, RestTyped
<1>7. QED
  BY <1>2, <1>4, <1>5, <1>6 DEF Effect

\* The request is over.
LEMMA CompleteStep ==
  ASSUME LCInv, NEW t \in Tasks, Complete(t)
  PROVE  Effect(t)
<1>1. PICK r \in TaskRec : r = task[t] /\ ShapeOf(t, r)
  BY DEF LCInv, TasksShaped
<1>2. OthersStay(t) /\ task'[t] = IdleTask
  BY <1>1, BecomeStays DEF Complete, Return, LCInv, TasksShaped
<1>3. r.pc = "running"
  BY <1>1 DEF Complete, At
<1>4. task'[t] \in TaskRec /\ ShapeOf(t, task'[t])
  BY <1>2, IdleShaped
<1>5. Counts(t)
  BY <1>1, <1>2, <1>3, DropCounts DEF Complete, Counts, Holds
<1>6. RestTyped' /\ [RSNext]_reserved
  BY <1>1, <1>2, <1>3, QuietRest DEF Complete, model, LCInv, RestTyped
<1>7. QED
  BY <1>2, <1>4, <1>5, <1>6 DEF Effect

\* The load has failed.
LEMMA LeaveStep ==
  ASSUME LCInv, NEW t \in Tasks, Leave(t)
  PROVE  Effect(t)
<1>1. PICK r \in TaskRec : r = task[t] /\ ShapeOf(t, r)
  BY DEF LCInv, TasksShaped
<1>2. OthersStay(t) /\ task'[t] = IdleTask
  BY <1>1, BecomeStays DEF Leave, Return, LCInv, TasksShaped
<1>3. r.pc = "leaving"
  BY <1>1 DEF Leave, At
<1>4. task'[t] \in TaskRec /\ ShapeOf(t, task'[t])
  BY <1>2, IdleShaped
<1>5. Counts(t)
  BY <1>1, <1>2, <1>3, DropCounts DEF Leave, Counts, Holds
<1>6. RestTyped' /\ [RSNext]_reserved
  BY <1>1, <1>2, <1>3, QuietRest DEF Leave, model, LCInv, RestTyped
<1>7. QED
  BY <1>2, <1>4, <1>5, <1>6 DEF Effect

\* The leader's own guard is taken.
LEMMA TakeSentinelStep ==
  ASSUME LCInv, NEW t \in Tasks, TakeSentinel(t)
  PROVE  Effect(t)
<1>1. PICK r \in TaskRec : r = task[t] /\ ShapeOf(t, r)
  BY DEF LCInv, TasksShaped
<1>2. OthersStay(t) /\ task'[t] = [r EXCEPT !.pc = "queued"]
  BY <1>1, BecomeStays DEF TakeSentinel, Goto, LCInv, TasksShaped
<1>3. r.pc = "sentinel"
  BY <1>1 DEF TakeSentinel, At
<1>4. task'[t] \in TaskRec /\ ShapeOf(t, task'[t])
  BY <1>1, <1>2, <1>3 DEF TaskRec, Labels, ShapeOf, CallerLabels, Callers
<1>5. Counts(t)
  BY <1>1, <1>2, <1>3 DEF TakeSentinel, Counts, CountUp, CountKept, Holds, TaskRec, ShapeOf
<1>6. RestTyped' /\ [RSNext]_reserved
  BY <1>1, <1>2, <1>3, QuietRest DEF TakeSentinel, model, LCInv, RestTyped
<1>7. QED
  BY <1>2, <1>4, <1>5, <1>6 DEF Effect

\* A caller becomes the leader.
LEMMA BecomeLeaderStep ==
  ASSUME LCInv, NEW t \in Tasks, BecomeLeader(t)
  PROVE  Effect(t)
<1>1. PICK r \in TaskRec : r = task[t] /\ ShapeOf(t, r)
  BY DEF LCInv, TasksShaped
<1>2. OthersStay(t) /\ task'[t] = [r EXCEPT !.pc = IF t \in Requests THEN "sentinel" ELSE "queued"]
  BY <1>1, BecomeStays DEF BecomeLeader, Goto, LCInv, TasksShaped
<1>3. r.pc = "lookup"
  BY <1>1 DEF BecomeLeader, At
<1>4. task'[t] \in TaskRec /\ ShapeOf(t, task'[t])
  BY <1>1, <1>2, <1>3 DEF TaskRec, Labels, ShapeOf, CallerLabels
<1>5. Counts(t)
  BY <1>1, <1>2, <1>3 DEF BecomeLeader, Counts, CountKept, Holds, TaskRec, IdleTask, model
<1>6. RestTyped' /\ [RSNext]_reserved
  BY <1>1, <1>2, <1>3 DEF BecomeLeader, LCInv, RestTyped, PlacementKept, RSTypeOK, ShapeOf, CallerLabels
<1>7. QED
  BY <1>2, <1>4, <1>5, <1>6 DEF Effect

\* A configured placement is tried as it is, an automatic one names the most free device.
LEMMA ResolvePlacementStep ==
  ASSUME LCInv, NEW t \in Tasks, ResolvePlacement(t)
  PROVE  Effect(t)
<1>1. PICK r \in TaskRec : r = task[t] /\ ShapeOf(t, r)
  BY DEF LCInv, TasksShaped
<1> DEFINE devs == IF placement[r.model] = <<>> THEN <<MostFreeDevice>> ELSE placement[r.model]
<1> DEFINE q == [r EXCEPT !.pc = "reserving", !.devs = devs, !.held = <<>>]
<1>2. OthersStay(t) /\ task'[t] = q
  BY <1>1, BecomeStays DEF ResolvePlacement, LCInv, TasksShaped
<1>3. r.pc = "resolving" /\ r.model \in Models /\ t \in Callers
  BY <1>1 DEF ResolvePlacement, At, ShapeOf, CallerLabels
<1>4. task'[t] \in TaskRec /\ ShapeOf(t, task'[t])
  <2>1. devs \in Seq(DevicesOf(r.model))
    <3>1. CASE placement[r.model] = <<>>
      <4>1. IsAuto(r.model)
        BY <1>3, <3>1 DEF LCInv, RestTyped, PlacementKept
      <4>2. MostFreeDevice \in DevicesOf(r.model)
        BY <4>1, MostFreeIsDevice DEF LCInv, RestTyped, DevicesOf
      <4>3. QED
        BY <3>1, <4>2
    <3>2. CASE placement[r.model] # <<>>
      BY <1>3, <3>2 DEF LCInv, RestTyped, PlacementKept
    <3>3. QED
      BY <3>1, <3>2
  <2> HIDE DEF devs
  <2>2. devs \in Seq(Gpus)
    <3>1. DevicesOf(r.model) \in SUBSET Gpus
      BY <1>3, DevicesAreGpus
    <3>2. QED
      BY <2>1, <3>1, WiderSeq
  <2>5. <<>> \in Seq(Gpus) /\ <<>> \in Seq(DevicesOf(r.model))
    OBVIOUS
  <2>3. q \in TaskRec
    BY <2>2, <2>5 DEF TaskRec, Labels
  <2>4. QED
    BY <1>1, <1>2, <1>3, <2>1, <2>2, <2>5, <2>3 DEF ShapeOf, CallerLabels, TaskRec
<1> HIDE DEF devs
<1>5. Counts(t)
  BY <1>1, <1>2, <1>3 DEF ResolvePlacement, Counts, CountKept, Holds, TaskRec, model
<1>6. RestTyped' /\ [RSNext]_reserved
  BY QuietRest DEF ResolvePlacement, model, LCInv, RestTyped
<1>7. QED
  BY <1>2, <1>4, <1>5, <1>6 DEF Effect

\* try_reserve on one device of the model.
LEMMA ReserveDeviceStep ==
  ASSUME LCInv, NEW t \in Tasks, ReserveDevice(t)
  PROVE  Effect(t)
<1>1. PICK r \in TaskRec : r = task[t] /\ ShapeOf(t, r)
  BY DEF LCInv, TasksShaped
<1> DEFINE q == [r EXCEPT !.devs = Tail(r.devs), !.held = Append(r.held, Head(r.devs))]
<1>2. OthersStay(t) /\ task'[t] = q
  BY <1>1, BecomeStays DEF ReserveDevice, LCInv, TasksShaped
<1>3. r.pc = "reserving" /\ r.devs # <<>> /\ r.model \in Models /\ t \in Callers
  BY <1>1 DEF ReserveDevice, At, ShapeOf, CallerLabels
<1>8. r.devs \in Seq(DevicesOf(r.model)) /\ r.held \in Seq(DevicesOf(r.model))
  BY <1>1, <1>3 DEF ShapeOf
<1>9. PICK g \in DevicesOf(r.model) : g = Head(r.devs)
  BY <1>3, <1>8, Ends
<1>10. Tail(r.devs) \in Seq(DevicesOf(r.model)) /\ Append(r.held, g) \in Seq(DevicesOf(r.model))
  BY <1>3, <1>8, Ends, AppendProperties
<1>11. Tail(r.devs) \in Seq(Gpus) /\ Append(r.held, g) \in Seq(Gpus)
  BY <1>3, <1>10, DevicesAreGpus, WiderSeq
<1>4. task'[t] \in TaskRec /\ ShapeOf(t, task'[t])
  <2>1. q \in TaskRec
    BY <1>9, <1>11 DEF TaskRec
  <2>2. QED
    BY <1>1, <1>2, <1>3, <1>9, <1>10, <2>1 DEF ShapeOf, CallerLabels, TaskRec
<1>5. Counts(t)
  BY <1>1, <1>2, <1>3 DEF ReserveDevice, Counts, CountKept, Holds, TaskRec, model
<1>6. RestTyped' /\ [RSNext]_reserved
  <2>1. RSNext
    BY <1>1, <1>3, <1>9 DEF ReserveDevice, RSNext
  <2>2. RSTypeOK'
    BY <2>1, TypeStep DEF LCInv, RestTyped
  <2>3. QED
    BY <2>1, <2>2 DEF ReserveDevice, model, LCInv, RestTyped, PlacementKept
<1>7. QED
  BY <1>2, <1>4, <1>5, <1>6 DEF Effect

\* A device taken for the model is released.
LEMMA RollBackDeviceStep ==
  ASSUME LCInv, NEW t \in Tasks, RollBackDevice(t)
  PROVE  Effect(t)
<1>1. PICK r \in TaskRec : r = task[t] /\ ShapeOf(t, r)
  BY DEF LCInv, TasksShaped
<1> DEFINE q == [r EXCEPT !.held = Tail(r.held)]
<1>2. OthersStay(t) /\ task'[t] = q
  BY <1>1, BecomeStays DEF RollBackDevice, LCInv, TasksShaped
<1>3. r.pc = "rollingBack" /\ r.held # <<>> /\ r.model \in Models /\ t \in Callers
  BY <1>1 DEF RollBackDevice, At, ShapeOf, CallerLabels
<1>8. r.held \in Seq(DevicesOf(r.model)) /\ r.held \in Seq(DevicesOf(r.model))
  BY <1>1, <1>3 DEF ShapeOf
<1>9. PICK g \in DevicesOf(r.model) : g = Head(r.held)
  BY <1>3, <1>8, Ends
<1>10. Tail(r.held) \in Seq(DevicesOf(r.model))
  BY <1>3, <1>8, Ends
<1>11. Tail(r.held) \in Seq(Gpus)
  BY <1>3, <1>10, DevicesAreGpus, WiderSeq
<1>4. task'[t] \in TaskRec /\ ShapeOf(t, task'[t])
  <2>1. q \in TaskRec
    BY <1>9, <1>11 DEF TaskRec
  <2>2. QED
    BY <1>1, <1>2, <1>3, <1>9, <1>10, <2>1 DEF ShapeOf, CallerLabels, TaskRec
<1>5. Counts(t)
  BY <1>1, <1>2, <1>3 DEF RollBackDevice, Counts, CountKept, Holds, TaskRec, model
<1>6. RestTyped' /\ [RSNext]_reserved
  <2>1. RSNext
    BY <1>1, <1>3, <1>9 DEF RollBackDevice, RSNext
  <2>2. RSTypeOK'
    BY <2>1, TypeStep DEF LCInv, RestTyped
  <2>3. QED
    BY <2>1, <2>2 DEF RollBackDevice, model, LCInv, RestTyped, PlacementKept
<1>7. QED
  BY <1>2, <1>4, <1>5, <1>6 DEF Effect

\* The same after a failed load.
LEMMA DropReservationStep ==
  ASSUME LCInv, NEW t \in Tasks, DropReservation(t)
  PROVE  Effect(t)
<1>1. PICK r \in TaskRec : r = task[t] /\ ShapeOf(t, r)
  BY DEF LCInv, TasksShaped
<1> DEFINE q == [r EXCEPT !.held = Tail(r.held)]
<1>2. OthersStay(t) /\ task'[t] = q
  BY <1>1, BecomeStays DEF DropReservation, LCInv, TasksShaped
<1>3. r.pc = "failing" /\ r.held # <<>> /\ r.model \in Models /\ t \in Callers
  BY <1>1 DEF DropReservation, At, ShapeOf, CallerLabels
<1>8. r.held \in Seq(DevicesOf(r.model)) /\ r.held \in Seq(DevicesOf(r.model))
  BY <1>1, <1>3 DEF ShapeOf
<1>9. PICK g \in DevicesOf(r.model) : g = Head(r.held)
  BY <1>3, <1>8, Ends
<1>10. Tail(r.held) \in Seq(DevicesOf(r.model))
  BY <1>3, <1>8, Ends
<1>11. Tail(r.held) \in Seq(Gpus)
  BY <1>3, <1>10, DevicesAreGpus, WiderSeq
<1>4. task'[t] \in TaskRec /\ ShapeOf(t, task'[t])
  <2>1. q \in TaskRec
    BY <1>9, <1>11 DEF TaskRec
  <2>2. QED
    BY <1>1, <1>2, <1>3, <1>9, <1>10, <2>1 DEF ShapeOf, CallerLabels, TaskRec
<1>5. Counts(t)
  BY <1>1, <1>2, <1>3 DEF DropReservation, Counts, CountKept, Holds, TaskRec, model
<1>6. RestTyped' /\ [RSNext]_reserved
  <2>1. RSNext
    BY <1>1, <1>3, <1>9 DEF DropReservation, RSNext
  <2>2. RSTypeOK'
    BY <2>1, TypeStep DEF LCInv, RestTyped
  <2>3. QED
    BY <2>1, <2>2 DEF DropReservation, model, LCInv, RestTyped, PlacementKept
<1>7. QED
  BY <1>2, <1>4, <1>5, <1>6 DEF Effect

\* Victims are known and unpinned.
LEMMA PickVictimsStep ==
  ASSUME LCInv, NEW t \in Tasks, PickVictims(t)
  PROVE  Effect(t)
<1>1. PICK r \in TaskRec : r = task[t] /\ ShapeOf(t, r)
  BY DEF LCInv, TasksShaped
<1>3. /\ r.pc = "rollingBack" /\ r.model \in Models /\ t \in Callers
      /\ r.devs # <<>> /\ r.devs \in Seq(DevicesOf(r.model))
  BY <1>1 DEF PickVictims, At, ShapeOf, CallerLabels
<1>8. Head(r.devs) \in Gpus
  BY <1>3, Ends, DevicesAreGpus
<1> DEFINE fail == [r EXCEPT !.pc = "failing", !.devs = <<>>]
<1> DEFINE evict(v) == [r EXCEPT !.pc = "unloading", !.devs = <<>>, !.victims = v, !.evicted = FALSE]
<1>9. \/ Become(t, fail)
      \/ \E v \in Seq(Models \ Pinned) : Become(t, evict(v))
  <2>1. CASE Become(t, fail)
    BY <2>1
  <2>2. ASSUME NEW v \in EvictionCandidates(Head(r.devs), Share(r.model, Head(r.devs)), lastUsed, inFlight),
               Become(t, evict(v))
        PROVE  \E w \in Seq(Models \ Pinned) : Become(t, evict(w))
    BY <1>8, <2>2, VictimsAreUnpinned DEF LCInv, RestTyped
  <2>3. QED
    BY <1>1, <2>1, <2>2 DEF PickVictims
<1>10. PICK v \in Seq(Models \ Pinned) : Become(t, fail) \/ Become(t, evict(v))
  BY <1>9, <1>1 DEF ShapeOf
<1>2. OthersStay(t) /\ (task'[t] = fail \/ task'[t] = evict(v))
  BY <1>10, BecomeStays DEF LCInv, TasksShaped
<1>4. task'[t] \in TaskRec /\ ShapeOf(t, task'[t])
  <2>1. v \in Seq(Models) /\ <<>> \in Seq(Gpus) /\ r.held \in Seq(DevicesOf(r.model))
    BY <1>1, <1>3, WiderSeq DEF ShapeOf
  <2>2. fail \in TaskRec /\ evict(v) \in TaskRec
    BY <2>1 DEF TaskRec, Labels
  <2>3. ShapeOf(t, fail)
    BY <1>1, <1>3, <2>1 DEF ShapeOf, CallerLabels, TaskRec
  <2>4. ShapeOf(t, evict(v))
    <3>1. t \notin Drainers
      BY <1>3, LifecycleAssumption DEF Callers
    <3>2. QED
      BY <1>1, <1>3, <2>1, <3>1 DEF ShapeOf, CallerLabels, TaskRec
  <2>5. QED
    BY <1>2, <2>2, <2>3, <2>4
<1>5. Counts(t)
  BY <1>1, <1>2, <1>3 DEF PickVictims, Counts, CountKept, Holds, TaskRec, model
<1>6. RestTyped' /\ [RSNext]_reserved
  BY QuietRest DEF PickVictims, model, LCInv, RestTyped
<1>7. QED
  BY <1>2, <1>4, <1>5, <1>6 DEF Effect

\* Only an automatic placement is written, with devices.
LEMMA CommitPlacementStep ==
  ASSUME LCInv, NEW t \in Tasks, CommitPlacement(t)
  PROVE  Effect(t)
<1>1. PICK r \in TaskRec : r = task[t] /\ ShapeOf(t, r)
  BY DEF LCInv, TasksShaped
<1>2. OthersStay(t) /\ task'[t] = [r EXCEPT !.pc = "reading"]
  BY <1>1, BecomeStays DEF CommitPlacement, Goto, LCInv, TasksShaped
<1>3. r.pc = "reserving" /\ r.model \in Models /\ r.held \in Seq(DevicesOf(r.model)) /\ t \in Callers
  BY <1>1 DEF CommitPlacement, At, ShapeOf, CallerLabels
<1>4. task'[t] \in TaskRec /\ ShapeOf(t, task'[t])
  BY <1>1, <1>2, <1>3 DEF TaskRec, Labels, ShapeOf, CallerLabels
<1>5. Counts(t)
  BY <1>1, <1>2, <1>3 DEF CommitPlacement, Counts, CountKept, Holds, TaskRec, model
<1>6. RestTyped' /\ [RSNext]_reserved
  <2>1. placement' = [placement EXCEPT ![r.model] = IF @ = <<>> THEN r.held ELSE @]
    BY <1>1 DEF CommitPlacement
  <2>2. placement' \in [Models -> Seq(Gpus)]
    BY <1>1, <2>1 DEF LCInv, RestTyped, TaskRec
  <2>3. PlacementKept'
    BY <1>3, <2>1 DEF LCInv, RestTyped, PlacementKept, IsAuto, DevicesOf
  <2>4. QED
    BY <2>2, <2>3 DEF CommitPlacement, LCInv, RestTyped, RSTypeOK
<1>7. QED
  BY <1>2, <1>4, <1>5, <1>6 DEF Effect

\* The devices of the worker are those of the placement.
LEMMA ReadBackStep ==
  ASSUME LCInv, NEW t \in Tasks, ReadBack(t)
  PROVE  Effect(t)
<1>1. PICK r \in TaskRec : r = task[t] /\ ShapeOf(t, r)
  BY DEF LCInv, TasksShaped
<1> DEFINE devs == placement[r.model]
<1> DEFINE q == [r EXCEPT !.pc = IF devs = <<>> THEN "failing" ELSE "spawning", !.held = devs]
<1>2. OthersStay(t) /\ task'[t] = q
  BY <1>1, BecomeStays DEF ReadBack, LCInv, TasksShaped
<1>3. r.pc = "reading" /\ r.model \in Models /\ t \in Callers
  BY <1>1 DEF ReadBack, At, ShapeOf, CallerLabels
<1>8. devs \in Seq(DevicesOf(r.model)) /\ devs \in Seq(Gpus)
  BY <1>3 DEF LCInv, RestTyped, PlacementKept
<1> HIDE DEF devs
<1>4. task'[t] \in TaskRec /\ ShapeOf(t, task'[t])
  <2>1. q \in TaskRec
    BY <1>8 DEF TaskRec, Labels
  <2>2. QED
    BY <1>1, <1>2, <1>3, <1>8, <2>1 DEF ShapeOf, CallerLabels, TaskRec
<1>5. Counts(t)
  BY <1>1, <1>2, <1>3 DEF ReadBack, Counts, CountKept, Holds, TaskRec, model
<1>6. RestTyped' /\ [RSNext]_reserved
  BY QuietRest DEF ReadBack, model, LCInv, RestTyped
<1>7. QED
  BY <1>2, <1>4, <1>5, <1>6 DEF Effect

\* The model is loaded on the devices at hand.
LEMMA LoadSucceedsStep ==
  ASSUME LCInv, NEW t \in Tasks, LoadSucceeds(t)
  PROVE  Effect(t)
<1>1. PICK r \in TaskRec : r = task[t] /\ ShapeOf(t, r)
  BY DEF LCInv, TasksShaped
<1> DEFINE q == [r EXCEPT !.pc = "announcing", !.held = <<>>]
<1>2. OthersStay(t) /\ task'[t] = q
  BY <1>1, BecomeStays DEF LoadSucceeds, LCInv, TasksShaped
<1>3. r.pc = "spawning" /\ r.model \in Models /\ r.held \in Seq(Gpus)
  BY <1>1 DEF LoadSucceeds, At, ShapeOf, TaskRec
<1>4. task'[t] \in TaskRec /\ ShapeOf(t, task'[t])
  <2>1. <<>> \in Seq(Gpus)
    OBVIOUS
  <2>2. q \in TaskRec
    BY <2>1 DEF TaskRec, Labels
  <2>3. QED
    BY <1>1, <1>2, <1>3, <2>2 DEF ShapeOf, CallerLabels, TaskRec
<1>5. Counts(t)
  BY <1>1, <1>2, <1>3 DEF LoadSucceeds, Counts, CountKept, Holds, TaskRec, model
<1>6. RestTyped' /\ [RSNext]_reserved
  BY <1>1, <1>3 DEF LoadSucceeds, LCInv, RestTyped, PlacementKept, RSTypeOK
<1>7. QED
  BY <1>2, <1>4, <1>5, <1>6 DEF Effect

\* The load is announced and the coordinator given back.
LEMMA AnnounceStep ==
  ASSUME LCInv, NEW t \in Tasks, Announce(t)
  PROVE  Effect(t)
<1>1. PICK r \in TaskRec : r = task[t] /\ ShapeOf(t, r)
  BY DEF LCInv, TasksShaped
<1> DEFINE q == IF t \in Requests THEN [r EXCEPT !.pc = "guarded", !.evicted = FALSE] ELSE IdleTask
<1>2. OthersStay(t) /\ task'[t] = q
  BY <1>1, NotifyStays DEF Announce
<1>3. r.pc = "announcing" /\ r.model \in Models /\ t \in Callers
  BY <1>1 DEF Announce, At, ShapeOf, CallerLabels
<1>4. task'[t] \in TaskRec /\ ShapeOf(t, task'[t])
  <2>1. CASE t \in Requests
    <3>1. task'[t] = [r EXCEPT !.pc = "guarded", !.evicted = FALSE]
      BY <1>2, <2>1
    <3>2. task'[t] \in TaskRec
      BY <3>1 DEF TaskRec, Labels
    <3>3. ShapeOf(t, task'[t])
      BY <1>1, <1>3, <2>1, <3>1 DEF TaskRec, ShapeOf, CallerLabels
    <3>4. QED
      BY <3>2, <3>3
  <2>2. CASE t \notin Requests
    BY <1>2, <2>2, IdleShaped
  <2>3. QED
    BY <2>1, <2>2
<1>5. Counts(t)
  BY <1>1, <1>2, <1>3 DEF Announce, Counts, CountKept, Holds, TaskRec
<1>6. RestTyped' /\ [RSNext]_reserved
  <2>1. lastUsed' \in [Models -> Nat]
    BY <1>1, <1>3, TouchTyped DEF Announce
  <2>2. QED
    BY <2>1 DEF Announce, LCInv, RestTyped, PlacementKept, RSTypeOK
<1>7. QED
  BY <1>2, <1>4, <1>5, <1>6 DEF Effect

\* The load has failed and the waiters are told.
LEMMA FailLoadingStep ==
  ASSUME LCInv, NEW t \in Tasks, FailLoading(t)
  PROVE  Effect(t)
<1>1. PICK r \in TaskRec : r = task[t] /\ ShapeOf(t, r)
  BY DEF LCInv, TasksShaped
<1> DEFINE q == [IdleTask EXCEPT !.pc = "leaving", !.model = r.model]
<1>2. OthersStay(t) /\ task'[t] = q
  BY <1>1, NotifyStays DEF FailLoading
<1>3. r.pc = "failing" /\ r.model \in Models /\ t \in Callers
  BY <1>1 DEF FailLoading, At, ShapeOf, CallerLabels
<1>4. task'[t] \in TaskRec /\ ShapeOf(t, task'[t])
  <2>1. <<>> \in Seq(Gpus) /\ <<>> \in Seq(Models) /\ <<>> \in Seq(Models \ Pinned)
    OBVIOUS
  <2>2. QED
    BY <1>2, <1>3, <2>1 DEF IdleTask, TaskRec, ShapeOf, Labels, CallerLabels
<1>5. Counts(t)
  BY <1>1, <1>2, <1>3 DEF FailLoading, Counts, CountKept, Holds, TaskRec, IdleTask
<1>6. RestTyped' /\ [RSNext]_reserved
  BY <1>1, <1>3 DEF FailLoading, LCInv, RestTyped, PlacementKept, RSTypeOK
<1>7. QED
  BY <1>2, <1>4, <1>5, <1>6 DEF Effect

\* A request takes its guard on a loaded model.
LEMMA FoundLoadedStep ==
  ASSUME LCInv, NEW t \in Tasks, FoundLoaded(t)
  PROVE  Effect(t)
<1>1. PICK r \in TaskRec : r = task[t] /\ ShapeOf(t, r)
  BY DEF LCInv, TasksShaped
<1> DEFINE q == IF t \in Requests THEN [r EXCEPT !.pc = "guarded"] ELSE IdleTask
<1>2. OthersStay(t) /\ task'[t] = q
  BY <1>1, BecomeStays DEF FoundLoaded, Goto, Return, LCInv, TasksShaped
<1>3. r.pc = "lookup" /\ r.model \in Models /\ t \in Callers
  BY <1>1 DEF FoundLoaded, At, ShapeOf, CallerLabels
<1>4. task'[t] \in TaskRec /\ ShapeOf(t, task'[t])
  <2>1. CASE t \in Requests
    <3>1. task'[t] = [r EXCEPT !.pc = "guarded"]
      BY <1>2, <2>1
    <3>2. task'[t] \in TaskRec
      BY <3>1 DEF TaskRec, Labels
    <3>3. ShapeOf(t, task'[t])
      BY <1>1, <1>3, <2>1, <3>1 DEF TaskRec, ShapeOf, CallerLabels
    <3>4. QED
      BY <3>2, <3>3
  <2>2. CASE t \notin Requests
    BY <1>2, <2>2, IdleShaped
  <2>3. QED
    BY <2>1, <2>2
<1>5. Counts(t)
  BY <1>1, <1>2, <1>3 DEF FoundLoaded, Counts, CountKept, CountUp, Holds, TaskRec
<1>6. RestTyped' /\ [RSNext]_reserved
  <2>1. lastUsed' \in [Models -> Nat]
    BY <1>1, <1>3, TouchTyped DEF FoundLoaded, LCInv, RestTyped
  <2>2. QED
    BY <2>1 DEF FoundLoaded, LCInv, RestTyped, PlacementKept, RSTypeOK
<1>7. QED
  BY <1>2, <1>4, <1>5, <1>6 DEF Effect

\* The model a task takes down is a model, and not pinned when a caller does it.
LEMMA TargetKnown ==
  ASSUME NEW t \in Tasks, NEW r \in TaskRec, r = task[t], ShapeOf(t, r), r.pc # "idle",
         t \in Callers => r.victims # <<>>
  PROVE  Target(t) = TargetOf(t, r) /\ Target(t) \in Models /\ (t \in Callers => Target(t) \notin Pinned)
<1>1. Target(t) = TargetOf(t, r)
  BY DEF Target, TargetOf
<1>2. CASE t \in Callers
  <2>1. Head(r.victims) \in Models \ Pinned
    BY <1>2, Ends DEF ShapeOf
  <2>2. QED
    BY <1>1, <1>2, <2>1 DEF TargetOf
<1>3. CASE t \notin Callers
  BY <1>1, <1>3 DEF TargetOf, ShapeOf
<1>4. QED
  BY <1>2, <1>3

\* A task that is back from unload.
LEMMA AfterUnloadShaped ==
  ASSUME task \in [Tasks -> TaskRec], NEW t \in Tasks, NEW r \in TaskRec, r = task[t], ShapeOf(t, r),
         r.pc \in {"unloading", "releasing"}, t \in Callers => r.victims # <<>>,
         NEW ok \in BOOLEAN, AfterUnload(t, ok)
  PROVE  /\ OthersStay(t) /\ task'[t] \in TaskRec /\ ShapeOf(t, task'[t])
         /\ t \in Callers => task'[t].pc = "unloading" /\ task'[t].model = r.model
<1>1. CASE t \in Callers
  <2> DEFINE q == [r EXCEPT !.pc = "unloading", !.devs = <<>>, !.held = <<>>,
                            !.victims = Tail(r.victims), !.evicted = r.evicted \/ ok]
  <2>1. OthersStay(t) /\ task'[t] = q
    BY <1>1, BecomeStays DEF AfterUnload
  <2>2. Tail(r.victims) \in Seq(Models \ Pinned)
    BY <1>1, Ends DEF ShapeOf
  <2>3. Tail(r.victims) \in Seq(Models)
    BY <2>2, WiderSeq
  <2>4. <<>> \in Seq(Gpus) /\ <<>> \in Seq(DevicesOf(r.model))
    OBVIOUS
  <2>8. (r.evicted \/ ok) \in BOOLEAN
    BY DEF TaskRec
  <2>5. q \in TaskRec
    BY <2>3, <2>4, <2>8 DEF TaskRec, Labels
  <2>6. t \notin Drainers
    BY <1>1, LifecycleAssumption DEF Callers
  <2>9. /\ q.pc = "unloading" /\ q.model = r.model /\ q.held = <<>> /\ q.victims = Tail(r.victims)
        /\ r.model \in Models
    BY DEF TaskRec, ShapeOf
  <2> HIDE DEF q
  <2>7. ShapeOf(t, q)
    BY <2>2, <2>4, <2>6, <2>9 DEF ShapeOf, CallerLabels
  <2>10. QED
    BY <2>1, <2>5, <2>7, <2>9
<1>2. CASE t \notin Callers
  BY <1>2, BecomeStays, IdleShaped DEF AfterUnload, Return
<1>3. QED
  BY <1>1, <1>2

\* A model in use is not unloaded.
LEMMA UnloadBusyStep ==
  ASSUME LCInv, NEW t \in Tasks, UnloadBusy(t)
  PROVE  Effect(t)
<1>1. PICK r \in TaskRec : r = task[t] /\ ShapeOf(t, r)
  BY DEF LCInv, TasksShaped
<1>3. r.pc = "unloading" /\ (t \in Callers => r.victims # <<>>)
  BY <1>1 DEF UnloadBusy, Unloading, At
<1>2. /\ OthersStay(t) /\ task'[t] \in TaskRec /\ ShapeOf(t, task'[t])
      /\ t \in Callers => task'[t].pc = "unloading" /\ task'[t].model = r.model
  BY <1>1, <1>3, AfterUnloadShaped DEF UnloadBusy, LCInv, TasksShaped
<1>4. task'[t] \in TaskRec /\ ShapeOf(t, task'[t])
  BY <1>2
<1>5. Counts(t)
  BY <1>1, <1>2, <1>3 DEF UnloadBusy, Counts, CountKept, Holds, Callers, model
<1>6. RestTyped' /\ [RSNext]_reserved
  BY QuietRest DEF UnloadBusy, model, LCInv, RestTyped
<1>7. QED
  BY <1>2, <1>4, <1>5, <1>6 DEF Effect

\* Nothing to unload.
LEMMA UnloadNothingStep ==
  ASSUME LCInv, NEW t \in Tasks, UnloadNothing(t)
  PROVE  Effect(t)
<1>1. PICK r \in TaskRec : r = task[t] /\ ShapeOf(t, r)
  BY DEF LCInv, TasksShaped
<1>3. r.pc = "unloading" /\ (t \in Callers => r.victims # <<>>)
  BY <1>1 DEF UnloadNothing, Unloading, At
<1>2. /\ OthersStay(t) /\ task'[t] \in TaskRec /\ ShapeOf(t, task'[t])
      /\ t \in Callers => task'[t].pc = "unloading" /\ task'[t].model = r.model
  BY <1>1, <1>3, AfterUnloadShaped DEF UnloadNothing, LCInv, TasksShaped
<1>4. task'[t] \in TaskRec /\ ShapeOf(t, task'[t])
  BY <1>2
<1>5. Counts(t)
  BY <1>1, <1>2, <1>3 DEF UnloadNothing, Counts, CountKept, Holds, Callers, model
<1>6. RestTyped' /\ [RSNext]_reserved
  BY QuietRest DEF UnloadNothing, model, LCInv, RestTyped
<1>7. QED
  BY <1>2, <1>4, <1>5, <1>6 DEF Effect

\* The placement of an automatic model is forgotten.
LEMMA FinishUnloadStep ==
  ASSUME LCInv, NEW t \in Tasks, FinishUnload(t)
  PROVE  Effect(t)
<1>1. PICK r \in TaskRec : r = task[t] /\ ShapeOf(t, r)
  BY DEF LCInv, TasksShaped
<1>3. r.pc = "releasing" /\ (t \in Callers => r.victims # <<>>)
  BY <1>1 DEF FinishUnload, At, ShapeOf
<1>2. /\ OthersStay(t) /\ task'[t] \in TaskRec /\ ShapeOf(t, task'[t])
      /\ t \in Callers => task'[t].pc = "unloading" /\ task'[t].model = r.model
  BY <1>1, <1>3, AfterUnloadShaped DEF FinishUnload, LCInv, TasksShaped
<1>4. task'[t] \in TaskRec /\ ShapeOf(t, task'[t])
  BY <1>2
<1>5. Counts(t)
  BY <1>1, <1>2, <1>3 DEF FinishUnload, Counts, CountKept, Holds, Callers, model
<1>6. RestTyped' /\ [RSNext]_reserved
  <2>1. PICK m \in Models : m = Target(t)
    BY <1>1, <1>3, TargetKnown
  <2>2. placement' = placement \/ placement' = [placement EXCEPT ![m] = IF IsAuto(m) THEN <<>> ELSE @]
    BY <2>1 DEF FinishUnload
  <2>3. <<>> \in Seq(Gpus) /\ <<>> \in Seq(DevicesOf(m))
    OBVIOUS
  <2>4. placement' \in [Models -> Seq(Gpus)]
    BY <2>2, <2>3 DEF LCInv, RestTyped
  <2>5. PlacementKept'
    BY <2>2, <2>3 DEF LCInv, RestTyped, PlacementKept
  <2>6. QED
    BY <2>4, <2>5 DEF FinishUnload, LCInv, RestTyped, RSTypeOK
<1>7. QED
  BY <1>2, <1>4, <1>5, <1>6 DEF Effect

\* The worker of the model is taken out.
LEMMA TakeWorkerStep ==
  ASSUME LCInv, NEW t \in Tasks, TakeWorker(t)
  PROVE  Effect(t)
<1>1. PICK r \in TaskRec : r = task[t] /\ ShapeOf(t, r)
  BY DEF LCInv, TasksShaped
<1>3. r.pc = "unloading" /\ (t \in Callers => r.victims # <<>>) /\ r.model \in Models
  BY <1>1 DEF TakeWorker, Unloading, At, ShapeOf
<1>8. PICK m \in Models : m = Target(t)
  BY <1>1, <1>3, TargetKnown
<1>9. loadedOn[m] \in Seq(Gpus)
  BY DEF LCInv, RestTyped
<1> DEFINE q == [r EXCEPT !.pc = "joining", !.held = loadedOn[m]]
<1>2. OthersStay(t) /\ task'[t] = q
  BY <1>1, <1>8, BecomeStays DEF TakeWorker, LCInv, TasksShaped
<1>4. task'[t] \in TaskRec /\ ShapeOf(t, task'[t])
  <2>1. q \in TaskRec
    BY <1>9 DEF TaskRec, Labels
  <2>2. QED
    BY <1>1, <1>2, <1>3, <2>1 DEF ShapeOf, CallerLabels, TaskRec
<1>5. Counts(t)
  BY <1>1, <1>2, <1>3 DEF TakeWorker, Counts, CountKept, Holds, TaskRec
<1>6. RestTyped' /\ [RSNext]_reserved
  <2>1. <<>> \in Seq(Gpus)
    OBVIOUS
  <2>2. QED
    BY <1>8, <2>1 DEF TakeWorker, LCInv, RestTyped, PlacementKept, RSTypeOK
<1>7. QED
  BY <1>2, <1>4, <1>5, <1>6 DEF Effect

\* The devices to release are those of the placement as it is now.
LEMMA JoinWorkerStep ==
  ASSUME LCInv, NEW t \in Tasks, JoinWorker(t)
  PROVE  Effect(t)
<1>1. PICK r \in TaskRec : r = task[t] /\ ShapeOf(t, r)
  BY DEF LCInv, TasksShaped
<1>3. r.pc = "joining" /\ (t \in Callers => r.victims # <<>>) /\ r.model \in Models
  BY <1>1 DEF JoinWorker, At, ShapeOf
<1>8. PICK m \in Models : m = Target(t) /\ m = TargetOf(t, r)
  BY <1>1, <1>3, TargetKnown
<1> DEFINE q == [r EXCEPT !.pc = "releasing", !.held = <<>>, !.devs = placement[m]]
<1>2. OthersStay(t) /\ task'[t] = q
  BY <1>1, <1>8, BecomeStays DEF JoinWorker, LCInv, TasksShaped
<1>4. task'[t] \in TaskRec /\ ShapeOf(t, task'[t])
  <2>1. placement[m] \in Seq(Gpus) /\ placement[m] \in Seq(DevicesOf(m)) /\ <<>> \in Seq(Gpus)
    BY DEF LCInv, RestTyped, PlacementKept
  <2>2. q \in TaskRec
    BY <2>1 DEF TaskRec, Labels
  <2>3. TargetOf(t, q) = m
    BY <1>8 DEF TargetOf, TaskRec
  <2>4. QED
    BY <1>1, <1>2, <1>3, <2>1, <2>2, <2>3 DEF ShapeOf, CallerLabels, TaskRec
<1>5. Counts(t)
  BY <1>1, <1>2, <1>3 DEF JoinWorker, Counts, CountKept, Holds, TaskRec, model
<1>6. RestTyped' /\ [RSNext]_reserved
  BY QuietRest DEF JoinWorker, model, LCInv, RestTyped
<1>7. QED
  BY <1>2, <1>4, <1>5, <1>6 DEF Effect

\* A device of the model taken down is released.
LEMMA ReleaseDeviceStep ==
  ASSUME LCInv, NEW t \in Tasks, ReleaseDevice(t)
  PROVE  Effect(t)
<1>1. PICK r \in TaskRec : r = task[t] /\ ShapeOf(t, r)
  BY DEF LCInv, TasksShaped
<1>3. /\ r.pc = "releasing" /\ (t \in Callers => r.victims # <<>>) /\ r.model \in Models
      /\ r.devs # <<>>
  BY <1>1 DEF ReleaseDevice, At, ShapeOf
<1>8. PICK m \in Models : m = Target(t) /\ m = TargetOf(t, r)
  BY <1>1, <1>3, TargetKnown
<1> DEFINE q == [r EXCEPT !.devs = Tail(r.devs)]
<1>2. OthersStay(t) /\ task'[t] = q
  BY <1>1, BecomeStays DEF ReleaseDevice, LCInv, TasksShaped
<1>9. r.devs \in Seq(DevicesOf(m))
  BY <1>1, <1>3, <1>8 DEF ShapeOf
<1>10. Head(r.devs) \in DevicesOf(m) /\ Tail(r.devs) \in Seq(DevicesOf(m))
  BY <1>3, <1>9, Ends
<1>4. task'[t] \in TaskRec /\ ShapeOf(t, task'[t])
  <2>1. Tail(r.devs) \in Seq(Gpus)
    BY <1>10, DevicesAreGpus, WiderSeq
  <2>2. q \in TaskRec
    BY <2>1 DEF TaskRec
  <2>3. TargetOf(t, q) = m
    BY <1>8 DEF TargetOf, TaskRec
  <2>4. QED
    BY <1>1, <1>2, <1>3, <1>10, <2>2, <2>3 DEF ShapeOf, CallerLabels, TaskRec
<1>5. Counts(t)
  BY <1>1, <1>2, <1>3 DEF ReleaseDevice, Counts, CountKept, Holds, TaskRec, model
<1>6. RestTyped' /\ [RSNext]_reserved
  <2>1. RSNext
    BY <1>1, <1>8, <1>10 DEF ReleaseDevice, RSNext
  <2>2. RSTypeOK'
    BY <2>1, TypeStep DEF LCInv, RestTyped
  <2>3. QED
    BY <2>1, <2>2 DEF ReleaseDevice, model, LCInv, RestTyped, PlacementKept
<1>7. QED
  BY <1>2, <1>4, <1>5, <1>6 DEF Effect

\* Shutdown takes the worker whatever it does.
LEMMA TakeForShutdownStep ==
  ASSUME LCInv, NEW t \in Tasks, TakeForShutdown(t)
  PROVE  Effect(t)
<1>1. PICK r \in TaskRec : r = task[t] /\ ShapeOf(t, r)
  BY DEF LCInv, TasksShaped
<1>3. r.pc = "draining" /\ r.model \in Models /\ t \in Drainers /\ t \notin Callers
  BY <1>1, LifecycleAssumption DEF TakeForShutdown, At, ShapeOf, Callers
<1>9. loadedOn[r.model] \in Seq(Gpus)
  BY <1>3 DEF LCInv, RestTyped
<1> DEFINE q == [r EXCEPT !.pc = "joining", !.held = loadedOn[r.model]]
<1>2. OthersStay(t) /\ (task'[t] = q \/ task'[t] = IdleTask)
  BY <1>1, BecomeStays DEF TakeForShutdown, Return, LCInv, TasksShaped
<1>4. task'[t] \in TaskRec /\ ShapeOf(t, task'[t])
  <2>1. q \in TaskRec
    BY <1>9 DEF TaskRec, Labels
  <2>2. ShapeOf(t, q)
    BY <1>1, <1>3 DEF ShapeOf, CallerLabels, TaskRec
  <2>3. QED
    BY <1>2, <2>1, <2>2, IdleShaped
<1>5. Counts(t)
  BY <1>3 DEF TakeForShutdown, Counts, CountKept, Callers
<1>6. RestTyped' /\ [RSNext]_reserved
  <2>1. <<>> \in Seq(Gpus)
    OBVIOUS
  <2>2. QED
    BY <1>1, <1>3, <2>1 DEF TakeForShutdown, LCInv, RestTyped, PlacementKept, RSTypeOK
<1>7. QED
  BY <1>2, <1>4, <1>5, <1>6 DEF Effect

\* A call begins.
LEMMA BeginStep ==
  ASSUME LCInv, NEW t \in Tasks, Begin(t)
  PROVE  Effect(t)
<1>1. PICK r \in TaskRec : r = task[t] /\ ShapeOf(t, r)
  BY DEF LCInv, TasksShaped
<1>3. r.pc = "idle" /\ t \in Callers
  BY <1>1 DEF Begin, At
<1>8. PICK m \in Models : Become(t, [IdleTask EXCEPT !.pc = "lookup", !.model = m])
  BY DEF Begin
<1> DEFINE q == [IdleTask EXCEPT !.pc = "lookup", !.model = m]
<1>2. OthersStay(t) /\ task'[t] = q
  BY <1>8, BecomeStays DEF LCInv, TasksShaped
<1>4. task'[t] \in TaskRec /\ ShapeOf(t, task'[t])
  <2>1. <<>> \in Seq(Gpus) /\ <<>> \in Seq(Models) /\ <<>> \in Seq(Models \ Pinned) /\ <<>> \in Seq(DevicesOf(m))
    OBVIOUS
  <2>3. QED
    BY <1>2, <1>3, <2>1 DEF IdleTask, TaskRec, ShapeOf, Labels, CallerLabels
<1>5. Counts(t)
  BY <1>1, <1>2, <1>3 DEF Begin, Counts, CountKept, Holds, IdleTask, model
<1>6. RestTyped' /\ [RSNext]_reserved
  BY QuietRest DEF Begin, model, LCInv, RestTyped
<1>7. QED
  BY <1>2, <1>4, <1>5, <1>6 DEF Effect

\* An admin unload begins.
LEMMA BeginUnloadStep ==
  ASSUME LCInv, NEW t \in Tasks, BeginUnload(t)
  PROVE  Effect(t)
<1>1. PICK r \in TaskRec : r = task[t] /\ ShapeOf(t, r)
  BY DEF LCInv, TasksShaped
<1>3. r.pc = "idle" /\ t \in Unloaders
  BY <1>1 DEF BeginUnload, At
<1>8. PICK m \in Models : Become(t, [IdleTask EXCEPT !.pc = "unloading", !.model = m])
  BY DEF BeginUnload
<1> DEFINE q == [IdleTask EXCEPT !.pc = "unloading", !.model = m]
<1>2. OthersStay(t) /\ task'[t] = q
  BY <1>8, BecomeStays DEF LCInv, TasksShaped
<1>4. task'[t] \in TaskRec /\ ShapeOf(t, task'[t])
  <2>1. <<>> \in Seq(Gpus) /\ <<>> \in Seq(Models) /\ <<>> \in Seq(Models \ Pinned) /\ <<>> \in Seq(DevicesOf(m))
    OBVIOUS
  <2>2. t \notin Drainers
    BY <1>3, LifecycleAssumption
  <2>3. QED
    BY <1>2, <1>3, <2>1, <2>2 DEF IdleTask, TaskRec, ShapeOf, Labels, CallerLabels
<1>5. Counts(t)
  BY <1>1, <1>2, <1>3, LifecycleAssumption DEF BeginUnload, Counts, CountKept, Holds, IdleTask, model
<1>6. RestTyped' /\ [RSNext]_reserved
  BY QuietRest DEF BeginUnload, model, LCInv, RestTyped
<1>7. QED
  BY <1>2, <1>4, <1>5, <1>6 DEF Effect

\* A shutdown begins.
LEMMA BeginShutdownStep ==
  ASSUME LCInv, NEW t \in Tasks, BeginShutdown(t)
  PROVE  Effect(t)
<1>1. PICK r \in TaskRec : r = task[t] /\ ShapeOf(t, r)
  BY DEF LCInv, TasksShaped
<1>3. r.pc = "idle" /\ t \in Drainers
  BY <1>1 DEF BeginShutdown, At
<1>8. PICK m \in Models : Become(t, [IdleTask EXCEPT !.pc = "draining", !.model = m])
  BY DEF BeginShutdown
<1> DEFINE q == [IdleTask EXCEPT !.pc = "draining", !.model = m]
<1>2. OthersStay(t) /\ task'[t] = q
  BY <1>8, BecomeStays DEF LCInv, TasksShaped
<1>4. task'[t] \in TaskRec /\ ShapeOf(t, task'[t])
  <2>1. <<>> \in Seq(Gpus) /\ <<>> \in Seq(Models) /\ <<>> \in Seq(Models \ Pinned) /\ <<>> \in Seq(DevicesOf(m))
    OBVIOUS
  <2>3. QED
    BY <1>2, <1>3, <2>1 DEF IdleTask, TaskRec, ShapeOf, Labels, CallerLabels
<1>5. Counts(t)
  BY <1>1, <1>2, <1>3, LifecycleAssumption DEF BeginShutdown, Counts, CountKept, Holds, IdleTask, model
<1>6. RestTyped' /\ [RSNext]_reserved
  BY DEF BeginShutdown, LCInv, RestTyped, PlacementKept, RSTypeOK
<1>7. QED
  BY <1>2, <1>4, <1>5, <1>6 DEF Effect

\* A panic poisons the model.
LEMMA PanicStep ==
  ASSUME LCInv, NEW t \in Tasks, Panic(t)
  PROVE  Effect(t)
<1>1. PICK r \in TaskRec : r = task[t] /\ ShapeOf(t, r)
  BY DEF LCInv, TasksShaped
<1>2. OthersStay(t) /\ task'[t] = r
  BY <1>1 DEF Panic, OthersStay, LCInv, TasksShaped
<1>4. task'[t] \in TaskRec /\ ShapeOf(t, task'[t])
  BY <1>1, <1>2
<1>5. Counts(t)
  BY <1>1, <1>2 DEF Panic, Counts, CountKept
<1>6. RestTyped' /\ [RSNext]_reserved
  BY LifecycleAssumption DEF Panic, LCInv, RestTyped, PlacementKept, RSTypeOK
<1>7. QED
  BY <1>2, <1>4, <1>5, <1>6 DEF Effect

\* A dropped future gives back its guard and the coordinator.
LEMMA CancelStep ==
  ASSUME LCInv, NEW t \in Tasks, Cancel(t)
  PROVE  Effect(t)
<1>1. PICK r \in TaskRec : r = task[t] /\ ShapeOf(t, r)
  BY DEF LCInv, TasksShaped
<1>2. OthersStay(t) /\ task'[t] = IdleTask
  BY OrphanedStays DEF Cancel
<1>4. task'[t] \in TaskRec /\ ShapeOf(t, task'[t])
  BY <1>2, IdleShaped
<1>5. Counts(t)
  <2>1. CASE r.pc = "waiting"
    BY <1>1, <1>2, <2>1, IdleShaped DEF Cancel, At, Counts, CountKept, Holds
  <2>2. CASE r.pc # "waiting"
    <3>1. Holds(task[t]) /\ DropGuard(t)
      BY <1>1, <2>2 DEF Cancel, At, Holds
    <3>2. QED
      BY <1>2, <3>1, DropCounts DEF Counts
  <2>3. QED
    BY <2>1, <2>2
<1>6. RestTyped' /\ [RSNext]_reserved
  <2>1. notify' \in [Models -> Callers \cup {NoTask}]
    BY DEF Cancel, LCInv, RestTyped
  <2>2. coordinator' \in Callers \cup {NoTask}
    BY DEF Cancel, LCInv, RestTyped
  <2>3. QED
    BY <2>1, <2>2 DEF Cancel, LCInv, RestTyped, PlacementKept, RSTypeOK
<1>7. QED
  BY <1>2, <1>4, <1>5, <1>6 DEF Effect

-----------------------------------------------------------------------------
(* Every step.                                                             *)

LEMMA WorkEffect ==
  ASSUME LCInv, NEW t \in Tasks, Work(t)
  PROVE  Effect(t)
  BY FoundLoadedStep, FoundLoadingStep, SubscribeStep, BecomeLeaderStep, TakeSentinelStep,
     AcquireCoordinatorStep, ResolvePlacementStep, ReserveDeviceStep, ReserveRefusedStep,
     RollBackDeviceStep, PickVictimsStep, EvictionDoneStep, CommitPlacementStep, ReadBackStep,
     LoadSucceedsStep, AnnounceStep, LoadFailsStep, DropReservationStep, FailLoadingStep, LeaveStep,
     SendCommandStep, SendRefusedStep, CompleteStep, UnloadBusyStep, UnloadNothingStep,
     TakeWorkerStep, JoinWorkerStep, ReleaseDeviceStep, FinishUnloadStep, TakeForShutdownStep DEF
     Work

LEMMA EnvironmentEffect ==
  ASSUME LCInv, NEW t \in Tasks, Environment(t)
  PROVE  Effect(t)
  BY BeginStep, BeginUnloadStep, BeginShutdownStep, CancelStep, PanicStep DEF Environment

\* One step keeps the invariant and does to the resident sets what a caller of
\* try_reserve or release may do.
LEMMA LCStep == LCInv /\ [LCNext]_vars => LCInv' /\ [RSNext]_reserved
<1> SUFFICES ASSUME LCInv, [LCNext]_vars
             PROVE  LCInv' /\ [RSNext]_reserved
  OBVIOUS
<1>1. CASE UNCHANGED vars
  <2>1. Counted'
    BY <1>1 DEF vars, model, LCInv, Counted, InFlightCounts, Guarding
  <2>2. TasksShaped'
    BY <1>1 DEF vars, model, LCInv, TasksShaped
  <2>3. RestTyped'
    BY <1>1 DEF vars, model, LCInv, RestTyped, PlacementKept, RSTypeOK
  <2>4. QED
    BY <1>1, <2>1, <2>2, <2>3 DEF vars, LCInv
<1>2. ASSUME NEW t \in Tasks, Work(t) \/ Environment(t)
      PROVE  LCInv' /\ [RSNext]_reserved
  <2>1. Effect(t)
    BY <1>2, WorkEffect, EnvironmentEffect
  <2>2. TasksShaped'
    BY <2>1, ShapedStep DEF Effect, LCInv
  <2>3. Counted'
    BY <2>1, CountStep DEF Effect, LCInv
  <2>4. QED
    BY <2>1, <2>2, <2>3 DEF Effect, LCInv
<1>3. QED
  BY <1>1, <1>2 DEF LCNext

LEMMA LCStart == LCInit => LCInv
<1> SUFFICES ASSUME LCInit
             PROVE  LCInv
  OBVIOUS
<1>1. RestTyped
  <2>1. PlacementKept
    BY DevicesAreGpus DEF LCInit, PlacementKept, IsAuto
  <2>2. <<>> \in Seq(Gpus)
    OBVIOUS
  <2>3. QED
    BY <2>1, <2>2, ResidentAssumption DEF LCInit, RSInit, RestTyped, RSTypeOK
<1>2. TasksShaped
  BY IdleShaped DEF LCInit, TasksShaped
<1>3. Counted
  <2>1. \A m \in Models : Guarding(m) = {}
    BY DEF LCInit, Guarding, IdleTask, Tasks, Callers
  <2>2. QED
    BY <2>1, FS_EmptySet DEF LCInit, Counted, InFlightCounts
<1>4. QED
  BY <1>1, <1>2, <1>3 DEF LCInv

\* The inductive invariant of the life of local models.
THEOREM LifecycleInductive == LCSpec => []LCInv
<1>1. LCInv /\ [LCNext]_vars => LCInv'
  BY LCStep
<1>2. QED
  BY <1>1, LCStart, PTL DEF LCSpec

\* Every variable keeps its type, counters included: in_flight never falls
\* below zero, and a load or an unload always knows its model.
THEOREM LifecycleTypeCorrect == LCSpec => []LCTypeOK
<1>1. LCInv => LCTypeOK
  BY DEF LCInv, RestTyped, TasksShaped, Counted, LCTypeOK, TaskRec
<1>2. QED
  BY <1>1, LifecycleInductive, PTL

\* in_flight is the number of requests that use or load the model, whatever is
\* cancelled, refused, panics or is shut down.
THEOREM GuardsAreCounted == LCSpec => []InFlightCounts
<1>1. LCInv => InFlightCounts
  BY DEF LCInv, Counted
<1>2. QED
  BY <1>1, LifecycleInductive, PTL

\* What loads, evictions, unloads and shutdowns do together to the reservations
\* is what ResidentSet allows its callers, one device at a time.
THEOREM LifecycleKeepsToResidentSet == LCSpec => KeepsToResidentSet
<1>1. LCInit => RSInit
  BY DEF LCInit
<1>2. LCInv /\ [LCNext]_vars => [RSNext]_reserved
  BY LCStep
<1>3. QED
  BY <1>1, <1>2, LifecycleInductive, PTL DEF LCSpec, RSSpec, KeepsToResidentSet

\* So the reservations never exceed a budget, nor does a victim list fall short.
THEOREM LifecycleKeepsBudgets == LCSpec => []BudgetRespected /\ []EvictionSuffices
  BY LifecycleKeepsToResidentSet, BudgetNeverExceeded, EvictionIsEnough, PTL DEF KeepsToResidentSet
-----------------------------------------------------------------------------
(* A model in use stays loaded.                                            *)

\* Requests that were given a model.
Using(t) == t \in Requests /\ task[t].pc \in {"announcing", "guarded", "running"}

\* The other tasks neither start nor stop loading, using or shutting down.
LEMMA OthersKeepTheirPart ==
  ASSUME task \in [Tasks -> TaskRec], NEW t \in Tasks, OthersStay(t), NEW u \in Tasks \ {t}
  PROVE  /\ Preparing(u)' <=> Preparing(u)
         /\ Using(u)' <=> Using(u)
         /\ At(u, "draining")' <=> At(u, "draining")
         /\ task'[u].model = task[u].model
<1>1. PICK r \in TaskRec : r = task[u]
  OBVIOUS
<1>2. CASE task'[u] = r
  BY <1>1, <1>2 DEF Preparing, Leading, Using, At
<1>3. CASE task'[u] = [r EXCEPT !.awaits = NoTask]
  BY <1>1, <1>3 DEF Preparing, Leading, Using, At, TaskRec
<1>4. CASE r.pc = "waiting" /\ task'[u] = [r EXCEPT !.pc = "lookup", !.awaits = NoTask]
  BY <1>1, <1>4 DEF Preparing, Leading, Using, At, TaskRec
<1>5. QED
  BY <1>1, <1>2, <1>3, <1>4 DEF OthersStay

\* A step that changes no state of a load, and makes no leader and no user
\* but of a model that is loaded.
Steady(t) ==
  /\ loadState' = loadState
  /\ draining \subseteq draining'
  /\ Preparing(t)' => Preparing(t) /\ task'[t].model = task[t].model
  /\ Using(t)' => \/ loadState[task'[t].model] = "Loaded"
                  \/ Using(t) /\ task'[t].model = task[t].model
  /\ At(t, "draining")' => task'[t].model \in draining'

LEMMA SteadyStep ==
  ASSUME LCInv, UsedStaysLoaded, NEW t \in Tasks, OthersStay(t), Steady(t)
  PROVE  UsedStaysLoaded'
<1>1. \A u \in Tasks \ {t} :
        /\ Preparing(u)' <=> Preparing(u)
        /\ Using(u)' <=> Using(u)
        /\ At(u, "draining")' <=> At(u, "draining")
        /\ task'[u].model = task[u].model
  BY OthersKeepTheirPart DEF LCInv, TasksShaped
<1>2. SingleFlight'
  <2>1. Callers \subseteq Tasks
    BY DEF Tasks
  <2>2. QED
    BY <1>1, <2>1 DEF SingleFlight, UsedStaysLoaded, Steady
<1>3. ShutdownIsMarked'
  BY <1>1 DEF ShutdownIsMarked, UsedStaysLoaded, Steady
<1>4. GuardKeepsLoaded'
  <2>1. Requests \subseteq Tasks
    BY DEF Tasks, Callers
  <2>2. QED
    BY <1>1, <2>1 DEF GuardKeepsLoaded, UsedStaysLoaded, Steady, Using
<1>5. QED
  BY <1>2, <1>3, <1>4 DEF UsedStaysLoaded

\* All but five actions are like that.
LEMMA SteadyActions ==
  ASSUME LCInv, ShutdownIsMarked, NEW t \in Tasks,
         Work(t) \/ Environment(t),
         ~(BecomeLeader(t) \/ LoadSucceeds(t) \/ FailLoading(t) \/ TakeWorker(t) \/ TakeForShutdown(t))
  PROVE  Steady(t)
<1>1. PICK r \in TaskRec : r = task[t] /\ ShapeOf(t, r)
  BY DEF LCInv, TasksShaped
<1>2. task \in [Tasks -> TaskRec] /\ (r.pc = "draining" => r.model \in draining)
  BY <1>1 DEF LCInv, TasksShaped, ShutdownIsMarked, At
<1>3. Requests \subseteq Callers /\ Callers \cap (Unloaders \cup Drainers) = {}
  BY LifecycleAssumption DEF Callers
<1>4. CASE FoundLoaded(t)
  <2>1. r.pc = "lookup" /\ loadState[r.model] = "Loaded" /\ loadState' = loadState /\ draining' = draining
    BY <1>1, <1>4 DEF FoundLoaded, At
  <2>2. CASE t \in Requests
    <3>1. task'[t] = [r EXCEPT !.pc = "guarded"]
      BY <1>1, <1>2, <1>4, <2>2 DEF FoundLoaded, Goto, Become
    <3>2. QED
      BY <2>1, <3>1 DEF Steady, Preparing, Leading, Using, At, TaskRec
  <2>3. CASE t \notin Requests
    <3>1. task'[t] = IdleTask
      BY <1>2, <1>4, <2>3 DEF FoundLoaded, Return, Become
    <3>2. QED
      BY <2>1, <3>1 DEF Steady, Preparing, Leading, Using, At, IdleTask
  <2>4. QED
    BY <2>2, <2>3
<1>5. CASE FoundLoading(t)
  BY <1>1, <1>2, <1>3, <1>5 DEF FoundLoading, model, At, Become, ShapeOf, TaskRec, Steady,
     Preparing, Leading, Using
<1>6. CASE Subscribe(t)
  BY <1>1, <1>2, <1>3, <1>6 DEF Subscribe, model, At, Goto, Become, ShapeOf, TaskRec, Steady,
     Preparing, Leading, Using
<1>7. CASE TakeSentinel(t)
  BY <1>1, <1>2, <1>3, <1>7 DEF TakeSentinel, model, At, Goto, Become, ShapeOf, TaskRec, Steady,
     Preparing, Leading, Using
<1>8. CASE AcquireCoordinator(t)
  BY <1>1, <1>2, <1>3, <1>8 DEF AcquireCoordinator, model, At, Goto, Become, ShapeOf, TaskRec,
     Steady, Preparing, Leading, Using
<1>9. CASE ResolvePlacement(t)
  BY <1>1, <1>2, <1>3, <1>9 DEF ResolvePlacement, model, At, Become, ShapeOf, TaskRec, Steady,
     Preparing, Leading, Using
<1>10. CASE ReserveDevice(t)
  BY <1>1, <1>2, <1>3, <1>10 DEF ReserveDevice, model, At, Become, ShapeOf, TaskRec, Steady,
     Preparing, Leading, Using
<1>11. CASE ReserveRefused(t)
  BY <1>1, <1>2, <1>3, <1>11 DEF ReserveRefused, model, At, Goto, Become, ShapeOf, TaskRec, Steady,
     Preparing, Leading, Using
<1>12. CASE RollBackDevice(t)
  BY <1>1, <1>2, <1>3, <1>12 DEF RollBackDevice, model, At, Become, ShapeOf, TaskRec, Steady,
     Preparing, Leading, Using
<1>13. CASE PickVictims(t)
  <2>1. r.pc = "rollingBack" /\ loadState' = loadState /\ draining' = draining
    BY <1>1, <1>13 DEF PickVictims, At, model
  <2>2. t \in Callers
    BY <1>1, <2>1 DEF ShapeOf, CallerLabels
  <2>3. task'[t].model = r.model /\ task'[t].pc \in {"failing", "unloading"}
    BY <1>1, <1>2, <1>13 DEF PickVictims, Become, TaskRec
  <2>4. QED
    BY <1>1, <2>1, <2>2, <2>3 DEF Steady, Preparing, Leading, Using, At
<1>14. CASE EvictionDone(t)
  BY <1>1, <1>2, <1>3, <1>14 DEF EvictionDone, model, At, Goto, Become, ShapeOf, TaskRec, Steady,
     Preparing, Leading, Using
<1>15. CASE CommitPlacement(t)
  BY <1>1, <1>2, <1>3, <1>15 DEF CommitPlacement, model, At, Goto, Become, ShapeOf, TaskRec, Steady,
     Preparing, Leading, Using
<1>16. CASE ReadBack(t)
  BY <1>1, <1>2, <1>3, <1>16 DEF ReadBack, model, At, Become, ShapeOf, TaskRec, Steady, Preparing,
     Leading, Using
<1>17. CASE Announce(t)
  BY <1>1, <1>2, <1>3, <1>17 DEF Announce, model, At, NotifyAll, IdleTask, ShapeOf, TaskRec, Steady,
     Preparing, Leading, Using
<1>18. CASE LoadFails(t)
  BY <1>1, <1>2, <1>3, <1>18 DEF LoadFails, model, At, Goto, Become, ShapeOf, TaskRec, Steady,
     Preparing, Leading, Using
<1>19. CASE DropReservation(t)
  BY <1>1, <1>2, <1>3, <1>19 DEF DropReservation, model, At, Become, ShapeOf, TaskRec, Steady,
     Preparing, Leading, Using
<1>20. CASE Leave(t)
  BY <1>1, <1>2, <1>3, <1>20 DEF Leave, model, At, Return, Become, IdleTask, ShapeOf, TaskRec,
     Steady, Preparing, Leading, Using
<1>21. CASE SendCommand(t)
  BY <1>1, <1>2, <1>3, <1>21 DEF SendCommand, model, At, Goto, Become, ShapeOf, TaskRec, Steady,
     Preparing, Leading, Using
<1>22. CASE SendRefused(t)
  BY <1>1, <1>2, <1>3, <1>22 DEF SendRefused, model, At, Return, Become, IdleTask, ShapeOf, TaskRec,
     Steady, Preparing, Leading, Using
<1>23. CASE Complete(t)
  BY <1>1, <1>2, <1>3, <1>23 DEF Complete, model, At, Return, Become, IdleTask, ShapeOf, TaskRec,
     Steady, Preparing, Leading, Using
<1>24. CASE UnloadBusy(t)
  <2>1. /\ r.pc \in {"unloading", "releasing"} /\ loadState' = loadState /\ draining' = draining
        /\ t \in Callers => r.victims # <<>>
    BY <1>1, <1>24 DEF UnloadBusy, Unloading, At, model, ShapeOf
  <2>2. AfterUnload(t, FALSE) \/ AfterUnload(t, TRUE)
    BY <1>24 DEF UnloadBusy
  <2>3. t \in Callers => task'[t].pc = "unloading" /\ task'[t].model = r.model
    BY <1>1, <1>2, <2>1, <2>2, AfterUnloadShaped
  <2>4. t \notin Callers => task'[t].pc = "idle"
    BY <1>2, <2>2 DEF AfterUnload, Return, Become, IdleTask
  <2>5. QED
    BY <1>1, <1>3, <2>1, <2>3, <2>4 DEF Steady, Preparing, Leading, Using, At
<1>25. CASE UnloadNothing(t)
  <2>1. /\ r.pc \in {"unloading", "releasing"} /\ loadState' = loadState /\ draining' = draining
        /\ t \in Callers => r.victims # <<>>
    BY <1>1, <1>25 DEF UnloadNothing, Unloading, At, model, ShapeOf
  <2>2. AfterUnload(t, FALSE) \/ AfterUnload(t, TRUE)
    BY <1>25 DEF UnloadNothing
  <2>3. t \in Callers => task'[t].pc = "unloading" /\ task'[t].model = r.model
    BY <1>1, <1>2, <2>1, <2>2, AfterUnloadShaped
  <2>4. t \notin Callers => task'[t].pc = "idle"
    BY <1>2, <2>2 DEF AfterUnload, Return, Become, IdleTask
  <2>5. QED
    BY <1>1, <1>3, <2>1, <2>3, <2>4 DEF Steady, Preparing, Leading, Using, At
<1>26. CASE JoinWorker(t)
  BY <1>1, <1>2, <1>3, <1>26 DEF JoinWorker, model, At, Become, ShapeOf, TaskRec, Steady, Preparing,
     Leading, Using
<1>27. CASE ReleaseDevice(t)
  BY <1>1, <1>2, <1>3, <1>27 DEF ReleaseDevice, model, At, Become, ShapeOf, TaskRec, Steady,
     Preparing, Leading, Using
<1>28. CASE FinishUnload(t)
  <2>1. /\ r.pc \in {"unloading", "releasing"} /\ loadState' = loadState /\ draining' = draining
        /\ t \in Callers => r.victims # <<>>
    BY <1>1, <1>28 DEF FinishUnload, Unloading, At, model, ShapeOf
  <2>2. AfterUnload(t, FALSE) \/ AfterUnload(t, TRUE)
    BY <1>28 DEF FinishUnload
  <2>3. t \in Callers => task'[t].pc = "unloading" /\ task'[t].model = r.model
    BY <1>1, <1>2, <2>1, <2>2, AfterUnloadShaped
  <2>4. t \notin Callers => task'[t].pc = "idle"
    BY <1>2, <2>2 DEF AfterUnload, Return, Become, IdleTask
  <2>5. QED
    BY <1>1, <1>3, <2>1, <2>3, <2>4 DEF Steady, Preparing, Leading, Using, At
<1>29. CASE Begin(t)
  BY <1>1, <1>2, <1>3, <1>29 DEF Begin, model, At, Become, IdleTask, ShapeOf, TaskRec, Steady,
     Preparing, Leading, Using
<1>30. CASE BeginUnload(t)
  BY <1>1, <1>2, <1>3, <1>30 DEF BeginUnload, model, At, Become, IdleTask, ShapeOf, TaskRec, Steady,
     Preparing, Leading, Using
<1>31. CASE BeginShutdown(t)
  BY <1>1, <1>2, <1>3, <1>31 DEF BeginShutdown, model, At, Become, IdleTask, ShapeOf, TaskRec,
     Steady, Preparing, Leading, Using
<1>32. CASE Cancel(t)
  BY <1>1, <1>2, <1>3, <1>32 DEF Cancel, model, At, Orphaned, IdleTask, ShapeOf, TaskRec, Steady,
     Preparing, Leading, Using
<1>33. CASE Panic(t)
  BY <1>1, <1>2, <1>3, <1>33 DEF Panic, model, At, ShapeOf, TaskRec, Steady, Preparing, Leading,
     Using
<1>34. QED
  BY <1>4, <1>5, <1>6, <1>7, <1>8, <1>9, <1>10, <1>11, <1>12, <1>13, <1>14, <1>15, <1>16, <1>17,
     <1>18, <1>19, <1>20, <1>21, <1>22, <1>23, <1>24, <1>25, <1>26, <1>27, <1>28, <1>29, <1>30,
     <1>31, <1>32, <1>33 DEF Work, Environment

\* A step that sets the state of one load, of which nobody else is the leader
\* and which nobody else uses, unless the model is shut down.
ChangesLoad(t, m, new) ==
  /\ draining' = draining
  /\ loadState' = [loadState EXCEPT ![m] = new]
  /\ \A u \in Tasks \ {t} : task[u].model = m /\ m \notin draining => ~Preparing(u) /\ ~Using(u)
  /\ Preparing(t)' => \/ task'[t].model = m /\ new = "Loading"
                      \/ /\ Preparing(t) /\ task'[t].model = task[t].model
                         /\ task[t].model = m => m \in draining
  /\ Using(t)' => task'[t].model = m /\ (new = "Loaded" \/ m \in draining)
  /\ ~At(t, "draining")'

LEMMA LoadChanges ==
  ASSUME LCInv, UsedStaysLoaded, NEW t \in Tasks, NEW m \in Models, NEW new,
         OthersStay(t), ChangesLoad(t, m, new)
  PROVE  UsedStaysLoaded'
<1>1. \A u \in Tasks \ {t} :
        /\ Preparing(u)' <=> Preparing(u)
        /\ Using(u)' <=> Using(u)
        /\ At(u, "draining")' <=> At(u, "draining")
        /\ task'[u].model = task[u].model
  BY OthersKeepTheirPart DEF LCInv, TasksShaped
<1>2. loadState' \in [Models -> {"Unloaded", "Loading", "Loaded", new}] /\ loadState'[m] = new
        /\ \A k \in Models \ {m} : loadState'[k] = loadState[k]
  BY DEF LCInv, RestTyped, ChangesLoad
<1>3. \A u \in Tasks : Preparing(u) \/ Using(u) => task[u].model \in Models
  BY DEF LCInv, TasksShaped, ShapeOf, Preparing, Leading, Using
<1>4. Callers \subseteq Tasks /\ Requests \subseteq Tasks
  BY DEF Tasks, Callers
<1>5. SingleFlight'
  <2>1. ASSUME NEW u \in Callers, Preparing(u)', task'[u].model \notin draining
        PROVE  /\ loadState'[task'[u].model] = "Loading"
               /\ \A w \in Callers : Preparing(w)' /\ task'[w].model = task'[u].model => w = u
    <3>1. CASE u = t
      <4>1. CASE task'[t].model = m /\ new = "Loading"
        BY <1>1, <1>2, <1>4, <2>1, <3>1, <4>1 DEF ChangesLoad
      <4>2. CASE Preparing(t) /\ task'[t].model = task[t].model /\ task[t].model # m
        BY <1>1, <1>2, <1>3, <1>4, <2>1, <3>1, <4>2 DEF UsedStaysLoaded, SingleFlight, ChangesLoad
      <4>3. QED
        BY <2>1, <3>1, <4>1, <4>2 DEF ChangesLoad
    <3>2. CASE u # t
      <4>1. Preparing(u) /\ task'[u].model = task[u].model /\ task[u].model # m /\ task[u].model \in Models
        BY <1>1, <1>3, <1>4, <2>1, <3>2 DEF ChangesLoad
      <4>2. QED
        BY <1>1, <1>2, <1>4, <2>1, <3>2, <4>1 DEF UsedStaysLoaded, SingleFlight, ChangesLoad
    <3>3. QED
      BY <3>1, <3>2
  <2>2. QED
    BY <2>1 DEF SingleFlight, ChangesLoad
<1>6. ShutdownIsMarked'
  BY <1>1 DEF ShutdownIsMarked, UsedStaysLoaded, ChangesLoad
<1>7. GuardKeepsLoaded'
  BY <1>1, <1>2, <1>3, <1>4 DEF GuardKeepsLoaded, UsedStaysLoaded, Using, ChangesLoad
<1>8. QED
  BY <1>5, <1>6, <1>7 DEF UsedStaysLoaded

\* An Unloaded model has neither leader nor user.
LEMMA BecomeLeaderKeepsUse ==
  ASSUME LCInv, UsedStaysLoaded, NEW t \in Tasks, BecomeLeader(t)
  PROVE  UsedStaysLoaded'
<1>1. PICK r \in TaskRec : r = task[t] /\ ShapeOf(t, r)
  BY DEF LCInv, TasksShaped
<1>2. OthersStay(t) /\ task \in [Tasks -> TaskRec]
  BY BecomeLeaderStep DEF Effect, LCInv, TasksShaped
<1>3. /\ r.pc = "lookup" /\ r.model \in Models /\ t \in Callers
      /\ loadState[r.model] = "Unloaded" /\ draining' = draining
      /\ loadState' = [loadState EXCEPT ![r.model] = "Loading"]
  BY <1>1 DEF BecomeLeader, At, ShapeOf, CallerLabels
<1>4. task'[t].model = r.model /\ task'[t].pc \in {"sentinel", "queued"}
  BY <1>1, <1>2 DEF BecomeLeader, Goto, Become, TaskRec
<1>5. \A u \in Tasks \ {t} : task[u].model = r.model /\ r.model \notin draining => ~Preparing(u) /\ ~Using(u)
  BY <1>3 DEF UsedStaysLoaded, SingleFlight, GuardKeepsLoaded, Preparing, Leading, Using
<1>6. ~Using(t)' /\ ~At(t, "draining")'
  BY <1>4 DEF Using, At
<1>7. ChangesLoad(t, r.model, "Loading")
  BY <1>3, <1>4, <1>5, <1>6 DEF ChangesLoad
<1>8. QED
  BY <1>2, <1>3, <1>7, LoadChanges

\* The leader was alone.
LEMMA LoadSucceedsKeepsUse ==
  ASSUME LCInv, UsedStaysLoaded, NEW t \in Tasks, LoadSucceeds(t)
  PROVE  UsedStaysLoaded'
<1>1. PICK r \in TaskRec : r = task[t] /\ ShapeOf(t, r)
  BY DEF LCInv, TasksShaped
<1>2. OthersStay(t) /\ task \in [Tasks -> TaskRec]
  BY LoadSucceedsStep DEF Effect, LCInv, TasksShaped
<1>3. /\ r.pc = "spawning" /\ r.model \in Models /\ t \in Callers
      /\ draining' = draining /\ loadState' = [loadState EXCEPT ![r.model] = "Loaded"]
  BY <1>1 DEF LoadSucceeds, At, ShapeOf, CallerLabels
<1>4. task'[t].model = r.model /\ task'[t].pc = "announcing"
  BY <1>1, <1>2 DEF LoadSucceeds, Become, TaskRec
<1>5. Preparing(t) /\ task[t].model = r.model
  BY <1>1, <1>3 DEF Preparing, Leading
<1>6. \A u \in Tasks \ {t} : task[u].model = r.model /\ r.model \notin draining => ~Preparing(u) /\ ~Using(u)
  BY <1>3, <1>5 DEF UsedStaysLoaded, SingleFlight, GuardKeepsLoaded, Preparing, Leading, Using
<1>7. ~Preparing(t)' /\ ~At(t, "draining")'
  BY <1>4 DEF Preparing, At
<1>8. ChangesLoad(t, r.model, "Loaded")
  BY <1>3, <1>4, <1>6, <1>7 DEF ChangesLoad, Using
<1>9. QED
  BY <1>2, <1>3, <1>8, LoadChanges

\* The leader was alone, and a model that loads is not in use.
LEMMA FailLoadingKeepsUse ==
  ASSUME LCInv, UsedStaysLoaded, NEW t \in Tasks, FailLoading(t)
  PROVE  UsedStaysLoaded'
<1>1. PICK r \in TaskRec : r = task[t] /\ ShapeOf(t, r)
  BY DEF LCInv, TasksShaped
<1>2. OthersStay(t) /\ task \in [Tasks -> TaskRec]
  BY FailLoadingStep DEF Effect, LCInv, TasksShaped
<1>3. /\ r.pc = "failing" /\ r.model \in Models /\ t \in Callers
      /\ draining' = draining /\ loadState' = [loadState EXCEPT ![r.model] = "Unloaded"]
  BY <1>1 DEF FailLoading, At, ShapeOf, CallerLabels
<1>4. task'[t].model = r.model /\ task'[t].pc = "leaving"
  BY <1>1, <1>2 DEF FailLoading, NotifyAll, IdleTask, TaskRec
<1>5. Preparing(t) /\ task[t].model = r.model
  BY <1>1, <1>3 DEF Preparing, Leading
<1>6. \A u \in Tasks \ {t} : task[u].model = r.model /\ r.model \notin draining => ~Preparing(u) /\ ~Using(u)
  BY <1>3, <1>5 DEF UsedStaysLoaded, SingleFlight, GuardKeepsLoaded, Preparing, Leading, Using
<1>7. ~Preparing(t)' /\ ~At(t, "draining")'
  BY <1>4 DEF Preparing, At
<1>8. ChangesLoad(t, r.model, "Unloaded")
  BY <1>3, <1>4, <1>6, <1>7 DEF ChangesLoad, Using
<1>9. QED
  BY <1>2, <1>3, <1>8, LoadChanges

\* A model whose worker is taken has no guard, and is not loading.
LEMMA TakeWorkerKeepsUse ==
  ASSUME LCInv, UsedStaysLoaded, NEW t \in Tasks, TakeWorker(t)
  PROVE  UsedStaysLoaded'
<1>1. PICK r \in TaskRec : r = task[t] /\ ShapeOf(t, r)
  BY DEF LCInv, TasksShaped
<1>2. OthersStay(t) /\ task \in [Tasks -> TaskRec]
  BY TakeWorkerStep DEF Effect, LCInv, TasksShaped
<1>3. r.pc = "unloading" /\ (t \in Callers => r.victims # <<>>)
  BY <1>1 DEF TakeWorker, Unloading, At
<1>4. PICK m \in Models : m = Target(t)
  BY <1>1, <1>3, TargetKnown
<1>5. /\ inFlight[m] = 0 /\ loadState[m] = "Loaded" /\ draining' = draining
      /\ loadState' = [loadState EXCEPT ![m] = "Unloaded"]
  BY <1>4 DEF TakeWorker
<1>6. task'[t].model = r.model /\ task'[t].pc = "joining"
  BY <1>1, <1>2 DEF TakeWorker, Become, TaskRec
<1>7. \A u \in Tasks : task[u].model = m /\ m \notin draining => ~Preparing(u) /\ ~Using(u)
  <2>1. Guarding(m) = {}
    <3>1. Guarding(m) \subseteq Tasks
      BY DEF Guarding, Tasks, Callers
    <3>2. IsFiniteSet(Guarding(m))
      BY <3>1, LifecycleAssumption, FS_Subset
    <3>3. Cardinality(Guarding(m)) = 0
      BY <1>5 DEF LCInv, Counted, InFlightCounts
    <3>4. QED
      BY <3>2, <3>3, FS_EmptySet
  <2>2. \A u \in Tasks : task[u].model = m => ~Using(u)
    BY <2>1 DEF Guarding, Using
  <2>3. QED
    BY <1>5, <2>2 DEF UsedStaysLoaded, SingleFlight, Preparing, Leading
<1>8. Preparing(t)' => Preparing(t)
  BY <1>1, <1>3, <1>6 DEF Preparing, Leading
<1>9. ~Using(t)' /\ ~At(t, "draining")'
  BY <1>6 DEF Using, At
<1>10. task[t].model = m /\ Preparing(t) => m \in draining
  BY <1>7
<1>11. ChangesLoad(t, m, "Unloaded")
  BY <1>1, <1>5, <1>6, <1>7, <1>8, <1>9, <1>10 DEF ChangesLoad
<1>12. QED
  BY <1>2, <1>11, LoadChanges

\* Shutdown takes a model that is marked.
LEMMA TakeForShutdownKeepsUse ==
  ASSUME LCInv, UsedStaysLoaded, NEW t \in Tasks, TakeForShutdown(t)
  PROVE  UsedStaysLoaded'
<1>1. PICK r \in TaskRec : r = task[t] /\ ShapeOf(t, r)
  BY DEF LCInv, TasksShaped
<1>2. OthersStay(t) /\ task \in [Tasks -> TaskRec]
  BY TakeForShutdownStep DEF Effect, LCInv, TasksShaped
<1>3. /\ r.pc = "draining" /\ r.model \in Models /\ t \notin Callers /\ t \notin Requests
      /\ draining' = draining /\ loadState' = [loadState EXCEPT ![r.model] = "Unloaded"]
  BY <1>1, LifecycleAssumption DEF TakeForShutdown, At, ShapeOf, Callers
<1>4. r.model \in draining
  BY <1>1, <1>3 DEF UsedStaysLoaded, ShutdownIsMarked, At
<1>5. task'[t].pc \in {"joining", "idle"}
  <2> DEFINE q == [r EXCEPT !.pc = "joining", !.held = loadedOn[r.model]]
  <2>1. Become(t, q) \/ Become(t, IdleTask)
    BY <1>1 DEF TakeForShutdown, Return
  <2>2. q.pc = "joining" /\ IdleTask.pc = "idle"
    BY DEF TaskRec, IdleTask
  <2> HIDE DEF q
  <2>3. QED
    BY <1>2, <2>1, <2>2, BecomeStays
<1>6. ~Using(t)' /\ ~At(t, "draining")' /\ ~Preparing(t)'
  BY <1>3, <1>5 DEF Using, At, Preparing, Leading
<1>7. ChangesLoad(t, r.model, "Unloaded")
  BY <1>3, <1>4, <1>6 DEF ChangesLoad
<1>8. QED
  BY <1>2, <1>3, <1>7, LoadChanges

LEMMA UseStep == LCInv /\ UsedStaysLoaded /\ [LCNext]_vars => UsedStaysLoaded'
<1> SUFFICES ASSUME LCInv, UsedStaysLoaded, [LCNext]_vars
             PROVE  UsedStaysLoaded'
  OBVIOUS
<1>1. CASE UNCHANGED vars
  BY <1>1 DEF vars, model, UsedStaysLoaded, SingleFlight, ShutdownIsMarked, GuardKeepsLoaded,
              Preparing, Leading, At
<1>2. ASSUME NEW t \in Tasks, Work(t) \/ Environment(t)
      PROVE  UsedStaysLoaded'
  <2>1. CASE BecomeLeader(t) \/ LoadSucceeds(t) \/ FailLoading(t) \/ TakeWorker(t) \/ TakeForShutdown(t)
    BY <2>1, BecomeLeaderKeepsUse, LoadSucceedsKeepsUse, FailLoadingKeepsUse, TakeWorkerKeepsUse,
       TakeForShutdownKeepsUse
  <2>2. CASE ~(BecomeLeader(t) \/ LoadSucceeds(t) \/ FailLoading(t) \/ TakeWorker(t) \/ TakeForShutdown(t))
    <3>1. Steady(t)
      BY <1>2, <2>2, SteadyActions DEF UsedStaysLoaded
    <3>2. OthersStay(t)
      BY <1>2, WorkEffect, EnvironmentEffect DEF Effect
    <3>3. QED
      BY <3>1, <3>2, SteadyStep
  <2>3. QED
    BY <2>1, <2>2
<1>3. QED
  BY <1>1, <1>2 DEF LCNext

\* Single flight and the guards together.
THEOREM UseInductive == LCSpec => []UsedStaysLoaded
<1>1. LCInit => UsedStaysLoaded
  BY DEF LCInit, IdleTask, UsedStaysLoaded, SingleFlight, ShutdownIsMarked, GuardKeepsLoaded,
         Preparing, Leading, At, Tasks, Callers
<1>2. QED
  BY <1>1, UseStep, LifecycleInductive, PTL DEF LCSpec

\* A request that was given a model can rely on it until it is over: neither an
\* eviction nor an unload takes a model with a guard, and no failed load of the
\* same model resets its state.
THEOREM GuardsKeepModelsLoaded == LCSpec => []GuardKeepsLoaded
<1>1. UsedStaysLoaded => GuardKeepsLoaded
  BY DEF UsedStaysLoaded
<1>2. QED
  BY <1>1, UseInductive, PTL

-----------------------------------------------------------------------------
(* A model in state Loading has one leader.                                *)

\* A leader goes on until the outcome of its load is known.
LEMMA LeadersGoOn ==
  ASSUME LCInv, Cancellable = {}, NEW t \in Callers, Preparing(t), Work(t) \/ Environment(t),
         ~LoadSucceeds(t), ~FailLoading(t)
  PROVE  Preparing(t)' /\ task'[t].model = task[t].model
<1>1. PICK r \in TaskRec : r = task[t] /\ ShapeOf(t, r)
  BY DEF LCInv, TasksShaped, Tasks
<1>2. task \in [Tasks -> TaskRec] /\ t \in Tasks
  BY DEF LCInv, TasksShaped, Tasks
<1>3. r.pc \in {"sentinel", "queued", "resolving", "reserving", "rollingBack", "reading", "spawning",
                "failing", "unloading", "joining", "releasing", "draining"}
  BY <1>1 DEF Preparing, Leading, TaskRec, Labels
<1>4. t \notin Unloaders /\ t \notin Drainers /\ r.pc # "draining"
  BY <1>1, LifecycleAssumption DEF ShapeOf, Callers
<1>5. CASE TakeSentinel(t) \/ AcquireCoordinator(t) \/ ResolvePlacement(t) \/ ReserveDevice(t)
           \/ ReserveRefused(t) \/ RollBackDevice(t) \/ CommitPlacement(t) \/ ReadBack(t)
           \/ LoadFails(t) \/ DropReservation(t) \/ TakeWorker(t) \/ JoinWorker(t) \/ ReleaseDevice(t)
  <2>1. CASE TakeSentinel(t)
    BY <1>1, <1>2, <2>1 DEF TakeSentinel, At, Goto, Become, TaskRec, Preparing, Leading
  <2>2. CASE AcquireCoordinator(t)
    BY <1>1, <1>2, <2>2 DEF AcquireCoordinator, At, Goto, Become, TaskRec, Preparing, Leading
  <2>3. CASE ResolvePlacement(t)
    BY <1>1, <1>2, <2>3 DEF ResolvePlacement, At, Become, TaskRec, Preparing, Leading
  <2>4. CASE ReserveDevice(t)
    BY <1>1, <1>2, <2>4 DEF ReserveDevice, At, Become, TaskRec, Preparing, Leading
  <2>5. CASE ReserveRefused(t)
    BY <1>1, <1>2, <2>5 DEF ReserveRefused, At, Goto, Become, TaskRec, Preparing, Leading
  <2>6. CASE RollBackDevice(t)
    BY <1>1, <1>2, <2>6 DEF RollBackDevice, At, Become, TaskRec, Preparing, Leading
  <2>7. CASE CommitPlacement(t)
    BY <1>1, <1>2, <2>7 DEF CommitPlacement, At, Goto, Become, TaskRec, Preparing, Leading
  <2>8. CASE ReadBack(t)
    BY <1>1, <1>2, <2>8 DEF ReadBack, At, Become, TaskRec, Preparing, Leading
  <2>9. CASE LoadFails(t)
    BY <1>1, <1>2, <2>9 DEF LoadFails, At, Goto, Become, TaskRec, Preparing, Leading
  <2>10. CASE DropReservation(t)
    BY <1>1, <1>2, <2>10 DEF DropReservation, At, Become, TaskRec, Preparing, Leading
  <2>11. CASE TakeWorker(t)
    BY <1>1, <1>2, <2>11 DEF TakeWorker, At, Become, TaskRec, Preparing, Leading
  <2>12. CASE JoinWorker(t)
    BY <1>1, <1>2, <2>12 DEF JoinWorker, At, Become, TaskRec, Preparing, Leading
  <2>13. CASE ReleaseDevice(t)
    BY <1>1, <1>2, <2>13 DEF ReleaseDevice, At, Become, TaskRec, Preparing, Leading
  <2>14. QED
    BY <1>5, <2>1, <2>2, <2>3, <2>4, <2>5, <2>6, <2>7, <2>8, <2>9, <2>10, <2>11, <2>12, <2>13
<1>6. CASE PickVictims(t)
  <2>1. task'[t].model = r.model /\ task'[t].pc \in {"failing", "unloading"}
    BY <1>1, <1>2, <1>6 DEF PickVictims, Become, TaskRec
  <2>2. QED
    BY <1>1, <2>1 DEF Preparing, Leading
<1>7. CASE EvictionDone(t)
  <2>1. task'[t].model = r.model /\ task'[t].pc \in {"resolving", "failing"}
    BY <1>1, <1>2, <1>7 DEF EvictionDone, Goto, Become, TaskRec
  <2>2. QED
    BY <1>1, <2>1 DEF Preparing, Leading
<1>8. CASE UnloadBusy(t) \/ UnloadNothing(t) \/ FinishUnload(t)
  <2>1. r.pc \in {"unloading", "releasing"} /\ r.victims # <<>>
    BY <1>1, <1>8 DEF UnloadBusy, UnloadNothing, FinishUnload, Unloading, At, ShapeOf
  <2>2. AfterUnload(t, FALSE) \/ AfterUnload(t, TRUE)
    BY <1>8 DEF UnloadBusy, UnloadNothing, FinishUnload
  <2>3. task'[t].pc = "unloading" /\ task'[t].model = r.model
    BY <1>1, <1>2, <2>1, <2>2, AfterUnloadShaped
  <2>4. QED
    BY <1>1, <2>3 DEF Preparing, Leading
<1>9. ~(FoundLoaded(t) \/ FoundLoading(t) \/ Subscribe(t) \/ BecomeLeader(t) \/ Announce(t) \/ Leave(t)
        \/ SendCommand(t) \/ SendRefused(t) \/ Complete(t) \/ TakeForShutdown(t) \/ Begin(t)
        \/ BeginUnload(t) \/ BeginShutdown(t) \/ Cancel(t) \/ Panic(t))
  BY <1>1, <1>3, <1>4 DEF FoundLoaded, FoundLoading, Subscribe, BecomeLeader, Announce, Leave,
     SendCommand, SendRefused, Complete, TakeForShutdown, Begin, BeginUnload, BeginShutdown, Cancel,
     Panic, At
<1>10. QED
  BY <1>5, <1>6, <1>7, <1>8, <1>9 DEF Work, Environment

LEMMA LedStep ==
  ASSUME Cancellable = {}, Drainers = {}
  PROVE  LCInv /\ UsedStaysLoaded /\ LoadsAreLed /\ [LCNext]_vars => LoadsAreLed'
<1> SUFFICES ASSUME LCInv, UsedStaysLoaded, LoadsAreLed, [LCNext]_vars
             PROVE  LoadsAreLed'
  OBVIOUS
<1>1. CASE UNCHANGED vars
  BY <1>1 DEF vars, model, LoadsAreLed, Preparing, Leading
<1>2. ASSUME NEW t \in Tasks, Work(t) \/ Environment(t)
      PROVE  LoadsAreLed'
  <2>1. PICK r \in TaskRec : r = task[t] /\ ShapeOf(t, r)
    BY DEF LCInv, TasksShaped
  <2>2. /\ task \in [Tasks -> TaskRec] /\ Callers \subseteq Tasks /\ r.pc # "draining" /\ t \notin Drainers
        /\ loadState \in [Models -> {"Unloaded", "Loading", "Loaded"}]
    BY <2>1 DEF LCInv, TasksShaped, RestTyped, Tasks, ShapeOf
  <2>3. OthersStay(t)
    BY <1>2, WorkEffect, EnvironmentEffect DEF Effect
  <2>4. \A u \in Callers \ {t} : Preparing(u) => Preparing(u)' /\ task'[u].model = task[u].model
    BY <2>2, <2>3, OthersKeepTheirPart
  <2>5. draining' = {}
    <3>1. ~BeginShutdown(t) /\ ~TakeForShutdown(t)
      BY <2>1, <2>2 DEF BeginShutdown, TakeForShutdown, At
    <3>2. draining' = draining
      BY <1>2, <3>1 DEF Work, Environment, FoundLoaded, FoundLoading, Subscribe, BecomeLeader,
         TakeSentinel, AcquireCoordinator, ResolvePlacement, ReserveDevice, ReserveRefused,
         RollBackDevice, PickVictims, EvictionDone, CommitPlacement, ReadBack, LoadSucceeds, Announce,
         LoadFails, DropReservation, FailLoading, Leave, SendCommand, SendRefused, Complete,
         UnloadBusy, UnloadNothing, TakeWorker, JoinWorker, ReleaseDevice, FinishUnload, Begin,
         BeginUnload, Cancel, Panic, model
    <3>3. QED
      BY <3>2 DEF LoadsAreLed
  <2>6. ASSUME NEW m \in Models, loadState'[m] = "Loading"
        PROVE  \E u \in Callers : Preparing(u)' /\ task'[u].model = m
    <3>1. CASE BecomeLeader(t)
      <4>1. t \in Callers /\ task'[t].model = r.model /\ Preparing(t)' /\ ~Preparing(t)
        BY <2>1, <2>2, <3>1 DEF BecomeLeader, At, Goto, Become, ShapeOf, CallerLabels, Preparing,
           Leading, TaskRec
      <4>2. CASE m = r.model
        BY <4>1, <4>2
      <4>3. CASE m # r.model
        <5>1. loadState[m] = "Loading"
          BY <2>1, <2>2, <2>6, <3>1, <4>3 DEF BecomeLeader
        <5>2. PICK u \in Callers : Preparing(u) /\ task[u].model = m
          BY <5>1 DEF LoadsAreLed
        <5>3. u # t
          BY <2>1, <4>3, <5>2
        <5>4. QED
          BY <2>4, <5>2, <5>3
      <4>4. QED
        BY <4>2, <4>3
    <3>2. CASE LoadSucceeds(t) \/ FailLoading(t)
      <4>1. r.model \in Models
        BY <2>1, <3>2 DEF LoadSucceeds, FailLoading, At, ShapeOf
      <4>2. m # r.model /\ loadState[m] = "Loading"
        BY <2>1, <2>2, <2>6, <3>2, <4>1 DEF LoadSucceeds, FailLoading
      <4>3. PICK u \in Callers : Preparing(u) /\ task[u].model = m
        BY <4>2 DEF LoadsAreLed
      <4>4. u # t
        BY <2>1, <4>2, <4>3
      <4>5. QED
        BY <2>4, <4>3, <4>4
    <3>3. CASE ~BecomeLeader(t) /\ ~LoadSucceeds(t) /\ ~FailLoading(t)
      <4>1. loadState[m] = "Loading"
        <5>1. CASE TakeWorker(t)
          BY <2>2, <2>6, <5>1 DEF TakeWorker
        <5>2. CASE TakeForShutdown(t)
          BY <2>1, <2>2, <5>2 DEF TakeForShutdown, At
        <5>3. CASE ~TakeWorker(t) /\ ~TakeForShutdown(t)
          <6>1. Steady(t)
            BY <1>2, <3>3, <5>3, SteadyActions DEF UsedStaysLoaded
          <6>2. QED
            BY <2>6, <6>1 DEF Steady
        <5>4. QED
          BY <5>1, <5>2, <5>3
      <4>2. PICK u \in Callers : Preparing(u) /\ task[u].model = m
        BY <4>1 DEF LoadsAreLed
      <4>3. CASE u = t
        <5>1. Preparing(t)' /\ task'[t].model = task[t].model
          BY <1>2, <3>3, <4>2, <4>3, LeadersGoOn
        <5>2. QED
          BY <4>2, <4>3, <5>1
      <4>4. CASE u # t
        BY <2>4, <4>2, <4>4
      <4>5. QED
        BY <4>3, <4>4
    <3>4. QED
      BY <3>1, <3>2, <3>3
  <2>7. QED
    BY <2>5, <2>6 DEF LoadsAreLed
<1>3. QED
  BY <1>1, <1>2 DEF LCNext

\* Single flight: a model is in state Loading exactly while one task is loading
\* it, evicting for it or failing to, whoever unloads models meanwhile.  A
\* client that disconnects, and a shutdown, leave such a state behind.
THEOREM LoadingHasOneLeader ==
  ASSUME Cancellable = {}, Drainers = {}
  PROVE  LCSpec => []LoadingIsLed
<1>1. LCInit => LoadsAreLed
  BY DEF LCInit, LoadsAreLed
<1>2. LCInv /\ UsedStaysLoaded /\ LoadsAreLed /\ [LCNext]_vars => LoadsAreLed'
  BY LedStep
<1>3. UsedStaysLoaded /\ LoadsAreLed => LoadingIsLed
  <2> SUFFICES ASSUME UsedStaysLoaded, LoadsAreLed, NEW m \in Models
               PROVE  LET leaders == {t \in Callers : Preparing(t) /\ task[t].model = m}
                      IN  IF loadState[m] = "Loading" THEN Cardinality(leaders) = 1 ELSE leaders = {}
    BY DEF LoadingIsLed, Preparing
  <2> DEFINE leaders == {t \in Callers : Preparing(t) /\ task[t].model = m}
  <2>1. ASSUME NEW t \in leaders
        PROVE  loadState[m] = "Loading" /\ leaders = {t}
    BY DEF UsedStaysLoaded, SingleFlight, LoadsAreLed
  <2>2. CASE loadState[m] = "Loading"
    <3>1. PICK t \in Callers : Preparing(t) /\ task[t].model = m
      BY <2>2 DEF LoadsAreLed
    <3>2. leaders = {t}
      BY <2>1, <3>1
    <3>3. QED
      BY <2>2, <3>2, FS_Singleton
  <2>3. CASE loadState[m] # "Loading"
    BY <2>1, <2>3
  <2>4. QED
    BY <2>2, <2>3
<1>4. QED
  BY <1>1, <1>2, <1>3, LifecycleInductive, UseInductive, PTL DEF LCSpec

=============================================================================
