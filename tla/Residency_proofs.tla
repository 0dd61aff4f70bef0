-------------------------- MODULE Residency_proofs --------------------------
(***************************************************************************)
(* While models are taken down by evictions only, and neither by the admin *)
(* API nor by the server's exit, the workers never occupy more memory than *)
(* the budgets allow, whoever is cancelled and whatever fails to load: the *)
(* life of the models implements Residency.                                *)
(***************************************************************************)
EXTENDS ModelLifecycle_proofs

OnlyEvictions == Unloaders = {} /\ Drainers = {}

\* Places at which a caller holds the coordinator.
CriticalLabels ==
  {"resolving", "reserving", "rollingBack", "reading", "spawning", "announcing", "failing",
   "leaving", "unloading", "joining", "releasing"}

Critical(t) == task[t].pc \in CriticalLabels

\* m holds a reservation on each of these devices that has a budget.
Holding(m, devs) == \A g \in Range(devs) : Budget[g] # 0 => m \in reserved[g]

\* What the task in the critical section has secured.
Provisioned(t) ==
  LET r == task[t]
      m == task[t].model
  IN  /\ r.pc = "reserving" =>
           /\ Holding(m, r.held)
           /\ r.held \o r.devs # <<>>
           /\ placement[m] # <<>> => r.held \o r.devs = placement[m]
      /\ r.pc = "reading" => placement[m] # <<>> /\ Holding(m, placement[m])
      /\ r.pc = "spawning" => r.held # <<>> /\ r.held = placement[m] /\ Holding(m, r.held)
      /\ r.pc \in {"joining", "releasing"} => loadState[Target(t)] # "Loaded"
      /\ r.pc = "joining" => Holding(Target(t), r.held)

ReservedInv ==
  /\ draining = {}
  /\ \A t \in Callers : Critical(t) => coordinator = t
  /\ \A t \in Callers : Provisioned(t)
  /\ LoadedIsReserved

\* A reservation of a loaded model, and one of which task t knows.
Serving(g, m) == loadState[m] = "Loaded" /\ g \in Range(loadedOn[m])

Knows(t, g, m) ==
  \/ /\ task[t].pc \in {"reserving", "rollingBack", "reading", "spawning", "failing"}
     /\ task[t].model = m
     /\ g \in Range(task[t].held)
  \/ /\ task[t].pc \in {"joining", "releasing"}
     /\ Target(t) = m
     /\ g \in Range(placement[m])

\* Nothing is at hand before a round of reservations and after it; what the
\* placement says is what was reserved; a device still to be released is listed.
Tidy(t) ==
  /\ task[t].pc \in {"lookup", "cloned", "waiting", "sentinel", "queued", "resolving", "unloading",
                     "releasing", "announcing", "leaving"} => task[t].held = <<>>
  /\ task[t].pc = "reading" => task[t].held = placement[task[t].model]
  /\ task[t].pc = "releasing" =>
       \A g \in Range(placement[Target(t)]) : Target(t) \in reserved[g] => g \in Range(task[t].devs)

AccountInv ==
  /\ \A t \in Callers : Tidy(t)
  /\ \A g \in Gpus : \A m \in reserved[g] : Serving(g, m) \/ \E t \in Callers : Knows(t, g, m)
-----------------------------------------------------------------------------
(* Facts about sequences and about one step.                               *)

LEMMA RangeOfTail ==
  ASSUME NEW S, NEW s \in Seq(S), s # <<>>
  PROVE  Range(s) = {Head(s)} \cup Range(Tail(s))
<1>1. PICK n \in Nat : n = Len(s)
  OBVIOUS
<1>2. n # 0 /\ DOMAIN s = 1 .. n
  BY <1>1
<1>3. /\ Head(s) = s[1] /\ Tail(s) \in Seq(S) /\ DOMAIN Tail(s) = 1 .. n - 1
      /\ \A i \in 1 .. n - 1 : Tail(s)[i] = s[i + 1]
  BY <1>1, <1>2, HeadTailProperties, LenProperties
<1>4. \A i \in 1 .. n : i = 1 \/ (i - 1 \in 1 .. n - 1 /\ Tail(s)[i - 1] = s[i])
  BY <1>3
<1>5. 1 \in 1 .. n /\ \A i \in 1 .. n - 1 : i + 1 \in 1 .. n
  BY <1>2
<1>6. Range(s) = {s[i] : i \in 1 .. n} /\ Range(Tail(s)) = {Tail(s)[i] : i \in 1 .. n - 1}
  BY <1>2, <1>3 DEF Range
<1> DEFINE tail == Tail(s)
<1>7. tail = Tail(s)
  OBVIOUS
<1> HIDE DEF tail
<1>8. {s[i] : i \in 1 .. n} = {s[1]} \cup {tail[i] : i \in 1 .. n - 1}
  <2>1. \A i \in 1 .. n : s[i] \in {s[1]} \cup {tail[j] : j \in 1 .. n - 1}
    BY <1>4, <1>7
  <2>2. \A i \in 1 .. n - 1 : tail[i] \in {s[j] : j \in 1 .. n}
    BY <1>3, <1>5, <1>7
  <2>3. s[1] \in {s[j] : j \in 1 .. n}
    BY <1>5
  <2>4. QED
    BY <2>1, <2>2, <2>3
<1>9. QED
  BY <1>3, <1>6, <1>7, <1>8

LEMMA RangeOfAppend ==
  ASSUME NEW S, NEW s \in Seq(S), NEW e \in S
  PROVE  Range(Append(s, e)) = Range(s) \cup {e}
<1>1. PICK n \in Nat : n = Len(s)
  OBVIOUS
<1>2. /\ DOMAIN s = 1 .. n /\ DOMAIN Append(s, e) = 1 .. n + 1
      /\ \A i \in 1 .. n : Append(s, e)[i] = s[i]
      /\ Append(s, e)[n + 1] = e
  BY <1>1, AppendProperties, LenProperties
<1>3. 1 .. n + 1 = (1 .. n) \cup {n + 1}
  OBVIOUS
<1>4. QED
  BY <1>2, <1>3 DEF Range

\* A device that goes from one list to the other changes nothing in sum.
LEMMA MoveHead ==
  ASSUME NEW S, NEW s \in Seq(S), NEW r \in Seq(S), r # <<>>
  PROVE  Append(s, Head(r)) \o Tail(r) = s \o r
<1>1. Head(r) \in S /\ Tail(r) \in Seq(S)
  BY Ends
<1>2. Append(s, Head(r)) = s \o <<Head(r)>> /\ <<Head(r)>> \in Seq(S)
  BY <1>1, AppendIsConcat
<1>3. (s \o <<Head(r)>>) \o Tail(r) = s \o (<<Head(r)>> \o Tail(r))
  BY <1>1, <1>2, ConcatAssociative
<1>4. <<Head(r)>> \o Tail(r) = r
  BY <1>1, HeadTailProperties, ConcatProperties
<1>5. QED
  BY <1>2, <1>3, <1>4

LEMMA NoDevices == Range(<<>>) = {}
  BY DEF Range

\* The other tasks neither enter nor leave the critical section, and keep what
\* they have at hand.
LEMMA OthersKeepOut ==
  ASSUME task \in [Tasks -> TaskRec], NEW t \in Tasks, OthersStay(t), NEW u \in Tasks \ {t}
  PROVE  /\ Critical(u)' <=> Critical(u)
         /\ /\ task'[u].model = task[u].model /\ task'[u].devs = task[u].devs
            /\ task'[u].held = task[u].held /\ task'[u].victims = task[u].victims
         /\ task'[u].pc = task[u].pc \/ (task'[u].pc = "lookup" /\ task[u].pc = "waiting")
<1>1. PICK r \in TaskRec : r = task[u]
  OBVIOUS
<1>2. CASE task'[u] = r
  BY <1>1, <1>2 DEF Critical
<1>3. CASE task'[u] = [r EXCEPT !.awaits = NoTask]
  BY <1>1, <1>3 DEF Critical, TaskRec
<1>4. CASE r.pc = "waiting" /\ task'[u] = [r EXCEPT !.pc = "lookup", !.awaits = NoTask]
  BY <1>1, <1>4 DEF Critical, CriticalLabels, TaskRec
<1>5. QED
  BY <1>1, <1>2, <1>3, <1>4 DEF OthersStay

\* With evictions only, every task is a caller and a leader's model is Loading.
LEMMA LeaderIsLoading ==
  ASSUME UsedStaysLoaded, ReservedInv, NEW t \in Callers,
         Critical(t), task[t].pc \notin {"announcing", "leaving"}
  PROVE  loadState[task[t].model] = "Loading"
<1>1. Preparing(t)
  BY DEF Preparing, Leading, Critical, CriticalLabels
<1>2. QED
  BY <1>1 DEF UsedStaysLoaded, SingleFlight, ReservedInv

\* What a step outside the critical section may touch.
Aside(t) ==
  /\ UNCHANGED <<reserved, placement, loadedOn, draining>>
  /\ \A m \in Models : loadState'[m] = "Loaded" <=> loadState[m] = "Loaded"
  /\ coordinator' = coordinator \/ coordinator \in {NoTask, t}
  /\ Critical(t)' => coordinator' = t /\ task'[t].pc = "resolving"

LEMMA AsideStep ==
  ASSUME LCInv, OnlyEvictions, ReservedInv, NEW t \in Callers, ~Critical(t), OthersStay(t), Aside(t)
  PROVE  ReservedInv'
<1>1. task \in [Tasks -> TaskRec] /\ Callers \subseteq Tasks /\ NoTask \notin Tasks
  BY LifecycleAssumption DEF LCInv, TasksShaped, Tasks
<1>2. \A u \in Callers \ {t} :
        /\ Critical(u)' <=> Critical(u)
        /\ task'[u].model = task[u].model /\ task'[u].devs = task[u].devs
        /\ task'[u].held = task[u].held /\ task'[u].victims = task[u].victims
        /\ task'[u].pc = task[u].pc \/ (task'[u].pc = "lookup" /\ task[u].pc = "waiting")
  BY <1>1, OthersKeepOut
<1>3. draining' = {}
  BY DEF Aside, ReservedInv
<1>4. \A u \in Callers : Critical(u)' => coordinator' = u
  BY <1>1, <1>2 DEF Aside, ReservedInv
<1>5. ASSUME NEW u \in Callers
      PROVE  Provisioned(u)'
  <2>1. CASE u = t
    BY <2>1 DEF Aside, Provisioned, Critical, CriticalLabels
  <2>2. CASE u # t /\ ~Critical(u)'
    BY <2>2, <1>2 DEF Provisioned, Critical, CriticalLabels
  <2>3. CASE u # t /\ Critical(u)'
    <3>1. Provisioned(u) /\ task'[u].pc = task[u].pc
      BY <1>2, <2>3 DEF ReservedInv, Critical, CriticalLabels
    <3>2. Target(u)' = Target(u)
      BY <1>2, <2>3 DEF Target
    <3>3. task[u].pc \in {"joining", "releasing"} => Target(u) \in Models
      <4>1. PICK r \in TaskRec : r = task[u] /\ ShapeOf(u, r)
        BY <1>1 DEF LCInv, TasksShaped
      <4>2. QED
        BY <1>1, <4>1, TargetKnown DEF ShapeOf
    <3>4. QED
      BY <1>2, <2>3, <3>1, <3>2, <3>3 DEF Aside, Provisioned, Holding
  <2>4. QED
    BY <2>1, <2>2, <2>3
<1>6. LoadedIsReserved'
  BY DEF Aside, ReservedInv, LoadedIsReserved
<1>7. QED
  BY <1>3, <1>4, <1>5, <1>6 DEF ReservedInv

\* Loaded models keep their worker, their placement and their reservations, and
\* none is added to them.
KeepsLoaded ==
  \A m \in Models : loadState'[m] = "Loaded" =>
    /\ loadState[m] = "Loaded" /\ loadedOn'[m] = loadedOn[m] /\ placement'[m] = placement[m]
    /\ \A g \in Gpus : m \in reserved[g] => m \in reserved'[g]

LEMMA LoadedStaysReserved ==
  ASSUME LCInv, LoadedIsReserved, KeepsLoaded
  PROVE  LoadedIsReserved'
<1>1. \A m \in Models : Range(loadedOn[m]) \subseteq Gpus
  <2>1. \A m \in Models : \A i \in DOMAIN loadedOn[m] : loadedOn[m][i] \in Gpus
    BY ElementOfSeq DEF LCInv, RestTyped
  <2>2. QED
    BY <2>1 DEF Range
<1>2. QED
  BY <1>1 DEF LoadedIsReserved, KeepsLoaded

\* What a step inside the critical section must achieve.
Turn(t) ==
  /\ draining' = draining
  /\ Critical(t)' => coordinator' = t
  /\ Provisioned(t)'
  /\ LoadedIsReserved'

LEMMA TurnStep ==
  ASSUME LCInv, ReservedInv, NEW t \in Callers, Critical(t), OthersStay(t), Turn(t)
  PROVE  ReservedInv'
<1>1. task \in [Tasks -> TaskRec] /\ Callers \subseteq Tasks
  BY DEF LCInv, TasksShaped, Tasks
<1>2. \A u \in Callers \ {t} : ~Critical(u)
  BY DEF ReservedInv
<1>3. \A u \in Callers \ {t} : ~Critical(u)'
  BY <1>1, <1>2, OthersKeepOut
<1>4. \A u \in Callers \ {t} : Provisioned(u)'
  BY <1>3 DEF Critical, CriticalLabels, Provisioned
<1>5. QED
  BY <1>3, <1>4 DEF Turn, ReservedInv

\* The steps of a task outside the critical section.
LEMMA AsideActions ==
  ASSUME LCInv, OnlyEvictions, NEW t \in Callers, ~Critical(t), Work(t) \/ Environment(t)
  PROVE  Aside(t)
<1>1. PICK r \in TaskRec : r = task[t] /\ ShapeOf(t, r)
  BY DEF LCInv, TasksShaped, Tasks
<1>2. /\ task \in [Tasks -> TaskRec] /\ t \in Tasks /\ r.pc \notin CriticalLabels
      /\ loadState \in [Models -> {"Unloaded", "Loading", "Loaded"}]
  BY <1>1 DEF LCInv, TasksShaped, Tasks, Critical, RestTyped
<1>3. t \notin Unloaders /\ t \notin Drainers /\ r.pc # "draining"
  BY <1>1 DEF OnlyEvictions, ShapeOf
<1>4. CASE Begin(t)
  BY <1>1, <1>2, <1>3, <1>4 DEF Begin, model, At, Become, IdleTask, TaskRec, Aside, Critical,
     CriticalLabels
<1>5. CASE FoundLoading(t)
  BY <1>1, <1>2, <1>3, <1>5 DEF FoundLoading, model, At, Become, TaskRec, Aside, Critical,
     CriticalLabels
<1>6. CASE Subscribe(t)
  BY <1>1, <1>2, <1>3, <1>6 DEF Subscribe, model, At, Goto, Become, TaskRec, Aside, Critical,
     CriticalLabels
<1>7. CASE TakeSentinel(t)
  BY <1>1, <1>2, <1>3, <1>7 DEF TakeSentinel, model, At, Goto, Become, TaskRec, Aside, Critical,
     CriticalLabels
<1>8. CASE SendCommand(t)
  BY <1>1, <1>2, <1>3, <1>8 DEF SendCommand, model, At, Goto, Become, TaskRec, Aside, Critical,
     CriticalLabels
<1>9. CASE SendRefused(t)
  BY <1>1, <1>2, <1>3, <1>9 DEF SendRefused, model, At, Return, Become, IdleTask, TaskRec, Aside,
     Critical, CriticalLabels
<1>10. CASE Complete(t)
  BY <1>1, <1>2, <1>3, <1>10 DEF Complete, model, At, Return, Become, IdleTask, TaskRec, Aside,
     Critical, CriticalLabels
<1>11. CASE AcquireCoordinator(t)
  BY <1>1, <1>2, <1>3, <1>11 DEF AcquireCoordinator, model, At, Goto, Become, TaskRec, Aside,
     Critical, CriticalLabels
<1>12. CASE Panic(t)
  BY <1>1, <1>2, <1>3, <1>12 DEF Panic, model, At, TaskRec, Aside, Critical, CriticalLabels
<1>13. CASE Cancel(t)
  BY <1>1, <1>2, <1>3, <1>13 DEF Cancel, model, At, IdleTask, Orphaned, TaskRec, Aside, Critical,
     CriticalLabels
<1>14. CASE BecomeLeader(t)
  BY <1>1, <1>2, <1>3, <1>14 DEF BecomeLeader, model, At, Goto, Become, TaskRec, ShapeOf,
     CallerLabels, Aside, Critical, CriticalLabels
<1>15. CASE FoundLoaded(t)
  <2>1. UNCHANGED <<reserved, loadState, placement, loadedOn, draining, coordinator>>
    BY <1>15 DEF FoundLoaded
  <2>2. task'[t].pc \in {"guarded", "idle"}
    <3>1. CASE t \in Requests
      BY <1>1, <1>2, <1>15, <3>1 DEF FoundLoaded, Goto, Become, TaskRec
    <3>2. CASE t \notin Requests
      BY <1>2, <1>15, <3>2 DEF FoundLoaded, Return, Become, IdleTask
    <3>3. QED
      BY <3>1, <3>2
  <2>3. QED
    BY <2>1, <2>2 DEF Aside, Critical, CriticalLabels
<1>16. ~(ResolvePlacement(t) \/ ReserveDevice(t) \/ ReserveRefused(t) \/ RollBackDevice(t) \/
       PickVictims(t) \/ EvictionDone(t) \/ CommitPlacement(t) \/ ReadBack(t) \/ LoadSucceeds(t)
       \/ Announce(t) \/ LoadFails(t) \/ DropReservation(t) \/ FailLoading(t) \/ Leave(t) \/
       UnloadBusy(t) \/ UnloadNothing(t) \/ TakeWorker(t) \/ JoinWorker(t) \/ ReleaseDevice(t)
       \/ FinishUnload(t) \/ BeginUnload(t) \/ BeginShutdown(t) \/ TakeForShutdown(t))
  BY <1>1, <1>2, <1>3 DEF ResolvePlacement, ReserveDevice, ReserveRefused, RollBackDevice,
     PickVictims, EvictionDone, CommitPlacement, ReadBack, LoadSucceeds, Announce, LoadFails,
     DropReservation, FailLoading, Leave, UnloadBusy, UnloadNothing, TakeWorker, JoinWorker,
     ReleaseDevice, FinishUnload, BeginUnload, BeginShutdown, TakeForShutdown, Unloading, At,
     CriticalLabels
<1>17. QED
  BY <1>4, <1>5, <1>6, <1>7, <1>8, <1>9, <1>10, <1>11, <1>12, <1>13, <1>14, <1>15, <1>16 DEF Work,
     Environment

\* At these places nothing has to be secured.
LEMMA NoProvision ==
  ASSUME NEW t, task'[t].pc \notin {"reserving", "reading", "spawning", "joining", "releasing"}
  PROVE  Provisioned(t)'
  BY DEF Provisioned

\* A refusal changes no reservation.
LEMMA ReserveRefusedTurn ==
  ASSUME LCInv, UsedStaysLoaded, ReservedInv, NEW t \in Callers, ReserveRefused(t)
  PROVE  Turn(t)
<1>1. PICK r \in TaskRec : r = task[t] /\ ShapeOf(t, r)
  BY DEF LCInv, TasksShaped, Tasks
<1>2. task \in [Tasks -> TaskRec] /\ t \in Tasks
  BY DEF LCInv, TasksShaped, Tasks
<1>3. r.pc \in {"reserving"} /\ coordinator = t /\ draining' = draining /\ coordinator' = coordinator
  BY <1>1 DEF ReserveRefused, model, At, Unloading, ReservedInv, Critical, CriticalLabels
<1>4. task'[t].pc \in {"rollingBack"}
  BY <1>1, <1>2, <1>3 DEF ReserveRefused, Goto, Become, TaskRec
<1>5. KeepsLoaded
  BY DEF ReserveRefused, model, KeepsLoaded
<1>6. Provisioned(t)'
  BY <1>4, NoProvision
<1>7. LoadedIsReserved'
  BY <1>5, LoadedStaysReserved DEF ReservedInv
<1>8. QED
  BY <1>3, <1>4, <1>6, <1>7 DEF Turn, Critical, CriticalLabels

\* The next round begins, or none.
LEMMA EvictionDoneTurn ==
  ASSUME LCInv, UsedStaysLoaded, ReservedInv, NEW t \in Callers, EvictionDone(t)
  PROVE  Turn(t)
<1>1. PICK r \in TaskRec : r = task[t] /\ ShapeOf(t, r)
  BY DEF LCInv, TasksShaped, Tasks
<1>2. task \in [Tasks -> TaskRec] /\ t \in Tasks
  BY DEF LCInv, TasksShaped, Tasks
<1>3. r.pc \in {"unloading"} /\ coordinator = t /\ draining' = draining /\ coordinator' = coordinator
  BY <1>1 DEF EvictionDone, model, At, Unloading, ReservedInv, Critical, CriticalLabels
<1>4. task'[t].pc \in {"resolving", "failing"}
  BY <1>1, <1>2, <1>3 DEF EvictionDone, Goto, Become, TaskRec
<1>5. KeepsLoaded
  BY DEF EvictionDone, model, KeepsLoaded
<1>6. Provisioned(t)'
  BY <1>4, NoProvision
<1>7. LoadedIsReserved'
  BY <1>5, LoadedStaysReserved DEF ReservedInv
<1>8. QED
  BY <1>3, <1>4, <1>6, <1>7 DEF Turn, Critical, CriticalLabels

\* The worker refused.
LEMMA LoadFailsTurn ==
  ASSUME LCInv, UsedStaysLoaded, ReservedInv, NEW t \in Callers, LoadFails(t)
  PROVE  Turn(t)
<1>1. PICK r \in TaskRec : r = task[t] /\ ShapeOf(t, r)
  BY DEF LCInv, TasksShaped, Tasks
<1>2. task \in [Tasks -> TaskRec] /\ t \in Tasks
  BY DEF LCInv, TasksShaped, Tasks
<1>3. r.pc \in {"spawning"} /\ coordinator = t /\ draining' = draining /\ coordinator' = coordinator
  BY <1>1 DEF LoadFails, model, At, Unloading, ReservedInv, Critical, CriticalLabels
<1>4. task'[t].pc \in {"failing"}
  BY <1>1, <1>2, <1>3 DEF LoadFails, Goto, Become, TaskRec
<1>5. KeepsLoaded
  BY DEF LoadFails, model, KeepsLoaded
<1>6. Provisioned(t)'
  BY <1>4, NoProvision
<1>7. LoadedIsReserved'
  BY <1>5, LoadedStaysReserved DEF ReservedInv
<1>8. QED
  BY <1>3, <1>4, <1>6, <1>7 DEF Turn, Critical, CriticalLabels

\* Choosing victims changes no reservation.
LEMMA PickVictimsTurn ==
  ASSUME LCInv, UsedStaysLoaded, ReservedInv, NEW t \in Callers, PickVictims(t)
  PROVE  Turn(t)
<1>1. PICK r \in TaskRec : r = task[t] /\ ShapeOf(t, r)
  BY DEF LCInv, TasksShaped, Tasks
<1>2. task \in [Tasks -> TaskRec] /\ t \in Tasks
  BY DEF LCInv, TasksShaped, Tasks
<1>3. r.pc \in {"rollingBack"} /\ coordinator = t /\ draining' = draining /\ coordinator' = coordinator
  BY <1>1 DEF PickVictims, model, At, Unloading, ReservedInv, Critical, CriticalLabels
<1>4. task'[t].pc \in {"failing", "unloading"}
  BY <1>1, <1>2 DEF PickVictims, Become, TaskRec
<1>5. KeepsLoaded
  BY DEF PickVictims, model, KeepsLoaded
<1>6. Provisioned(t)'
  BY <1>4, NoProvision
<1>7. LoadedIsReserved'
  BY <1>5, LoadedStaysReserved DEF ReservedInv
<1>8. QED
  BY <1>3, <1>4, <1>6, <1>7 DEF Turn, Critical, CriticalLabels

\* The coordinator is given back.
LEMMA AnnounceTurn ==
  ASSUME LCInv, UsedStaysLoaded, ReservedInv, NEW t \in Callers, Announce(t)
  PROVE  Turn(t)
<1>1. PICK r \in TaskRec : r = task[t] /\ ShapeOf(t, r)
  BY DEF LCInv, TasksShaped, Tasks
<1>2. task \in [Tasks -> TaskRec] /\ t \in Tasks
  BY DEF LCInv, TasksShaped, Tasks
<1>3. r.pc \in {"announcing"} /\ coordinator = t /\ draining' = draining
  BY <1>1 DEF Announce, model, At, Unloading, ReservedInv, Critical, CriticalLabels
<1>4. task'[t].pc \in {"guarded", "idle"}
  <2>1. CASE t \in Requests
    BY <1>1, <1>2, <2>1 DEF Announce, NotifyAll, TaskRec
  <2>2. CASE t \notin Requests
    BY <1>2, <2>2 DEF Announce, NotifyAll, IdleTask
  <2>3. QED
    BY <2>1, <2>2
<1>5. KeepsLoaded
  BY DEF Announce, KeepsLoaded
<1>6. Provisioned(t)'
  BY <1>4, NoProvision
<1>7. LoadedIsReserved'
  BY <1>5, LoadedStaysReserved DEF ReservedInv
<1>8. QED
  BY <1>3, <1>4, <1>6, <1>7 DEF Turn, Critical, CriticalLabels

\* The coordinator is given back.
LEMMA LeaveTurn ==
  ASSUME LCInv, UsedStaysLoaded, ReservedInv, NEW t \in Callers, Leave(t)
  PROVE  Turn(t)
<1>1. PICK r \in TaskRec : r = task[t] /\ ShapeOf(t, r)
  BY DEF LCInv, TasksShaped, Tasks
<1>2. task \in [Tasks -> TaskRec] /\ t \in Tasks
  BY DEF LCInv, TasksShaped, Tasks
<1>3. r.pc \in {"leaving"} /\ coordinator = t /\ draining' = draining
  BY <1>1 DEF Leave, model, At, Unloading, ReservedInv, Critical, CriticalLabels
<1>4. task'[t].pc \in {"idle"}
  BY <1>1, <1>2, <1>3 DEF Leave, Return, Become, IdleTask, TaskRec
<1>5. KeepsLoaded
  BY DEF Leave, KeepsLoaded
<1>6. Provisioned(t)'
  BY <1>4, NoProvision
<1>7. LoadedIsReserved'
  BY <1>5, LoadedStaysReserved DEF ReservedInv
<1>8. QED
  BY <1>3, <1>4, <1>6, <1>7 DEF Turn, Critical, CriticalLabels

\* The model was Loading, not Loaded.
LEMMA FailLoadingTurn ==
  ASSUME LCInv, UsedStaysLoaded, ReservedInv, NEW t \in Callers, FailLoading(t)
  PROVE  Turn(t)
<1>1. PICK r \in TaskRec : r = task[t] /\ ShapeOf(t, r)
  BY DEF LCInv, TasksShaped, Tasks
<1>2. task \in [Tasks -> TaskRec] /\ t \in Tasks
  BY DEF LCInv, TasksShaped, Tasks
<1>3. r.pc \in {"failing"} /\ coordinator = t /\ draining' = draining /\ coordinator' = coordinator
  BY <1>1 DEF FailLoading, model, At, Unloading, ReservedInv, Critical, CriticalLabels
<1>4. task'[t].pc \in {"leaving"}
  BY <1>1, <1>2, <1>3 DEF FailLoading, NotifyAll, IdleTask, TaskRec
<1>5. KeepsLoaded
  <2>1. r.model \in Models /\ loadState' = [loadState EXCEPT ![r.model] = "Unloaded"]
    BY <1>1, <1>3 DEF FailLoading, ShapeOf
  <2>2. QED
    BY <2>1 DEF FailLoading, KeepsLoaded, LCInv, RestTyped
<1>6. Provisioned(t)'
  BY <1>4, NoProvision
<1>7. LoadedIsReserved'
  BY <1>5, LoadedStaysReserved DEF ReservedInv
<1>8. QED
  BY <1>3, <1>4, <1>6, <1>7 DEF Turn, Critical, CriticalLabels

\* Only reservations of the model being loaded go.
LEMMA RollBackDeviceTurn ==
  ASSUME LCInv, UsedStaysLoaded, ReservedInv, NEW t \in Callers, RollBackDevice(t)
  PROVE  Turn(t)
<1>1. PICK r \in TaskRec : r = task[t] /\ ShapeOf(t, r)
  BY DEF LCInv, TasksShaped, Tasks
<1>2. task \in [Tasks -> TaskRec] /\ t \in Tasks
  BY DEF LCInv, TasksShaped, Tasks
<1>3. r.pc \in {"rollingBack"} /\ coordinator = t /\ draining' = draining /\ coordinator' = coordinator
  BY <1>1 DEF RollBackDevice, model, At, Unloading, ReservedInv, Critical, CriticalLabels
<1>4. task'[t].pc \in {"rollingBack"}
  BY <1>1, <1>2, <1>3 DEF RollBackDevice, Become, TaskRec, At
<1>5. KeepsLoaded
  <2>1. r.model \in Models /\ loadState[r.model] = "Loading"
    BY <1>1, <1>3, LeaderIsLoading DEF Critical, CriticalLabels, ShapeOf
  <2>2. \A g \in Gpus : \A m \in Models \ {r.model} : m \in reserved[g] => m \in reserved'[g]
    BY <1>1 DEF RollBackDevice, Release, LCInv, RestTyped, RSTypeOK
  <2>3. QED
    BY <2>1, <2>2 DEF RollBackDevice, model, KeepsLoaded
<1>6. Provisioned(t)'
  BY <1>4, NoProvision
<1>7. LoadedIsReserved'
  BY <1>5, LoadedStaysReserved DEF ReservedInv
<1>8. QED
  BY <1>3, <1>4, <1>6, <1>7 DEF Turn, Critical, CriticalLabels

\* Only reservations of the model being loaded go.
LEMMA DropReservationTurn ==
  ASSUME LCInv, UsedStaysLoaded, ReservedInv, NEW t \in Callers, DropReservation(t)
  PROVE  Turn(t)
<1>1. PICK r \in TaskRec : r = task[t] /\ ShapeOf(t, r)
  BY DEF LCInv, TasksShaped, Tasks
<1>2. task \in [Tasks -> TaskRec] /\ t \in Tasks
  BY DEF LCInv, TasksShaped, Tasks
<1>3. r.pc \in {"failing"} /\ coordinator = t /\ draining' = draining /\ coordinator' = coordinator
  BY <1>1 DEF DropReservation, model, At, Unloading, ReservedInv, Critical, CriticalLabels
<1>4. task'[t].pc \in {"failing"}
  BY <1>1, <1>2, <1>3 DEF DropReservation, Become, TaskRec, At
<1>5. KeepsLoaded
  <2>1. r.model \in Models /\ loadState[r.model] = "Loading"
    BY <1>1, <1>3, LeaderIsLoading DEF Critical, CriticalLabels, ShapeOf
  <2>2. \A g \in Gpus : \A m \in Models \ {r.model} : m \in reserved[g] => m \in reserved'[g]
    BY <1>1 DEF DropReservation, Release, LCInv, RestTyped, RSTypeOK
  <2>3. QED
    BY <2>1, <2>2 DEF DropReservation, model, KeepsLoaded
<1>6. Provisioned(t)'
  BY <1>4, NoProvision
<1>7. LoadedIsReserved'
  BY <1>5, LoadedStaysReserved DEF ReservedInv
<1>8. QED
  BY <1>3, <1>4, <1>6, <1>7 DEF Turn, Critical, CriticalLabels

\* The victim stays.
LEMMA UnloadBusyTurn ==
  ASSUME LCInv, UsedStaysLoaded, ReservedInv, NEW t \in Callers, UnloadBusy(t)
  PROVE  Turn(t)
<1>1. PICK r \in TaskRec : r = task[t] /\ ShapeOf(t, r)
  BY DEF LCInv, TasksShaped, Tasks
<1>2. task \in [Tasks -> TaskRec] /\ t \in Tasks
  BY DEF LCInv, TasksShaped, Tasks
<1>3. r.pc \in {"unloading"} /\ coordinator = t /\ draining' = draining /\ coordinator' = coordinator
  BY <1>1 DEF UnloadBusy, model, At, Unloading, ReservedInv, Critical, CriticalLabels
<1>4. task'[t].pc \in {"unloading"}
  <2>1. AfterUnload(t, FALSE) \/ AfterUnload(t, TRUE)
    BY DEF UnloadBusy
  <2>2. QED
    BY <1>1, <1>2, <2>1 DEF AfterUnload, Become, TaskRec
<1>5. KeepsLoaded
  BY DEF UnloadBusy, model, KeepsLoaded
<1>6. Provisioned(t)'
  BY <1>4, NoProvision
<1>7. LoadedIsReserved'
  BY <1>5, LoadedStaysReserved DEF ReservedInv
<1>8. QED
  BY <1>3, <1>4, <1>6, <1>7 DEF Turn, Critical, CriticalLabels

\* The victim was not loaded.
LEMMA UnloadNothingTurn ==
  ASSUME LCInv, UsedStaysLoaded, ReservedInv, NEW t \in Callers, UnloadNothing(t)
  PROVE  Turn(t)
<1>1. PICK r \in TaskRec : r = task[t] /\ ShapeOf(t, r)
  BY DEF LCInv, TasksShaped, Tasks
<1>2. task \in [Tasks -> TaskRec] /\ t \in Tasks
  BY DEF LCInv, TasksShaped, Tasks
<1>3. r.pc \in {"unloading"} /\ coordinator = t /\ draining' = draining /\ coordinator' = coordinator
  BY <1>1 DEF UnloadNothing, model, At, Unloading, ReservedInv, Critical, CriticalLabels
<1>4. task'[t].pc \in {"unloading"}
  <2>1. AfterUnload(t, FALSE) \/ AfterUnload(t, TRUE)
    BY DEF UnloadNothing
  <2>2. QED
    BY <1>1, <1>2, <2>1 DEF AfterUnload, Become, TaskRec
<1>5. KeepsLoaded
  BY DEF UnloadNothing, model, KeepsLoaded
<1>6. Provisioned(t)'
  BY <1>4, NoProvision
<1>7. LoadedIsReserved'
  BY <1>5, LoadedStaysReserved DEF ReservedInv
<1>8. QED
  BY <1>3, <1>4, <1>6, <1>7 DEF Turn, Critical, CriticalLabels

\* The victim, whose placement may be forgotten, is not loaded.
LEMMA FinishUnloadTurn ==
  ASSUME LCInv, UsedStaysLoaded, ReservedInv, NEW t \in Callers, FinishUnload(t)
  PROVE  Turn(t)
<1>1. PICK r \in TaskRec : r = task[t] /\ ShapeOf(t, r)
  BY DEF LCInv, TasksShaped, Tasks
<1>2. task \in [Tasks -> TaskRec] /\ t \in Tasks
  BY DEF LCInv, TasksShaped, Tasks
<1>3. r.pc \in {"releasing"} /\ coordinator = t /\ draining' = draining /\ coordinator' = coordinator
  BY <1>1 DEF FinishUnload, model, At, Unloading, ReservedInv, Critical, CriticalLabels
<1>4. task'[t].pc \in {"unloading"}
  <2>1. AfterUnload(t, FALSE) \/ AfterUnload(t, TRUE)
    BY DEF FinishUnload
  <2>2. QED
    BY <1>1, <1>2, <2>1 DEF AfterUnload, Become, TaskRec
<1>5. KeepsLoaded
  <2>1. PICK m \in Models : m = Target(t)
    BY <1>1, <1>2, <1>3, TargetKnown DEF ShapeOf
  <2>2. loadState[m] # "Loaded"
    BY <1>1, <1>3, <2>1 DEF ReservedInv, Provisioned
  <2>3. \A k \in Models \ {m} : placement'[k] = placement[k]
    BY <2>1 DEF FinishUnload, LCInv, RestTyped
  <2>4. QED
    BY <2>2, <2>3 DEF FinishUnload, KeepsLoaded
<1>6. Provisioned(t)'
  BY <1>4, NoProvision
<1>7. LoadedIsReserved'
  BY <1>5, LoadedStaysReserved DEF ReservedInv
<1>8. QED
  BY <1>3, <1>4, <1>6, <1>7 DEF Turn, Critical, CriticalLabels

\* The worker's devices are those of the placement, and reserved.
LEMMA LoadSucceedsTurn ==
  ASSUME LCInv, UsedStaysLoaded, ReservedInv, NEW t \in Callers, LoadSucceeds(t)
  PROVE  Turn(t)
<1>1. PICK r \in TaskRec : r = task[t] /\ ShapeOf(t, r)
  BY DEF LCInv, TasksShaped, Tasks
<1>2. task \in [Tasks -> TaskRec] /\ t \in Tasks
  BY DEF LCInv, TasksShaped, Tasks
<1>3. /\ r.pc = "spawning" /\ coordinator = t /\ draining' = draining /\ coordinator' = coordinator
      /\ r.model \in Models
  BY <1>1 DEF LoadSucceeds, At, ReservedInv, Critical, CriticalLabels, ShapeOf
<1>4. task'[t].pc = "announcing"
  BY <1>1, <1>2 DEF LoadSucceeds, Become, TaskRec
<1>5. r.held # <<>> /\ r.held = placement[r.model] /\ Holding(r.model, r.held)
  BY <1>1, <1>3 DEF ReservedInv, Provisioned
<1>6. Provisioned(t)'
  BY <1>4, NoProvision
<1>7. LoadedIsReserved'
  <2>1. /\ loadState' = [loadState EXCEPT ![r.model] = "Loaded"]
        /\ loadedOn' = [loadedOn EXCEPT ![r.model] = r.held]
        /\ UNCHANGED <<placement, reserved>>
    BY <1>1 DEF LoadSucceeds
  <2>2. loadState \in [Models -> {"Unloaded", "Loading", "Loaded"}] /\ loadedOn \in [Models -> Seq(Gpus)]
    BY DEF LCInv, RestTyped
  <2>3. ASSUME NEW m \in Models, loadState'[m] = "Loaded"
        PROVE  /\ loadedOn'[m] # <<>>
               /\ placement'[m] = loadedOn'[m]
               /\ \A g \in Range(loadedOn'[m]) : Budget[g] # 0 => m \in reserved'[g]
    <3>1. CASE m = r.model
      BY <1>3, <1>5, <2>1, <2>2, <3>1 DEF Holding
    <3>2. CASE m # r.model
      BY <2>1, <2>2, <2>3, <3>2 DEF ReservedInv, LoadedIsReserved
    <3>3. QED
      BY <3>1, <3>2
  <2>4. QED
    BY <2>3 DEF LoadedIsReserved
<1>8. QED
  BY <1>3, <1>4, <1>6, <1>7 DEF Turn, Critical, CriticalLabels

\* The devices to reserve are those of the placement, if there is one.
LEMMA ResolvePlacementTurn ==
  ASSUME LCInv, UsedStaysLoaded, ReservedInv, NEW t \in Callers, ResolvePlacement(t)
  PROVE  Turn(t)
<1>1. PICK r \in TaskRec : r = task[t] /\ ShapeOf(t, r)
  BY DEF LCInv, TasksShaped, Tasks
<1>2. task \in [Tasks -> TaskRec] /\ t \in Tasks
  BY DEF LCInv, TasksShaped, Tasks
<1>3. /\ r.pc = "resolving" /\ coordinator = t /\ draining' = draining /\ coordinator' = coordinator
      /\ r.model \in Models
  BY <1>1 DEF ResolvePlacement, model, At, Unloading, ReservedInv, Critical, CriticalLabels, ShapeOf
<1>4. task'[t] = [r EXCEPT !.pc = "reserving", !.held = <<>>,
                           !.devs = IF placement[r.model] = <<>> THEN <<MostFreeDevice>> ELSE placement[r.model]]
  BY <1>1, <1>2 DEF ResolvePlacement, Become
<1>5. KeepsLoaded
  BY DEF ResolvePlacement, model, KeepsLoaded
<1>6. Provisioned(t)'
  <2> DEFINE devs == IF placement[r.model] = <<>> THEN <<MostFreeDevice>> ELSE placement[r.model]
  <2>1. devs # <<>> /\ (placement[r.model] # <<>> => devs = placement[r.model])
    OBVIOUS
  <2>2. devs \in Seq(Gpus)
    BY <1>3, MostFreeIsDevice DEF LCInv, RestTyped
  <2>3. <<>> \o devs = devs
    BY <2>2, ConcatEmptySeq
  <2>4. /\ task'[t].pc = "reserving" /\ task'[t].held = <<>> /\ task'[t].model = r.model
        /\ task'[t].devs = devs
    BY <1>4 DEF TaskRec
  <2>5. placement' = placement
    BY DEF ResolvePlacement, model
  <2> HIDE DEF devs
  <2>6. QED
    BY <2>1, <2>3, <2>4, <2>5, NoDevices DEF Provisioned, Holding
<1>7. LoadedIsReserved'
  BY <1>5, LoadedStaysReserved DEF ReservedInv
<1>8. QED
  BY <1>3, <1>6, <1>7 DEF Turn

\* A device more is reserved.
LEMMA ReserveDeviceTurn ==
  ASSUME LCInv, UsedStaysLoaded, ReservedInv, NEW t \in Callers, ReserveDevice(t)
  PROVE  Turn(t)
<1>1. PICK r \in TaskRec : r = task[t] /\ ShapeOf(t, r)
  BY DEF LCInv, TasksShaped, Tasks
<1>2. task \in [Tasks -> TaskRec] /\ t \in Tasks
  BY DEF LCInv, TasksShaped, Tasks
<1>3. /\ r.pc = "reserving" /\ coordinator = t /\ draining' = draining /\ coordinator' = coordinator
      /\ r.model \in Models /\ r.devs # <<>>
  BY <1>1 DEF ReserveDevice, model, At, Unloading, ReservedInv, Critical, CriticalLabels, ShapeOf
<1>4. task'[t] = [r EXCEPT !.devs = Tail(r.devs), !.held = Append(r.held, Head(r.devs))]
  BY <1>1, <1>2 DEF ReserveDevice, Become
<1>5. KeepsLoaded
  <2>1. \A g \in Gpus : reserved[g] \subseteq reserved'[g]
    BY DEF ReserveDevice, Reserve, LCInv, RestTyped, RSTypeOK
  <2>2. QED
    BY <2>1 DEF ReserveDevice, model, KeepsLoaded
<1>6. Provisioned(t)'
  <2>1. /\ Holding(r.model, r.held) /\ r.held \o r.devs # <<>>
        /\ placement[r.model] # <<>> => r.held \o r.devs = placement[r.model]
    BY <1>1, <1>3 DEF ReservedInv, Provisioned
  <2>2. r.held \in Seq(Gpus) /\ r.devs \in Seq(Gpus)
    BY DEF TaskRec
  <2>3. Append(r.held, Head(r.devs)) \o Tail(r.devs) = r.held \o r.devs
    BY <1>3, <2>2, MoveHead
  <2>4. PICK g \in Gpus : g = Head(r.devs)
    BY <1>3, <2>2, Ends
  <2>5. Range(Append(r.held, g)) = Range(r.held) \cup {g}
    BY <2>2, RangeOfAppend
  <2>6. /\ Budget[g] # 0 => r.model \in reserved'[g]
        /\ \A h \in Gpus : r.model \in reserved[h] => r.model \in reserved'[h]
    BY <1>1, <2>4 DEF ReserveDevice, Reserve, LCInv, RestTyped, RSTypeOK
  <2>7. Range(r.held) \subseteq Gpus
    BY <2>2, ElementOfSeq DEF Range
  <2>8. Holding(r.model, Append(r.held, g))'
    BY <2>1, <2>5, <2>6, <2>7 DEF Holding
  <2>9. /\ task'[t].pc = "reserving" /\ task'[t].held = Append(r.held, g) /\ task'[t].model = r.model
        /\ task'[t].devs = Tail(r.devs)
    BY <1>3, <1>4, <2>4 DEF TaskRec
  <2>10. placement' = placement
    BY DEF ReserveDevice, model
  <2>11. QED
    BY <2>1, <2>3, <2>4, <2>8, <2>9, <2>10 DEF Provisioned, Holding
<1>7. LoadedIsReserved'
  BY <1>5, LoadedStaysReserved DEF ReservedInv
<1>8. QED
  BY <1>3, <1>6, <1>7 DEF Turn

\* What is reserved is now the placement.
LEMMA CommitPlacementTurn ==
  ASSUME LCInv, UsedStaysLoaded, ReservedInv, NEW t \in Callers, CommitPlacement(t)
  PROVE  Turn(t)
<1>1. PICK r \in TaskRec : r = task[t] /\ ShapeOf(t, r)
  BY DEF LCInv, TasksShaped, Tasks
<1>2. task \in [Tasks -> TaskRec] /\ t \in Tasks
  BY DEF LCInv, TasksShaped, Tasks
<1>3. /\ r.pc = "reserving" /\ coordinator = t /\ draining' = draining /\ coordinator' = coordinator
      /\ r.model \in Models /\ r.devs = <<>>
  BY <1>1 DEF CommitPlacement, model, At, Unloading, ReservedInv, Critical, CriticalLabels, ShapeOf
<1>4. task'[t] = [r EXCEPT !.pc = "reading"]
  BY <1>1, <1>2 DEF CommitPlacement, Become, Goto
<1>5. KeepsLoaded
  <2>1. loadState[r.model] = "Loading"
    BY <1>1, <1>3, LeaderIsLoading DEF Critical, CriticalLabels
  <2>2. \A k \in Models \ {r.model} : placement'[k] = placement[k]
    BY <1>1 DEF CommitPlacement, LCInv, RestTyped
  <2>3. QED
    BY <2>1, <2>2 DEF CommitPlacement, KeepsLoaded
<1>6. Provisioned(t)'
  <2>1. /\ Holding(r.model, r.held) /\ r.held \o r.devs # <<>>
        /\ placement[r.model] # <<>> => r.held \o r.devs = placement[r.model]
    BY <1>1, <1>3 DEF ReservedInv, Provisioned
  <2>2. r.held \o r.devs = r.held
    <3>1. r.held \in Seq(Gpus)
      BY DEF TaskRec
    <3>2. QED
      BY <1>3, <3>1, ConcatEmptySeq
  <2>3. placement'[r.model] = r.held
    BY <1>1, <1>3, <2>1, <2>2 DEF CommitPlacement, LCInv, RestTyped
  <2>4. task'[t].pc = "reading" /\ task'[t].model = r.model /\ reserved' = reserved
    BY <1>4 DEF TaskRec, CommitPlacement
  <2>5. QED
    BY <2>1, <2>2, <2>3, <2>4 DEF Provisioned, Holding
<1>7. LoadedIsReserved'
  BY <1>5, LoadedStaysReserved DEF ReservedInv
<1>8. QED
  BY <1>3, <1>6, <1>7 DEF Turn

\* The worker is started on the placement.
LEMMA ReadBackTurn ==
  ASSUME LCInv, UsedStaysLoaded, ReservedInv, NEW t \in Callers, ReadBack(t)
  PROVE  Turn(t)
<1>1. PICK r \in TaskRec : r = task[t] /\ ShapeOf(t, r)
  BY DEF LCInv, TasksShaped, Tasks
<1>2. task \in [Tasks -> TaskRec] /\ t \in Tasks
  BY DEF LCInv, TasksShaped, Tasks
<1>3. /\ r.pc = "reading" /\ coordinator = t /\ draining' = draining /\ coordinator' = coordinator
      /\ r.model \in Models
  BY <1>1 DEF ReadBack, model, At, Unloading, ReservedInv, Critical, CriticalLabels, ShapeOf
<1>4. task'[t] = [r EXCEPT !.pc = IF placement[r.model] = <<>> THEN "failing" ELSE "spawning", !.held = placement[r.model]]
  BY <1>1, <1>2 DEF ReadBack, Become
<1>5. KeepsLoaded
  BY DEF ReadBack, model, KeepsLoaded
<1>6. Provisioned(t)'
  <2>1. placement[r.model] # <<>> /\ Holding(r.model, placement[r.model])
    BY <1>1, <1>3 DEF ReservedInv, Provisioned
  <2>2. task'[t].pc = "spawning" /\ task'[t].model = r.model /\ task'[t].held = placement[r.model]
    BY <1>4, <2>1 DEF TaskRec
  <2>3. placement' = placement /\ reserved' = reserved
    BY DEF ReadBack, model
  <2>4. QED
    BY <2>1, <2>2, <2>3 DEF Provisioned, Holding
<1>7. LoadedIsReserved'
  BY <1>5, LoadedStaysReserved DEF ReservedInv
<1>8. QED
  BY <1>3, <1>6, <1>7 DEF Turn

\* The worker that stops still has its reservations.
LEMMA TakeWorkerTurn ==
  ASSUME LCInv, UsedStaysLoaded, ReservedInv, NEW t \in Callers, TakeWorker(t)
  PROVE  Turn(t)
<1>1. PICK r \in TaskRec : r = task[t] /\ ShapeOf(t, r)
  BY DEF LCInv, TasksShaped, Tasks
<1>2. task \in [Tasks -> TaskRec] /\ t \in Tasks
  BY DEF LCInv, TasksShaped, Tasks
<1>3. /\ r.pc = "unloading" /\ coordinator = t /\ draining' = draining /\ coordinator' = coordinator
      /\ r.model \in Models /\ r.victims # <<>>
  BY <1>1 DEF TakeWorker, model, At, Unloading, ReservedInv, Critical, CriticalLabels, ShapeOf
<1>4. task'[t] = [r EXCEPT !.pc = "joining", !.held = loadedOn[Target(t)]]
  BY <1>1, <1>2 DEF TakeWorker, Become
<1>5. KeepsLoaded
  <2>1. PICK m \in Models : m = Target(t) /\ m = Head(r.victims)
    BY <1>1, <1>2, <1>3, TargetKnown DEF TargetOf, ShapeOf
  <2>2. /\ loadState' = [loadState EXCEPT ![m] = "Unloaded"] /\ loadedOn' = [loadedOn EXCEPT ![m] = <<>>]
        /\ UNCHANGED <<reserved, placement>>
    BY <2>1 DEF TakeWorker
  <2>3. QED
    BY <2>2 DEF KeepsLoaded, LCInv, RestTyped
<1>6. Provisioned(t)'
  <2>1. PICK m \in Models : m = Target(t) /\ m = Head(r.victims)
    BY <1>1, <1>2, <1>3, TargetKnown DEF TargetOf, ShapeOf
  <2>2. loadState[m] = "Loaded" /\ loadState' = [loadState EXCEPT ![m] = "Unloaded"] /\ reserved' = reserved
    BY <2>1 DEF TakeWorker
  <2>3. Holding(m, loadedOn[m])
    BY <2>2 DEF ReservedInv, LoadedIsReserved, Holding
  <2>4. task'[t].pc = "joining" /\ task'[t].held = loadedOn[m] /\ task'[t].victims = r.victims
    BY <1>4, <2>1 DEF TaskRec
  <2>5. Target(t)' = m
    BY <2>1, <2>4 DEF Target
  <2>6. loadState'[m] = "Unloaded"
    BY <2>2 DEF LCInv, RestTyped
  <2>7. QED
    BY <2>2, <2>3, <2>4, <2>5, <2>6 DEF Provisioned, Holding
<1>7. LoadedIsReserved'
  BY <1>5, LoadedStaysReserved DEF ReservedInv
<1>8. QED
  BY <1>3, <1>6, <1>7 DEF Turn

\* The victim stays down.
LEMMA JoinWorkerTurn ==
  ASSUME LCInv, UsedStaysLoaded, ReservedInv, NEW t \in Callers, JoinWorker(t)
  PROVE  Turn(t)
<1>1. PICK r \in TaskRec : r = task[t] /\ ShapeOf(t, r)
  BY DEF LCInv, TasksShaped, Tasks
<1>2. task \in [Tasks -> TaskRec] /\ t \in Tasks
  BY DEF LCInv, TasksShaped, Tasks
<1>3. /\ r.pc = "joining" /\ coordinator = t /\ draining' = draining /\ coordinator' = coordinator
      /\ r.model \in Models
  BY <1>1 DEF JoinWorker, model, At, Unloading, ReservedInv, Critical, CriticalLabels, ShapeOf
<1>4. task'[t] = [r EXCEPT !.pc = "releasing", !.held = <<>>, !.devs = placement[Target(t)]]
  BY <1>1, <1>2 DEF JoinWorker, Become
<1>5. KeepsLoaded
  BY DEF JoinWorker, model, KeepsLoaded
<1>6. Provisioned(t)'
  <2>1. PICK m \in Models : m = Target(t) /\ m = Head(r.victims)
    BY <1>1, <1>2, <1>3, TargetKnown DEF TargetOf, ShapeOf
  <2>2. loadState[m] # "Loaded" /\ loadState' = loadState
    BY <1>1, <1>3, <2>1 DEF ReservedInv, Provisioned, JoinWorker, model
  <2>3. task'[t].pc = "releasing" /\ task'[t].victims = r.victims
    BY <1>4 DEF TaskRec
  <2>4. Target(t)' = m
    BY <2>1, <2>3 DEF Target
  <2>5. QED
    BY <2>2, <2>3, <2>4 DEF Provisioned
<1>7. LoadedIsReserved'
  BY <1>5, LoadedStaysReserved DEF ReservedInv
<1>8. QED
  BY <1>3, <1>6, <1>7 DEF Turn

\* The victim, which is not loaded, gives a device back.
LEMMA ReleaseDeviceTurn ==
  ASSUME LCInv, UsedStaysLoaded, ReservedInv, NEW t \in Callers, ReleaseDevice(t)
  PROVE  Turn(t)
<1>1. PICK r \in TaskRec : r = task[t] /\ ShapeOf(t, r)
  BY DEF LCInv, TasksShaped, Tasks
<1>2. task \in [Tasks -> TaskRec] /\ t \in Tasks
  BY DEF LCInv, TasksShaped, Tasks
<1>3. /\ r.pc = "releasing" /\ coordinator = t /\ draining' = draining /\ coordinator' = coordinator
      /\ r.model \in Models
  BY <1>1 DEF ReleaseDevice, model, At, Unloading, ReservedInv, Critical, CriticalLabels, ShapeOf
<1>4. task'[t] = [r EXCEPT !.devs = Tail(r.devs)]
  BY <1>1, <1>2 DEF ReleaseDevice, Become
<1>5. KeepsLoaded
  <2>1. PICK m \in Models : m = Target(t) /\ m = Head(r.victims)
    BY <1>1, <1>2, <1>3, TargetKnown DEF TargetOf, ShapeOf
  <2>2. loadState[m] # "Loaded"
    BY <1>1, <1>3, <2>1 DEF ReservedInv, Provisioned
  <2>3. \A g \in Gpus : \A k \in Models \ {m} : k \in reserved[g] => k \in reserved'[g]
    BY <2>1 DEF ReleaseDevice, Release, LCInv, RestTyped, RSTypeOK
  <2>4. QED
    BY <2>2, <2>3 DEF ReleaseDevice, model, KeepsLoaded
<1>6. Provisioned(t)'
  <2>1. PICK m \in Models : m = Target(t) /\ m = Head(r.victims)
    BY <1>1, <1>2, <1>3, TargetKnown DEF TargetOf, ShapeOf
  <2>2. loadState[m] # "Loaded" /\ loadState' = loadState
    BY <1>1, <1>3, <2>1 DEF ReservedInv, Provisioned, ReleaseDevice, model
  <2>3. task'[t].pc = "releasing" /\ task'[t].victims = r.victims
    BY <1>3, <1>4 DEF TaskRec
  <2>4. Target(t)' = m
    BY <2>1, <2>3 DEF Target
  <2>5. QED
    BY <2>2, <2>3, <2>4 DEF Provisioned
<1>7. LoadedIsReserved'
  BY <1>5, LoadedStaysReserved DEF ReservedInv
<1>8. QED
  BY <1>3, <1>6, <1>7 DEF Turn

\* A dropped future leaves the coordinator to others.
LEMMA CancelTurn ==
  ASSUME LCInv, UsedStaysLoaded, ReservedInv, NEW t \in Callers, Cancel(t), Critical(t)
  PROVE  Turn(t)
<1>1. PICK r \in TaskRec : r = task[t] /\ ShapeOf(t, r)
  BY DEF LCInv, TasksShaped, Tasks
<1>2. task \in [Tasks -> TaskRec] /\ t \in Tasks
  BY DEF LCInv, TasksShaped, Tasks
<1>3. r.pc \in CriticalLabels /\ coordinator = t /\ draining' = draining
  BY <1>1 DEF Cancel, model, At, Unloading, ReservedInv, Critical, CriticalLabels
<1>4. task'[t].pc \in {"idle"}
  BY <1>1, <1>2 DEF Cancel, Orphaned, IdleTask
<1>5. KeepsLoaded
  BY DEF Cancel, KeepsLoaded
<1>6. Provisioned(t)'
  BY <1>4, NoProvision
<1>7. LoadedIsReserved'
  BY <1>5, LoadedStaysReserved DEF ReservedInv
<1>8. QED
  BY <1>3, <1>4, <1>6, <1>7 DEF Turn, Critical, CriticalLabels

\* One step keeps what is loaded reserved.
LEMMA ReservedStep ==
  ASSUME OnlyEvictions
  PROVE  LCInv /\ UsedStaysLoaded /\ ReservedInv /\ [LCNext]_vars => ReservedInv'
<1> SUFFICES ASSUME LCInv, UsedStaysLoaded, ReservedInv, [LCNext]_vars
             PROVE  ReservedInv'
  OBVIOUS
<1>1. CASE UNCHANGED vars
  <2>1. \A t \in Callers : Provisioned(t)'
    BY <1>1 DEF vars, model, ReservedInv, Provisioned, Holding, Target
  <2>2. LoadedIsReserved'
    BY <1>1 DEF vars, model, ReservedInv, LoadedIsReserved
  <2>3. QED
    BY <1>1, <2>1, <2>2 DEF vars, model, ReservedInv, Critical
<1>2. ASSUME NEW t \in Tasks, Work(t) \/ Environment(t)
      PROVE  ReservedInv'
  <2>1. t \in Callers
    BY <1>2 DEF OnlyEvictions, Tasks
  <2>2. OthersStay(t)
    BY <1>2, WorkEffect, EnvironmentEffect DEF Effect
  <2>3. CASE ~Critical(t)
    BY <1>2, <2>1, <2>2, <2>3, AsideActions, AsideStep
  <2>4. CASE Critical(t)
    <3>1. PICK r \in TaskRec : r = task[t] /\ ShapeOf(t, r)
      BY DEF LCInv, TasksShaped
    <3>2. ~(Begin(t) \/ BeginUnload(t) \/ BeginShutdown(t) \/ Panic(t) \/ FoundLoaded(t) \/ FoundLoading(t) \/ Subscribe(t)
            \/ BecomeLeader(t) \/ TakeSentinel(t) \/ AcquireCoordinator(t) \/ SendCommand(t) \/ SendRefused(t)
            \/ Complete(t) \/ TakeForShutdown(t))
      BY <2>1, <2>4, <3>1 DEF OnlyEvictions, Critical, CriticalLabels, At, Begin, BeginUnload,
         BeginShutdown, Panic, FoundLoaded, FoundLoading, Subscribe, BecomeLeader, TakeSentinel,
         AcquireCoordinator, SendCommand, SendRefused, Complete, TakeForShutdown
    <3>3. Turn(t)
      BY <1>2, <2>1, <2>4, <3>2, ResolvePlacementTurn, ReserveDeviceTurn, ReserveRefusedTurn,
         RollBackDeviceTurn, PickVictimsTurn, EvictionDoneTurn, CommitPlacementTurn, ReadBackTurn,
         LoadSucceedsTurn, AnnounceTurn, LoadFailsTurn, DropReservationTurn, FailLoadingTurn,
         LeaveTurn, UnloadBusyTurn, UnloadNothingTurn, TakeWorkerTurn, JoinWorkerTurn,
         ReleaseDeviceTurn, FinishUnloadTurn, CancelTurn DEF Work, Environment
    <3>4. QED
      BY <2>1, <2>2, <2>4, <3>3, TurnStep
  <2>5. QED
    BY <2>3, <2>4
<1>3. QED
  BY <1>1, <1>2 DEF LCNext

\* What the critical section of the coordinator is for: a leader's reservations
\* are not disturbed by another, and a victim is not reloaded before its devices
\* are given back.
THEOREM ReservedInductive ==
  ASSUME OnlyEvictions
  PROVE  LCSpec => []ReservedInv
<1>1. LCInit => ReservedInv
  BY DEF LCInit, IdleTask, ReservedInv, Provisioned, LoadedIsReserved, Critical, CriticalLabels,
         Tasks
<1>2. LCInv /\ UsedStaysLoaded /\ ReservedInv /\ [LCNext]_vars => ReservedInv'
  BY ReservedStep
<1>3. QED
  BY <1>1, <1>2, LifecycleInductive, UseInductive, PTL DEF LCSpec

\* What a worker occupies is reserved where it runs, and the placement says so, as
\* long as only evictions take models down: an admin unload may interleave with
\* a reload of the same model, and then it does not hold.
THEOREM LoadedModelsAreReserved ==
  ASSUME Unloaders = {}, Drainers = {}
  PROVE  LCSpec => []LoadedIsReserved
<1>1. OnlyEvictions
  BY DEF OnlyEvictions
<1>2. ReservedInv => LoadedIsReserved
  BY DEF ReservedInv
<1>3. LCSpec => []ReservedInv
  BY <1>1, ReservedInductive
<1>4. QED
  BY <1>2, <1>3, PTL

\* No load takes down a pinned model: the victims of an eviction are unpinned,
\* and the only state a failed load resets is the one it was loading.
THEOREM PinnedModelsStay ==
  ASSUME Unloaders = {}, Drainers = {}
  PROVE  LCSpec => PinnedStays
<1>1. OnlyEvictions
  BY DEF OnlyEvictions
<1>2. LCInv /\ UsedStaysLoaded /\ ReservedInv /\ [LCNext]_vars =>
        [\A m \in Pinned : loadState[m] = "Loaded" => loadState'[m] = "Loaded"]_vars
  <2> SUFFICES ASSUME LCInv, UsedStaysLoaded, ReservedInv, NEW t \in Tasks, Work(t) \/ Environment(t),
                      NEW m \in Pinned, loadState[m] = "Loaded", loadState'[m] # "Loaded"
               PROVE  FALSE
    BY DEF LCNext
  <2>1. t \in Callers /\ m \in Models /\ loadState \in [Models -> {"Unloaded", "Loading", "Loaded"}]
    BY <1>1, ResidentAssumption DEF OnlyEvictions, Tasks, LCInv, RestTyped
  <2>2. PICK r \in TaskRec : r = task[t] /\ ShapeOf(t, r)
    BY DEF LCInv, TasksShaped
  <2>3. CASE BecomeLeader(t) \/ LoadSucceeds(t)
    BY <2>1, <2>2, <2>3 DEF BecomeLeader, LoadSucceeds
  <2>4. CASE FailLoading(t)
    <3>1. loadState[r.model] = "Loading"
      BY <2>1, <2>2, <2>4, LeaderIsLoading DEF FailLoading, At, Critical, CriticalLabels
    <3>2. QED
      BY <2>1, <2>2, <2>4, <3>1 DEF FailLoading
  <2>5. CASE TakeWorker(t)
    <3>1. Target(t) \in Models \ Pinned
      BY <2>1, <2>2, <2>5, TargetKnown DEF TakeWorker, Unloading, At
    <3>2. QED
      BY <2>1, <2>5, <3>1 DEF TakeWorker
  <2>6. CASE TakeForShutdown(t)
    BY <1>1, <2>2, <2>6 DEF TakeForShutdown, At, ShapeOf, OnlyEvictions
  <2>7. CASE ~(BecomeLeader(t) \/ LoadSucceeds(t) \/ FailLoading(t) \/ TakeWorker(t) \/ TakeForShutdown(t))
    <3>1. Steady(t)
      BY <2>7, SteadyActions DEF UsedStaysLoaded
    <3>2. QED
      BY <3>1 DEF Steady
  <2>8. QED
    BY <2>3, <2>4, <2>5, <2>6, <2>7
<1>3. LCSpec => []ReservedInv
  BY <1>1, ReservedInductive
<1>4. QED
  BY <1>2, <1>3, LifecycleInductive, UseInductive, PTL DEF LCSpec, PinnedStays

-----------------------------------------------------------------------------
(* The memory workers occupy.                                              *)

\* Loaded models, models being loaded and models being stopped are different
\* ones, so a model has one worker at most; what it occupies is reserved.
LEMMA WorkersKnown ==
  ASSUME LCInv, UsedStaysLoaded, ReservedInv, OnlyEvictions
  PROVE  /\ \A w \in Workers :
              /\ w = <<w[1], w[2]>> /\ w[2] \in Models
              /\ \A g \in DevicesOfWorker(w) : g \in Gpus /\ (Budget[g] # 0 => w[2] \in reserved[g])
         /\ \A w, v \in Workers : w[2] = v[2] => w = v
<1> DEFINE loaded == {<<m, m>> : m \in {m \in Models : loadState[m] = "Loaded"}}
<1> DEFINE loading == {<<t, task[t].model>> : t \in {t \in Callers : At(t, "spawning")}}
<1> DEFINE stopping == {<<t, Target(t)>> : t \in {t \in Tasks : At(t, "joining")}}
<1>1. Workers = loaded \cup loading \cup stopping
  BY DEF Workers
<1>2. Tasks = Callers /\ Callers \cap Models = {}
  BY LifecycleAssumption DEF OnlyEvictions, Tasks
<1>3. \A d \in Seq(Gpus) : Range(d) \subseteq Gpus
  BY ElementOfSeq DEF Range
<1>4. ASSUME NEW w \in loaded
      PROVE  /\ w = <<w[1], w[2]>> /\ w[2] \in Models /\ w[1] = w[2] /\ loadState[w[2]] = "Loaded"
             /\ \A g \in DevicesOfWorker(w) : g \in Gpus /\ (Budget[g] # 0 => w[2] \in reserved[g])
  <2>1. PICK m \in Models : w = <<m, m>> /\ loadState[m] = "Loaded"
    OBVIOUS
  <2>2. DevicesOfWorker(w) = Range(loadedOn[m]) /\ loadedOn[m] \in Seq(Gpus)
    BY <2>1 DEF DevicesOfWorker, LCInv, RestTyped
  <2>3. QED
    BY <1>3, <2>1, <2>2 DEF ReservedInv, LoadedIsReserved
<1>5. ASSUME NEW w \in loading
      PROVE  /\ w = <<w[1], w[2]>> /\ w[2] \in Models /\ loadState[w[2]] # "Loaded"
             /\ w[1] \in Callers /\ At(w[1], "spawning") /\ w[2] = task[w[1]].model
             /\ \A g \in DevicesOfWorker(w) : g \in Gpus /\ (Budget[g] # 0 => w[2] \in reserved[g])
  <2>1. PICK t \in Callers : w = <<t, task[t].model>> /\ At(t, "spawning")
    OBVIOUS
  <2>2. PICK r \in TaskRec : r = task[t] /\ ShapeOf(t, r)
    BY <1>2 DEF LCInv, TasksShaped
  <2>3. DevicesOfWorker(w) = Range(r.held) /\ r.held \in Seq(Gpus) /\ r.model \in Models
    BY <1>2, <2>1, <2>2 DEF DevicesOfWorker, TaskRec, ShapeOf, At
  <2>4. loadState[r.model] = "Loading"
    BY <2>1, <2>2, LeaderIsLoading DEF At, Critical, CriticalLabels
  <2>5. Holding(r.model, r.held)
    BY <2>1, <2>2 DEF ReservedInv, Provisioned, At
  <2>6. QED
    BY <1>3, <2>1, <2>2, <2>3, <2>4, <2>5 DEF Holding
<1>6. ASSUME NEW w \in stopping
      PROVE  /\ w = <<w[1], w[2]>> /\ w[2] \in Models /\ loadState[w[2]] # "Loaded"
             /\ w[1] \in Callers /\ At(w[1], "joining") /\ w[2] = Target(w[1])
             /\ \A g \in DevicesOfWorker(w) : g \in Gpus /\ (Budget[g] # 0 => w[2] \in reserved[g])
  <2>1. PICK t \in Callers : w = <<t, Target(t)>> /\ At(t, "joining")
    BY <1>2
  <2>2. PICK r \in TaskRec : r = task[t] /\ ShapeOf(t, r)
    BY <1>2 DEF LCInv, TasksShaped
  <2>3. Target(t) \in Models
    BY <1>2, <2>1, <2>2, TargetKnown DEF ShapeOf, At
  <2>4. DevicesOfWorker(w) = Range(r.held) /\ r.held \in Seq(Gpus)
    BY <1>2, <2>1, <2>2 DEF DevicesOfWorker, TaskRec
  <2>5. Holding(Target(t), r.held) /\ loadState[Target(t)] # "Loaded"
    BY <2>1, <2>2 DEF ReservedInv, Provisioned, At
  <2>6. QED
    BY <1>3, <2>1, <2>3, <2>4, <2>5 DEF Holding
<1>7. \A t, u \in Callers : At(t, "spawning") \/ At(t, "joining") =>
                             (At(u, "spawning") \/ At(u, "joining") => t = u)
  BY DEF ReservedInv, Critical, CriticalLabels, At
<1>8. \A t : ~(At(t, "spawning") /\ At(t, "joining"))
  BY DEF At
<1> HIDE DEF loaded, loading, stopping
<1>9. ASSUME NEW w \in Workers, NEW v \in Workers, w[2] = v[2]
      PROVE  w = v
  <2>1. CASE w \in loaded
    BY <1>1, <1>4, <1>5, <1>6, <1>9, <2>1
  <2>2. CASE w \in loading
    <3>1. v \in loading
      BY <1>1, <1>4, <1>5, <1>6, <1>7, <1>8, <1>9, <2>2
    <3>2. QED
      BY <1>5, <1>7, <1>9, <2>2, <3>1
  <2>3. CASE w \in stopping
    <3>1. v \in stopping
      BY <1>1, <1>4, <1>5, <1>6, <1>7, <1>8, <1>9, <2>3
    <3>2. QED
      BY <1>6, <1>7, <1>9, <2>3, <3>1
  <2>4. QED
    BY <1>1, <2>1, <2>2, <2>3
<1>10. QED
  BY <1>1, <1>4, <1>5, <1>6, <1>9

\* What the workers occupy on a device was counted when it was reserved.
LEMMA WorkersWithinReserved ==
  ASSUME LCInv, UsedStaysLoaded, ReservedInv, OnlyEvictions, BudgetRespected
  PROVE  VramFits
<1> SUFFICES ASSUME NEW g \in Gpus, Budget[g] # 0
             PROVE  Cardinality(UNION {{w[1]} \X Units({w[2]}, g) : w \in {w \in Workers : g \in DevicesOfWorker(w)}})
                      <= Budget[g]
  BY DEF VramFits
<1> DEFINE here == {w \in Workers : g \in DevicesOfWorker(w)}
<1> DEFINE occupied == UNION {{w[1]} \X Units({w[2]}, g) : w \in here}
<1> DEFINE counted == Units(reserved[g], g)
<1> DEFINE f == [x \in occupied |-> x[2]]
<1>1. \A w \in here : w = <<w[1], w[2]>> /\ w[2] \in reserved[g]
  BY WorkersKnown
<1>2. \A w, v \in here : w[2] = v[2] => w = v
  BY WorkersKnown
<1>3. \A x \in occupied : \E w \in here : \E i \in 1 .. Share(w[2], g) : x = <<w[1], <<w[2], i>>>>
  BY DEF Units
<1>4. \A w \in here : \A i \in 1 .. Share(w[2], g) : <<w[2], i>> \in counted
  BY <1>1 DEF Units
<1> HIDE DEF here, occupied, counted
<1>5. f \in Injection(occupied, counted)
  <2>1. f \in [occupied -> counted]
    BY <1>3, <1>4
  <2>2. ASSUME NEW x \in occupied, NEW y \in occupied, x[2] = y[2]
        PROVE  x = y
    <3>1. PICK w \in here : \E i \in 1 .. Share(w[2], g) : x = <<w[1], <<w[2], i>>>>
      BY <1>3
    <3>2. PICK v \in here : \E i \in 1 .. Share(v[2], g) : y = <<v[1], <<v[2], i>>>>
      BY <1>3
    <3>3. w[2] = v[2]
      BY <2>2, <3>1, <3>2
    <3>4. w[1] = v[1]
      BY <1>2, <3>3
    <3>5. x = <<x[1], x[2]>> /\ y = <<y[1], y[2]>> /\ x[1] = w[1] /\ y[1] = v[1]
      BY <3>1, <3>2
    <3>6. QED
      BY <2>2, <3>4, <3>5
  <2>3. \A x, y \in occupied : f[x] = f[y] => x = y
    BY <2>2
  <2>4. QED
    BY <2>1, <2>3 DEF Injection, IsInjective
<1>6. IsFiniteSet(counted) /\ Cardinality(counted) \in Nat /\ Cardinality(counted) <= Budget[g]
  <2>1. reserved[g] \in SUBSET Models
    BY DEF LCInv, RestTyped, RSTypeOK
  <2>2. IsFiniteSet(Units(reserved[g], g)) /\ Total(reserved[g], g) \in Nat
    BY <2>1, UnitsFinite
  <2>3. QED
    BY <2>2 DEF counted, Total, BudgetRespected
<1>7. IsFiniteSet(occupied) /\ Cardinality(occupied) <= Cardinality(counted)
  BY <1>5, <1>6, FS_Injection
<1>8. Cardinality(occupied) \in Nat /\ Budget[g] \in Nat
  BY <1>7, FS_CardinalityType, ResidentAssumption
<1>9. Cardinality(occupied) <= Budget[g]
  BY <1>6, <1>7, <1>8
<1>10. QED
  BY <1>9 DEF occupied, here

\* The memory workers really occupy, the one being loaded and the one being
\* stopped included, fits the budget of every device, for any number of
\* concurrent requests and loads, failed and cancelled ones among them.
THEOREM WorkersFit ==
  ASSUME Unloaders = {}, Drainers = {}
  PROVE  LCSpec => []VramFits
<1>1. OnlyEvictions
  BY DEF OnlyEvictions
<1>2. LCInv /\ UsedStaysLoaded /\ ReservedInv /\ BudgetRespected => VramFits
  BY <1>1, WorkersWithinReserved
<1>3. LCSpec => []ReservedInv
  BY <1>1, ReservedInductive
<1>4. QED
  BY <1>2, <1>3, LifecycleInductive, UseInductive, LifecycleKeepsBudgets, PTL

-----------------------------------------------------------------------------
(* The refinement of Residency.                                            *)

\* The refinement mapping of R, piece by piece.
DevicesNow(m) == UNION {DevicesOfWorker(w) : w \in {w \in Workers : w[2] = m}}

WhereNow == [m \in Models |-> DevicesNow(m)]

ServingNow == {m \in Models : loadState[m] = "Loaded"}

UsersOf(m) ==
  {t \in Requests : task[t].model = m /\ task[t].pc \in {"announcing", "guarded", "running"}}

UsersNow == [m \in Models |-> Cardinality(UsersOf(m))]

\* Cardinality is the same in an instance.
LEMMA SameCount == \A S : R!Cardinality(S) = Cardinality(S)
  BY DEF R!Cardinality, Cardinality, R!IsFiniteSet, IsFiniteSet

\* The actions of Residency in these terms.
LEMMA ResidencyStart ==
  ASSUME NEW m \in Models, WhereNow[m] = {}, NEW D \in SUBSET Gpus, D # {},
         \A g \in D : Budget[g] # 0 =>
           Cardinality(UNION {{k} \X (1 .. Share(k, g)) : k \in {k \in Models : g \in WhereNow[k]} \cup {m}}) <= Budget[g],
         WhereNow' = [WhereNow EXCEPT ![m] = D], ServingNow' = ServingNow, UsersNow' = UsersNow
  PROVE  R!ResNext
<1>1. R!Start(m)
  <2> DEFINE Fit(E) == \A g \in E : Budget[g] # 0 =>
        Cardinality(UNION {{k} \X (1 .. Share(k, g)) : k \in {k \in Models : g \in WhereNow[k]} \cup {m}}) <= Budget[g]
  <2>1. R!Start(m) = ( /\ /\ WhereNow[m] = {}
                          /\ \E E \in (SUBSET Gpus) \ {{}} : Fit(E) /\ WhereNow' = [WhereNow EXCEPT ![m] = E]
                       /\ ServingNow' = ServingNow /\ UsersNow' = UsersNow )
    BY SameCount DEF R!Start, R!On, R!Megabytes, WhereNow, ServingNow, UsersNow, DevicesNow, UsersOf
  <2>2. D \in (SUBSET Gpus) \ {{}} /\ Fit(D)
    OBVIOUS
  <2>3. QED
    BY <2>1, <2>2
<1>2. QED
  BY <1>1 DEF R!ResNext

LEMMA ResidencyServe ==
  ASSUME NEW m \in Models, WhereNow[m] # {}, m \notin ServingNow, ServingNow' = ServingNow \cup {m},
         NEW n \in 0 .. 1, UsersNow' = [UsersNow EXCEPT ![m] = n], WhereNow' = WhereNow
  PROVE  R!ResNext
<1>1. R!Serve(m)
  BY DEF R!Serve, WhereNow, ServingNow, UsersNow, DevicesNow, UsersOf
<1>2. QED
  BY <1>1 DEF R!ResNext

LEMMA ResidencyRetire ==
  ASSUME NEW m \in Models, m \in ServingNow \ Pinned, UsersNow[m] = 0, ServingNow' = ServingNow \ {m},
         WhereNow' = WhereNow, UsersNow' = UsersNow
  PROVE  R!ResNext
<1>1. R!Retire(m)
  BY DEF R!Retire, WhereNow, ServingNow, UsersNow, DevicesNow, UsersOf
<1>2. QED
  BY <1>1 DEF R!ResNext

LEMMA ResidencyVacate ==
  ASSUME NEW m \in Models, m \notin ServingNow, WhereNow' = [WhereNow EXCEPT ![m] = {}],
         ServingNow' = ServingNow, UsersNow' = UsersNow
  PROVE  R!ResNext
<1>1. R!Vacate(m)
  BY DEF R!Vacate, WhereNow, ServingNow, UsersNow, DevicesNow, UsersOf
<1>2. QED
  BY <1>1 DEF R!ResNext

LEMMA ResidencyUse ==
  ASSUME NEW m \in Models, m \in ServingNow, UsersNow' = [UsersNow EXCEPT ![m] = @ + 1],
         WhereNow' = WhereNow, ServingNow' = ServingNow
  PROVE  R!ResNext
<1>1. R!Use(m)
  BY DEF R!Use, WhereNow, ServingNow, UsersNow, DevicesNow, UsersOf
<1>2. QED
  BY <1>1 DEF R!ResNext

LEMMA ResidencyFinish ==
  ASSUME NEW m \in Models, UsersNow[m] > 0, UsersNow' = [UsersNow EXCEPT ![m] = @ - 1],
         WhereNow' = WhereNow, ServingNow' = ServingNow
  PROVE  R!ResNext
<1>1. R!Finish(m)
  BY DEF R!Finish, WhereNow, ServingNow, UsersNow, DevicesNow, UsersOf
<1>2. QED
  BY <1>1 DEF R!ResNext

\* Nothing of it changes.
LEMMA ResidencyStutter ==
  ASSUME WhereNow' = WhereNow, ServingNow' = ServingNow, UsersNow' = UsersNow
  PROVE  [R!ResNext]_R!resident
  BY DEF R!resident, WhereNow, ServingNow, UsersNow, DevicesNow, UsersOf

\* A caller with a worker of its own: the one it waits for to come up, or to stop.
Owns(u, k) == (At(u, "spawning") /\ task[u].model = k) \/ (At(u, "joining") /\ Target(u) = k)

PartOf(u, k) == IF Owns(u, k) THEN Range(task[u].held) ELSE {}

PartOfOthers(t, k) == UNION {PartOf(u, k) : u \in Callers \ {t}}

LoadedPart(k) == IF loadState[k] = "Loaded" THEN Range(loadedOn[k]) ELSE {}

\* Where a model is, seen from a caller.
WhereSplit ==
  \A k \in Models : \A t \in Callers : DevicesNow(k) = LoadedPart(k) \cup PartOf(t, k) \cup PartOfOthers(t, k)

\* A task is no model, so the owner of a worker tells whose devices it occupies.
LEMMA WhereIsSplit ==
  ASSUME OnlyEvictions
  PROVE  WhereSplit
<1> SUFFICES ASSUME NEW k \in Models, NEW t \in Callers
             PROVE  DevicesNow(k) = LoadedPart(k) \cup PartOf(t, k) \cup PartOfOthers(t, k)
  BY DEF WhereSplit
<1>1. Tasks = Callers /\ Callers \cap Models = {}
  BY LifecycleAssumption DEF OnlyEvictions, Tasks
<1> DEFINE all == LoadedPart(k) \cup PartOf(t, k) \cup PartOfOthers(t, k)
<1>2. ASSUME NEW w \in Workers, w[2] = k
      PROVE  DevicesOfWorker(w) \subseteq all
  <2>1. CASE \E m \in Models : loadState[m] = "Loaded" /\ w = <<m, m>>
    BY <1>2, <2>1 DEF DevicesOfWorker, LoadedPart
  <2>2. CASE \E u \in Callers : At(u, "spawning") /\ w = <<u, task[u].model>>
    <3>1. PICK u \in Callers : At(u, "spawning") /\ w = <<u, task[u].model>>
      BY <2>2
    <3>2. DevicesOfWorker(w) = PartOf(u, k)
      BY <1>1, <1>2, <3>1 DEF DevicesOfWorker, PartOf, Owns
    <3>3. QED
      BY <3>2 DEF PartOfOthers
  <2>3. CASE \E u \in Callers : At(u, "joining") /\ w = <<u, Target(u)>>
    <3>1. PICK u \in Callers : At(u, "joining") /\ w = <<u, Target(u)>>
      BY <2>3
    <3>2. DevicesOfWorker(w) = PartOf(u, k)
      BY <1>1, <1>2, <3>1 DEF DevicesOfWorker, PartOf, Owns
    <3>3. QED
      BY <3>2 DEF PartOfOthers
  <2>4. QED
    BY <1>1, <2>1, <2>2, <2>3 DEF Workers
<1>3. ASSUME NEW u \in Callers
      PROVE  PartOf(u, k) \subseteq DevicesNow(k)
  <2>1. CASE At(u, "spawning") /\ task[u].model = k
    <3>1. <<u, k>> \in Workers
      BY <2>1 DEF Workers
    <3>2. DevicesOfWorker(<<u, k>>) = PartOf(u, k)
      BY <1>1, <2>1 DEF DevicesOfWorker, PartOf, Owns
    <3>3. QED
      BY <3>1, <3>2 DEF DevicesNow
  <2>2. CASE At(u, "joining") /\ Target(u) = k
    <3>1. <<u, k>> \in Workers
      BY <1>1, <2>2 DEF Workers
    <3>2. DevicesOfWorker(<<u, k>>) = PartOf(u, k)
      BY <1>1, <2>2 DEF DevicesOfWorker, PartOf, Owns
    <3>3. QED
      BY <3>1, <3>2 DEF DevicesNow
  <2>3. QED
    BY <2>1, <2>2 DEF PartOf, Owns
<1>4. LoadedPart(k) \subseteq DevicesNow(k)
  <2>1. CASE loadState[k] = "Loaded"
    <3>1. <<k, k>> \in Workers
      BY <2>1 DEF Workers
    <3>2. DevicesOfWorker(<<k, k>>) = LoadedPart(k)
      BY <2>1 DEF DevicesOfWorker, LoadedPart
    <3>3. QED
      BY <3>1, <3>2 DEF DevicesNow
  <2>2. QED
    BY <2>1 DEF LoadedPart
<1>5. DevicesNow(k) \subseteq all
  BY <1>2 DEF DevicesNow
<1>6. all \subseteq DevicesNow(k)
  BY <1>3, <1>4 DEF PartOfOthers
<1>7. QED
  BY <1>5, <1>6

\* The other callers keep their workers.
LEMMA OthersKeepWorkers ==
  ASSUME task \in [Tasks -> TaskRec], NEW t \in Callers, OthersStay(t), NEW k
  PROVE  PartOfOthers(t, k)' = PartOfOthers(t, k)
<1>1. ASSUME NEW u \in Callers \ {t}
      PROVE  PartOf(u, k)' = PartOf(u, k)
  <2>1. /\ task'[u].model = task[u].model /\ task'[u].held = task[u].held
        /\ task'[u].victims = task[u].victims
        /\ task'[u].pc = task[u].pc \/ (task'[u].pc = "lookup" /\ task[u].pc = "waiting")
    BY OthersKeepOut DEF Tasks
  <2>2. QED
    BY <2>1 DEF PartOf, Owns, At, Target
<1>2. QED
  BY <1>1 DEF PartOfOthers

\* A caller in the critical section is the only one with a worker.
LEMMA AloneInTurn ==
  ASSUME ReservedInv, NEW t \in Callers, Critical(t), NEW k
  PROVE  PartOfOthers(t, k) = {}
<1>1. \A u \in Callers \ {t} : ~Critical(u)
  BY DEF ReservedInv
<1>2. \A u \in Callers \ {t} : PartOf(u, k) = {}
  BY <1>1 DEF Critical, CriticalLabels, PartOf, Owns, At
<1>3. QED
  BY <1>2 DEF PartOfOthers

\* The step of a caller, seen by Residency.
Seen(t) ==
  /\ WhereSplit /\ WhereSplit'
  /\ LCInv /\ UsedStaysLoaded /\ ReservedInv
  /\ OthersStay(t)

LEMMA WhereInTurn ==
  ASSUME NEW t \in Callers, Seen(t)
  PROVE  /\ \A k \in Models : DevicesNow(k) = LoadedPart(k) \cup PartOf(t, k) \cup PartOfOthers(t, k)
         /\ \A k \in Models : DevicesNow(k)' = LoadedPart(k)' \cup PartOf(t, k)' \cup PartOfOthers(t, k)
         /\ Critical(t) => \A k \in Models : PartOfOthers(t, k) = {}
<1>1. \A k \in Models : DevicesNow(k) = LoadedPart(k) \cup PartOf(t, k) \cup PartOfOthers(t, k)
  BY DEF Seen, WhereSplit
<1>2. \A k \in Models : DevicesNow(k)' = LoadedPart(k)' \cup PartOf(t, k)' \cup PartOfOthers(t, k)'
  BY DEF Seen, WhereSplit
<1>3. \A k \in Models : PartOfOthers(t, k)' = PartOfOthers(t, k)
  BY OthersKeepWorkers DEF Seen, LCInv, TasksShaped
<1>4. QED
  BY <1>1, <1>2, <1>3, AloneInTurn DEF Seen

LEMMA OthersUse ==
  ASSUME NEW t \in Callers, Seen(t), NEW u \in Requests \ {t}, NEW k
  PROVE  u \in UsersOf(k)' <=> u \in UsersOf(k)
<1>1. Using(u)' <=> Using(u)
  BY OthersKeepTheirPart DEF Seen, LCInv, TasksShaped, Tasks, Callers
<1>2. task'[u].model = task[u].model
  BY OthersKeepTheirPart DEF Seen, LCInv, TasksShaped, Tasks, Callers
<1>3. QED
  BY <1>1, <1>2 DEF UsersOf, Using

LEMMA UsersFinite == \A k : IsFiniteSet(UsersOf(k)) /\ Cardinality(UsersOf(k)) \in Nat
<1>1. \A k : UsersOf(k) \subseteq Tasks
  BY DEF UsersOf, Tasks, Callers
<1>2. QED
  BY <1>1, LifecycleAssumption, FS_Subset, FS_CardinalityType

\* A step that neither gives a model to a request nor takes it back.
LEMMA UsersKept ==
  ASSUME NEW t \in Callers, Seen(t), Using(t)' <=> Using(t),
         Using(t) => task'[t].model = task[t].model
  PROVE  UsersNow' = UsersNow
<1>1. ASSUME NEW k \in Models
      PROVE  UsersOf(k)' = UsersOf(k)
  <2>1. t \in UsersOf(k)' <=> t \in UsersOf(k)
    BY DEF UsersOf, Using
  <2>2. UsersOf(k)' \subseteq Requests /\ UsersOf(k) \subseteq Requests
    BY DEF UsersOf
  <2>3. QED
    BY <2>1, <2>2, OthersUse
<1>2. QED
  BY <1>1 DEF UsersNow

\* A request is given its model.
LEMMA OneUserMore ==
  ASSUME NEW t \in Requests, Seen(t), ~Using(t), Using(t)', NEW m \in Models, task'[t].model = m
  PROVE  UsersNow' = [UsersNow EXCEPT ![m] = @ + 1]
<1>1. t \in Callers
  BY DEF Callers
<1>2. \A k \in Models : UsersOf(k)' = IF k = m THEN UsersOf(k) \cup {t} ELSE UsersOf(k)
  <2> SUFFICES ASSUME NEW k \in Models
               PROVE  UsersOf(k)' = IF k = m THEN UsersOf(k) \cup {t} ELSE UsersOf(k)
    OBVIOUS
  <2>1. t \in UsersOf(k)' <=> k = m
    BY DEF UsersOf, Using
  <2>2. UsersOf(k)' \subseteq Requests /\ UsersOf(k) \subseteq Requests
    BY DEF UsersOf
  <2>3. t \notin UsersOf(k)
    BY DEF UsersOf, Using
  <2>4. QED
    BY <1>1, <2>1, <2>2, <2>3, OthersUse
<1>3. t \notin UsersOf(m)
  BY DEF UsersOf, Using
<1>4. Cardinality(UsersOf(m) \cup {t}) = Cardinality(UsersOf(m)) + 1
  BY <1>3, UsersFinite, FS_AddElement
<1>5. \A k \in Models : UsersNow'[k] = IF k = m THEN UsersNow[k] + 1 ELSE UsersNow[k]
  BY <1>2, <1>4 DEF UsersNow
<1>6. QED
  BY <1>5 DEF UsersNow

\* A request is done with its model.
LEMMA OneUserLess ==
  ASSUME NEW t \in Requests, Seen(t), Using(t), ~Using(t)', NEW m \in Models, task[t].model = m
  PROVE  UsersNow[m] > 0 /\ UsersNow' = [UsersNow EXCEPT ![m] = @ - 1]
<1>1. t \in Callers
  BY DEF Callers
<1>2. \A k \in Models : UsersOf(k)' = IF k = m THEN UsersOf(k) \ {t} ELSE UsersOf(k)
  <2> SUFFICES ASSUME NEW k \in Models
               PROVE  UsersOf(k)' = IF k = m THEN UsersOf(k) \ {t} ELSE UsersOf(k)
    OBVIOUS
  <2>1. t \in UsersOf(k) <=> k = m
    BY DEF UsersOf, Using
  <2>2. UsersOf(k)' \subseteq Requests /\ UsersOf(k) \subseteq Requests
    BY DEF UsersOf
  <2>3. t \notin UsersOf(k)'
    BY DEF UsersOf, Using
  <2>4. QED
    BY <1>1, <2>1, <2>2, <2>3, OthersUse
<1>3. t \in UsersOf(m)
  BY DEF UsersOf, Using
<1>4. Cardinality(UsersOf(m) \ {t}) = Cardinality(UsersOf(m)) - 1
  BY <1>3, UsersFinite, FS_RemoveElement
<1>5. \A k \in Models : UsersNow'[k] = IF k = m THEN UsersNow[k] - 1 ELSE UsersNow[k]
  BY <1>2, <1>4 DEF UsersNow
<1>6. Cardinality(UsersOf(m)) > 0
  BY <1>3, UsersFinite, FS_EmptySet
<1>7. QED
  BY <1>5, <1>6 DEF UsersNow

\* A step that Residency does not see.
Unseen(t) ==
  /\ loadedOn' = loadedOn
  /\ \A m \in Models : loadState'[m] = "Loaded" <=> loadState[m] = "Loaded"
  /\ ~At(t, "spawning") /\ ~At(t, "joining") /\ ~At(t, "spawning")' /\ ~At(t, "joining")'
  /\ Using(t)' <=> Using(t)
  /\ Using(t) => task'[t].model = task[t].model

LEMMA UnseenStep ==
  ASSUME NEW t \in Callers, Seen(t), Unseen(t)
  PROVE  [R!ResNext]_R!resident
<1>1. \A k \in Models : LoadedPart(k)' = LoadedPart(k)
  BY DEF Unseen, LoadedPart
<1>2. \A k \in Models : PartOf(t, k)' = {} /\ PartOf(t, k) = {}
  BY DEF Unseen, PartOf, Owns
<1>3. \A k \in Models : DevicesNow(k)' = DevicesNow(k)
  BY <1>1, <1>2, WhereInTurn
<1>4. WhereNow' = WhereNow
  BY <1>3 DEF WhereNow
<1>5. ServingNow' = ServingNow
  BY DEF Unseen, ServingNow
<1>6. UsersNow' = UsersNow
  BY UsersKept DEF Unseen
<1>7. QED
  BY <1>4, <1>5, <1>6, ResidencyStutter

\* A caller gives up the worker it has, of a model that does not serve.
LEMMA VacateStep ==
  ASSUME NEW t \in Callers, Seen(t), Critical(t), NEW m \in Models, Owns(t, m),
         loadState[m] # "Loaded", UNCHANGED <<loadState, loadedOn>>,
         ~At(t, "spawning")' /\ ~At(t, "joining")', ~Using(t)'
  PROVE  R!ResNext
<1>1. \A k \in Models : LoadedPart(k)' = LoadedPart(k)
  BY DEF LoadedPart
<1>2. \A k \in Models : PartOf(t, k)' = {} /\ (k # m => PartOf(t, k) = {})
  BY DEF PartOf, Owns, At
<1>3. LoadedPart(m) = {}
  BY DEF LoadedPart
<1>4. \A k \in Models : DevicesNow(k)' = IF k = m THEN {} ELSE DevicesNow(k)
  BY <1>1, <1>2, <1>3, WhereInTurn
<1>5. WhereNow' = [WhereNow EXCEPT ![m] = {}]
  BY <1>4 DEF WhereNow
<1>6. ServingNow' = ServingNow /\ m \notin ServingNow
  BY DEF ServingNow
<1>7. ~Using(t)
  BY DEF Using, Owns, At
<1>8. UsersNow' = UsersNow
  BY <1>7, UsersKept
<1>9. QED
  BY <1>5, <1>6, <1>8, ResidencyVacate

\* A worker is started on the placement that was reserved: what is there
\* already, and the new one, is within the reservations of the device.
LEMMA ReadBackSeen ==
  ASSUME NEW t \in Callers, Seen(t), ReadBack(t), BudgetRespected
  PROVE  R!ResNext
<1>1. PICK r \in TaskRec : r = task[t] /\ ShapeOf(t, r)
  BY DEF Seen, LCInv, TasksShaped, Tasks
<1>2. r.pc = "reading" /\ Critical(t)
  BY <1>1 DEF ReadBack, At, Critical, CriticalLabels
<1>3. PICK m \in Models : m = r.model
  BY <1>1, <1>2 DEF ShapeOf
<1>4. /\ placement[m] # <<>> /\ Holding(m, placement[m])
      /\ placement[m] \in Seq(Gpus) /\ loadState[m] # "Loaded"
  BY <1>1, <1>2, <1>3, LeaderIsLoading DEF Seen, ReservedInv, Provisioned, LCInv, RestTyped
<1>5. task'[t] = [r EXCEPT !.pc = "spawning", !.held = placement[m]]
  BY <1>1, <1>3, <1>4 DEF ReadBack, Become, Seen, LCInv, TasksShaped, Tasks
<1>6. UNCHANGED <<loadState, loadedOn>>
  BY DEF ReadBack, model
<1> DEFINE D == Range(placement[m])
<1>7. D \subseteq Gpus /\ D # {}
  <2>1. \A i \in DOMAIN placement[m] : placement[m][i] \in Gpus
    BY <1>4, ElementOfSeq
  <2>2. 1 \in DOMAIN placement[m]
    BY <1>4
  <2>3. QED
    BY <2>1, <2>2 DEF Range
<1> HIDE DEF D
<1>8. \A k \in Models : LoadedPart(k)' = LoadedPart(k)
  BY <1>6 DEF LoadedPart
<1>9. \A k \in Models : PartOf(t, k) = {} /\ PartOf(t, k)' = IF k = m THEN D ELSE {}
  <2>1. \A k \in Models : PartOf(t, k) = {}
    BY <1>1, <1>2 DEF PartOf, Owns, At
  <2>2. task'[t].pc = "spawning" /\ task'[t].model = m /\ task'[t].held = placement[m]
    BY <1>3, <1>5 DEF TaskRec
  <2>3. \A k \in Models : PartOf(t, k)' = IF k = m THEN D ELSE {}
    BY <2>2 DEF PartOf, Owns, At, D
  <2>4. QED
    BY <2>1, <2>3
<1>10. \A k \in Models : DevicesNow(k) = LoadedPart(k)
  BY <1>2, <1>9, WhereInTurn
<1>11. LoadedPart(m) = {}
  BY <1>4 DEF LoadedPart
<1>12. \A k \in Models : DevicesNow(k)' = IF k = m THEN D ELSE DevicesNow(k)
  <2>1. \A k \in Models : DevicesNow(k)' = LoadedPart(k)' \cup PartOf(t, k)'
    BY <1>2, WhereInTurn
  <2>2. DevicesNow(m)' = D
    BY <1>8, <1>9, <1>11, <2>1
  <2>3. \A k \in Models \ {m} : DevicesNow(k)' = DevicesNow(k)
    BY <1>8, <1>9, <1>10, <2>1
  <2>4. QED
    BY <2>2, <2>3
<1>13. WhereNow' = [WhereNow EXCEPT ![m] = D] /\ WhereNow[m] = {}
  BY <1>10, <1>11, <1>12 DEF WhereNow
<1>14. ServingNow' = ServingNow
  BY <1>6 DEF ServingNow
<1>15. UsersNow' = UsersNow
  <2>1. ~Using(t) /\ ~Using(t)'
    BY <1>1, <1>2, <1>5 DEF Using, TaskRec
  <2>2. QED
    BY <2>1, UsersKept
<1>16. ASSUME NEW g \in D, Budget[g] # 0
       PROVE  Cardinality(UNION {{k} \X (1 .. Share(k, g)) : k \in {k \in Models : g \in WhereNow[k]} \cup {m}}) <= Budget[g]
  <2> DEFINE S == {k \in Models : g \in WhereNow[k]} \cup {m}
  <2>1. S \subseteq reserved[g]
    <3>1. \A k \in Models : g \in WhereNow[k] => loadState[k] = "Loaded" /\ g \in Range(loadedOn[k])
      BY <1>10 DEF WhereNow, LoadedPart
    <3>2. \A k \in Models : g \in WhereNow[k] => k \in reserved[g]
      BY <1>16, <3>1 DEF Seen, ReservedInv, LoadedIsReserved
    <3>3. m \in reserved[g]
      BY <1>4, <1>16 DEF Holding, D
    <3>4. QED
      BY <3>2, <3>3
  <2>2. g \in Gpus /\ reserved[g] \in SUBSET Models
    BY <1>7 DEF Seen, LCInv, RestTyped, RSTypeOK
  <2> HIDE DEF S
  <2>3. Total(S, g) <= Total(reserved[g], g) /\ Total(S, g) \in Nat /\ Total(reserved[g], g) \in Nat
    BY <2>1, <2>2, TotalMonotonic, UnitsFinite
  <2>4. Total(reserved[g], g) <= Budget[g] /\ Budget[g] \in Nat
    BY <2>2, ResidentAssumption DEF BudgetRespected
  <2>5. Total(S, g) <= Budget[g]
    BY <2>3, <2>4
  <2>6. QED
    BY <2>5 DEF Total, Units, S
<1>17. QED
  BY <1>7, <1>13, <1>14, <1>15, <1>16, ResidencyStart

\* The worker is up: nobody uses a model that is not loaded.
LEMMA LoadSucceedsSeen ==
  ASSUME NEW t \in Callers, Seen(t), LoadSucceeds(t)
  PROVE  R!ResNext
<1>1. PICK r \in TaskRec : r = task[t] /\ ShapeOf(t, r)
  BY DEF Seen, LCInv, TasksShaped, Tasks
<1>2. r.pc = "spawning" /\ Critical(t)
  BY <1>1 DEF LoadSucceeds, At, Critical, CriticalLabels
<1>3. PICK m \in Models : m = r.model
  BY <1>1, <1>2 DEF ShapeOf
<1>4. /\ loadState[m] = "Loading" /\ r.held # <<>> /\ r.held \in Seq(Gpus)
      /\ loadState \in [Models -> {"Unloaded", "Loading", "Loaded"}] /\ loadedOn \in [Models -> Seq(Gpus)]
  BY <1>1, <1>2, <1>3, LeaderIsLoading DEF Seen, ReservedInv, Provisioned, LCInv, RestTyped, TaskRec
<1>5. /\ loadState' = [loadState EXCEPT ![m] = "Loaded"] /\ loadedOn' = [loadedOn EXCEPT ![m] = r.held]
  BY <1>1, <1>3 DEF LoadSucceeds
<1>6. task'[t] = [r EXCEPT !.pc = "announcing", !.held = <<>>]
  BY <1>1 DEF LoadSucceeds, Become, Seen, LCInv, TasksShaped, Tasks
<1> DEFINE D == Range(r.held)
<1>7. D # {}
  <2>1. 1 \in DOMAIN r.held
    BY <1>4
  <2>2. QED
    BY <2>1 DEF Range
<1>8. \A k \in Models : LoadedPart(k)' = IF k = m THEN D ELSE LoadedPart(k)
  BY <1>4, <1>5 DEF LoadedPart
<1>9. \A k \in Models : PartOf(t, k) = (IF k = m THEN D ELSE {}) /\ PartOf(t, k)' = {}
  BY <1>1, <1>2, <1>3, <1>6 DEF PartOf, Owns, At, TaskRec
<1>10. LoadedPart(m) = {}
  BY <1>4 DEF LoadedPart
<1> HIDE DEF D
<1>11. DevicesNow(m) = D /\ \A k \in Models : DevicesNow(k)' = DevicesNow(k)
  BY <1>2, <1>8, <1>9, <1>10, WhereInTurn
<1>12. WhereNow' = WhereNow /\ WhereNow[m] # {}
  BY <1>7, <1>11 DEF WhereNow
<1>13. ServingNow' = ServingNow \cup {m} /\ m \notin ServingNow
  BY <1>4, <1>5 DEF ServingNow
<1>14. UsersOf(m) = {}
  BY <1>4 DEF UsersOf, Seen, UsedStaysLoaded, GuardKeepsLoaded, ReservedInv
<1>15. UsersNow[m] = 0
  BY <1>14, FS_EmptySet DEF UsersNow
<1>16. ~Using(t) /\ (Using(t)' <=> t \in Requests) /\ task'[t].model = m
  BY <1>1, <1>2, <1>3, <1>6 DEF Using, TaskRec
<1>17. PICK n \in 0 .. 1 : UsersNow' = [UsersNow EXCEPT ![m] = n]
  <2>1. CASE t \in Requests
    BY <1>15, <1>16, <2>1, OneUserMore
  <2>2. CASE t \notin Requests
    <3>1. UsersNow' = UsersNow
      BY <1>16, <2>2, UsersKept
    <3>2. UsersNow' = [UsersNow EXCEPT ![m] = 0]
      BY <1>15, <3>1 DEF UsersNow
    <3>3. QED
      BY <3>2
  <2>3. QED
    BY <2>1, <2>2
<1>18. QED
  BY <1>12, <1>13, <1>17, ResidencyServe

\* Only an unpinned model that nobody uses is taken down.
LEMMA TakeWorkerSeen ==
  ASSUME NEW t \in Callers, Seen(t), TakeWorker(t)
  PROVE  R!ResNext
<1>1. PICK r \in TaskRec : r = task[t] /\ ShapeOf(t, r)
  BY DEF Seen, LCInv, TasksShaped, Tasks
<1>2. r.pc = "unloading" /\ Critical(t) /\ r.victims # <<>>
  BY <1>1 DEF TakeWorker, Unloading, At, Critical, CriticalLabels
<1>3. PICK m \in Models \ Pinned : m = Target(t) /\ m = Head(r.victims)
  BY <1>1, <1>2, TargetKnown DEF TargetOf, Tasks
<1>4. /\ loadState[m] = "Loaded" /\ inFlight[m] = 0
      /\ loadState \in [Models -> {"Unloaded", "Loading", "Loaded"}] /\ loadedOn \in [Models -> Seq(Gpus)]
  BY <1>3 DEF TakeWorker, Seen, LCInv, RestTyped
<1>5. loadState' = [loadState EXCEPT ![m] = "Unloaded"] /\ loadedOn' = [loadedOn EXCEPT ![m] = <<>>]
  BY <1>3 DEF TakeWorker
<1>6. task'[t] = [r EXCEPT !.pc = "joining", !.held = loadedOn[m]]
  BY <1>1, <1>3 DEF TakeWorker, Become, Seen, LCInv, TasksShaped, Tasks
<1>7. \A k \in Models : LoadedPart(k)' = IF k = m THEN {} ELSE LoadedPart(k)
  BY <1>4, <1>5 DEF LoadedPart
<1>8. \A k \in Models : PartOf(t, k) = {} /\ PartOf(t, k)' = IF k = m THEN Range(loadedOn[m]) ELSE {}
  <2>1. \A k \in Models : PartOf(t, k) = {}
    BY <1>1, <1>2 DEF PartOf, Owns, At
  <2>2. task'[t].pc = "joining" /\ task'[t].victims = r.victims /\ task'[t].held = loadedOn[m]
    BY <1>6 DEF TaskRec
  <2>3. Target(t)' = m
    BY <1>3, <2>2 DEF Target
  <2>4. \A k \in Models : PartOf(t, k)' = IF k = m THEN Range(loadedOn[m]) ELSE {}
    BY <2>2, <2>3 DEF PartOf, Owns, At
  <2>5. QED
    BY <2>1, <2>4
<1>9. LoadedPart(m) = Range(loadedOn[m])
  BY <1>4 DEF LoadedPart
<1>10. \A k \in Models : DevicesNow(k)' = DevicesNow(k)
  <2>1. \A k \in Models : DevicesNow(k) = LoadedPart(k) \cup PartOf(t, k)
    BY <1>2, WhereInTurn
  <2>2. \A k \in Models : DevicesNow(k)' = LoadedPart(k)' \cup PartOf(t, k)'
    BY <1>2, WhereInTurn
  <2>3. DevicesNow(m)' = DevicesNow(m)
    BY <1>7, <1>8, <1>9, <2>1, <2>2
  <2>4. \A k \in Models \ {m} : DevicesNow(k)' = DevicesNow(k)
    BY <1>7, <1>8, <2>1, <2>2
  <2>5. QED
    BY <2>3, <2>4
<1>11. WhereNow' = WhereNow
  BY <1>10 DEF WhereNow
<1>12. ServingNow' = ServingNow \ {m} /\ m \in ServingNow \ Pinned
  BY <1>4, <1>5 DEF ServingNow
<1>13. UsersNow[m] = 0
  <2>1. Cardinality(Guarding(m)) = 0 /\ UsersOf(m) \subseteq Guarding(m) /\ Guarding(m) \subseteq Tasks
    BY <1>4 DEF Seen, LCInv, Counted, InFlightCounts, UsersOf, Guarding, Tasks, Callers
  <2>2. Guarding(m) = {}
    BY <2>1, LifecycleAssumption, FS_Subset, FS_EmptySet
  <2>3. QED
    BY <2>1, <2>2, FS_EmptySet DEF UsersNow
<1>14. UsersNow' = UsersNow
  <2>1. ~Using(t) /\ ~Using(t)'
    BY <1>1, <1>2, <1>6 DEF Using, TaskRec
  <2>2. QED
    BY <2>1, UsersKept
<1>15. QED
  BY <1>11, <1>12, <1>13, <1>14, ResidencyRetire

\* The worker did not come up, or is gone.
LEMMA LoadFailsSeen ==
  ASSUME NEW t \in Callers, Seen(t), LoadFails(t)
  PROVE  R!ResNext
<1>1. PICK r \in TaskRec : r = task[t] /\ ShapeOf(t, r)
  BY DEF Seen, LCInv, TasksShaped, Tasks
<1>2. r.pc = "spawning" /\ Critical(t)
  BY <1>1 DEF LoadFails, At, Critical, CriticalLabels
<1>3. PICK m \in Models : m = r.model
  BY <1>1, <1>2 DEF ShapeOf
<1>4. loadState[m] = "Loading" /\ Owns(t, m)
  BY <1>1, <1>2, <1>3, LeaderIsLoading DEF Seen, Owns, At
<1>5. task'[t] = [r EXCEPT !.pc = "failing"]
  BY <1>1 DEF LoadFails, Goto, Become, Seen, LCInv, TasksShaped, Tasks
<1>6. ~At(t, "spawning")' /\ ~At(t, "joining")' /\ ~Using(t)'
  BY <1>5 DEF At, Using, TaskRec
<1>7. UNCHANGED <<loadState, loadedOn>>
  BY DEF LoadFails, model
<1>8. QED
  BY <1>2, <1>4, <1>6, <1>7, VacateStep

LEMMA JoinWorkerSeen ==
  ASSUME NEW t \in Callers, Seen(t), JoinWorker(t)
  PROVE  R!ResNext
<1>1. PICK r \in TaskRec : r = task[t] /\ ShapeOf(t, r)
  BY DEF Seen, LCInv, TasksShaped, Tasks
<1>2. r.pc = "joining" /\ Critical(t)
  BY <1>1 DEF JoinWorker, At, Critical, CriticalLabels
<1>3. PICK m \in Models : m = Target(t)
  BY <1>1, <1>2, TargetKnown DEF ShapeOf, Tasks
<1>4. loadState[m] # "Loaded" /\ Owns(t, m)
  BY <1>1, <1>2, <1>3 DEF Seen, ReservedInv, Provisioned, Owns, At
<1>5. task'[t] = [r EXCEPT !.pc = "releasing", !.held = <<>>, !.devs = placement[m]]
  BY <1>1, <1>3 DEF JoinWorker, Become, Seen, LCInv, TasksShaped, Tasks
<1>6. ~At(t, "spawning")' /\ ~At(t, "joining")' /\ ~Using(t)'
  BY <1>5 DEF At, Using, TaskRec
<1>7. UNCHANGED <<loadState, loadedOn>>
  BY DEF JoinWorker, model
<1>8. QED
  BY <1>2, <1>4, <1>6, <1>7, VacateStep

\* A request is over.
LEMMA FinishStep ==
  ASSUME NEW t \in Requests, Seen(t), Using(t), task[t].model \in Models, task'[t].pc = "idle",
         UNCHANGED <<loadState, loadedOn>>
  PROVE  R!ResNext
<1>1. \A k \in Models : LoadedPart(k)' = LoadedPart(k)
  BY DEF LoadedPart
<1>2. \A k \in Models : PartOf(t, k)' = {} /\ PartOf(t, k) = {}
  BY DEF Using, PartOf, Owns, At
<1>3. \A k \in Models : DevicesNow(k)' = DevicesNow(k)
  <2>1. t \in Callers
    BY DEF Callers
  <2>2. QED
    BY <1>1, <1>2, <2>1, WhereInTurn
<1>4. WhereNow' = WhereNow
  BY <1>3 DEF WhereNow
<1>5. ServingNow' = ServingNow
  BY DEF ServingNow
<1>6. ~Using(t)'
  BY DEF Using
<1>7. PICK m \in Models : m = task[t].model
  OBVIOUS
<1>8. UsersNow[m] > 0 /\ UsersNow' = [UsersNow EXCEPT ![m] = @ - 1]
  BY <1>6, <1>7, OneUserLess
<1>9. QED
  BY <1>4, <1>5, <1>8, ResidencyFinish

LEMMA RequestEndsSeen ==
  ASSUME NEW t \in Callers, Seen(t), Complete(t) \/ SendRefused(t)
  PROVE  R!ResNext
<1>1. PICK r \in TaskRec : r = task[t] /\ ShapeOf(t, r)
  BY DEF Seen, LCInv, TasksShaped, Tasks
<1>2. r.pc \in {"guarded", "running"}
  BY <1>1 DEF Complete, SendRefused, At
<1>3. t \in Requests /\ task[t].model \in Models /\ Using(t)
  BY <1>1, <1>2 DEF ShapeOf, Using
<1>4. task'[t].pc = "idle"
  BY DEF Complete, SendRefused, Return, Become, IdleTask, Seen, LCInv, TasksShaped, Tasks
<1>5. UNCHANGED <<loadState, loadedOn>>
  BY DEF Complete, SendRefused
<1>6. QED
  BY <1>3, <1>4, <1>5, FinishStep

\* A client that disconnects takes the worker it was waiting for with it, or
\* is done with its model.
LEMMA CancelSeen ==
  ASSUME NEW t \in Callers, Seen(t), Cancel(t)
  PROVE  [R!ResNext]_R!resident
<1>1. PICK r \in TaskRec : r = task[t] /\ ShapeOf(t, r)
  BY DEF Seen, LCInv, TasksShaped, Tasks
<1>2. task'[t].pc = "idle"
  BY OrphanedStays DEF Cancel, IdleTask, Tasks
<1>3. r.pc \in {"waiting", "queued", "spawning", "joining", "running"}
  BY <1>1 DEF Cancel, At
<1>4. UNCHANGED <<loadState, loadedOn>>
  BY DEF Cancel
<1>5. ~At(t, "spawning")' /\ ~At(t, "joining")' /\ ~Using(t)'
  BY <1>2 DEF At, Using
<1>6. CASE r.pc \in {"waiting", "queued"}
  <2>1. Unseen(t)
    BY <1>1, <1>4, <1>5, <1>6 DEF Unseen, At, Using
  <2>2. QED
    BY <2>1, UnseenStep
<1>7. CASE r.pc = "spawning"
  <2>1. PICK m \in Models : m = r.model
    BY <1>1, <1>7 DEF ShapeOf
  <2>2. Critical(t) /\ Owns(t, m)
    BY <1>1, <1>7, <2>1 DEF Critical, CriticalLabels, Owns, At
  <2>3. loadState[m] = "Loading"
    BY <1>1, <1>7, <2>1, <2>2, LeaderIsLoading DEF Seen
  <2>4. QED
    BY <1>4, <1>5, <2>2, <2>3, VacateStep
<1>8. CASE r.pc = "joining"
  <2>1. PICK m \in Models : m = Target(t)
    BY <1>1, <1>8, TargetKnown DEF ShapeOf, Tasks
  <2>2. Critical(t) /\ Owns(t, m)
    BY <1>1, <1>8, <2>1 DEF Critical, CriticalLabels, Owns, At
  <2>3. loadState[m] # "Loaded"
    BY <1>1, <1>8, <2>1 DEF Seen, ReservedInv, Provisioned
  <2>4. QED
    BY <1>4, <1>5, <2>2, <2>3, VacateStep
<1>9. CASE r.pc = "running"
  <2>1. t \in Requests /\ task[t].model \in Models /\ Using(t)
    BY <1>1, <1>9 DEF ShapeOf, Using
  <2>2. QED
    BY <1>2, <1>4, <2>1, FinishStep
<1>10. QED
  BY <1>3, <1>6, <1>7, <1>8, <1>9

\* A request finds its model loaded.
LEMMA FoundLoadedSeen ==
  ASSUME NEW t \in Callers, Seen(t), FoundLoaded(t)
  PROVE  [R!ResNext]_R!resident
<1>1. PICK r \in TaskRec : r = task[t] /\ ShapeOf(t, r)
  BY DEF Seen, LCInv, TasksShaped, Tasks
<1>2. PICK m \in Models : m = r.model
  BY <1>1 DEF FoundLoaded, At, ShapeOf
<1>3. r.pc = "lookup" /\ loadState[m] = "Loaded" /\ UNCHANGED <<loadState, loadedOn>>
  BY <1>1, <1>2 DEF FoundLoaded, At
<1>4. ~Using(t) /\ ~At(t, "spawning") /\ ~At(t, "joining")
  BY <1>1, <1>3 DEF Using, At
<1>5. CASE t \in Requests
  <2>1. task'[t] = [r EXCEPT !.pc = "guarded"]
    BY <1>1, <1>5 DEF FoundLoaded, Goto, Become, Seen, LCInv, TasksShaped, Tasks
  <2>2. Using(t)' /\ task'[t].model = m /\ ~At(t, "spawning")' /\ ~At(t, "joining")'
    BY <1>2, <1>5, <2>1 DEF Using, At, TaskRec
  <2>3. \A k \in Models : LoadedPart(k)' = LoadedPart(k)
    BY <1>3 DEF LoadedPart
  <2>4. \A k \in Models : PartOf(t, k)' = {} /\ PartOf(t, k) = {}
    BY <1>4, <2>2 DEF PartOf, Owns
  <2>5. \A k \in Models : DevicesNow(k)' = DevicesNow(k)
    BY <2>3, <2>4, WhereInTurn
  <2>6. WhereNow' = WhereNow
    BY <2>5 DEF WhereNow
  <2>7. ServingNow' = ServingNow /\ m \in ServingNow
    BY <1>3 DEF ServingNow
  <2>8. UsersNow' = [UsersNow EXCEPT ![m] = @ + 1]
    BY <1>4, <1>5, <2>2, OneUserMore
  <2>9. QED
    BY <2>6, <2>7, <2>8, ResidencyUse
<1>6. CASE t \notin Requests
  <2>1. task'[t].pc = "idle"
    BY <1>6 DEF FoundLoaded, Return, Become, IdleTask, Seen, LCInv, TasksShaped, Tasks
  <2>2. Unseen(t)
    BY <1>3, <1>4, <2>1 DEF Unseen, Using, At
  <2>3. QED
    BY <2>2, UnseenStep
<1>7. QED
  BY <1>5, <1>6

\* The steps Residency does not see.
LEMMA UnseenActions ==
  ASSUME NEW t \in Callers, OnlyEvictions, Seen(t), Work(t) \/ Environment(t),
         ~(FoundLoaded(t) \/ ReadBack(t) \/ LoadSucceeds(t) \/ LoadFails(t) \/ Complete(t)
           \/ SendRefused(t) \/ TakeWorker(t) \/ JoinWorker(t) \/ Cancel(t))
  PROVE  Unseen(t)
<1>1. PICK r \in TaskRec : r = task[t] /\ ShapeOf(t, r)
  BY DEF Seen, LCInv, TasksShaped, Tasks
<1>2. /\ task \in [Tasks -> TaskRec] /\ t \in Tasks
      /\ loadState \in [Models -> {"Unloaded", "Loading", "Loaded"}]
  BY DEF Seen, LCInv, TasksShaped, RestTyped, Tasks
<1>3. t \notin Unloaders /\ t \notin Drainers /\ r.pc # "draining"
  BY <1>1 DEF OnlyEvictions, ShapeOf
<1>4. CASE FoundLoading(t)
  BY <1>1, <1>2, <1>4 DEF FoundLoading, model, At, Become, TaskRec, Unseen, Using
<1>5. CASE Subscribe(t)
  BY <1>1, <1>2, <1>5 DEF Subscribe, model, At, Goto, Become, TaskRec, Unseen, Using
<1>6. CASE TakeSentinel(t)
  BY <1>1, <1>2, <1>6 DEF TakeSentinel, model, At, Goto, Become, TaskRec, Unseen, Using
<1>7. CASE AcquireCoordinator(t)
  BY <1>1, <1>2, <1>7 DEF AcquireCoordinator, model, At, Goto, Become, TaskRec, Unseen, Using
<1>8. CASE ResolvePlacement(t)
  BY <1>1, <1>2, <1>8 DEF ResolvePlacement, model, At, Become, TaskRec, Unseen, Using
<1>9. CASE ReserveDevice(t)
  BY <1>1, <1>2, <1>9 DEF ReserveDevice, model, At, Become, TaskRec, Unseen, Using
<1>10. CASE ReserveRefused(t)
  BY <1>1, <1>2, <1>10 DEF ReserveRefused, model, At, Goto, Become, TaskRec, Unseen, Using
<1>11. CASE RollBackDevice(t)
  BY <1>1, <1>2, <1>11 DEF RollBackDevice, model, At, Become, TaskRec, Unseen, Using
<1>12. CASE EvictionDone(t)
  BY <1>1, <1>2, <1>12 DEF EvictionDone, model, At, Goto, Become, TaskRec, Unseen, Using
<1>13. CASE CommitPlacement(t)
  BY <1>1, <1>2, <1>13 DEF CommitPlacement, At, Goto, Become, TaskRec, Unseen, Using
<1>14. CASE DropReservation(t)
  BY <1>1, <1>2, <1>14 DEF DropReservation, model, At, Become, TaskRec, Unseen, Using
<1>15. CASE Leave(t)
  BY <1>1, <1>2, <1>15 DEF Leave, At, Return, Become, IdleTask, TaskRec, Unseen, Using
<1>16. CASE SendCommand(t)
  BY <1>1, <1>2, <1>16 DEF SendCommand, model, At, Goto, Become, TaskRec, Unseen, Using
<1>17. CASE ReleaseDevice(t)
  BY <1>1, <1>2, <1>17 DEF ReleaseDevice, model, At, Become, TaskRec, Unseen, Using
<1>18. CASE Begin(t)
  BY <1>1, <1>2, <1>18 DEF Begin, model, At, Become, IdleTask, TaskRec, Unseen, Using
<1>19. CASE Panic(t)
  BY <1>1, <1>2, <1>19 DEF Panic, At, TaskRec, Unseen, Using
<1>20. CASE BecomeLeader(t)
  BY <1>1, <1>2, <1>20 DEF BecomeLeader, At, Goto, Become, ShapeOf, TaskRec, Unseen, Using
<1>21. CASE PickVictims(t)
  <2>1. r.pc = "rollingBack" /\ loadState' = loadState /\ loadedOn' = loadedOn
    BY <1>1, <1>21 DEF PickVictims, At, model
  <2>2. task \in [Tasks -> TaskRec] /\ t \in Tasks
    BY <1>2
  <2>4. task'[t].pc \in {"failing", "unloading"}
    BY <1>1, <1>21, <2>2 DEF PickVictims, Become, TaskRec
  <2>3. QED
    BY <1>1, <2>1, <2>4 DEF Unseen, Using, At
<1>22. CASE Announce(t)
  <2>1. r.pc = "announcing" /\ loadState' = loadState /\ loadedOn' = loadedOn
    BY <1>1, <1>22 DEF Announce, At
  <2>2. task'[t] = IF t \in Requests THEN [r EXCEPT !.pc = "guarded", !.evicted = FALSE] ELSE IdleTask
    BY <1>1, <1>2, <1>22 DEF Announce, NotifyAll
  <2>3. task'[t].pc = (IF t \in Requests THEN "guarded" ELSE "idle") /\ (t \in Requests => task'[t].model = r.model)
    BY <2>2 DEF IdleTask, TaskRec
  <2>4. QED
    BY <1>1, <2>1, <2>3 DEF Unseen, Using, At
<1>23. CASE FailLoading(t)
  <2>1. r.pc = "failing" /\ r.model \in Models /\ loadedOn' = loadedOn
        /\ loadState' = [loadState EXCEPT ![r.model] = "Unloaded"]
    BY <1>1, <1>23 DEF FailLoading, At, ShapeOf
  <2>2. task'[t].pc = "leaving"
    BY <1>2, <1>23 DEF FailLoading, NotifyAll, IdleTask
  <2>3. loadState[r.model] = "Loading"
    BY <1>1, <2>1, LeaderIsLoading DEF Seen, Critical, CriticalLabels
  <2>4. QED
    BY <1>1, <1>2, <2>1, <2>2, <2>3 DEF Unseen, Using, At
<1>24. CASE UnloadBusy(t)
  <2>1. r.pc \in {"unloading", "releasing"} /\ r.victims # <<>> /\ loadState' = loadState /\ loadedOn' = loadedOn
    BY <1>1, <1>24 DEF UnloadBusy, Unloading, At, model, ShapeOf
  <2>2. AfterUnload(t, FALSE) \/ AfterUnload(t, TRUE)
    BY <1>24 DEF UnloadBusy
  <2>3. task'[t].pc = "unloading"
    BY <1>1, <1>2, <2>1, <2>2, AfterUnloadShaped
  <2>4. QED
    BY <1>1, <2>1, <2>3 DEF Unseen, Using, At
<1>25. CASE UnloadNothing(t)
  <2>1. r.pc \in {"unloading", "releasing"} /\ r.victims # <<>> /\ loadState' = loadState /\ loadedOn' = loadedOn
    BY <1>1, <1>25 DEF UnloadNothing, Unloading, At, model, ShapeOf
  <2>2. AfterUnload(t, FALSE) \/ AfterUnload(t, TRUE)
    BY <1>25 DEF UnloadNothing
  <2>3. task'[t].pc = "unloading"
    BY <1>1, <1>2, <2>1, <2>2, AfterUnloadShaped
  <2>4. QED
    BY <1>1, <2>1, <2>3 DEF Unseen, Using, At
<1>26. CASE FinishUnload(t)
  <2>1. r.pc \in {"unloading", "releasing"} /\ r.victims # <<>> /\ loadState' = loadState /\ loadedOn' = loadedOn
    BY <1>1, <1>26 DEF FinishUnload, Unloading, At, model, ShapeOf
  <2>2. AfterUnload(t, FALSE) \/ AfterUnload(t, TRUE)
    BY <1>26 DEF FinishUnload
  <2>3. task'[t].pc = "unloading"
    BY <1>1, <1>2, <2>1, <2>2, AfterUnloadShaped
  <2>4. QED
    BY <1>1, <2>1, <2>3 DEF Unseen, Using, At
<1>27. ~(BeginUnload(t) \/ BeginShutdown(t) \/ TakeForShutdown(t))
  BY <1>1, <1>3 DEF BeginUnload, BeginShutdown, TakeForShutdown, At
<1>28. QED
  BY <1>4, <1>5, <1>6, <1>7, <1>8, <1>9, <1>10, <1>11, <1>12, <1>13, <1>14, <1>15, <1>16, <1>17,
     <1>18, <1>19, <1>20, <1>21, <1>22, <1>23, <1>24, <1>25, <1>26, <1>27 DEF Work, Environment

\* One step of the life of the models is one step of Residency, or none.
LEMMA ResidencyStep ==
  ASSUME OnlyEvictions
  PROVE  LCInv /\ LCInv' /\ UsedStaysLoaded /\ ReservedInv /\ BudgetRespected /\ WhereSplit /\ WhereSplit'
           /\ [LCNext]_vars => [R!ResNext]_R!resident
<1> SUFFICES ASSUME LCInv, UsedStaysLoaded, ReservedInv, BudgetRespected, WhereSplit, WhereSplit',
                    [LCNext]_vars
             PROVE  [R!ResNext]_R!resident
  OBVIOUS
<1>1. CASE UNCHANGED vars
  <2>1. \A k \in Models : DevicesNow(k)' = DevicesNow(k)
    BY <1>1 DEF vars, model, DevicesNow, Workers, DevicesOfWorker, At, Target
  <2>2. WhereNow' = WhereNow
    BY <2>1 DEF WhereNow
  <2>3. ServingNow' = ServingNow
    BY <1>1 DEF vars, model, ServingNow
  <2>4. UsersNow' = UsersNow
    BY <1>1 DEF vars, UsersNow, UsersOf
  <2>5. QED
    BY <2>2, <2>3, <2>4, ResidencyStutter
<1>2. ASSUME NEW t \in Tasks, Work(t) \/ Environment(t)
      PROVE  [R!ResNext]_R!resident
  <2>1. t \in Callers
    BY <1>2 DEF OnlyEvictions, Tasks
  <2>2. OthersStay(t)
    BY <1>2, WorkEffect, EnvironmentEffect DEF Effect
  <2>3. Seen(t)
    BY <2>2 DEF Seen
  <2>4. CASE FoundLoaded(t)
    BY <2>1, <2>3, <2>4, FoundLoadedSeen
  <2>5. CASE Cancel(t)
    BY <2>1, <2>3, <2>5, CancelSeen
  <2>6. CASE ReadBack(t)
    BY <2>1, <2>3, <2>6, ReadBackSeen
  <2>7. CASE LoadSucceeds(t)
    BY <2>1, <2>3, <2>7, LoadSucceedsSeen
  <2>8. CASE LoadFails(t)
    BY <2>1, <2>3, <2>8, LoadFailsSeen
  <2>9. CASE Complete(t) \/ SendRefused(t)
    BY <2>1, <2>3, <2>9, RequestEndsSeen
  <2>10. CASE TakeWorker(t)
    BY <2>1, <2>3, <2>10, TakeWorkerSeen
  <2>11. CASE JoinWorker(t)
    BY <2>1, <2>3, <2>11, JoinWorkerSeen
  <2>12. CASE ~(FoundLoaded(t) \/ ReadBack(t) \/ LoadSucceeds(t) \/ LoadFails(t) \/ Complete(t)
                \/ SendRefused(t) \/ TakeWorker(t) \/ JoinWorker(t) \/ Cancel(t))
    <3>1. Unseen(t)
      BY <1>2, <2>1, <2>3, <2>12, UnseenActions
    <3>2. QED
      BY <2>1, <2>3, <3>1, UnseenStep
  <2>13. QED
    BY <2>4, <2>5, <2>6, <2>7, <2>8, <2>9, <2>10, <2>11, <2>12
<1>3. QED
  BY <1>1, <1>2 DEF LCNext

LEMMA ResidencyInit == LCInit => R!ResInit
<1> SUFFICES ASSUME LCInit
             PROVE  R!ResInit
  OBVIOUS
<1>1. Workers = {}
  BY DEF LCInit, Workers, At, IdleTask, Tasks, Callers
<1>2. WhereNow = [m \in Models |-> {}]
  BY <1>1 DEF WhereNow, DevicesNow
<1>3. ServingNow = {}
  BY DEF LCInit, ServingNow
<1>4. \A m \in Models : UsersOf(m) = {}
  BY DEF LCInit, UsersOf, IdleTask, Tasks, Callers
<1>5. UsersNow = [m \in Models |-> 0]
  BY <1>4, FS_EmptySet DEF UsersNow
<1>6. QED
  BY <1>2, <1>3, <1>5 DEF R!ResInit, WhereNow, ServingNow, UsersNow, DevicesNow, UsersOf

\* With evictions only, loading, using, evicting, failing and cancelling keep
\* the promise of Residency: memory is never oversubscribed by the workers there
\* are, a request is given only a model that serves, and a model is taken down
\* only when it is unpinned and nobody uses it.
THEOREM LifecycleImplementsResidency ==
  ASSUME Unloaders = {}, Drainers = {}
  PROVE  LCSpec => ImplementsResidency
<1>1. OnlyEvictions
  BY DEF OnlyEvictions
<1>2. WhereSplit
  BY <1>1, WhereIsSplit
<1>3. LCSpec => []ReservedInv
  BY <1>1, ReservedInductive
<1>4. LCInv /\ LCInv' /\ UsedStaysLoaded /\ ReservedInv /\ BudgetRespected /\ WhereSplit /\ WhereSplit'
        /\ [LCNext]_vars => [R!ResNext]_R!resident
  BY <1>1, ResidencyStep
<1>5. QED
  BY <1>2, <1>3, <1>4, ResidencyInit, LifecycleInductive, UseInductive, LifecycleKeepsBudgets, PTL
     DEF LCSpec, ImplementsResidency, R!ResSpec

-----------------------------------------------------------------------------
(* Every reservation has somebody to give it back.                         *)

\* What the task in the critical section knows of, and what it must know of when
\* its step is over.
Known(t) == \A g \in Gpus : \A m \in reserved[g] : Serving(g, m) \/ Knows(t, g, m)

Booked(t) == Tidy(t)' /\ Known(t)'

LEMMA KnownInTurn ==
  ASSUME ReservedInv, AccountInv, NEW t \in Callers, Critical(t)
  PROVE  Known(t)
<1>1. \A u \in Callers \ {t} : ~Critical(u)
  BY DEF ReservedInv
<1>2. \A u \in Callers \ {t} : \A g, m : ~Knows(u, g, m)
  BY <1>1 DEF Critical, CriticalLabels, Knows
<1>3. QED
  BY <1>2 DEF AccountInv, Known

\* A task outside the critical section stays tidy while another acts.
LEMMA OthersTidy ==
  ASSUME LCInv, AccountInv, NEW t \in Callers, OthersStay(t), NEW u \in Callers \ {t}, ~Critical(u)
  PROVE  Tidy(u)' /\ ~Critical(u)'
<1>1. /\ Critical(u)' <=> Critical(u)
      /\ task'[u].held = task[u].held
      /\ task'[u].pc = task[u].pc \/ (task'[u].pc = "lookup" /\ task[u].pc = "waiting")
  BY OthersKeepOut DEF LCInv, TasksShaped, Tasks
<1>2. Tidy(u)
  BY DEF AccountInv
<1>3. QED
  BY <1>1, <1>2 DEF Tidy, Critical, CriticalLabels

LEMMA BookedStep ==
  ASSUME LCInv, ReservedInv, AccountInv, NEW t \in Callers, Critical(t), OthersStay(t), Booked(t)
  PROVE  AccountInv'
<1>1. \A u \in Callers \ {t} : Tidy(u)'
  BY OthersTidy DEF ReservedInv
<1>2. QED
  BY <1>1 DEF Booked, Known, AccountInv

\* A step outside the critical section changes no reservation and nobody's
\* knowledge.
LEMMA AsideBooks ==
  ASSUME LCInv, OnlyEvictions, ReservedInv, AccountInv, NEW t \in Callers, ~Critical(t), OthersStay(t),
         Aside(t), Tidy(t)'
  PROVE  AccountInv'
<1>1. \A u \in Callers \ {t} :
        /\ Critical(u)' <=> Critical(u)
        /\ task'[u].model = task[u].model /\ task'[u].devs = task[u].devs
        /\ task'[u].held = task[u].held /\ task'[u].victims = task[u].victims
        /\ task'[u].pc = task[u].pc \/ (task'[u].pc = "lookup" /\ task[u].pc = "waiting")
  BY OthersKeepOut DEF LCInv, TasksShaped, Tasks
<1>2. UNCHANGED <<reserved, placement, loadedOn>> /\ \A m \in Models : loadState'[m] = "Loaded" <=> loadState[m] = "Loaded"
  BY DEF Aside
<1>3. ASSUME NEW u \in Callers \ {t}
      PROVE  Tidy(u)'
  <2>1. CASE ~Critical(u)
    BY <2>1, OthersTidy
  <2>2. CASE Critical(u)
    <3>1. task'[u].pc = task[u].pc
      BY <1>1, <2>2 DEF Critical, CriticalLabels
    <3>2. Target(u)' = Target(u)
      BY <1>1 DEF Target
    <3>3. Tidy(u)
      BY DEF AccountInv
    <3>4. QED
      BY <1>1, <1>2, <3>1, <3>2, <3>3 DEF Tidy
  <2>3. QED
    BY <2>1, <2>2
<1>4. ASSUME NEW g \in Gpus, NEW m \in reserved'[g]
      PROVE  Serving(g, m)' \/ \E u \in Callers : Knows(u, g, m)'
  <2>1. m \in reserved[g] /\ m \in Models
    BY <1>2 DEF LCInv, RestTyped, RSTypeOK
  <2>2. CASE Serving(g, m)
    BY <1>2, <2>1, <2>2 DEF Serving
  <2>3. CASE \E u \in Callers : Knows(u, g, m)
    <3>1. PICK u \in Callers : Knows(u, g, m)
      BY <2>3
    <3>2. Critical(u)
      BY <3>1 DEF Knows, Critical, CriticalLabels
    <3>3. u # t
      BY <3>2
    <3>4. task'[u].pc = task[u].pc
      BY <1>1, <3>2, <3>3 DEF Critical, CriticalLabels
    <3>5. Target(u)' = Target(u)
      BY <1>1, <3>3 DEF Target
    <3>6. Knows(u, g, m)'
      BY <1>1, <1>2, <3>1, <3>3, <3>4, <3>5 DEF Knows
    <3>7. QED
      BY <3>6
  <2>4. QED
    BY <2>1, <2>2, <2>3 DEF AccountInv
<1>5. QED
  BY <1>3, <1>4 DEF AccountInv

\* Outside the critical section nothing is at hand.
LEMMA AsideTidy ==
  ASSUME LCInv, OnlyEvictions, Cancellable = {}, AccountInv, NEW t \in Callers, ~Critical(t),
         Work(t) \/ Environment(t)
  PROVE  Tidy(t)'
<1>1. PICK r \in TaskRec : r = task[t] /\ ShapeOf(t, r)
  BY DEF LCInv, TasksShaped, Tasks
<1>2. task \in [Tasks -> TaskRec] /\ t \in Tasks /\ r.pc \notin CriticalLabels
  BY <1>1 DEF LCInv, TasksShaped, Tasks, Critical
<1>3. t \notin Unloaders /\ t \notin Drainers /\ r.pc # "draining"
  BY <1>1 DEF OnlyEvictions, ShapeOf
<1>4. r.pc \in {"lookup", "cloned", "waiting", "sentinel", "queued"} => r.held = <<>>
  BY <1>1 DEF AccountInv, Tidy
<1>5. CASE FoundLoading(t)
  BY <1>1, <1>2, <1>4, <1>5 DEF FoundLoading, At, Become, TaskRec, Tidy
<1>6. CASE Subscribe(t)
  BY <1>1, <1>2, <1>4, <1>6 DEF Subscribe, At, Goto, Become, TaskRec, Tidy
<1>7. CASE TakeSentinel(t)
  BY <1>1, <1>2, <1>4, <1>7 DEF TakeSentinel, At, Goto, Become, TaskRec, Tidy
<1>8. CASE BecomeLeader(t)
  BY <1>1, <1>2, <1>4, <1>8 DEF BecomeLeader, At, Goto, Become, TaskRec, Tidy
<1>9. CASE AcquireCoordinator(t)
  BY <1>1, <1>2, <1>4, <1>9 DEF AcquireCoordinator, At, Goto, Become, TaskRec, Tidy
<1>10. CASE SendCommand(t)
  BY <1>1, <1>2, <1>4, <1>10 DEF SendCommand, At, Goto, Become, TaskRec, Tidy
<1>11. CASE SendRefused(t)
  BY <1>1, <1>2, <1>4, <1>11 DEF SendRefused, At, Return, Become, IdleTask, TaskRec, Tidy
<1>12. CASE Complete(t)
  BY <1>1, <1>2, <1>4, <1>12 DEF Complete, At, Return, Become, IdleTask, TaskRec, Tidy
<1>13. CASE Begin(t)
  BY <1>1, <1>2, <1>4, <1>13 DEF Begin, At, Become, IdleTask, TaskRec, Tidy
<1>14. CASE Panic(t)
  <2>1. task' = task /\ r.pc = "running"
    BY <1>1, <1>14 DEF Panic, At
  <2>2. QED
    BY <1>1, <2>1 DEF Tidy
<1>15. CASE FoundLoaded(t)
  <2>1. task'[t].pc \in {"guarded", "idle"}
    <3>1. CASE t \in Requests
      BY <1>1, <1>2, <1>15, <3>1 DEF FoundLoaded, Goto, Become, TaskRec
    <3>2. CASE t \notin Requests
      BY <1>2, <1>15, <3>2 DEF FoundLoaded, Return, Become, IdleTask
    <3>3. QED
      BY <3>1, <3>2
  <2>2. QED
    BY <2>1 DEF Tidy
<1>16. ~(ResolvePlacement(t) \/ ReserveDevice(t) \/ ReserveRefused(t) \/ RollBackDevice(t) \/
       PickVictims(t) \/ EvictionDone(t) \/ CommitPlacement(t) \/ ReadBack(t) \/ LoadSucceeds(t) \/
       Announce(t) \/ LoadFails(t) \/ DropReservation(t) \/ FailLoading(t) \/ Leave(t) \/
       UnloadBusy(t) \/ UnloadNothing(t) \/ TakeWorker(t) \/ JoinWorker(t) \/ ReleaseDevice(t) \/
       FinishUnload(t) \/ BeginUnload(t) \/ BeginShutdown(t) \/ TakeForShutdown(t) \/ Cancel(t))
  BY <1>1, <1>2, <1>3 DEF ResolvePlacement, ReserveDevice, ReserveRefused, RollBackDevice,
     PickVictims, EvictionDone, CommitPlacement, ReadBack, LoadSucceeds, Announce, LoadFails,
     DropReservation, FailLoading, Leave, UnloadBusy, UnloadNothing, TakeWorker, JoinWorker,
     ReleaseDevice, FinishUnload, BeginUnload, BeginShutdown, TakeForShutdown, Cancel, Unloading, At,
     CriticalLabels
<1>17. QED
  BY <1>5, <1>6, <1>7, <1>8, <1>9, <1>10, <1>11, <1>12, <1>13, <1>14, <1>15, <1>16 DEF Work,
     Environment

\* A step that changes no reservation and no placement, after which the task knows
\* what it knew.
SameBooks(t) ==
  /\ UNCHANGED <<reserved, placement, loadedOn>>
  /\ \A m \in Models : loadState'[m] = "Loaded" <=> loadState[m] = "Loaded"
  /\ \A g, m : Knows(t, g, m) => Knows(t, g, m)'
  /\ Tidy(t)'

LEMMA SameBooksBooked ==
  ASSUME LCInv, NEW t \in Callers, Known(t), SameBooks(t)
  PROVE  Booked(t)
<1>1. ASSUME NEW g \in Gpus, NEW m \in reserved'[g]
      PROVE  Serving(g, m)' \/ Knows(t, g, m)'
  <2>1. m \in reserved[g] /\ m \in Models
    BY DEF SameBooks, LCInv, RestTyped, RSTypeOK
  <2>2. Serving(g, m) => Serving(g, m)'
    BY <2>1 DEF SameBooks, Serving
  <2>3. QED
    BY <2>1, <2>2 DEF Known, SameBooks
<1>2. QED
  BY <1>1 DEF Booked, Known, SameBooks

\* A round of reservations begins with none.
LEMMA ResolvePlacementBooks ==
  ASSUME LCInv, UsedStaysLoaded, ReservedInv, AccountInv, NEW t \in Callers, ResolvePlacement(t)
  PROVE  Booked(t)
<1>1. PICK r \in TaskRec : r = task[t] /\ ShapeOf(t, r)
  BY DEF LCInv, TasksShaped, Tasks
<1>2. task \in [Tasks -> TaskRec] /\ t \in Tasks
  BY DEF LCInv, TasksShaped, Tasks
<1>3. r.pc = "resolving" /\ r.model \in Models
  BY <1>1 DEF ResolvePlacement, Unloading, At, ShapeOf
<1>4. Known(t) /\ Tidy(t)
  BY <1>1, <1>3, KnownInTurn DEF Critical, CriticalLabels, AccountInv
<1>5. task'[t].pc = "reserving"
  BY <1>1, <1>2, <1>3, <1>4 DEF ResolvePlacement, Become, TaskRec
<1>6. UNCHANGED <<reserved, placement, loadedOn, loadState>>
  BY DEF ResolvePlacement, model
<1>7. \A g, m : Knows(t, g, m) => Knows(t, g, m)'
  BY <1>1, <1>3, <1>4, <1>5, <1>6, NoDevices DEF Knows, Tidy
<1>8. Tidy(t)'
  BY <1>1, <1>3, <1>4, <1>5, <1>6 DEF Tidy
<1>9. QED
  BY <1>4, <1>6, <1>7, <1>8, SameBooksBooked DEF SameBooks

\* What was reserved will be rolled back.
LEMMA ReserveRefusedBooks ==
  ASSUME LCInv, UsedStaysLoaded, ReservedInv, AccountInv, NEW t \in Callers, ReserveRefused(t)
  PROVE  Booked(t)
<1>1. PICK r \in TaskRec : r = task[t] /\ ShapeOf(t, r)
  BY DEF LCInv, TasksShaped, Tasks
<1>2. task \in [Tasks -> TaskRec] /\ t \in Tasks
  BY DEF LCInv, TasksShaped, Tasks
<1>3. r.pc = "reserving" /\ r.model \in Models
  BY <1>1 DEF ReserveRefused, Unloading, At, ShapeOf
<1>4. Known(t) /\ Tidy(t)
  BY <1>1, <1>3, KnownInTurn DEF Critical, CriticalLabels, AccountInv
<1>5. task'[t].pc = "rollingBack" /\ task'[t].model = r.model /\ task'[t].held = r.held
  BY <1>1, <1>2, <1>3, <1>4 DEF ReserveRefused, Goto, Become, TaskRec
<1>6. UNCHANGED <<reserved, placement, loadedOn, loadState>>
  BY DEF ReserveRefused, model
<1>7. \A g, m : Knows(t, g, m) => Knows(t, g, m)'
  BY <1>1, <1>3, <1>4, <1>5, <1>6, NoDevices DEF Knows, Tidy
<1>8. Tidy(t)'
  BY <1>1, <1>3, <1>4, <1>5, <1>6 DEF Tidy
<1>9. QED
  BY <1>4, <1>6, <1>7, <1>8, SameBooksBooked DEF SameBooks

\* The next round, or none.
LEMMA EvictionDoneBooks ==
  ASSUME LCInv, UsedStaysLoaded, ReservedInv, AccountInv, NEW t \in Callers, EvictionDone(t)
  PROVE  Booked(t)
<1>1. PICK r \in TaskRec : r = task[t] /\ ShapeOf(t, r)
  BY DEF LCInv, TasksShaped, Tasks
<1>2. task \in [Tasks -> TaskRec] /\ t \in Tasks
  BY DEF LCInv, TasksShaped, Tasks
<1>3. r.pc = "unloading" /\ r.model \in Models
  BY <1>1 DEF EvictionDone, Unloading, At, ShapeOf
<1>4. Known(t) /\ Tidy(t)
  BY <1>1, <1>3, KnownInTurn DEF Critical, CriticalLabels, AccountInv
<1>5. task'[t].pc \in {"resolving", "failing"} /\ task'[t].held = r.held
  BY <1>1, <1>2, <1>3, <1>4 DEF EvictionDone, Goto, Become, TaskRec
<1>6. UNCHANGED <<reserved, placement, loadedOn, loadState>>
  BY DEF EvictionDone, model
<1>7. \A g, m : Knows(t, g, m) => Knows(t, g, m)'
  BY <1>1, <1>3, <1>4, <1>5, <1>6, NoDevices DEF Knows, Tidy
<1>8. Tidy(t)'
  BY <1>1, <1>3, <1>4, <1>5, <1>6 DEF Tidy
<1>9. QED
  BY <1>4, <1>6, <1>7, <1>8, SameBooksBooked DEF SameBooks

\* The placement read back is the one that was reserved.
LEMMA ReadBackBooks ==
  ASSUME LCInv, UsedStaysLoaded, ReservedInv, AccountInv, NEW t \in Callers, ReadBack(t)
  PROVE  Booked(t)
<1>1. PICK r \in TaskRec : r = task[t] /\ ShapeOf(t, r)
  BY DEF LCInv, TasksShaped, Tasks
<1>2. task \in [Tasks -> TaskRec] /\ t \in Tasks
  BY DEF LCInv, TasksShaped, Tasks
<1>3. r.pc = "reading" /\ r.model \in Models
  BY <1>1 DEF ReadBack, Unloading, At, ShapeOf
<1>4. Known(t) /\ Tidy(t)
  BY <1>1, <1>3, KnownInTurn DEF Critical, CriticalLabels, AccountInv
<1>5. task'[t].pc \in {"spawning", "failing"} /\ task'[t].model = r.model /\ task'[t].held = placement[r.model]
  BY <1>1, <1>2, <1>3, <1>4 DEF ReadBack, Become, TaskRec
<1>6. UNCHANGED <<reserved, placement, loadedOn, loadState>>
  BY DEF ReadBack, model
<1>7. \A g, m : Knows(t, g, m) => Knows(t, g, m)'
  BY <1>1, <1>3, <1>4, <1>5, <1>6, NoDevices DEF Knows, Tidy
<1>8. Tidy(t)'
  BY <1>1, <1>3, <1>4, <1>5, <1>6 DEF Tidy
<1>9. QED
  BY <1>4, <1>6, <1>7, <1>8, SameBooksBooked DEF SameBooks

\* What was reserved will be dropped.
LEMMA LoadFailsBooks ==
  ASSUME LCInv, UsedStaysLoaded, ReservedInv, AccountInv, NEW t \in Callers, LoadFails(t)
  PROVE  Booked(t)
<1>1. PICK r \in TaskRec : r = task[t] /\ ShapeOf(t, r)
  BY DEF LCInv, TasksShaped, Tasks
<1>2. task \in [Tasks -> TaskRec] /\ t \in Tasks
  BY DEF LCInv, TasksShaped, Tasks
<1>3. r.pc = "spawning" /\ r.model \in Models
  BY <1>1 DEF LoadFails, Unloading, At, ShapeOf
<1>4. Known(t) /\ Tidy(t)
  BY <1>1, <1>3, KnownInTurn DEF Critical, CriticalLabels, AccountInv
<1>5. task'[t].pc = "failing" /\ task'[t].model = r.model /\ task'[t].held = r.held
  BY <1>1, <1>2, <1>3, <1>4 DEF LoadFails, Goto, Become, TaskRec
<1>6. UNCHANGED <<reserved, placement, loadedOn, loadState>>
  BY DEF LoadFails, model
<1>7. \A g, m : Knows(t, g, m) => Knows(t, g, m)'
  BY <1>1, <1>3, <1>4, <1>5, <1>6, NoDevices DEF Knows, Tidy
<1>8. Tidy(t)'
  BY <1>1, <1>3, <1>4, <1>5, <1>6 DEF Tidy
<1>9. QED
  BY <1>4, <1>6, <1>7, <1>8, SameBooksBooked DEF SameBooks

\* The load failed.
LEMMA LeaveBooks ==
  ASSUME LCInv, UsedStaysLoaded, ReservedInv, AccountInv, NEW t \in Callers, Leave(t)
  PROVE  Booked(t)
<1>1. PICK r \in TaskRec : r = task[t] /\ ShapeOf(t, r)
  BY DEF LCInv, TasksShaped, Tasks
<1>2. task \in [Tasks -> TaskRec] /\ t \in Tasks
  BY DEF LCInv, TasksShaped, Tasks
<1>3. r.pc = "leaving" /\ r.model \in Models
  BY <1>1 DEF Leave, Unloading, At, ShapeOf
<1>4. Known(t) /\ Tidy(t)
  BY <1>1, <1>3, KnownInTurn DEF Critical, CriticalLabels, AccountInv
<1>5. task'[t].pc = "idle"
  BY <1>1, <1>2, <1>3, <1>4 DEF Leave, Return, Become, IdleTask, TaskRec
<1>6. UNCHANGED <<reserved, placement, loadedOn, loadState>>
  BY DEF Leave, model
<1>7. \A g, m : Knows(t, g, m) => Knows(t, g, m)'
  BY <1>1, <1>3, <1>4, <1>5, <1>6, NoDevices DEF Knows, Tidy
<1>8. Tidy(t)'
  BY <1>1, <1>3, <1>4, <1>5, <1>6 DEF Tidy
<1>9. QED
  BY <1>4, <1>6, <1>7, <1>8, SameBooksBooked DEF SameBooks

\* The load is over.
LEMMA AnnounceBooks ==
  ASSUME LCInv, UsedStaysLoaded, ReservedInv, AccountInv, NEW t \in Callers, Announce(t)
  PROVE  Booked(t)
<1>1. PICK r \in TaskRec : r = task[t] /\ ShapeOf(t, r)
  BY DEF LCInv, TasksShaped, Tasks
<1>2. task \in [Tasks -> TaskRec] /\ t \in Tasks
  BY DEF LCInv, TasksShaped, Tasks
<1>3. r.pc = "announcing" /\ r.model \in Models
  BY <1>1 DEF Announce, Unloading, At, ShapeOf
<1>4. Known(t) /\ Tidy(t)
  BY <1>1, <1>3, KnownInTurn DEF Critical, CriticalLabels, AccountInv
<1>5. task'[t].pc \in {"guarded", "idle"}
  <2>1. task'[t] = IF t \in Requests THEN [r EXCEPT !.pc = "guarded", !.evicted = FALSE] ELSE IdleTask
    BY <1>1, <1>2 DEF Announce, NotifyAll
  <2>2. QED
    BY <2>1 DEF IdleTask, TaskRec
<1>6. UNCHANGED <<reserved, placement, loadedOn, loadState>>
  BY DEF Announce
<1>7. \A g, m : ~Knows(t, g, m)
  BY <1>1, <1>3 DEF Knows
<1>8. Tidy(t)'
  BY <1>5 DEF Tidy
<1>9. QED
  BY <1>4, <1>6, <1>7, <1>8, SameBooksBooked DEF SameBooks

\* Everything was given back.
LEMMA FailLoadingBooks ==
  ASSUME LCInv, UsedStaysLoaded, ReservedInv, AccountInv, NEW t \in Callers, FailLoading(t)
  PROVE  Booked(t)
<1>1. PICK r \in TaskRec : r = task[t] /\ ShapeOf(t, r)
  BY DEF LCInv, TasksShaped, Tasks
<1>2. task \in [Tasks -> TaskRec] /\ t \in Tasks
  BY DEF LCInv, TasksShaped, Tasks
<1>3. r.pc = "failing" /\ r.model \in Models
  BY <1>1 DEF FailLoading, Unloading, At, ShapeOf
<1>4. Known(t) /\ Tidy(t)
  BY <1>1, <1>3, KnownInTurn DEF Critical, CriticalLabels, AccountInv
<1>5. task'[t].pc = "leaving" /\ task'[t].held = <<>> /\ r.held = <<>>
  BY <1>1, <1>2 DEF FailLoading, NotifyAll, IdleTask
<1>6. UNCHANGED <<reserved, placement, loadedOn>>
  BY DEF FailLoading
<1>7. \A m \in Models : loadState'[m] = "Loaded" <=> loadState[m] = "Loaded"
  <2>1. loadState[r.model] = "Loading"
    BY <1>1, <1>3, LeaderIsLoading DEF Critical, CriticalLabels
  <2>2. loadState' = [loadState EXCEPT ![r.model] = "Unloaded"]
    BY <1>1 DEF FailLoading
  <2>3. QED
    BY <1>3, <2>1, <2>2 DEF LCInv, RestTyped
<1>8. \A g, m : ~Knows(t, g, m)
  BY <1>1, <1>3, <1>5, NoDevices DEF Knows
<1>9. Tidy(t)'
  BY <1>5 DEF Tidy
<1>10. QED
  BY <1>4, <1>6, <1>7, <1>8, <1>9, SameBooksBooked DEF SameBooks

\* Everything was rolled back.
LEMMA PickVictimsBooks ==
  ASSUME LCInv, UsedStaysLoaded, ReservedInv, AccountInv, NEW t \in Callers, PickVictims(t)
  PROVE  Booked(t)
<1>1. PICK r \in TaskRec : r = task[t] /\ ShapeOf(t, r)
  BY DEF LCInv, TasksShaped, Tasks
<1>2. task \in [Tasks -> TaskRec] /\ t \in Tasks
  BY DEF LCInv, TasksShaped, Tasks
<1>3. r.pc = "rollingBack" /\ r.model \in Models
  BY <1>1 DEF PickVictims, Unloading, At, ShapeOf
<1>4. Known(t) /\ Tidy(t)
  BY <1>1, <1>3, KnownInTurn DEF Critical, CriticalLabels, AccountInv
<1>5. task'[t].pc \in {"failing", "unloading"} /\ task'[t].held = <<>> /\ r.held = <<>>
  BY <1>1, <1>2 DEF PickVictims, Become, TaskRec
<1>6. UNCHANGED <<reserved, placement, loadedOn, loadState>>
  BY DEF PickVictims, model
<1>7. \A g, m : ~Knows(t, g, m)
  BY <1>1, <1>3, <1>5, NoDevices DEF Knows
<1>8. Tidy(t)'
  BY <1>5 DEF Tidy
<1>9. QED
  BY <1>4, <1>6, <1>7, <1>8, SameBooksBooked DEF SameBooks

\* The victim is busy.
LEMMA UnloadBusyBooks ==
  ASSUME LCInv, UsedStaysLoaded, ReservedInv, AccountInv, NEW t \in Callers, UnloadBusy(t)
  PROVE  Booked(t)
<1>1. PICK r \in TaskRec : r = task[t] /\ ShapeOf(t, r)
  BY DEF LCInv, TasksShaped, Tasks
<1>2. task \in [Tasks -> TaskRec] /\ t \in Tasks
  BY DEF LCInv, TasksShaped, Tasks
<1>3. r.pc = "unloading" /\ r.model \in Models
  BY <1>1 DEF UnloadBusy, Unloading, At, ShapeOf
<1>4. Known(t) /\ Tidy(t)
  BY <1>1, <1>3, KnownInTurn DEF Critical, CriticalLabels, AccountInv
<1>5. task'[t].pc = "unloading" /\ task'[t].held = <<>>
  <2>1. task'[t] = [r EXCEPT !.pc = "unloading", !.devs = <<>>, !.held = <<>>,
                             !.victims = Tail(r.victims), !.evicted = r.evicted \/ FALSE]
    BY <1>1, <1>2 DEF UnloadBusy, AfterUnload, Become
  <2>2. QED
    BY <2>1 DEF TaskRec
<1>6. UNCHANGED <<reserved, placement, loadedOn, loadState>>
  BY DEF UnloadBusy, model
<1>7. \A g, m : ~Knows(t, g, m)
  BY <1>1, <1>3 DEF Knows
<1>8. Tidy(t)'
  BY <1>5 DEF Tidy
<1>9. QED
  BY <1>4, <1>6, <1>7, <1>8, SameBooksBooked DEF SameBooks

\* The victim is not loaded.
LEMMA UnloadNothingBooks ==
  ASSUME LCInv, UsedStaysLoaded, ReservedInv, AccountInv, NEW t \in Callers, UnloadNothing(t)
  PROVE  Booked(t)
<1>1. PICK r \in TaskRec : r = task[t] /\ ShapeOf(t, r)
  BY DEF LCInv, TasksShaped, Tasks
<1>2. task \in [Tasks -> TaskRec] /\ t \in Tasks
  BY DEF LCInv, TasksShaped, Tasks
<1>3. r.pc = "unloading" /\ r.model \in Models
  BY <1>1 DEF UnloadNothing, Unloading, At, ShapeOf
<1>4. Known(t) /\ Tidy(t)
  BY <1>1, <1>3, KnownInTurn DEF Critical, CriticalLabels, AccountInv
<1>5. task'[t].pc = "unloading" /\ task'[t].held = <<>>
  <2>1. task'[t] = [r EXCEPT !.pc = "unloading", !.devs = <<>>, !.held = <<>>,
                             !.victims = Tail(r.victims), !.evicted = r.evicted \/ TRUE]
    BY <1>1, <1>2 DEF UnloadNothing, AfterUnload, Become
  <2>2. QED
    BY <2>1 DEF TaskRec
<1>6. UNCHANGED <<reserved, placement, loadedOn, loadState>>
  BY DEF UnloadNothing, model
<1>7. \A g, m : ~Knows(t, g, m)
  BY <1>1, <1>3 DEF Knows
<1>8. Tidy(t)'
  BY <1>5 DEF Tidy
<1>9. QED
  BY <1>4, <1>6, <1>7, <1>8, SameBooksBooked DEF SameBooks

\* What is to be released is read from the placement.
LEMMA JoinWorkerBooks ==
  ASSUME LCInv, UsedStaysLoaded, ReservedInv, AccountInv, NEW t \in Callers, JoinWorker(t)
  PROVE  Booked(t)
<1>1. PICK r \in TaskRec : r = task[t] /\ ShapeOf(t, r)
  BY DEF LCInv, TasksShaped, Tasks
<1>2. task \in [Tasks -> TaskRec] /\ t \in Tasks
  BY DEF LCInv, TasksShaped, Tasks
<1>3. r.pc = "joining" /\ r.model \in Models
  BY <1>1 DEF JoinWorker, Unloading, At, ShapeOf
<1>4. Known(t) /\ Tidy(t)
  BY <1>1, <1>3, KnownInTurn DEF Critical, CriticalLabels, AccountInv
<1>5. /\ task'[t].pc = "releasing" /\ task'[t].held = <<>> /\ task'[t].victims = r.victims
      /\ task'[t].devs = placement[Target(t)]
  BY <1>1, <1>2 DEF JoinWorker, Become, TaskRec
<1>6. UNCHANGED <<reserved, placement, loadedOn, loadState>>
  BY DEF JoinWorker, model
<1>7. Target(t)' = Target(t)
  BY <1>1, <1>5 DEF Target
<1>8. \A g, m : Knows(t, g, m) => Knows(t, g, m)'
  BY <1>1, <1>3, <1>5, <1>6, <1>7 DEF Knows
<1>9. Tidy(t)'
  BY <1>5, <1>6, <1>7 DEF Tidy
<1>10. QED
  BY <1>4, <1>6, <1>8, <1>9, SameBooksBooked DEF SameBooks

\* The device is at hand before it is reserved on.
LEMMA ReserveDeviceBooks ==
  ASSUME LCInv, UsedStaysLoaded, ReservedInv, AccountInv, NEW t \in Callers, ReserveDevice(t)
  PROVE  Booked(t)
<1>1. PICK r \in TaskRec : r = task[t] /\ ShapeOf(t, r)
  BY DEF LCInv, TasksShaped, Tasks
<1>2. task \in [Tasks -> TaskRec] /\ t \in Tasks
  BY DEF LCInv, TasksShaped, Tasks
<1>3. r.pc = "reserving" /\ r.model \in Models
  BY <1>1 DEF ReserveDevice, Unloading, At, ShapeOf
<1>4. Known(t) /\ Tidy(t)
  BY <1>1, <1>3, KnownInTurn DEF Critical, CriticalLabels, AccountInv
<1>5. r.devs # <<>> /\ Head(r.devs) \in Gpus /\ r.held \in Seq(Gpus)
  BY <1>1, Ends DEF ReserveDevice, TaskRec
<1>6. task'[t] = [r EXCEPT !.devs = Tail(r.devs), !.held = Append(r.held, Head(r.devs))]
  BY <1>1, <1>2 DEF ReserveDevice, Become
<1>7. /\ task'[t].pc = "reserving" /\ task'[t].model = r.model
      /\ Range(task'[t].held) = Range(r.held) \cup {Head(r.devs)}
  BY <1>3, <1>5, <1>6, RangeOfAppend DEF TaskRec
<1>8. UNCHANGED <<placement, loadedOn, loadState>>
  BY DEF ReserveDevice, model
<1>9. ASSUME NEW g \in Gpus, NEW m \in reserved'[g]
      PROVE  Serving(g, m)' \/ Knows(t, g, m)'
  <2>1. CASE m \in reserved[g]
    <3>1. Serving(g, m) \/ (r.model = m /\ g \in Range(r.held))
      BY <1>1, <1>3, <1>4, <2>1 DEF Known, Knows
    <3>2. QED
      BY <1>7, <1>8, <3>1 DEF Serving, Knows
  <2>2. CASE m \notin reserved[g]
    <3>1. m = r.model /\ g = Head(r.devs)
      BY <1>1, <1>5, <1>9, <2>2 DEF ReserveDevice, Reserve, LCInv, RestTyped, RSTypeOK
    <3>2. QED
      BY <1>7, <3>1 DEF Knows
  <2>3. QED
    BY <2>1, <2>2
<1>10. Tidy(t)'
  BY <1>7 DEF Tidy
<1>11. QED
  BY <1>9, <1>10 DEF Booked, Known

\* A device is at hand until it is given back.
LEMMA RollBackDeviceBooks ==
  ASSUME LCInv, UsedStaysLoaded, ReservedInv, AccountInv, NEW t \in Callers, RollBackDevice(t)
  PROVE  Booked(t)
<1>1. PICK r \in TaskRec : r = task[t] /\ ShapeOf(t, r)
  BY DEF LCInv, TasksShaped, Tasks
<1>2. task \in [Tasks -> TaskRec] /\ t \in Tasks
  BY DEF LCInv, TasksShaped, Tasks
<1>3. r.pc = "rollingBack" /\ r.model \in Models
  BY <1>1 DEF RollBackDevice, Unloading, At, ShapeOf
<1>4. Known(t) /\ Tidy(t)
  BY <1>1, <1>3, KnownInTurn DEF Critical, CriticalLabels, AccountInv
<1>5. r.held # <<>> /\ Head(r.held) \in Gpus /\ r.held \in Seq(Gpus)
  BY <1>1, Ends DEF RollBackDevice, TaskRec
<1>6. task'[t] = [r EXCEPT !.held = Tail(r.held)]
  BY <1>1, <1>2 DEF RollBackDevice, Become
<1>7. /\ task'[t].pc = "rollingBack" /\ task'[t].model = r.model
      /\ Range(r.held) = {Head(r.held)} \cup Range(task'[t].held)
  BY <1>3, <1>5, <1>6, RangeOfTail DEF TaskRec
<1>8. UNCHANGED <<placement, loadedOn, loadState>>
  BY DEF RollBackDevice, model
<1>9. ASSUME NEW g \in Gpus, NEW m \in reserved'[g]
      PROVE  Serving(g, m)' \/ Knows(t, g, m)'
  <2>1. m \in reserved[g] /\ ~(m = r.model /\ g = Head(r.held))
    BY <1>1, <1>5, <1>9 DEF RollBackDevice, Release, LCInv, RestTyped, RSTypeOK
  <2>2. Serving(g, m) \/ (r.model = m /\ g \in Range(r.held))
    BY <1>1, <1>3, <1>4, <2>1 DEF Known, Knows
  <2>3. QED
    BY <1>7, <1>8, <2>1, <2>2 DEF Serving, Knows
<1>10. Tidy(t)'
  BY <1>7 DEF Tidy
<1>11. QED
  BY <1>9, <1>10 DEF Booked, Known

\* A device is at hand until it is given back.
LEMMA DropReservationBooks ==
  ASSUME LCInv, UsedStaysLoaded, ReservedInv, AccountInv, NEW t \in Callers, DropReservation(t)
  PROVE  Booked(t)
<1>1. PICK r \in TaskRec : r = task[t] /\ ShapeOf(t, r)
  BY DEF LCInv, TasksShaped, Tasks
<1>2. task \in [Tasks -> TaskRec] /\ t \in Tasks
  BY DEF LCInv, TasksShaped, Tasks
<1>3. r.pc = "failing" /\ r.model \in Models
  BY <1>1 DEF DropReservation, Unloading, At, ShapeOf
<1>4. Known(t) /\ Tidy(t)
  BY <1>1, <1>3, KnownInTurn DEF Critical, CriticalLabels, AccountInv
<1>5. r.held # <<>> /\ Head(r.held) \in Gpus /\ r.held \in Seq(Gpus)
  BY <1>1, Ends DEF DropReservation, TaskRec
<1>6. task'[t] = [r EXCEPT !.held = Tail(r.held)]
  BY <1>1, <1>2 DEF DropReservation, Become
<1>7. /\ task'[t].pc = "failing" /\ task'[t].model = r.model
      /\ Range(r.held) = {Head(r.held)} \cup Range(task'[t].held)
  BY <1>3, <1>5, <1>6, RangeOfTail DEF TaskRec
<1>8. UNCHANGED <<placement, loadedOn, loadState>>
  BY DEF DropReservation, model
<1>9. ASSUME NEW g \in Gpus, NEW m \in reserved'[g]
      PROVE  Serving(g, m)' \/ Knows(t, g, m)'
  <2>1. m \in reserved[g] /\ ~(m = r.model /\ g = Head(r.held))
    BY <1>1, <1>5, <1>9 DEF DropReservation, Release, LCInv, RestTyped, RSTypeOK
  <2>2. Serving(g, m) \/ (r.model = m /\ g \in Range(r.held))
    BY <1>1, <1>3, <1>4, <2>1 DEF Known, Knows
  <2>3. QED
    BY <1>7, <1>8, <2>1, <2>2 DEF Serving, Knows
<1>10. Tidy(t)'
  BY <1>7 DEF Tidy
<1>11. QED
  BY <1>9, <1>10 DEF Booked, Known

\* The placement is what was reserved.
LEMMA CommitPlacementBooks ==
  ASSUME LCInv, UsedStaysLoaded, ReservedInv, AccountInv, NEW t \in Callers, CommitPlacement(t)
  PROVE  Booked(t)
<1>1. PICK r \in TaskRec : r = task[t] /\ ShapeOf(t, r)
  BY DEF LCInv, TasksShaped, Tasks
<1>2. task \in [Tasks -> TaskRec] /\ t \in Tasks
  BY DEF LCInv, TasksShaped, Tasks
<1>3. r.pc = "reserving" /\ r.model \in Models
  BY <1>1 DEF CommitPlacement, Unloading, At, ShapeOf
<1>4. Known(t) /\ Tidy(t)
  BY <1>1, <1>3, KnownInTurn DEF Critical, CriticalLabels, AccountInv
<1>5. r.devs = <<>> /\ r.held \in Seq(Gpus)
  BY <1>1 DEF CommitPlacement, TaskRec
<1>6. r.held # <<>> /\ (placement[r.model] # <<>> => r.held = placement[r.model])
  <2>1. r.held \o r.devs = r.held
    BY <1>5, ConcatEmptySeq
  <2>2. QED
    BY <1>1, <1>3, <2>1 DEF ReservedInv, Provisioned
<1>7. task'[t].pc = "reading" /\ task'[t].model = r.model /\ task'[t].held = r.held
  BY <1>1, <1>2 DEF CommitPlacement, Goto, Become, TaskRec
<1>8. UNCHANGED <<reserved, loadedOn, loadState>> /\ placement'[r.model] = r.held
  BY <1>1, <1>3, <1>6 DEF CommitPlacement, LCInv, RestTyped
<1>9. ASSUME NEW g \in Gpus, NEW m \in reserved'[g]
      PROVE  Serving(g, m)' \/ Knows(t, g, m)'
  <2>1. Serving(g, m) \/ (r.model = m /\ g \in Range(r.held))
    BY <1>1, <1>3, <1>4, <1>8, <1>9 DEF Known, Knows
  <2>2. QED
    BY <1>7, <1>8, <2>1 DEF Serving, Knows
<1>10. Tidy(t)'
  BY <1>7, <1>8 DEF Tidy
<1>11. QED
  BY <1>9, <1>10 DEF Booked, Known

\* What was reserved is where the model is loaded.
LEMMA LoadSucceedsBooks ==
  ASSUME LCInv, UsedStaysLoaded, ReservedInv, AccountInv, NEW t \in Callers, LoadSucceeds(t)
  PROVE  Booked(t)
<1>1. PICK r \in TaskRec : r = task[t] /\ ShapeOf(t, r)
  BY DEF LCInv, TasksShaped, Tasks
<1>2. task \in [Tasks -> TaskRec] /\ t \in Tasks
  BY DEF LCInv, TasksShaped, Tasks
<1>3. r.pc = "spawning" /\ r.model \in Models
  BY <1>1 DEF LoadSucceeds, Unloading, At, ShapeOf
<1>4. Known(t) /\ Tidy(t)
  BY <1>1, <1>3, KnownInTurn DEF Critical, CriticalLabels, AccountInv
<1>5. task'[t].pc = "announcing" /\ task'[t].held = <<>>
  BY <1>1, <1>2 DEF LoadSucceeds, Become, TaskRec
<1>6. reserved' = reserved /\ loadState[r.model] = "Loading"
  BY <1>1, <1>3, LeaderIsLoading DEF LoadSucceeds, Critical, CriticalLabels
<1>7. loadState' = [loadState EXCEPT ![r.model] = "Loaded"] /\ loadedOn' = [loadedOn EXCEPT ![r.model] = r.held]
  BY <1>1 DEF LoadSucceeds
<1>8. ASSUME NEW g \in Gpus, NEW m \in reserved'[g]
      PROVE  Serving(g, m)'
  <2>1. m \in reserved[g] /\ m \in Models
    BY <1>6, <1>8 DEF LCInv, RestTyped, RSTypeOK
  <2>2. Serving(g, m) \/ (r.model = m /\ g \in Range(r.held))
    BY <1>1, <1>3, <1>4, <2>1 DEF Known, Knows
  <2>3. CASE m = r.model
    BY <1>6, <1>7, <2>1, <2>2, <2>3 DEF Serving, LCInv, RestTyped
  <2>4. CASE m # r.model
    BY <1>7, <2>1, <2>2, <2>4 DEF Serving, LCInv, RestTyped
  <2>5. QED
    BY <2>3, <2>4
<1>9. Tidy(t)'
  BY <1>5 DEF Tidy
<1>10. QED
  BY <1>8, <1>9 DEF Booked, Known

\* The victim was reserved where its placement says.
LEMMA TakeWorkerBooks ==
  ASSUME LCInv, UsedStaysLoaded, ReservedInv, AccountInv, NEW t \in Callers, TakeWorker(t)
  PROVE  Booked(t)
<1>1. PICK r \in TaskRec : r = task[t] /\ ShapeOf(t, r)
  BY DEF LCInv, TasksShaped, Tasks
<1>2. task \in [Tasks -> TaskRec] /\ t \in Tasks
  BY DEF LCInv, TasksShaped, Tasks
<1>3. r.pc = "unloading" /\ r.model \in Models
  BY <1>1 DEF TakeWorker, Unloading, At, ShapeOf
<1>4. Known(t) /\ Tidy(t)
  BY <1>1, <1>3, KnownInTurn DEF Critical, CriticalLabels, AccountInv
<1>5. PICK v \in Models : v = Target(t) /\ v = Head(r.victims)
  BY <1>1, <1>2, <1>3, TargetKnown DEF TargetOf, TakeWorker, Unloading, ShapeOf
<1>6. task'[t].pc = "joining" /\ task'[t].victims = r.victims
  BY <1>1, <1>2 DEF TakeWorker, Become, TaskRec
<1>7. Target(t)' = v
  BY <1>5, <1>6 DEF Target
<1>8. /\ UNCHANGED <<reserved, placement>> /\ loadState[v] = "Loaded"
      /\ loadState' = [loadState EXCEPT ![v] = "Unloaded"] /\ loadedOn' = [loadedOn EXCEPT ![v] = <<>>]
  BY <1>5 DEF TakeWorker
<1>9. placement[v] = loadedOn[v]
  BY <1>8 DEF ReservedInv, LoadedIsReserved
<1>10. ASSUME NEW g \in Gpus, NEW m \in reserved'[g]
       PROVE  Serving(g, m)' \/ Knows(t, g, m)'
  <2>1. m \in reserved[g] /\ m \in Models
    BY <1>8, <1>10 DEF LCInv, RestTyped, RSTypeOK
  <2>2. Serving(g, m)
    BY <1>1, <1>3, <1>4, <2>1 DEF Known, Knows
  <2>3. CASE m = v
    BY <1>6, <1>7, <1>8, <1>9, <2>2, <2>3 DEF Serving, Knows
  <2>4. CASE m # v
    BY <1>8, <2>1, <2>2, <2>4 DEF Serving, LCInv, RestTyped
  <2>5. QED
    BY <2>3, <2>4
<1>11. Tidy(t)'
  BY <1>6 DEF Tidy
<1>12. QED
  BY <1>10, <1>11 DEF Booked, Known

\* A device is listed until it is given back.
LEMMA ReleaseDeviceBooks ==
  ASSUME LCInv, UsedStaysLoaded, ReservedInv, AccountInv, NEW t \in Callers, ReleaseDevice(t)
  PROVE  Booked(t)
<1>1. PICK r \in TaskRec : r = task[t] /\ ShapeOf(t, r)
  BY DEF LCInv, TasksShaped, Tasks
<1>2. task \in [Tasks -> TaskRec] /\ t \in Tasks
  BY DEF LCInv, TasksShaped, Tasks
<1>3. r.pc = "releasing" /\ r.model \in Models
  BY <1>1 DEF ReleaseDevice, Unloading, At, ShapeOf
<1>4. Known(t) /\ Tidy(t)
  BY <1>1, <1>3, KnownInTurn DEF Critical, CriticalLabels, AccountInv
<1>5. PICK v \in Models : v = Target(t) /\ v = Head(r.victims)
  BY <1>1, <1>2, <1>3, TargetKnown DEF TargetOf, ShapeOf
<1>6. r.devs # <<>> /\ Head(r.devs) \in Gpus /\ r.devs \in Seq(Gpus)
  BY <1>1, Ends DEF ReleaseDevice, TaskRec
<1>7. task'[t] = [r EXCEPT !.devs = Tail(r.devs)]
  BY <1>1, <1>2 DEF ReleaseDevice, Become
<1>8. /\ task'[t].pc = "releasing" /\ task'[t].victims = r.victims /\ task'[t].held = r.held
      /\ Range(r.devs) = {Head(r.devs)} \cup Range(task'[t].devs)
  BY <1>3, <1>6, <1>7, RangeOfTail DEF TaskRec
<1>9. Target(t)' = v
  BY <1>5, <1>8 DEF Target
<1>10. UNCHANGED <<placement, loadedOn, loadState>>
  BY DEF ReleaseDevice, model
<1>11. /\ \A g \in Gpus : reserved'[g] \subseteq reserved[g]
       /\ v \notin reserved'[Head(r.devs)]
  BY <1>1, <1>5, <1>6 DEF ReleaseDevice, Release, LCInv, RestTyped, RSTypeOK
<1>12. ASSUME NEW g \in Gpus, NEW m \in reserved'[g]
       PROVE  Serving(g, m)' \/ Knows(t, g, m)'
  <2>1. Serving(g, m) \/ (v = m /\ g \in Range(placement[m]))
    BY <1>1, <1>3, <1>4, <1>5, <1>11, <1>12 DEF Known, Knows
  <2>2. QED
    BY <1>8, <1>9, <1>10, <2>1 DEF Serving, Knows
<1>13. Tidy(t)'
  <2>1. r.held = <<>> /\ \A g \in Range(placement[v]) : v \in reserved[g] => g \in Range(r.devs)
    BY <1>1, <1>3, <1>4, <1>5 DEF Tidy
  <2>2. Range(placement[v]) \subseteq Gpus
    <3>1. \A i \in DOMAIN placement[v] : placement[v][i] \in Gpus
      BY ElementOfSeq DEF LCInv, RestTyped
    <3>2. QED
      BY <3>1 DEF Range
  <2>3. \A g \in Range(placement[v]) : v \in reserved'[g] => g \in Range(task'[t].devs)
    BY <1>8, <1>11, <2>1, <2>2
  <2>4. QED
    BY <1>8, <1>9, <1>10, <2>1, <2>3 DEF Tidy
<1>14. QED
  BY <1>12, <1>13 DEF Booked, Known

\* Everything the placement named was released.
LEMMA FinishUnloadBooks ==
  ASSUME LCInv, UsedStaysLoaded, ReservedInv, AccountInv, NEW t \in Callers, FinishUnload(t)
  PROVE  Booked(t)
<1>1. PICK r \in TaskRec : r = task[t] /\ ShapeOf(t, r)
  BY DEF LCInv, TasksShaped, Tasks
<1>2. task \in [Tasks -> TaskRec] /\ t \in Tasks
  BY DEF LCInv, TasksShaped, Tasks
<1>3. r.pc = "releasing" /\ r.model \in Models
  BY <1>1 DEF FinishUnload, Unloading, At, ShapeOf
<1>4. Known(t) /\ Tidy(t)
  BY <1>1, <1>3, KnownInTurn DEF Critical, CriticalLabels, AccountInv
<1>5. PICK v \in Models : v = Target(t) /\ v = Head(r.victims)
  BY <1>1, <1>2, <1>3, TargetKnown DEF TargetOf, ShapeOf
<1>6. task'[t].pc = "unloading" /\ task'[t].held = <<>>
  <2>1. task'[t] = [r EXCEPT !.pc = "unloading", !.devs = <<>>, !.held = <<>>,
                             !.victims = Tail(r.victims), !.evicted = r.evicted \/ TRUE]
    BY <1>1, <1>2 DEF FinishUnload, AfterUnload, Become
  <2>2. QED
    BY <2>1 DEF TaskRec
<1>7. UNCHANGED <<reserved, loadedOn, loadState>> /\ r.devs = <<>>
  BY <1>1 DEF FinishUnload
<1>8. \A g \in Range(placement[v]) : v \notin reserved[g]
  BY <1>1, <1>3, <1>4, <1>5, <1>7, NoDevices DEF Tidy
<1>9. ASSUME NEW g \in Gpus, NEW m \in reserved'[g]
      PROVE  Serving(g, m)'
  <2>1. Serving(g, m) \/ (v = m /\ g \in Range(placement[m]))
    BY <1>1, <1>3, <1>4, <1>5, <1>7, <1>9 DEF Known, Knows
  <2>2. QED
    BY <1>7, <1>8, <1>9, <2>1 DEF Serving
<1>10. Tidy(t)'
  BY <1>6 DEF Tidy
<1>11. QED
  BY <1>9, <1>10 DEF Booked, Known

LEMMA AccountStep ==
  ASSUME OnlyEvictions, Cancellable = {}
  PROVE  LCInv /\ UsedStaysLoaded /\ ReservedInv /\ AccountInv /\ [LCNext]_vars => AccountInv'
<1> SUFFICES ASSUME LCInv, UsedStaysLoaded, ReservedInv, AccountInv, [LCNext]_vars
             PROVE  AccountInv'
  OBVIOUS
<1>1. CASE UNCHANGED vars
  BY <1>1 DEF vars, model, AccountInv, Tidy, Serving, Knows, Target
<1>2. ASSUME NEW t \in Tasks, Work(t) \/ Environment(t)
      PROVE  AccountInv'
  <2>1. t \in Callers
    BY <1>2 DEF OnlyEvictions, Tasks
  <2>2. OthersStay(t)
    BY <1>2, WorkEffect, EnvironmentEffect DEF Effect
  <2>3. CASE ~Critical(t)
    <3>1. Aside(t) /\ Tidy(t)'
      BY <1>2, <2>1, <2>3, AsideActions, AsideTidy
    <3>2. QED
      BY <2>1, <2>2, <2>3, <3>1, AsideBooks
  <2>4. CASE Critical(t)
    <3>1. PICK r \in TaskRec : r = task[t] /\ ShapeOf(t, r)
      BY DEF LCInv, TasksShaped
    <3>2. ~(Begin(t) \/ BeginUnload(t) \/ BeginShutdown(t) \/ Panic(t) \/ FoundLoaded(t) \/ FoundLoading(t) \/ Subscribe(t)
            \/ BecomeLeader(t) \/ TakeSentinel(t) \/ AcquireCoordinator(t) \/ SendCommand(t) \/ SendRefused(t)
            \/ Complete(t) \/ TakeForShutdown(t) \/ Cancel(t))
      BY <2>1, <2>4, <3>1 DEF OnlyEvictions, Critical, CriticalLabels, At, Begin, BeginUnload,
         BeginShutdown, Panic, FoundLoaded, FoundLoading, Subscribe, BecomeLeader, TakeSentinel,
         AcquireCoordinator, SendCommand, SendRefused, Complete, TakeForShutdown, Cancel
    <3>3. Booked(t)
      BY <1>2, <2>1, <3>2, ResolvePlacementBooks, ReserveDeviceBooks, ReserveRefusedBooks,
         RollBackDeviceBooks, PickVictimsBooks, EvictionDoneBooks, CommitPlacementBooks,
         ReadBackBooks, LoadSucceedsBooks, AnnounceBooks, LoadFailsBooks, DropReservationBooks,
         FailLoadingBooks, LeaveBooks, UnloadBusyBooks, UnloadNothingBooks, TakeWorkerBooks,
         JoinWorkerBooks, ReleaseDeviceBooks, FinishUnloadBooks DEF Work, Environment
    <3>4. QED
      BY <2>1, <2>2, <2>4, <3>3, BookedStep
  <2>5. QED
    BY <2>3, <2>4
<1>3. QED
  BY <1>1, <1>2 DEF LCNext

\* No reservation is forgotten: every one belongs to a model that is loaded there,
\* or to a task that will load or release it, through refused rounds, evictions
\* and failed loads.  A cancelled load, and an admin unload that overlaps a
\* reload, do leave reservations nobody gives back.
THEOREM ReservationsAreAccountedFor ==
  ASSUME Unloaders = {}, Drainers = {}, Cancellable = {}
  PROVE  LCSpec => []AccountedFor
<1>1. OnlyEvictions
  BY DEF OnlyEvictions
<1>2. LCInit => AccountInv
  <2> SUFFICES ASSUME LCInit
               PROVE  AccountInv
    OBVIOUS
  <2>1. \A t \in Callers : task[t].pc = "idle"
    BY DEF LCInit, IdleTask, Tasks
  <2>2. \A g \in Gpus : reserved[g] = {}
    BY DEF LCInit, RSInit
  <2>3. QED
    BY <2>1, <2>2 DEF AccountInv, Tidy
<1>3. LCInv /\ UsedStaysLoaded /\ ReservedInv /\ AccountInv /\ [LCNext]_vars => AccountInv'
  BY <1>1, AccountStep
<1>4. LCSpec => []ReservedInv
  BY <1>1, ReservedInductive
<1>5. AccountInv => AccountedFor
  <2> SUFFICES ASSUME AccountInv, NEW g \in Gpus, NEW m \in reserved[g]
               PROVE  \/ loadState[m] = "Loaded" /\ g \in Range(loadedOn[m])
                      \/ \E t \in Callers : Leading(t) /\ task[t].model = m /\ g \in Range(task[t].held)
                      \/ \E t \in Tasks : /\ task[t].pc \in {"joining", "releasing"}
                                         /\ Target(t) = m
                                         /\ g \in Range(placement[m])
    BY DEF AccountedFor
  <2>1. CASE Serving(g, m)
    BY <2>1 DEF Serving
  <2>2. CASE \E t \in Callers : Knows(t, g, m)
    BY <2>2 DEF Knows, Leading, Tasks
  <2>3. QED
    BY <2>1, <2>2 DEF AccountInv
<1>6. QED
  BY <1>2, <1>3, <1>4, <1>5, LifecycleInductive, UseInductive, PTL DEF LCSpec

=============================================================================
