------------------------- MODULE ChatTracker_proofs -------------------------
(***************************************************************************)
(* What the tracker tells of requests is right for every number of them,   *)
(* every set of ids and every size of the ring, whenever clients leave;    *)
(* and what a command shows that follows the log is honest.                *)
(***************************************************************************)
EXTENDS Follow, FiniteSetTheorems, SequenceTheorems, TLAPS

Kinds == {"Started"} \cup Terminal

\* Which values the variables have.
Types ==
  /\ stage \in [Requests -> {"idle", "starting", "serving", "ending", "over", "gone", "leaked"}]
  /\ model \in [Requests -> Ids]
  /\ call \in [Requests -> {"none", "running", "finished", "error", "cut", "dropped"}]
  /\ inFlight \in [Ids -> Int]
  /\ told \in [Requests -> Seq(Kinds)]
  /\ history \in Seq([req : Requests, kind : Kinds])

\* A handler tells its story in step with its stages: nothing, the beginning, and
\* the end once the call has come to one.
StoryInStep ==
  \A r \in Requests :
    /\ stage[r] = "idle" => Len(told[r]) = 0
    /\ stage[r] \in {"starting", "serving", "leaked"} => Len(told[r]) = 1
    /\ stage[r] \in {"ending", "over"} => Len(told[r]) = 2
    /\ stage[r] = "gone" => Len(told[r]) = 1 \/ Len(told[r]) = 2
    /\ stage[r] \in {"idle", "starting"} => call[r] = "none"
    /\ Len(told[r]) > 0 => told[r][1] = "Started"
    /\ Len(told[r]) = 2 =>
         /\ call[r] \notin {"none", "running"}
         /\ told[r][2] \in Terminal
         /\ told[r][2] = "Completed" <=> call[r] = "finished"

\* Of a request the ring holds no more than its handler had the lock for, the
\* beginning before the end, and the last that was stored if it holds any.
RingHolds ==
  \A i \in DOMAIN history :
    LET r == history[i].req IN
    /\ \A j \in DOMAIN history :
         i < j /\ r = history[j].req => history[i].kind = "Started" /\ history[j].kind # "Started"
    /\ history[i].kind \in Range(told[r])
    /\ Recorded(r) > 0 => Event(r, told[r][Recorded(r)]) \in Range(history)
    /\ stage[r] \notin {"idle", "starting", "leaked"}
    /\ stage[r] # "over" => history[i].kind = "Started"

\* What was stored is missing only from a full ring.
RingMisses ==
  \A r \in Requests :
    Len(history) < HistoryCap =>
      /\ stage[r] \in {"serving", "ending"} => Event(r, "Started") \in Range(history)
      /\ stage[r] = "over" => \A k \in DOMAIN told[r] : Event(r, told[r][k]) \in Range(history)

RingInStep == Len(history) <= HistoryCap /\ RingHolds /\ RingMisses

ChatInv == Types /\ StoryInStep /\ CountersBalanced /\ RingInStep
-----------------------------------------------------------------------------
\* Storing keeps the ring a sequence of events within its capacity, puts the new
\* event last, and forgets one only when the ring is full.
LEMMA StoreProperties ==
  ASSUME NEW e \in [req : Requests, kind : Kinds],
         history \in Seq([req : Requests, kind : Kinds]), Len(history) <= HistoryCap, Store(e)
  PROVE  \E d \in 0 .. 1 :
           /\ history' \in Seq([req : Requests, kind : Kinds])
           /\ Len(history') = Len(history) + 1 - d
           /\ Len(history') <= HistoryCap
           /\ d = 1 => Len(history') = HistoryCap
           /\ d <= Len(history)
           /\ \A i \in 1 .. Len(history') - 1 : history'[i] = history[i + d]
           /\ history'[Len(history')] = e
<1> DEFINE Events == [req : Requests, kind : Kinds]
<1>1. HistoryCap \in Nat \ {0} /\ Len(history) \in Nat
  BY ChatAssumption, LenProperties
<1>2. CASE Len(history) = HistoryCap
  <2>1. history # <<>>
    BY <1>1, <1>2, EmptySeq
  <2>2. /\ Tail(history) \in Seq(Events) /\ Len(Tail(history)) = Len(history) - 1
        /\ \A i \in 1 .. Len(Tail(history)) : Tail(history)[i] = history[i + 1]
    BY <2>1, HeadTailProperties
  <2>3. history' = Append(Tail(history), e)
    BY <1>2 DEF Store
  <2>4. /\ history' \in Seq(Events) /\ Len(history') = Len(history)
        /\ \A i \in 1 .. Len(history) - 1 : history'[i] = history[i + 1]
        /\ history'[Len(history)] = e
    BY <1>1, <2>2, <2>3, AppendProperties
  <2>5. WITNESS 1 \in 0 .. 1
  <2>6. QED
    BY <1>1, <1>2, <2>4
<1>3. CASE Len(history) # HistoryCap
  <2>1. history' = Append(history, e)
    BY <1>3 DEF Store
  <2>2. /\ history' \in Seq(Events) /\ Len(history') = Len(history) + 1
        /\ \A i \in 1 .. Len(history) : history'[i] = history[i]
        /\ history'[Len(history) + 1] = e
    BY <1>1, <2>1, AppendProperties
  <2>3. WITNESS 0 \in 0 .. 1
  <2>4. QED
    BY <1>1, <1>3, <2>2
<1>4. QED
  BY <1>2, <1>3

\* The last thing told of a request is an event the ring can hold.
LEMMA LastSentIsEvent ==
  ASSUME Types, NEW r \in Requests, Len(told[r]) > 0
  PROVE  /\ LastSent(r) \in [req : Requests, kind : Kinds]
         /\ LastSent(r) = Event(r, told[r][Len(told[r])])
<1>1. told[r] \in Seq(Kinds) /\ Len(told[r]) \in Nat
  BY LenProperties DEF Types
<1>2. told[r][Len(told[r])] \in Kinds
  BY <1>1, ElementOfSeq
<1>3. QED
  BY <1>2 DEF LastSent, Event, Last

\* Telling one more thing of a request changes nothing told before.
LEMMA BroadcastProperties ==
  ASSUME Types, NEW r \in Requests, NEW k \in Kinds, Broadcast(r, k)
  PROVE  /\ told' \in [Requests -> Seq(Kinds)]
         /\ Len(told'[r]) = Len(told[r]) + 1
         /\ told'[r][Len(told[r]) + 1] = k
         /\ \A i \in 1 .. Len(told[r]) : told'[r][i] = told[r][i]
         /\ \A q \in Requests \ {r} : told'[q] = told[q]
<1>1. told[r] \in Seq(Kinds) /\ told \in [Requests -> Seq(Kinds)]
  BY DEF Types
<1>2. told' = [told EXCEPT ![r] = Append(told[r], k)]
  BY DEF Broadcast
<1>3. told'[r] = Append(told[r], k) /\ \A q \in Requests \ {r} : told'[q] = told[q]
  BY <1>1, <1>2
<1>4. QED
  BY <1>1, <1>2, <1>3, AppendProperties

\* How a call is classified is an end.
LEMMA VerdictIsTerminal ==
  ASSUME NEW r
  PROVE  /\ Verdict(r) \in Terminal
         /\ Verdict(r) = "Completed" <=> call[r] = "finished"
<1>1. CASE call[r] = "error"
  BY <1>1 DEF Verdict, Terminal
<1>2. CASE call[r] = "finished"
  BY <1>2 DEF Verdict, Terminal
<1>3. CASE call[r] \notin {"error", "finished"}
  BY <1>3 DEF Verdict, Terminal
<1>4. QED
  BY <1>1, <1>2, <1>3
-----------------------------------------------------------------------------
\* Every step keeps the types.
LEMMA TypesStep == Types /\ StoryInStep /\ Len(history) <= HistoryCap /\ [ChatNext]_chatVars => Types'
<1> SUFFICES ASSUME Types, StoryInStep, Len(history) <= HistoryCap, [ChatNext]_chatVars
             PROVE  Types'
  OBVIOUS
<1>1. CASE UNCHANGED chatVars
  BY <1>1 DEF Types, chatVars
<1>2. ASSUME NEW r \in Requests, Arrive(r) PROVE Types'
  <2>1. told' \in [Requests -> Seq(Kinds)]
    BY <1>2, BroadcastProperties DEF Arrive, Kinds
  <2>2. inFlight' \in [Ids -> Int]
    BY <1>2 DEF Arrive, Increment, Types
  <2>3. QED
    BY <1>2, <2>1, <2>2 DEF Arrive, Types
<1>3. ASSUME NEW r \in Requests, CallBackend(r) PROVE Types'
  <2>1. LastSent(r) \in [req : Requests, kind : Kinds]
    BY <1>3, LastSentIsEvent DEF CallBackend, StoryInStep
  <2>2. history' \in Seq([req : Requests, kind : Kinds])
    BY <1>3, <2>1, StoreProperties DEF CallBackend, Types
  <2>3. QED
    BY <1>3, <2>2 DEF CallBackend, Types
<1>4. ASSUME NEW r \in Requests, CallEnds(r) PROVE Types'
  BY <1>4 DEF CallEnds, Types
<1>5. ASSUME NEW r \in Requests, Finalize(r) PROVE Types'
  <2>1. told' \in [Requests -> Seq(Kinds)]
    BY <1>5, BroadcastProperties, VerdictIsTerminal DEF Finalize, Kinds
  <2>2. inFlight' \in [Ids -> Int]
    BY <1>5 DEF Finalize, Decrement, Types
  <2>3. QED
    BY <1>5, <2>1, <2>2 DEF Finalize, Types
<1>6. ASSUME NEW r \in Requests, Respond(r) PROVE Types'
  <2>1. LastSent(r) \in [req : Requests, kind : Kinds]
    BY <1>6, LastSentIsEvent DEF Respond, StoryInStep
  <2>2. history' \in Seq([req : Requests, kind : Kinds])
    BY <1>6, <2>1, StoreProperties DEF Respond, Types
  <2>3. inFlight' \in [Ids -> Int]
    BY <1>6 DEF Respond, Decrement, Types
  <2>4. QED
    BY <1>6, <2>2, <2>3 DEF Respond, Types
<1>7. ASSUME NEW r \in Requests, Disconnect(r) PROVE Types'
  <2>1. inFlight' \in [Ids -> Int]
    BY <1>7 DEF Disconnect, Decrement, Types
  <2>2. QED
    BY <1>7, <2>1 DEF Disconnect, Types
<1>8. QED
  BY <1>1, <1>2, <1>3, <1>4, <1>5, <1>6, <1>7 DEF ChatNext, Handle

\* Every step keeps stories in step with stages.
LEMMA StoryStep == Types /\ StoryInStep /\ [ChatNext]_chatVars => StoryInStep'
<1> SUFFICES ASSUME Types, StoryInStep, [ChatNext]_chatVars, NEW q \in Requests
             PROVE  StoryInStep!(q)'
  BY DEF StoryInStep
<1>a. told[q] \in Seq(Kinds) /\ Len(told[q]) \in Nat
  BY LenProperties DEF Types
<1>b. StoryInStep!(q)
  BY DEF StoryInStep
<1>1. CASE UNCHANGED chatVars
  BY <1>1, <1>b DEF chatVars
<1>2. ASSUME NEW r \in Requests, Arrive(r) PROVE StoryInStep!(q)'
  <2>1. Len(told[r]) = 0 /\ call[r] = "none"
    BY <1>2 DEF Arrive, StoryInStep
  <2>2. Broadcast(r, "Started") /\ "Started" \in Kinds
    BY <1>2 DEF Arrive, Kinds
  <2>a. /\ Len(told'[r]) = Len(told[r]) + 1
        /\ told'[r][Len(told[r]) + 1] = "Started"
        /\ \A p \in Requests \ {r} : told'[p] = told[p]
    BY <2>2, BroadcastProperties
  <2>3. /\ r = q => Len(told'[q]) = 1 /\ told'[q][1] = "Started"
        /\ r # q => told'[q] = told[q]
    BY <2>1, <2>a
  <2>4. /\ stage'[r] = "starting" /\ call' = call
        /\ r # q => stage'[q] = stage[q]
    BY <1>2 DEF Arrive, Types
  <2>5. CASE r = q
    BY <2>1, <2>3, <2>4, <2>5
  <2>6. CASE r # q
    BY <1>b, <2>3, <2>4, <2>6
  <2>7. QED
    BY <2>5, <2>6
<1>3. ASSUME NEW r \in Requests, CallBackend(r) PROVE StoryInStep!(q)'
  BY <1>3, <1>a, <1>b DEF CallBackend, Types
<1>4. ASSUME NEW r \in Requests, CallEnds(r) PROVE StoryInStep!(q)'
  BY <1>4, <1>a, <1>b DEF CallEnds, Types
<1>5. ASSUME NEW r \in Requests, Finalize(r) PROVE StoryInStep!(q)'
  <2>1. Verdict(r) \in Terminal /\ (Verdict(r) = "Completed" <=> call[r] = "finished")
    BY VerdictIsTerminal
  <2>2. Verdict(r) \in Kinds /\ Broadcast(r, Verdict(r))
    BY <1>5, <2>1 DEF Finalize, Kinds
  <2>a. Len(told[r]) = 1 /\ told[r][1] = "Started"
    BY <1>5 DEF Finalize, StoryInStep
  <2>b. /\ Len(told'[r]) = Len(told[r]) + 1
        /\ told'[r][Len(told[r]) + 1] = Verdict(r)
        /\ \A i \in 1 .. Len(told[r]) : told'[r][i] = told[r][i]
    BY <2>2, BroadcastProperties
  <2>3. r = q => Len(told'[q]) = 2 /\ told'[q][1] = "Started" /\ told'[q][2] = Verdict(q)
    BY <2>a, <2>b
  <2>4. r # q => told'[q] = told[q]
    BY <2>2, BroadcastProperties
  <2>5. stage' = [stage EXCEPT ![r] = "ending"] /\ call' = call /\ call[r] \notin {"none", "running"}
    BY <1>5 DEF Finalize
  <2>6. QED
    BY <1>a, <1>b, <2>1, <2>3, <2>4, <2>5 DEF Types
<1>6. ASSUME NEW r \in Requests, Respond(r) PROVE StoryInStep!(q)'
  BY <1>6, <1>a, <1>b DEF Respond, Types
<1>7. ASSUME NEW r \in Requests, Disconnect(r) PROVE StoryInStep!(q)'
  BY <1>7, <1>a, <1>b DEF Disconnect, Types
<1>8. QED
  BY <1>1, <1>2, <1>3, <1>4, <1>5, <1>6, <1>7 DEF ChatNext, Handle

\* The invariant says all that subscribers are promised.
LEMMA StoryIsWhole == Types /\ StoryInStep => OneStoryEach
<1> SUFFICES ASSUME Types, StoryInStep, NEW r \in Requests PROVE OneStoryEach!(r)
  BY DEF OneStoryEach
<1>1. told[r] \in Seq(Kinds) /\ Len(told[r]) \in Nat
  BY LenProperties DEF Types
<1>2. StoryInStep!(r) /\ stage[r] \in {"idle", "starting", "serving", "ending", "over", "gone", "leaked"}
  BY DEF StoryInStep, Types
<1>3. PICK n \in Nat : n = Len(told[r])
  BY <1>1
<1>4. /\ stage[r] = "idle" => n = 0
      /\ stage[r] # "idle" => n = 1 \/ n = 2
  BY <1>2, <1>3
<1>5. n <= 2 /\ (stage[r] = "idle" <=> n = 0) /\ (n # 0 <=> n > 0)
  BY <1>4
<1>6. told[r] = <<>> <=> n = 0
  BY <1>1, <1>3, EmptySeq
<1>7. QED
  BY <1>2, <1>3, <1>5, <1>6
-----------------------------------------------------------------------------
\* The streams of m whose client left while Started was recorded.
Leaked(m) == {r \in Requests : model[r] = m /\ stage[r] = "leaked"}

\* Both sets that CountersBalanced counts are finite.
LEMMA CountedAreFinite ==
  ASSUME NEW m
  PROVE  /\ IsFiniteSet(InProgress(m)) /\ Cardinality(InProgress(m)) \in Nat
         /\ IsFiniteSet(Leaked(m)) /\ Cardinality(Leaked(m)) \in Nat
<1>1. InProgress(m) \in SUBSET Requests /\ Leaked(m) \in SUBSET Requests
  BY DEF InProgress, Leaked
<1>2. QED
  BY <1>1, ChatAssumption, FS_Subset, FS_CardinalityType

\* What a step of r may do to the counter of m and to the requests it counts:
\* nothing, count r, release it, or leave it counted for ever.
Untouched(m) ==
  inFlight'[m] = inFlight[m] /\ InProgress(m)' = InProgress(m) /\ Leaked(m)' = Leaked(m)
Counted(r, m) ==
  /\ inFlight'[m] = inFlight[m] + 1 /\ Leaked(m)' = Leaked(m)
  /\ r \notin InProgress(m) /\ InProgress(m)' = InProgress(m) \cup {r}
Released(r, m) ==
  /\ inFlight'[m] = inFlight[m] - 1 /\ Leaked(m)' = Leaked(m)
  /\ r \in InProgress(m) /\ InProgress(m)' = InProgress(m) \ {r}
Forgotten(r, m) ==
  /\ inFlight'[m] = inFlight[m]
  /\ r \in InProgress(m) /\ InProgress(m)' = InProgress(m) \ {r}
  /\ r \notin Leaked(m) /\ Leaked(m)' = Leaked(m) \cup {r}

\* Each of the four keeps the counter exact.
LEMMA CountByOne ==
  ASSUME CountersBalanced, NEW r \in Requests,
         \A m \in Ids : Untouched(m) \/ Counted(r, m) \/ Released(r, m) \/ Forgotten(r, m)
  PROVE  CountersBalanced'
<1> SUFFICES ASSUME NEW m \in Ids
             PROVE  inFlight'[m] = Cardinality(InProgress(m)') + Cardinality(Leaked(m)')
  BY DEF CountersBalanced, Leaked
<1>1. PICK p \in Nat : p = Cardinality(InProgress(m))
  BY CountedAreFinite
<1>2. PICK l \in Nat : l = Cardinality(Leaked(m))
  BY CountedAreFinite
<1>3. inFlight[m] = p + l
  BY <1>1, <1>2 DEF CountersBalanced, Leaked
<1>4. CASE Untouched(m)
  BY <1>1, <1>2, <1>3, <1>4 DEF Untouched
<1>5. CASE Counted(r, m)
  <2>1. Cardinality(InProgress(m)') = p + 1
    BY <1>1, <1>5, CountedAreFinite, FS_AddElement DEF Counted
  <2>2. QED
    BY <1>2, <1>3, <1>5, <2>1 DEF Counted
<1>6. CASE Released(r, m)
  <2>1. Cardinality(InProgress(m)') = p - 1
    BY <1>1, <1>6, CountedAreFinite, FS_RemoveElement DEF Released
  <2>2. QED
    BY <1>2, <1>3, <1>6, <2>1 DEF Released
<1>7. CASE Forgotten(r, m)
  <2>1. Cardinality(InProgress(m)') = p - 1
    BY <1>1, <1>7, CountedAreFinite, FS_RemoveElement DEF Forgotten
  <2>2. Cardinality(Leaked(m)') = l + 1
    BY <1>2, <1>7, CountedAreFinite, FS_AddElement DEF Forgotten
  <2>3. QED
    BY <1>3, <1>7, <2>1, <2>2 DEF Forgotten
<1>8. QED
  BY <1>4, <1>5, <1>6, <1>7

\* A request that is in progress and ends is released.
LEMMA ReleaseOne ==
  ASSUME Types, CountersBalanced, NEW r \in Requests, NEW to \in {"ending", "over", "gone"},
         r \in InProgress(model[r]), to = "ending" => r \in Streams,
         model' = model, stage' = [stage EXCEPT ![r] = to], Decrement(model[r])
  PROVE  CountersBalanced'
<1>1. ASSUME NEW m \in Ids, m = model[r] PROVE Released(r, m)
  <2>1. inFlight'[m] = inFlight[m] - 1
    BY <1>1 DEF Decrement, Types
  <2>2. QED
    BY <1>1, <2>1 DEF Released, InProgress, Leaked, Types
<1>2. ASSUME NEW m \in Ids, m # model[r] PROVE Untouched(m)
  <2>1. inFlight'[m] = inFlight[m]
    BY <1>2 DEF Decrement, Types
  <2>2. QED
    BY <1>2, <2>1 DEF Untouched, InProgress, Leaked, Types
<1>3. QED
  BY <1>1, <1>2, CountByOne

\* A request that is not counted may end without touching the counter.
LEMMA EndUncounted ==
  ASSUME Types, CountersBalanced, NEW r \in Requests, NEW to \in {"over", "gone"},
         stage[r] = "ending", r \in Streams,
         model' = model, stage' = [stage EXCEPT ![r] = to], inFlight' = inFlight
  PROVE  CountersBalanced'
<1>1. ASSUME NEW m \in Ids PROVE Untouched(m)
  BY DEF Untouched, InProgress, Leaked, Types
<1>2. QED
  BY <1>1, CountByOne

\* Every step keeps the counters exact.
LEMMA CountStep == Types /\ CountersBalanced /\ [ChatNext]_chatVars => CountersBalanced'
<1> SUFFICES ASSUME Types, CountersBalanced, [ChatNext]_chatVars PROVE CountersBalanced'
  OBVIOUS
<1>1. CASE UNCHANGED chatVars
  BY <1>1 DEF chatVars, CountersBalanced, InProgress
<1>2. ASSUME NEW r \in Requests, Arrive(r) PROVE CountersBalanced'
  <2>1. ASSUME NEW m \in Ids, m = model[r] PROVE Counted(r, m)
    <3>1. inFlight'[m] = inFlight[m] + 1
      BY <1>2, <2>1 DEF Arrive, Increment, Types
    <3>2. QED
      BY <1>2, <2>1, <3>1 DEF Counted, Arrive, InProgress, Leaked, Types
  <2>2. ASSUME NEW m \in Ids, m # model[r] PROVE Untouched(m)
    <3>1. inFlight'[m] = inFlight[m]
      BY <1>2, <2>2 DEF Arrive, Increment, Types
    <3>2. QED
      BY <1>2, <2>2, <3>1 DEF Untouched, Arrive, InProgress, Leaked, Types
  <2>3. QED
    BY <2>1, <2>2, CountByOne
<1>3. ASSUME NEW r \in Requests, CallBackend(r) \/ CallEnds(r) PROVE CountersBalanced'
  <2>1. ASSUME NEW m \in Ids PROVE Untouched(m)
    BY <1>3 DEF Untouched, CallBackend, CallEnds, InProgress, Leaked, Types
  <2>2. QED
    BY <2>1, CountByOne
<1>4. ASSUME NEW r \in Requests, Finalize(r) PROVE CountersBalanced'
  <2>1. stage[r] = "serving" /\ model' = model /\ stage' = [stage EXCEPT ![r] = "ending"]
    BY <1>4 DEF Finalize
  <2>2. CASE r \in Streams
    BY <1>4, <2>1, <2>2, ReleaseOne DEF Finalize, InProgress
  <2>3. CASE r \notin Streams
    <3>1. ASSUME NEW m \in Ids PROVE Untouched(m)
      BY <1>4, <2>1, <2>3 DEF Finalize, Untouched, InProgress, Leaked, Types
    <3>2. QED
      BY <3>1, CountByOne
  <2>4. QED
    BY <2>2, <2>3
<1>5. ASSUME NEW r \in Requests, Respond(r) PROVE CountersBalanced'
  <2>1. stage[r] = "ending" /\ model' = model /\ stage' = [stage EXCEPT ![r] = "over"]
    BY <1>5 DEF Respond
  <2>2. CASE r \in Streams
    BY <1>5, <2>1, <2>2, EndUncounted DEF Respond
  <2>3. CASE r \notin Streams
    BY <1>5, <2>1, <2>3, ReleaseOne DEF Respond, InProgress
  <2>4. QED
    BY <2>2, <2>3
<1>6. ASSUME NEW r \in Requests, Disconnect(r) PROVE CountersBalanced'
  <2>1. stage[r] \in {"starting", "serving", "ending"} /\ model' = model
    BY <1>6 DEF Disconnect
  <2>2. CASE Guarded(r)
    <3>1. stage' = [stage EXCEPT ![r] = "gone"] /\ r \in InProgress(model[r])
      BY <1>6, <2>1, <2>2 DEF Disconnect, Guarded, InProgress, Types
    <3>2. QED
      BY <1>6, <2>1, <2>2, <3>1, ReleaseOne DEF Disconnect
  <2>3. CASE ~Guarded(r) /\ stage[r] = "ending"
    BY <1>6, <2>1, <2>3, EndUncounted DEF Disconnect, Guarded, Types
  <2>4. CASE ~Guarded(r) /\ stage[r] # "ending"
    <3>1. /\ r \in Streams /\ stage[r] = "starting" /\ inFlight' = inFlight
          /\ stage' = [stage EXCEPT ![r] = "leaked"]
      BY <1>6, <2>1, <2>4 DEF Disconnect, Guarded, Types
    <3>2. ASSUME NEW m \in Ids, m = model[r] PROVE Forgotten(r, m)
      BY <2>1, <3>1, <3>2 DEF Forgotten, InProgress, Leaked, Types
    <3>3. ASSUME NEW m \in Ids, m # model[r] PROVE Untouched(m)
      BY <2>1, <3>1, <3>3 DEF Untouched, InProgress, Leaked, Types
    <3>4. QED
      BY <3>2, <3>3, CountByOne
  <2>5. QED
    BY <2>2, <2>3, <2>4
<1>7. QED
  BY <1>1, <1>2, <1>3, <1>4, <1>5, <1>6 DEF ChatNext, Handle
-----------------------------------------------------------------------------
\* How much was told of a request, and is recorded, follows from its stage.
Lengths ==
  \A r \in Requests :
    /\ stage[r] \in {"starting", "leaked"} => Len(told[r]) = 1 /\ Recorded(r) = 0
    /\ stage[r] = "serving" => Len(told[r]) = 1 /\ Recorded(r) = 1
    /\ stage[r] = "ending" => Len(told[r]) = 2 /\ Recorded(r) = 1
    /\ stage[r] = "over" => Len(told[r]) = 2 /\ Recorded(r) = 2
    /\ stage[r] = "gone" => Recorded(r) = 0 \/ Recorded(r) = 1
    /\ stage[r] \notin {"idle"} => told[r][1] = "Started" /\ 1 \in DOMAIN told[r]
    /\ stage[r] \in {"ending", "over"} => told[r][2] \in Terminal /\ DOMAIN told[r] = {1, 2}

LEMMA StoryLengths == Types /\ StoryInStep => Lengths
<1> SUFFICES ASSUME Types, StoryInStep, NEW r \in Requests PROVE Lengths!(r)
  BY DEF Lengths
<1>1. StoryInStep!(r) /\ told[r] \in Seq(Kinds)
  BY DEF StoryInStep, Types
<1>2. DOMAIN told[r] = 1 .. Len(told[r])
  BY <1>1, LenProperties
<1>3. PICK n \in Nat : n = Len(told[r])
  BY <1>1, LenProperties
<1>4. Recorded(r) = n - (IF stage[r] \in {"starting", "ending", "gone", "leaked"} THEN 1 ELSE 0)
  BY <1>3 DEF Recorded
<1>5. /\ stage[r] \in {"starting", "serving", "leaked"} => n = 1
      /\ stage[r] \in {"ending", "over"} => n = 2
      /\ stage[r] = "gone" => n = 1 \/ n = 2
  BY <1>1, <1>3
<1>6. /\ stage[r] \in {"starting", "leaked"} => Recorded(r) = 0
      /\ stage[r] = "serving" => Recorded(r) = 1
      /\ stage[r] = "ending" => Recorded(r) = 1
      /\ stage[r] = "over" => Recorded(r) = 2
      /\ stage[r] = "gone" => Recorded(r) = 0 \/ Recorded(r) = 1
  BY <1>4, <1>5
<1>7. stage[r] # "idle" => n > 0
  BY <1>5 DEF Types
<1>a. DOMAIN told[r] = 1 .. n /\ 1 .. 2 = {1, 2}
  BY <1>2, <1>3
<1>8. /\ n > 0 => 1 \in DOMAIN told[r]
      /\ n = 2 => DOMAIN told[r] = {1, 2}
  BY <1>a
<1>9. n > 0 => told[r][1] = "Started"
  BY <1>1, <1>3
<1>10. QED
  BY <1>1, <1>3, <1>5, <1>6, <1>7, <1>8, <1>9

\* An event in the ring is an element of it at some place, and of the right type.
Places ==
  /\ Len(history) \in Nat /\ DOMAIN history = 1 .. Len(history)
  /\ \A i \in DOMAIN history :
       /\ history[i] \in [req : Requests, kind : Kinds]
       /\ history[i] = Event(history[i].req, history[i].kind)
  /\ \A e : e \in Range(history) <=> \E i \in DOMAIN history : history[i] = e

LEMMA RingPlaces == Types => Places
<1> SUFFICES ASSUME Types PROVE Places
  OBVIOUS
<1>1. history \in Seq([req : Requests, kind : Kinds])
  BY DEF Types
<1>2. Len(history) \in Nat /\ DOMAIN history = 1 .. Len(history)
  BY <1>1, LenProperties
<1>3. \A i \in 1 .. Len(history) : history[i] \in [req : Requests, kind : Kinds]
  BY <1>1, ElementOfSeq
<1>4. QED
  BY <1>2, <1>3 DEF Places, Range, Event


\* What the ring is promised to be follows.
LEMMA RingIsRight == Types /\ RingInStep => RingFollowsFeed
  BY RingPlaces DEF Places, RingInStep, RingFollowsFeed, RingHolds, RingMisses

\* A step that changes a request of which the ring holds at most the beginning,
\* and has neither more nor less to hold of it afterwards, keeps the ring right.
LEMMA RingUntouched ==
  ASSUME Types, Types', StoryInStep, StoryInStep', RingInStep, NEW r \in Requests,
         history' = history,
         \A q \in Requests \ {r} : stage'[q] = stage[q] /\ told'[q] = told[q],
         \/ stage[r] \in {"idle", "starting"} /\ stage'[r] \in {"starting", "gone", "leaked"}
         \/ stage[r] = "serving" /\ stage'[r] = "ending"
         \/ stage[r] \in {"serving", "ending"} /\ stage'[r] = "gone"
  PROVE  RingInStep'
<1>a. Lengths /\ Lengths'
  BY StoryLengths, PTL
<1>1. \A q \in Requests \ {r} : Recorded(q)' = Recorded(q)
  BY DEF Recorded
<1>2. /\ DOMAIN history = 1 .. Len(history)
      /\ \A i \in DOMAIN history : history[i].req \in Requests
  BY RingPlaces DEF Places
<1>3. ASSUME NEW i \in DOMAIN history', history[i].req # r PROVE RingHolds!(i)'
  BY <1>1, <1>2, <1>3 DEF RingInStep, RingHolds
<1>4. ASSUME NEW i \in DOMAIN history', history[i].req = r PROVE RingHolds!(i)'
  <2>1. stage[r] \in {"serving", "ending"} /\ history[i].kind = "Started"
    BY <1>2, <1>4 DEF RingInStep, RingHolds
  <2>2. history[i] = Event(r, "Started")
    BY <1>4, <2>1, RingPlaces DEF Places
  <2>3. told'[r][1] = "Started" /\ 1 \in DOMAIN told'[r]
    BY <1>a, <2>1 DEF Lengths
  <2>4. "Started" \in Range(told'[r])
    BY <2>3 DEF Range
  <2>5. Recorded(r)' \in {0, 1}
    BY <1>a, <2>1 DEF Lengths
  <2>6. Event(r, "Started") \in Range(history')
    BY <2>2 DEF Range
  <2>7. QED
    BY <1>2, <1>4, <2>1, <2>2, <2>3, <2>4, <2>5, <2>6 DEF RingInStep, RingHolds
<1>5. RingHolds'
  BY <1>3, <1>4 DEF RingHolds
<1>6. RingMisses'
  BY DEF RingInStep, RingMisses, Types
<1>7. QED
  BY <1>5, <1>6 DEF RingInStep

\* Storing the last thing told of r, and moving r to the stage that says so, keeps
\* the ring right.
LEMMA RingStored ==
  ASSUME Types, Types', StoryInStep, StoryInStep', RingInStep, NEW r \in Requests,
         Store(LastSent(r)), told' = told,
         \A q \in Requests \ {r} : stage'[q] = stage[q],
         \/ stage[r] = "starting" /\ stage'[r] = "serving"
         \/ stage[r] = "ending" /\ stage'[r] = "over"
  PROVE  RingInStep'
<1> DEFINE e == LastSent(r)
<1>1. Lengths /\ Lengths'
  BY StoryLengths, PTL
<1>2. /\ e \in [req : Requests, kind : Kinds] /\ e.req = r
      /\ e = Event(r, told[r][Recorded(r)']) /\ e.kind = told[r][Recorded(r)'] /\ Recorded(r)' \in DOMAIN told[r]
      /\ stage[r] = "starting" => Recorded(r)' = 1 /\ e.kind = "Started"
      /\ stage[r] = "ending" => Recorded(r)' = 2 /\ e.kind # "Started"
  <2>1. e \in [req : Requests, kind : Kinds] /\ e = Event(r, told[r][Len(told[r])])
    BY <1>1, LastSentIsEvent DEF Lengths
  <2>2. e.req = r /\ e.kind = told[r][Len(told[r])]
    BY <2>1 DEF Event
  <2>3. CASE stage[r] = "starting"
    <3>1. Len(told[r]) = 1 /\ Recorded(r)' = 1 /\ told[r][1] = "Started" /\ 1 \in DOMAIN told[r]
      BY <1>1, <2>3 DEF Lengths
    <3>2. QED
      BY <2>1, <2>2, <2>3, <3>1
  <2>4. CASE stage[r] = "ending"
    <3>1. Len(told[r]) = 2 /\ Recorded(r)' = 2 /\ told[r][2] \in Terminal /\ 2 \in DOMAIN told[r]
      BY <1>1, <2>4 DEF Lengths
    <3>2. QED
      BY <2>1, <2>2, <2>4, <3>1 DEF Terminal
  <2>5. QED
    BY <2>3, <2>4
<1> HIDE DEF e
<1>a. Places /\ Places'
  BY RingPlaces, PTL
<1>3. PICK n \in Nat : n = Len(history)
  BY <1>a DEF Places
<1>4. PICK n1 \in Nat : n1 = Len(history')
  BY <1>a DEF Places
<1>b. DOMAIN history = 1 .. n /\ DOMAIN history' = 1 .. n1
  BY <1>a, <1>3, <1>4 DEF Places
<1>c. HistoryCap \in Nat
  BY ChatAssumption
<1>5. PICK d \in 0 .. 1 :
        /\ n1 = n + 1 - d /\ n1 <= HistoryCap /\ d <= n /\ (d = 1 => n1 = HistoryCap)
        /\ \A i \in 1 .. n1 - 1 : history'[i] = history[i + d]
        /\ history'[n1] = e
  <2>1. /\ history \in Seq([req : Requests, kind : Kinds]) /\ Len(history) <= HistoryCap
        /\ Store(e)
    BY DEF RingInStep, Types, e
  <2>2. \E d \in 0 .. 1 :
           /\ Len(history') = Len(history) + 1 - d
           /\ Len(history') <= HistoryCap
           /\ d = 1 => Len(history') = HistoryCap
           /\ d <= Len(history)
           /\ \A i \in 1 .. Len(history') - 1 : history'[i] = history[i + d]
           /\ history'[Len(history')] = e
    BY <1>2, <2>1, StoreProperties
  <2>3. QED
    BY <1>3, <1>4, <2>2
<1>6. \A i \in DOMAIN history' \ {n1} : i + d \in DOMAIN history /\ history'[i] = history[i + d]
  BY <1>b, <1>5
<1>7. \A j \in DOMAIN history : j > d => j - d \in DOMAIN history' \ {n1} /\ history'[j - d] = history[j]
  BY <1>b, <1>5
<1>8. n1 \in DOMAIN history'
  BY <1>b, <1>5
<1>9. \A q \in Requests \ {r} : Recorded(q)' = Recorded(q)
  BY DEF Recorded
\* Of r the ring held the beginning at most.
<1>10. \A i \in DOMAIN history : history[i].req = r => stage[r] = "ending" /\ history[i].kind = "Started"
  BY DEF RingInStep, RingHolds
\* Of another request the last that is recorded is not the one forgotten, unless
\* it was the only one.
<1>11. ASSUME NEW i \in DOMAIN history, i > d, history[i].req # r, Recorded(history[i].req) > 0
       PROVE  \E j \in DOMAIN history : j > d /\ history[j] = Event(history[i].req, told[history[i].req][Recorded(history[i].req)])
  <2> DEFINE q == history[i].req
  <2>1. PICK j \in DOMAIN history : history[j] = Event(q, told[q][Recorded(q)])
    BY <1>a, <1>11 DEF Places, RingInStep, RingHolds
  <2>2. CASE j > d
    BY <2>1, <2>2
  <2>3. CASE ~(j > d)
    <3>1. j = 1 /\ d = 1 /\ j < i
      BY <1>b, <1>11, <2>3
    <3>2. history[j].req = q /\ history[j].kind = told[q][Recorded(q)]
      BY <2>1 DEF Event
    <3>3. history[j].kind = "Started" /\ history[i].kind # "Started"
      BY <3>1, <3>2 DEF RingInStep, RingHolds
    <3>4. q \in Requests /\ stage[q] = "over"
      BY <1>a, <3>3 DEF Places, RingInStep, RingHolds
    <3>5. Recorded(q) = 2 /\ told[q][2] # "Started"
      BY <1>1, <3>4 DEF Lengths, Terminal
    <3>6. QED
      BY <3>2, <3>3, <3>5
  <2>4. QED
    BY <2>2, <2>3
<1>12. Event(r, told'[r][Recorded(r)']) \in Range(history')
  BY <1>a, <1>2, <1>5, <1>8 DEF Places
<1>13. ASSUME NEW i \in DOMAIN history', history'[i].req = r PROVE RingHolds!(i)'
  <2>1. i # n1 => stage[r] = "ending" /\ history'[i].kind = "Started"
    BY <1>6, <1>10, <1>13
  <2>2. history'[i].kind \in Range(told'[r])
    <3>1. CASE i = n1
      BY <1>2, <1>5, <3>1 DEF Range
    <3>2. CASE i # n1
      <4>1. told[r][1] = "Started" /\ 1 \in DOMAIN told[r]
        BY <1>1, <2>1, <3>2 DEF Lengths
      <4>2. QED
        BY <2>1, <3>2, <4>1 DEF Range
    <3>3. QED
      BY <3>1, <3>2
  <2>3. ASSUME NEW j \in DOMAIN history', i < j, history'[j].req = r
        PROVE  history'[i].kind = "Started" /\ history'[j].kind # "Started"
    <3>1. i # n1 /\ stage[r] = "ending" /\ history'[i].kind = "Started"
      BY <1>b, <2>1, <2>3
    <3>2. CASE j = n1
      BY <1>2, <1>5, <3>1, <3>2
    <3>3. CASE j # n1
      <4>1. /\ i + d \in DOMAIN history /\ j + d \in DOMAIN history /\ i + d < j + d
            /\ history[i + d].req = r /\ history[j + d].req = r
        BY <1>b, <1>6, <1>13, <2>3, <3>1, <3>3
      <4>2. history[j + d].kind # "Started"
        BY <4>1 DEF RingInStep, RingHolds
      <4>3. QED
        BY <1>6, <3>1, <3>3, <4>2
    <3>4. QED
      BY <3>2, <3>3
  <2>4. stage'[r] \notin {"idle", "starting", "leaked"} /\ (stage'[r] # "over" => history'[i].kind = "Started")
    BY <1>2, <1>5, <2>1
  <2>5. QED
    BY <1>12, <1>13, <2>2, <2>3, <2>4
<1>14. ASSUME NEW i \in DOMAIN history', history'[i].req # r PROVE RingHolds!(i)'
  <2>q. PICK q \in Requests : q = history'[i].req
    BY <1>a DEF Places
  <2>a. i # n1
    BY <1>2, <1>5, <1>14
  <2>b. q \in Requests \ {r}
    BY <1>14, <2>q
  <2>1. /\ i + d \in DOMAIN history /\ history'[i] = history[i + d] /\ i + d > d
        /\ q \in Requests \ {r}
    <3>1. i \in Nat /\ i > 0
      BY <1>b
    <3>2. i + d > d
      BY <3>1
    <3>3. QED
      BY <1>6, <2>a, <2>b, <3>2
  <2>2. history[i + d].req = q /\ stage'[q] = stage[q] /\ told'[q] = told[q] /\ Recorded(q)' = Recorded(q)
    BY <1>9, <2>1, <2>q
  <2>3. Recorded(q)' > 0 => Event(q, told'[q][Recorded(q)']) \in Range(history')
    <3>1. SUFFICES ASSUME Recorded(q) > 0 PROVE Event(q, told[q][Recorded(q)]) \in Range(history')
      BY <2>2
    <3>2. PICK j \in DOMAIN history : j > d /\ history[j] = Event(q, told[q][Recorded(q)])
      BY <1>11, <1>14, <2>1, <2>2, <3>1
    <3>3. QED
      BY <1>7, <1>a, <3>2 DEF Places
  <2>4. ASSUME NEW j \in DOMAIN history', i < j, history'[j].req = q
        PROVE  history'[i].kind = "Started" /\ history'[j].kind # "Started"
    <3>1. j # n1
      BY <1>2, <1>5, <1>14, <2>4, <2>q
    <3>2. j + d \in DOMAIN history /\ history'[j] = history[j + d] /\ i + d < j + d
      BY <1>6, <1>b, <2>4, <3>1
    <3>3. QED
      BY <2>1, <2>2, <2>4, <3>2 DEF RingInStep, RingHolds
  <2>5. /\ history'[i].kind \in Range(told'[q])
        /\ stage'[q] \notin {"idle", "starting", "leaked"} /\ (stage'[q] # "over" => history'[i].kind = "Started")
    BY <2>1, <2>2 DEF RingInStep, RingHolds
  <2>6. \A j \in DOMAIN history' :
          i < j /\ q = history'[j].req => history'[i].kind = "Started" /\ history'[j].kind # "Started"
    BY <2>4
  <2>7. QED
    BY <2>3, <2>5, <2>6, <2>q
<1>15. RingHolds'
  BY <1>13, <1>14 DEF RingHolds
<1>16. ASSUME n1 < HistoryCap, NEW x \in Range(history) PROVE x \in Range(history') /\ n < HistoryCap
  <2>1. d = 0 /\ n < HistoryCap
    BY <1>5, <1>c, <1>16
  <2>2. PICK j \in DOMAIN history : history[j] = x
    BY <1>16, <1>a DEF Places
  <2>3. j - d \in DOMAIN history' /\ history'[j - d] = x
    BY <1>7, <1>b, <2>1, <2>2
  <2>4. QED
    BY <1>a, <2>1, <2>3 DEF Places
<1>17. RingMisses'
  <2> SUFFICES ASSUME NEW q \in Requests, n1 < HistoryCap PROVE RingMisses!(q)'
    BY <1>4 DEF RingMisses
  <2>1. n < HistoryCap
    BY <1>5, <1>c
  <2>2. CASE q # r
    BY <1>3, <1>16, <2>1, <2>2 DEF RingInStep, RingMisses
  <2>3. CASE q = r /\ stage[r] = "starting"
    BY <1>2, <1>12, <2>3
  <2>4. CASE q = r /\ stage[r] = "ending"
    <3>1. told[r][1] = "Started" /\ DOMAIN told[r] = {1, 2}
      BY <1>1, <2>4 DEF Lengths
    <3>2. Event(r, told[r][1]) \in Range(history')
      BY <1>3, <1>16, <2>1, <2>4, <3>1 DEF RingInStep, RingMisses
    <3>3. Event(r, told[r][2]) \in Range(history')
      BY <1>2, <1>12, <2>4
    <3>4. QED
      BY <2>4, <3>1, <3>2, <3>3
  <2>5. QED
    BY <2>2, <2>3, <2>4
<1>18. QED
  BY <1>4, <1>5, <1>15, <1>17 DEF RingInStep

\* Every step keeps the ring right.
LEMMA RingStep ==
  Types /\ Types' /\ StoryInStep /\ StoryInStep' /\ RingInStep /\ [ChatNext]_chatVars => RingInStep'
<1> SUFFICES ASSUME Types, Types', StoryInStep, StoryInStep', RingInStep, [ChatNext]_chatVars
             PROVE  RingInStep'
  OBVIOUS
<1>1. CASE history' = history /\ stage' = stage /\ told' = told
  BY <1>1 DEF RingInStep, RingHolds, RingMisses, Recorded
<1>2. ASSUME NEW r \in Requests, Arrive(r) PROVE RingInStep'
  <2>1. /\ history' = history /\ stage' = [stage EXCEPT ![r] = "starting"] /\ stage[r] = "idle"
        /\ told' = [told EXCEPT ![r] = Append(@, "Started")]
    BY <1>2 DEF Arrive, Broadcast
  <2>2. /\ \A q \in Requests \ {r} : stage'[q] = stage[q] /\ told'[q] = told[q]
        /\ stage'[r] = "starting"
    BY <2>1 DEF Types
  <2>3. QED
    BY <2>1, <2>2, RingUntouched
<1>3. ASSUME NEW r \in Requests, CallBackend(r) PROVE RingInStep'
  <2>1. /\ Store(LastSent(r)) /\ stage' = [stage EXCEPT ![r] = "serving"] /\ stage[r] = "starting"
        /\ told' = told
    BY <1>3 DEF CallBackend
  <2>2. (\A q \in Requests \ {r} : stage'[q] = stage[q]) /\ stage'[r] = "serving"
    BY <2>1 DEF Types
  <2>3. QED
    BY <2>1, <2>2, RingStored
<1>4. ASSUME NEW r \in Requests, Finalize(r) PROVE RingInStep'
  <2>1. /\ history' = history /\ stage' = [stage EXCEPT ![r] = "ending"] /\ stage[r] = "serving"
        /\ told' = [told EXCEPT ![r] = Append(@, Verdict(r))]
    BY <1>4 DEF Finalize, Broadcast
  <2>2. /\ \A q \in Requests \ {r} : stage'[q] = stage[q] /\ told'[q] = told[q]
        /\ stage'[r] = "ending"
    BY <2>1 DEF Types
  <2>3. QED
    BY <2>1, <2>2, RingUntouched
<1>5. ASSUME NEW r \in Requests, Respond(r) PROVE RingInStep'
  <2>1. /\ Store(LastSent(r)) /\ stage' = [stage EXCEPT ![r] = "over"] /\ stage[r] = "ending"
        /\ told' = told
    BY <1>5 DEF Respond
  <2>2. (\A q \in Requests \ {r} : stage'[q] = stage[q]) /\ stage'[r] = "over"
    BY <2>1 DEF Types
  <2>3. QED
    BY <2>1, <2>2, RingStored
<1>6. ASSUME NEW r \in Requests, Disconnect(r) PROVE RingInStep'
  <2>1. /\ history' = history /\ told' = told /\ stage[r] \in {"starting", "serving", "ending"}
        /\ stage' = [stage EXCEPT ![r] = IF @ = "starting" /\ r \in Streams THEN "leaked" ELSE "gone"]
    BY <1>6 DEF Disconnect
  <2>2. /\ \A q \in Requests \ {r} : stage'[q] = stage[q] /\ told'[q] = told[q]
        /\ stage[r] = "starting" => stage'[r] \in {"gone", "leaked"}
        /\ stage[r] # "starting" => stage'[r] = "gone"
    BY <2>1 DEF Types
  <2>3. QED
    BY <2>1, <2>2, RingUntouched
<1>7. QED
  BY <1>1, <1>2, <1>3, <1>4, <1>5, <1>6 DEF ChatNext, Handle, CallEnds, chatVars
-----------------------------------------------------------------------------
\* Nothing has happened at first.
LEMMA ChatStart == ChatInit => ChatInv
<1> SUFFICES ASSUME ChatInit PROVE ChatInv
  OBVIOUS
<1>1. /\ <<>> \in Seq(Kinds) /\ <<>> \in Seq([req : Requests, kind : Kinds])
      /\ Len(<<>>) = 0 /\ DOMAIN <<>> = {}
  BY EmptySeq
<1>2. Types
  BY <1>1 DEF ChatInit, Types
<1>3. StoryInStep
  BY <1>1 DEF ChatInit, StoryInStep
<1>4. CountersBalanced
  <2>1. ASSUME NEW m \in Ids PROVE InProgress(m) = {} /\ Leaked(m) = {}
    BY DEF ChatInit, InProgress, Leaked
  <2>2. ASSUME NEW m \in Ids PROVE inFlight[m] = Cardinality(InProgress(m)) + Cardinality(Leaked(m))
    <3>1. Cardinality(InProgress(m)) = 0 /\ Cardinality(Leaked(m)) = 0
      BY <2>1, FS_EmptySet
    <3>2. inFlight[m] = 0
      BY DEF ChatInit
    <3>3. QED
      BY <3>1, <3>2
  <2>3. QED
    BY <2>2 DEF CountersBalanced, Leaked
<1>5. RingInStep
  BY <1>1, ChatAssumption DEF ChatInit, RingInStep, RingHolds, RingMisses
<1>6. QED
  BY <1>2, <1>3, <1>4, <1>5 DEF ChatInv

\* The invariant is inductive.
THEOREM ChatInductive == ChatSpec => []ChatInv
<1>1. ChatInit => ChatInv
  BY ChatStart
<1>2. ChatInv /\ [ChatNext]_chatVars => ChatInv'
  BY TypesStep, StoryStep, CountStep, RingStep DEF ChatInv, RingInStep
<1>3. QED
  BY <1>1, <1>2, PTL DEF ChatSpec

\* The in-flight counters are exact, but for streams left too early, for every
\* number of requests and ids.
THEOREM CountersAreExact == ChatSpec => []CountersBalanced
<1>1. ChatInv => CountersBalanced
  BY DEF ChatInv
<1>2. QED
  BY <1>1, ChatInductive, PTL

\* Subscribers are told of each request its beginning and then at most one end,
\* the right one.
THEOREM StoriesAreWhole == ChatSpec => []OneStoryEach
<1>1. ChatInv => OneStoryEach
  BY StoryIsWhole DEF ChatInv
<1>2. QED
  BY <1>1, ChatInductive, PTL

\* The ring, however small or large, says what the subscribers were told.
THEOREM RingIsHonest == ChatSpec => []RingFollowsFeed
<1>1. ChatInv => RingFollowsFeed
  BY RingIsRight DEF ChatInv
<1>2. QED
  BY <1>1, ChatInductive, PTL

\* A command that follows the log does not disturb it: what the server does beside
\* it is what it does alone, so the three hold then as well.
THEOREM FollowingIsHarmless ==
  FollowSpec => ChatSpec /\ [](CountersBalanced /\ OneStoryEach /\ RingFollowsFeed)
<1>1. FollowInit => ChatInit
  BY DEF FollowInit
<1>2. [FollowNext]_<<chatVars, followVars>> => [ChatNext]_chatVars
  BY DEF FollowNext, Serve, List, Subscribe, Receive, Stop, chatVars
<1>3. FollowSpec => ChatSpec
  BY <1>1, <1>2, PTL DEF FollowSpec, ChatSpec
<1>4. QED
  BY <1>3, CountersAreExact, StoriesAreWhole, RingIsHonest, PTL
-----------------------------------------------------------------------------
(* What a command that follows the log has shown.                          *)

Events == [req : Requests, kind : Kinds]
Lines == Events \cup [missed : Nat \ {0}]

\* Where a sequence of lines has events, which these are, and what its gaps stand
\* for, one unit for each event missed.
Reporting(s) == {i \in DOMAIN s : ~IsGap(s[i])}
Reported(s) == {s[i] : i \in Reporting(s)}
GapUnits(s) == UNION {{i} \X (1 .. s[i].missed) : i \in {i \in DOMAIN s : IsGap(s[i])}}

\* Nothing is told twice, and of a request the beginning first.
InOrder(s) ==
  \A i, j \in Reporting(s) :
    i < j => s[i] # s[j] /\ (s[i].req = s[j].req => s[j].kind # "Started")

FollowTypes ==
  /\ phase \in {"asking", "listed", "following", "over"}
  /\ printed \in Seq(Lines)
  /\ pending \in Seq(Events)
  /\ missed \in Nat
  /\ IsFiniteSet(GapUnits(printed))

\* Whatever was sent after the command subscribed is shown or counted as missed.
AllAccounted ==
  LET unseen == Sent \ (before \cup Reported(Shown)) IN
  /\ before \subseteq Sent
  /\ \A i \in DOMAIN pending : pending[i] \notin before
  /\ IsFiniteSet(unseen)
  /\ Cardinality(unseen) = missed + Cardinality(GapUnits(printed))

FollowInv ==
  /\ FollowTypes
  /\ InOrder(Shown)
  /\ Reported(Shown) \subseteq Sent
  /\ phase = "following" => AllAccounted
  /\ phase # "following" => pending = <<>> /\ missed = 0 /\ GapUnits(printed) = {}
  /\ phase = "asking" => printed = <<>>

\* An event and a gap are told apart by their fields.
LEMMA EventsAreNoGaps == \A e \in Events : e \in Lines /\ ~IsGap(e)
<1>1. TAKE e \in Events
<1>2. DOMAIN e = {"req", "kind"}
  BY DEF Events
<1>3. QED
  BY <1>2 DEF IsGap, Lines

LEMMA GapsAreGaps ==
  \A n \in Nat \ {0} : [missed |-> n] \in Lines /\ IsGap([missed |-> n]) /\ [missed |-> n].missed = n
<1>1. TAKE n \in Nat \ {0}
<1>2. DOMAIN [missed |-> n] = {"missed"}
  OBVIOUS
<1>3. QED
  BY <1>2 DEF IsGap, Lines

\* What is sent is what some handler told.
LEMMA SentIsTold ==
  ASSUME Types
  PROVE  /\ Sent \subseteq Events
         /\ \A r \in Requests : \A i \in 1 .. Len(told[r]) : Event(r, told[r][i]) \in Sent
         /\ \A e \in Sent : \E i \in 1 .. Len(told[e.req]) : e = Event(e.req, told[e.req][i])
<1>1. \A r \in Requests : DOMAIN told[r] = 1 .. Len(told[r]) /\ \A i \in 1 .. Len(told[r]) : told[r][i] \in Kinds
  <2>1. TAKE r \in Requests
  <2>2. told[r] \in Seq(Kinds)
    BY DEF Types
  <2>3. QED
    BY <2>2, LenProperties, ElementOfSeq
<1>2. \A r \in Requests : Range(told[r]) = {told[r][i] : i \in 1 .. Len(told[r])}
  BY <1>1 DEF Range
<1>3. \A r \in Requests, k \in Kinds : Event(r, k) \in Events /\ Event(r, k).req = r /\ Event(r, k).kind = k
  BY DEF Event, Events
<1>4. \A r \in Requests : \A i \in 1 .. Len(told[r]) : Event(r, told[r][i]) \in Sent
  BY <1>2 DEF Sent
<1>5. ASSUME NEW e \in Sent
      PROVE  e \in Events /\ \E i \in 1 .. Len(told[e.req]) : e = Event(e.req, told[e.req][i])
  <2>1. PICK r \in Requests : e \in {Event(r, k) : k \in Range(told[r])}
    BY DEF Sent
  <2>2. PICK i \in 1 .. Len(told[r]) : e = Event(r, told[r][i])
    BY <1>2, <2>1
  <2>3. e.req = r /\ e \in Events
    BY <1>1, <1>3, <2>2
  <2>4. QED
    BY <2>2, <2>3
<1>6. QED
  BY <1>4, <1>5

\* Lines picked from others in their order are in order.
LEMMA OrderKept ==
  ASSUME NEW s, NEW t, InOrder(s), NEW f,
         \A i \in Reporting(t) : f[i] \in Reporting(s) /\ t[i] = s[f[i]],
         \A i, j \in Reporting(t) : i < j => f[i] < f[j]
  PROVE  InOrder(t) /\ Reported(t) \subseteq Reported(s)
<1>1. InOrder(t)
  <2>1. SUFFICES ASSUME NEW i \in Reporting(t), NEW j \in Reporting(t), i < j
                 PROVE  t[i] # t[j] /\ (t[i].req = t[j].req => t[j].kind # "Started")
    BY DEF InOrder
  <2>2. f[i] \in Reporting(s) /\ f[j] \in Reporting(s) /\ f[i] < f[j]
    BY <2>1
  <2>3. s[f[i]] # s[f[j]] /\ (s[f[i]].req = s[f[j]].req => s[f[j]].kind # "Started")
    BY <2>2 DEF InOrder
  <2>4. t[i] = s[f[i]] /\ t[j] = s[f[j]]
    OBVIOUS
  <2>5. QED
    BY <2>3, <2>4
<1>2. Reported(t) \subseteq Reported(s)
  BY DEF Reported
<1>3. QED
  BY <1>1, <1>2

\* One more event is in order, if it is new and no late beginning.
LEMMA OrderMore ==
  ASSUME NEW s \in Seq(Lines), NEW e \in Events, InOrder(s), e \notin Reported(s),
         e.kind = "Started" => \A x \in Reported(s) : x.req # e.req
  PROVE  /\ InOrder(Append(s, e))
         /\ Reported(Append(s, e)) = Reported(s) \cup {e}
<1> DEFINE t == Append(s, e)
           n == Len(s)
<1>1. e \in Lines /\ ~IsGap(e)
  BY EventsAreNoGaps
<1>2. /\ n \in Nat /\ DOMAIN s = 1 .. n /\ t \in Seq(Lines) /\ Len(t) = n + 1
      /\ (\A i \in 1 .. n : t[i] = s[i]) /\ t[n + 1] = e
  BY <1>1, AppendProperties, LenProperties
<1>3. DOMAIN t = 1 .. n + 1
  BY <1>2, LenProperties
<1> HIDE DEF t, n
<1>4. Reporting(t) = Reporting(s) \cup {n + 1}
  BY <1>1, <1>2, <1>3 DEF Reporting
<1>5. Reporting(s) \subseteq 1 .. n
  BY <1>2 DEF Reporting
<1>6. InOrder(t)
  <2>1. SUFFICES ASSUME NEW i \in Reporting(t), NEW j \in Reporting(t), i < j
                 PROVE  t[i] # t[j] /\ (t[i].req = t[j].req => t[j].kind # "Started")
    BY DEF InOrder
  <2>2. i \in Reporting(s) /\ t[i] = s[i]
    BY <1>2, <1>4, <1>5, <2>1
  <2>3. CASE j \in Reporting(s)
    <3>1. t[j] = s[j]
      BY <1>2, <1>5, <2>3
    <3>2. QED
      BY <2>1, <2>2, <2>3, <3>1 DEF InOrder
  <2>4. CASE j = n + 1
    <3>1. t[j] = e /\ s[i] \in Reported(s)
      BY <1>2, <2>2, <2>4 DEF Reported
    <3>2. QED
      BY <2>2, <3>1
  <2>5. QED
    BY <1>4, <2>3, <2>4
<1>7. Reported(t) = Reported(s) \cup {e}
  <2>1. \A i \in Reporting(s) : t[i] = s[i]
    BY <1>2, <1>5
  <2>2. QED
    BY <1>2, <1>4, <2>1 DEF Reported
<1>8. QED
  BY <1>6, <1>7 DEF t

\* The lines of two sequences after one another.
LEMMA LinesAfter ==
  ASSUME NEW p \in Seq(Lines), NEW q \in Seq(Lines)
  PROVE  /\ p \o q \in Seq(Lines)
         /\ DOMAIN (p \o q) = 1 .. Len(p) + Len(q)
         /\ Len(p) \in Nat /\ DOMAIN p = 1 .. Len(p)
         /\ Len(q) \in Nat /\ DOMAIN q = 1 .. Len(q)
         /\ \A i \in 1 .. Len(p) : (p \o q)[i] = p[i]
         /\ \A i \in 1 .. Len(q) : (p \o q)[Len(p) + i] = q[i]
<1>1. Len(p) \in Nat /\ DOMAIN p = 1 .. Len(p) /\ Len(q) \in Nat /\ DOMAIN q = 1 .. Len(q)
  BY LenProperties
<1>2. /\ p \o q \in Seq(Lines)
      /\ Len(p \o q) = Len(p) + Len(q)
      /\ \A i \in 1 .. Len(p) + Len(q) : (p \o q)[i] = IF i <= Len(p) THEN p[i] ELSE q[i - Len(p)]
  BY ConcatProperties
<1>3. DOMAIN (p \o q) = 1 .. Len(p) + Len(q)
  BY <1>2, LenProperties
<1>4. ASSUME NEW i \in 1 .. Len(p) PROVE (p \o q)[i] = p[i]
  BY <1>1, <1>2
<1>5. ASSUME NEW i \in 1 .. Len(q) PROVE (p \o q)[Len(p) + i] = q[i]
  <2>1. Len(p) + i \in 1 .. Len(p) + Len(q) /\ ~(Len(p) + i <= Len(p)) /\ (Len(p) + i) - Len(p) = i
    BY <1>1
  <2>2. QED
    BY <1>2, <2>1
<1>6. QED
  BY <1>1, <1>2, <1>3, <1>4, <1>5

\* Receiving an event moves it from what is pending to what is printed.
LEMMA ReceivedInPlace ==
  ASSUME NEW p \in Seq(Lines), NEW q \in Seq(Lines), q # <<>>
  PROVE  Append(p, Head(q)) \o Tail(q) = p \o q
<1>1. /\ Head(q) \in Lines /\ Tail(q) \in Seq(Lines) /\ q = <<Head(q)>> \o Tail(q)
  BY HeadTailProperties, ConcatSimplifications
<1>2. Append(p, Head(q)) = p \o <<Head(q)>> /\ <<Head(q)>> \in Seq(Lines)
  BY <1>1, AppendIsConcat
<1>3. (p \o <<Head(q)>>) \o Tail(q) = p \o (<<Head(q)>> \o Tail(q))
  BY <1>1, <1>2, ConcatAssociative
<1>4. QED
  BY <1>1, <1>2, <1>3

\* A gap told among the lines changes none of the events.
LEMMA GapBetween ==
  ASSUME NEW p \in Seq(Lines), NEW q \in Seq(Lines), NEW g \in Lines, IsGap(g), InOrder(p \o q)
  PROVE  InOrder(Append(p, g) \o q) /\ Reported(Append(p, g) \o q) = Reported(p \o q)
<1> DEFINE s == p \o q
           n == Len(p)
           k == Len(q)
           t == Append(p, g) \o q
           f == [i \in 1 .. n + 1 + k |-> IF i <= n THEN i ELSE i - 1]
<1>1. /\ n \in Nat /\ k \in Nat /\ DOMAIN s = 1 .. n + k
      /\ \A i \in 1 .. n : s[i] = p[i]
      /\ \A i \in 1 .. k : s[n + i] = q[i]
  BY LinesAfter
<1>2. /\ Append(p, g) \in Seq(Lines) /\ Len(Append(p, g)) = n + 1
      /\ \A i \in 1 .. n : Append(p, g)[i] = p[i]
      /\ Append(p, g)[n + 1] = g
  BY AppendProperties
<1>3. /\ DOMAIN t = 1 .. (n + 1) + k
      /\ \A i \in 1 .. n + 1 : t[i] = Append(p, g)[i]
      /\ \A i \in 1 .. k : t[(n + 1) + i] = q[i]
  BY <1>2, LinesAfter
<1> HIDE DEF s, t, n, k
<1>4. t[n + 1] = g /\ \A i \in 1 .. n : t[i] = s[i]
  BY <1>1, <1>2, <1>3
<1>5. \A i \in 1 .. k : t[n + 1 + i] = s[n + i]
  BY <1>1, <1>3
<1>6. ASSUME NEW i \in Reporting(t)
      PROVE  i \in 1 .. n + 1 + k /\ i # n + 1 /\ f[i] \in Reporting(s) /\ t[i] = s[f[i]]
  <2>1. i \in 1 .. n + 1 + k /\ i # n + 1 /\ ~IsGap(t[i])
    BY <1>1, <1>3, <1>4 DEF Reporting
  <2>2. CASE i <= n
    <3>1. f[i] = i /\ i \in 1 .. n /\ i \in 1 .. n + k
      BY <1>1, <2>1, <2>2
    <3>2. QED
      BY <1>1, <1>4, <2>1, <3>1 DEF Reporting
  <2>3. CASE i > n + 1
    <3>1. f[i] = i - 1 /\ i - 1 \in 1 .. n + k /\ i - 1 - n \in 1 .. k
      BY <1>1, <2>1, <2>3
    <3>2. t[n + 1 + (i - 1 - n)] = s[n + (i - 1 - n)] /\ n + 1 + (i - 1 - n) = i /\ n + (i - 1 - n) = i - 1
      BY <1>1, <1>5, <2>1, <3>1
    <3>3. t[i] = s[i - 1]
      BY <3>2
    <3>4. QED
      BY <1>1, <2>1, <3>1, <3>3 DEF Reporting
  <2>4. QED
    BY <1>1, <2>1, <2>2, <2>3
<1>7. \A i, j \in Reporting(t) : i < j => f[i] < f[j]
  BY <1>1, <1>6
<1>8. InOrder(t) /\ Reported(t) \subseteq Reported(s)
  <2> HIDE DEF f
  <2>1. QED
    BY <1>6, <1>7, OrderKept DEF s
<1>9. Reported(s) \subseteq Reported(t)
  <2>1. SUFFICES ASSUME NEW i \in Reporting(s) PROVE s[i] \in Reported(t)
    BY DEF Reported
  <2>2. i \in 1 .. n + k /\ ~IsGap(s[i])
    BY <1>1 DEF Reporting
  <2>3. CASE i <= n
    <3>1. t[i] = s[i] /\ i \in DOMAIN t
      BY <1>1, <1>3, <1>4, <2>2, <2>3
    <3>2. QED
      BY <2>2, <3>1 DEF Reported, Reporting
  <2>4. CASE i > n
    <3>1. i - n \in 1 .. k /\ n + 1 + (i - n) = i + 1 /\ n + (i - n) = i /\ i + 1 \in DOMAIN t
      BY <1>1, <1>3, <2>2, <2>4
    <3>2. t[i + 1] = s[i]
      BY <1>5, <3>1
    <3>3. QED
      BY <2>2, <3>1, <3>2 DEF Reported, Reporting
  <2>5. QED
    BY <1>1, <2>2, <2>3, <2>4
<1>10. QED
  BY <1>8, <1>9 DEF s, t

\* An event lost from what is pending is lost from what is shown, and nothing else.
LEMMA LostBetween ==
  ASSUME NEW p \in Seq(Lines), NEW q \in Seq(Events), q # <<>>, InOrder(p \o q)
  PROVE  /\ InOrder(p \o Tail(q))
         /\ Reported(p \o Tail(q)) = Reported(p \o q) \ {Head(q)}
         /\ Head(q) \in Reported(p \o q)
<1> DEFINE s == p \o q
           n == Len(p)
           k == Len(q)
           t == p \o Tail(q)
           f == [i \in 1 .. n + k - 1 |-> IF i <= n THEN i ELSE i + 1]
<1>1. q \in Seq(Lines) /\ q[1] = Head(q) /\ ~IsGap(Head(q)) /\ k > 0
  <2>1. Events \subseteq Lines /\ q \in Seq(Lines)
    BY EventsAreNoGaps, SeqMonotonic
  <2>2. Head(q) = q[1] /\ Head(q) \in Events /\ k > 0
    BY HeadTailProperties, LenProperties
  <2>3. QED
    BY <2>1, <2>2, EventsAreNoGaps
<1>2. /\ n \in Nat /\ k \in Nat /\ DOMAIN s = 1 .. n + k
      /\ \A i \in 1 .. n : s[i] = p[i]
      /\ \A i \in 1 .. k : s[n + i] = q[i]
  BY <1>1, LinesAfter
<1>3. /\ Tail(q) \in Seq(Lines) /\ Len(Tail(q)) = k - 1
      /\ \A i \in 1 .. k - 1 : Tail(q)[i] = q[i + 1]
  BY <1>1, HeadTailProperties
<1>4. /\ DOMAIN t = 1 .. n + (k - 1)
      /\ \A i \in 1 .. n : t[i] = p[i]
      /\ \A i \in 1 .. k - 1 : t[n + i] = Tail(q)[i]
  BY <1>3, LinesAfter
<1> DEFINE h == Head(q)
<1>5. s[n + 1] = h /\ n + 1 \in Reporting(s)
  BY <1>1, <1>2 DEF Reporting
<1> HIDE DEF s, t, n, k, h
<1>6. \A i \in 1 .. n : t[i] = s[i]
  BY <1>2, <1>4
<1>7. \A i \in 1 .. k - 1 : t[n + i] = s[n + 1 + i]
  <2>1. TAKE i \in 1 .. k - 1
  <2>2. i + 1 \in 1 .. k /\ n + (i + 1) = n + 1 + i
    BY <1>2
  <2>3. s[n + (i + 1)] = q[i + 1]
    BY <1>2, <2>2
  <2>4. QED
    BY <1>3, <1>4, <2>2, <2>3
<1>8. ASSUME NEW i \in Reporting(t)
      PROVE  i \in 1 .. n + k - 1 /\ f[i] # n + 1 /\ f[i] \in Reporting(s) /\ t[i] = s[f[i]]
  <2>1. i \in 1 .. n + k - 1 /\ ~IsGap(t[i])
    BY <1>2, <1>4 DEF Reporting
  <2>2. CASE i <= n
    <3>1. f[i] = i /\ i \in 1 .. n /\ i \in 1 .. n + k
      BY <1>2, <2>1, <2>2
    <3>2. QED
      BY <1>2, <1>6, <2>1, <3>1 DEF Reporting
  <2>3. CASE i > n
    <3>1. f[i] = i + 1 /\ i + 1 \in 1 .. n + k /\ i - n \in 1 .. k - 1 /\ n + (i - n) = i /\ n + 1 + (i - n) = i + 1
      BY <1>2, <2>1, <2>3
    <3>2. t[i] = s[i + 1]
      BY <1>7, <3>1
    <3>3. QED
      BY <1>2, <2>1, <2>3, <3>1, <3>2 DEF Reporting
  <2>4. QED
    BY <1>2, <2>1, <2>2, <2>3
<1>9. \A i, j \in Reporting(t) : i < j => f[i] < f[j]
  BY <1>2, <1>8
<1>10. InOrder(t) /\ Reported(t) \subseteq Reported(s)
  <2> HIDE DEF f
  <2>1. QED
    BY <1>8, <1>9, OrderKept DEF s
<1>11. h \notin Reported(t)
  <2>1. SUFFICES ASSUME NEW i \in Reporting(t) PROVE t[i] # h
    BY DEF Reported
  <2>2. f[i] \in Reporting(s) /\ f[i] # n + 1 /\ t[i] = s[f[i]] /\ f[i] \in Nat
    BY <1>2, <1>8
  <2> HIDE DEF f
  <2>3. s[f[i]] # s[n + 1]
    <3>1. InOrder(s)
      BY DEF s
    <3>2. f[i] < n + 1 \/ n + 1 < f[i]
      BY <1>2, <2>2
    <3>3. QED
      BY <1>5, <2>2, <3>1, <3>2 DEF InOrder
  <2>4. QED
    BY <1>5, <2>2, <2>3
<1>12. ASSUME NEW i \in Reporting(s), i # n + 1 PROVE s[i] \in Reported(t)
  <2>1. i \in 1 .. n + k /\ ~IsGap(s[i])
    BY <1>2 DEF Reporting
  <2>2. CASE i <= n
    <3>1. t[i] = s[i] /\ i \in DOMAIN t
      BY <1>1, <1>2, <1>4, <1>6, <2>1, <2>2 DEF k
    <3>2. QED
      BY <2>1, <3>1 DEF Reported, Reporting
  <2>3. CASE i > n + 1
    <3>1. i - 1 - n \in 1 .. k - 1 /\ n + (i - 1 - n) = i - 1 /\ n + 1 + (i - 1 - n) = i /\ i - 1 \in DOMAIN t
      BY <1>2, <1>4, <2>1, <2>3
    <3>2. t[i - 1] = s[i]
      BY <1>7, <3>1
    <3>3. QED
      BY <2>1, <3>1, <3>2 DEF Reported, Reporting
  <2>4. QED
    BY <1>2, <1>12, <2>1, <2>2, <2>3
<1>13. h \in Reported(s)
  BY <1>5 DEF Reported
<1>14. Reported(s) \subseteq Reported(t) \cup {h}
  BY <1>5, <1>12 DEF Reported
<1>15. QED
  BY <1>10, <1>11, <1>13, <1>14 DEF s, t, h

\* What gaps stand for grows by what one more gap says, and by no event.
LEMMA GapsCounted ==
  ASSUME NEW p \in Seq(Lines), NEW l \in Lines, IsFiniteSet(GapUnits(p))
  PROVE  /\ ~IsGap(l) => GapUnits(Append(p, l)) = GapUnits(p)
         /\ IsGap(l) /\ l.missed \in Nat =>
              /\ IsFiniteSet(GapUnits(Append(p, l)))
              /\ Cardinality(GapUnits(p)) \in Nat
              /\ Cardinality(GapUnits(Append(p, l))) = Cardinality(GapUnits(p)) + l.missed
<1> DEFINE n == Len(p)
           t == Append(p, l)
           gaps == {i \in DOMAIN p : IsGap(p[i])}
           more == {i \in DOMAIN t : IsGap(t[i])}
           block == {n + 1} \X (1 .. l.missed)
<1>1. /\ n \in Nat /\ DOMAIN p = 1 .. n /\ t \in Seq(Lines) /\ Len(t) = n + 1
      /\ (\A i \in 1 .. n : t[i] = p[i]) /\ t[n + 1] = l
  BY AppendProperties, LenProperties
<1>2. DOMAIN t = 1 .. n + 1
  BY <1>1, LenProperties
<1> HIDE DEF t, n
<1>3. gaps \subseteq 1 .. n /\ \A i \in gaps : t[i] = p[i]
  BY <1>1
<1>4. GapUnits(p) = UNION {{i} \X (1 .. p[i].missed) : i \in gaps}
  BY DEF GapUnits
<1>5. GapUnits(t) = UNION {{i} \X (1 .. t[i].missed) : i \in more}
  BY DEF GapUnits
<1>6. ASSUME ~IsGap(l) PROVE GapUnits(t) = GapUnits(p)
  <2>1. more = gaps
    BY <1>1, <1>2, <1>6
  <2> HIDE DEF more, gaps
  <2>2. {{i} \X (1 .. t[i].missed) : i \in gaps} = {{i} \X (1 .. p[i].missed) : i \in gaps}
    BY <1>3
  <2>3. QED
    BY <1>4, <1>5, <2>1, <2>2
<1>7. ASSUME IsGap(l), l.missed \in Nat
      PROVE  /\ IsFiniteSet(GapUnits(t))
             /\ Cardinality(GapUnits(p)) \in Nat
             /\ Cardinality(GapUnits(t)) = Cardinality(GapUnits(p)) + l.missed
  <2>1. more = gaps \cup {n + 1}
    BY <1>1, <1>2, <1>7
  <2>2. n + 1 \notin gaps
    BY <1>1, <1>3
  <2> HIDE DEF more, gaps
  <2>3. GapUnits(t) = GapUnits(p) \cup block
    <3> DEFINE part(i) == {i} \X (1 .. p[i].missed)
               now(i) == {i} \X (1 .. t[i].missed)
    <3>1. \A i \in gaps : now(i) = part(i)
      BY <1>3
    <3>2. now(n + 1) = block
      BY <1>1
    <3>3. GapUnits(p) = UNION {part(i) : i \in gaps} /\ GapUnits(t) = UNION {now(i) : i \in more}
      BY <1>4, <1>5
    <3> HIDE DEF part, now, block
    <3>4. QED
      BY <2>1, <3>1, <3>2, <3>3
  <2>4. GapUnits(p) \cap block = {}
    <3>1. SUFFICES ASSUME NEW i \in gaps, NEW x \in {i} \X (1 .. p[i].missed), x \in block PROVE FALSE
      BY <1>4
    <3>2. x[1] = i /\ x[1] = n + 1
      BY <3>1
    <3>3. QED
      BY <2>2, <3>2
  <2>5. IsFiniteSet(block) /\ Cardinality(block) = l.missed
    <3> DEFINE m == l.missed
    <3>1. m \in Nat
      BY <1>7
    <3> HIDE DEF m
    <3>2. IsFiniteSet(1 .. m) /\ Cardinality(1 .. m) = m
      BY <3>1, FS_Interval
    <3>3. IsFiniteSet({n + 1}) /\ Cardinality({n + 1}) = 1
      BY FS_Singleton
    <3>4. IsFiniteSet({n + 1} \X (1 .. m)) /\ Cardinality({n + 1} \X (1 .. m)) = Cardinality({n + 1}) * Cardinality(1 .. m)
      BY <3>2, <3>3, FS_Product
    <3>5. QED
      BY <3>1, <3>2, <3>3, <3>4 DEF m
  <2> HIDE DEF block
  <2>6. /\ IsFiniteSet(GapUnits(p) \cup block)
        /\ Cardinality(GapUnits(p) \cup block) = Cardinality(GapUnits(p)) + Cardinality(block) - Cardinality(GapUnits(p) \cap block)
    BY <2>5, FS_Union
  <2>7. Cardinality(GapUnits(p) \cap block) = 0
    BY <2>4, FS_EmptySet
  <2>8. Cardinality(GapUnits(p)) \in Nat
    BY FS_CardinalityType
  <2>9. QED
    BY <1>7, <2>3, <2>5, <2>6, <2>7, <2>8
<1>8. QED
  BY <1>6, <1>7 DEF t

\* Events alone are no gaps.
LEMMA NoGapsYet == \A p \in Seq(Events) : p \in Seq(Lines) /\ GapUnits(p) = {} /\ Reporting(p) = DOMAIN p
<1>1. TAKE p \in Seq(Events)
<1>2. \A i \in DOMAIN p : p[i] \in Events
  BY LenProperties, ElementOfSeq
<1>3. \A i \in DOMAIN p : ~IsGap(p[i])
  BY <1>2, EventsAreNoGaps
<1>4. p \in Seq(Lines)
  BY EventsAreNoGaps, SeqMonotonic
<1>5. QED
  BY <1>3, <1>4 DEF GapUnits, Reporting

\* A step of the handlers tells nothing, or one thing that was not told before and
\* is a beginning only where nothing was.
LEMMA OneMoreSent ==
  ASSUME Types, StoryInStep, ChatNext, told' # told
  PROVE  \E r \in Requests : \E e \in Events :
           /\ \A q \in Requests : told'[q] # told[q] <=> q = r
           /\ e = Event(r, Last(told'[r]))
           /\ e \notin Sent
           /\ Sent' = Sent \cup {e}
           /\ e.kind = "Started" => \A x \in Sent : x.req # e.req
<1>1. PICK r \in Requests : Handle(r) \/ Disconnect(r)
  BY DEF ChatNext
<1>2. PICK k \in Kinds :
        /\ Broadcast(r, k)
        /\ \A i \in 1 .. Len(told[r]) : told[r][i] # k
        /\ k = "Started" => Len(told[r]) = 0
  <2>1. CASE Arrive(r)
    <3>1. Broadcast(r, "Started") /\ "Started" \in Kinds /\ Len(told[r]) = 0
      BY <2>1 DEF Arrive, StoryInStep, Kinds
    <3>2. QED
      BY <3>1
  <2>2. CASE Finalize(r)
    <3>1. Broadcast(r, Verdict(r)) /\ stage[r] = "serving"
      BY <2>2 DEF Finalize
    <3>2. Verdict(r) \in Terminal /\ Verdict(r) \in Kinds /\ Verdict(r) # "Started"
      BY VerdictIsTerminal DEF Kinds, Terminal
    <3>3. Len(told[r]) = 1 /\ told[r][1] = "Started"
      BY <3>1 DEF StoryInStep
    <3>4. QED
      BY <3>1, <3>2, <3>3
  <2>3. CASE CallBackend(r) \/ CallEnds(r) \/ Respond(r) \/ Disconnect(r)
    BY <2>3 DEF CallBackend, CallEnds, Respond, Disconnect
  <2>4. QED
    BY <1>1, <2>1, <2>2, <2>3 DEF Handle
<1> DEFINE e == Event(r, k)
           n == Len(told[r])
<1>3. e \in Events /\ e.req = r /\ e.kind = k
  BY DEF Event, Events
<1>4. /\ told' \in [Requests -> Seq(Kinds)] /\ n \in Nat
      /\ Len(told'[r]) = n + 1
      /\ told'[r][n + 1] = k
      /\ \A i \in 1 .. n : told'[r][i] = told[r][i]
      /\ \A q \in Requests \ {r} : told'[q] = told[q]
  BY <1>2, BroadcastProperties, LenProperties DEF Types
<1>5. Last(told'[r]) = k
  BY <1>4 DEF Last
<1>6. \A q \in Requests : told'[q] # told[q] <=> q = r
  <2>1. told'[r] # told[r]
    BY <1>4
  <2>2. QED
    BY <1>4, <2>1
<1>7. /\ Sent \subseteq Events
      /\ \A x \in Sent : \E i \in 1 .. Len(told[x.req]) : x = Event(x.req, told[x.req][i])
      /\ \A q \in Requests : \A i \in 1 .. Len(told[q]) : Event(q, told[q][i]) \in Sent
  BY SentIsTold
<1>8. \A q \in Requests, a, b \in Kinds : Event(q, a) = Event(q, b) => a = b
  BY DEF Event
<1>9. e \notin Sent
  <2>1. SUFFICES ASSUME e \in Sent PROVE FALSE
    OBVIOUS
  <2>2. PICK i \in 1 .. n : e = Event(r, told[r][i])
    BY <1>3, <1>7, <2>1
  <2>3. told[r][i] \in Kinds
    <3>1. told[r] \in Seq(Kinds)
      BY DEF Types
    <3>2. QED
      BY <3>1, ElementOfSeq
  <2>4. k = told[r][i]
    BY <1>8, <2>2, <2>3
  <2>5. QED
    BY <1>2, <2>4
<1>10. k = "Started" => \A x \in Sent : x.req # r
  <2>1. SUFFICES ASSUME k = "Started", NEW x \in Sent, x.req = r PROVE FALSE
    OBVIOUS
  <2>2. PICK i \in 1 .. n : x = Event(r, told[r][i])
    BY <1>7, <2>1
  <2>3. QED
    BY <1>2, <2>1, <2>2
<1>11. Sent' = Sent \cup {e}
  <2>1. \A q \in Requests : /\ DOMAIN told[q] = 1 .. Len(told[q])
                            /\ DOMAIN told'[q] = 1 .. Len(told'[q])
    <3>1. TAKE q \in Requests
    <3>2. told[q] \in Seq(Kinds) /\ told'[q] \in Seq(Kinds)
      BY <1>4 DEF Types
    <3>3. QED
      BY <3>2, LenProperties
  <2>2. \A q \in Requests \ {r} : Range(told'[q]) = Range(told[q])
    BY <1>4
  <2>3. Range(told'[r]) = Range(told[r]) \cup {k}
    <3>1. DOMAIN told'[r] = DOMAIN told[r] \cup {n + 1} /\ DOMAIN told[r] = 1 .. n
      BY <1>4, <2>1
    <3>2. QED
      BY <1>4, <3>1 DEF Range
  <2> DEFINE was(q) == {Event(q, a) : a \in Range(told[q])}
             is(q) == {Event(q, a) : a \in Range(told'[q])}
  <2>4. is(r) = was(r) \cup {e} /\ \A q \in Requests \ {r} : is(q) = was(q)
    BY <2>2, <2>3
  <2>5. Sent = UNION {was(q) : q \in Requests} /\ Sent' = UNION {is(q) : q \in Requests}
    BY DEF Sent
  <2> HIDE DEF was, is, e
  <2>6. QED
    BY <2>4, <2>5
<1>12. QED
  BY <1>3, <1>5, <1>6, <1>9, <1>10, <1>11

\* The tail of the ring is in order, and was sent.
LEMMA TailInOrder ==
  ASSUME Types, RingHolds, List
  PROVE  /\ printed' \in Seq(Events)
         /\ InOrder(printed')
         /\ Reported(printed') \subseteq Sent
<1> DEFINE n == Len(history)
           ends == {1, n - TailLength + 1}
           from == Max(ends)
<1>1. n \in Nat /\ history \in Seq(Events) /\ DOMAIN history = 1 .. n
  BY LenProperties DEF Types, Events
<1>2. from \in Int /\ from >= 1
  <2>1. n - TailLength + 1 \in Int
    BY <1>1, FollowAssumption
  <2>2. \E x \in ends : \A y \in ends : x >= y
    <3>1. CASE n - TailLength + 1 <= 1
      BY <2>1, <3>1
    <3>2. CASE n - TailLength + 1 > 1
      BY <2>1, <3>2
    <3>3. QED
      BY <2>1, <3>1, <3>2
  <2>3. from \in ends /\ \A y \in ends : from >= y
    <3> HIDE DEF ends
    <3>1. QED
      BY <2>2 DEF Max
  <2>4. QED
    BY <2>1, <2>3
<1>3. printed' = SubSeq(history, from, n)
  BY DEF List
<1> HIDE DEF from, n, ends
<1>4. \A i \in from .. n : history[i] \in Events
  BY <1>1, <1>2, ElementOfSeq DEF n
<1>5. /\ printed' \in Seq(Events)
      /\ Len(printed') = IF from <= n THEN n - from + 1 ELSE 0
      /\ \A i \in 1 .. n - from + 1 : printed'[i] = history[from + i - 1]
  BY <1>1, <1>2, <1>3, <1>4, SubSeqProperties
<1>6. Reporting(printed') = DOMAIN printed' /\ DOMAIN printed' = 1 .. Len(printed')
  BY <1>5, NoGapsYet, LenProperties
<1>7. ASSUME NEW i \in Reporting(printed')
      PROVE  i \in Int /\ from + i - 1 \in 1 .. n /\ printed'[i] = history[from + i - 1]
  <2>1. i \in 1 .. n - from + 1 /\ i \in Int
    BY <1>1, <1>2, <1>5, <1>6
  <2>2. from + i - 1 \in 1 .. n
    BY <1>1, <1>2, <2>1
  <2>3. QED
    BY <1>5, <2>1, <2>2
<1>8. InOrder(printed')
  <2>1. SUFFICES ASSUME NEW i \in Reporting(printed'), NEW j \in Reporting(printed'), i < j
                 PROVE  /\ printed'[i] # printed'[j]
                        /\ printed'[i].req = printed'[j].req => printed'[j].kind # "Started"
    BY DEF InOrder
  <2>2. from + i - 1 \in 1 .. n /\ from + j - 1 \in 1 .. n /\ from + i - 1 < from + j - 1
    BY <1>2, <1>7, <2>1
  <2>3. printed'[i] = history[from + i - 1] /\ printed'[j] = history[from + j - 1]
    BY <1>7
  <2>4. history[from + i - 1].req = history[from + j - 1].req =>
          history[from + i - 1].kind = "Started" /\ history[from + j - 1].kind # "Started"
    BY <1>1, <2>2 DEF RingHolds
  <2>5. QED
    BY <2>3, <2>4
<1>9. Reported(printed') \subseteq Sent
  <2>1. SUFFICES ASSUME NEW i \in Reporting(printed') PROVE printed'[i] \in Sent
    BY DEF Reported
  <2>2. PICK k \in 1 .. n : printed'[i] = history[k]
    BY <1>7
  <2>3. history[k] \in Events /\ history[k] = Event(history[k].req, history[k].kind)
    <3>1. history[k] \in Events
      BY <1>1, ElementOfSeq DEF n
    <3>2. QED
      BY <3>1 DEF Events, Event
  <2>4. history[k].req \in Requests /\ history[k].kind \in Range(told[history[k].req])
    BY <1>1, <2>3 DEF RingHolds, Events
  <2>5. QED
    BY <2>2, <2>3, <2>4 DEF Sent
<1>10. QED
  BY <1>5, <1>8, <1>9

\* Subscribing: all that was sent is before.
LEMMA SubscribeStep ==
  ASSUME Types, FollowInv, Subscribe
  PROVE  FollowInv'
<1>1. /\ phase = "listed" /\ phase' = "following" /\ before' = Sent /\ Sent' = Sent
      /\ printed' = printed /\ pending' = pending /\ missed' = missed
  BY DEF Subscribe, chatVars, Sent
<1>2. pending = <<>> /\ missed = 0 /\ GapUnits(printed) = {}
  BY <1>1 DEF FollowInv
<1>3. FollowTypes'
  BY <1>1 DEF FollowInv, FollowTypes
<1>4. Shown' = Shown
  BY <1>1 DEF Shown
<1>5. AllAccounted'
  <2>1. Sent' \ (before' \cup Reported(Shown')) = {}
    BY <1>1
  <2>2. DOMAIN pending' = {}
    BY <1>1, <1>2
  <2>3. IsFiniteSet({}) /\ Cardinality({}) = 0
    BY FS_EmptySet
  <2>4. QED
    BY <1>1, <1>2, <2>1, <2>2, <2>3 DEF AllAccounted
<1>6. QED
  BY <1>1, <1>3, <1>4, <1>5 DEF FollowInv

\* Receiving shows an event in its turn or turns what was missed into a gap.
LEMMA ReceiveStep ==
  ASSUME Types, FollowInv, Receive
  PROVE  FollowInv'
<1>1. phase = "following" /\ phase' = phase /\ before' = before /\ Sent' = Sent
  BY DEF Receive, chatVars, Sent
<1>2. /\ printed \in Seq(Lines) /\ pending \in Seq(Events) /\ pending \in Seq(Lines) /\ missed \in Nat
      /\ IsFiniteSet(GapUnits(printed)) /\ InOrder(Shown) /\ Reported(Shown) \subseteq Sent /\ AllAccounted
  BY <1>1, NoGapsYet DEF FollowInv, FollowTypes
<1>3. CASE missed > 0 /\ printed' = Append(printed, [missed |-> missed]) /\ missed' = 0 /\ pending' = pending
  <2> DEFINE g == [missed |-> missed]
  <2>1. g \in Lines /\ IsGap(g) /\ g.missed = missed
    BY <1>2, <1>3, GapsAreGaps
  <2> HIDE DEF g
  <2>2. printed' = Append(printed, g)
    BY <1>3 DEF g
  <2>3. printed' \in Seq(Lines)
    BY <1>2, <2>1, <2>2, AppendProperties
  <2>4. InOrder(Shown') /\ Reported(Shown') = Reported(Shown)
    <3>1. Shown' = Append(printed, g) \o pending /\ Shown = printed \o pending
      BY <1>3, <2>2 DEF Shown
    <3>2. QED
      BY <1>2, <2>1, <3>1, GapBetween
  <2>5. /\ IsFiniteSet(GapUnits(printed')) /\ Cardinality(GapUnits(printed)) \in Nat
        /\ Cardinality(GapUnits(printed')) = Cardinality(GapUnits(printed)) + missed
    BY <1>2, <2>1, <2>2, GapsCounted
  <2>6. FollowTypes'
    BY <1>1, <1>2, <1>3, <2>3, <2>5 DEF FollowInv, FollowTypes
  <2>7. AllAccounted'
    <3>1. missed' + Cardinality(GapUnits(printed')) = missed + Cardinality(GapUnits(printed))
      BY <1>2, <1>3, <2>5
    <3>2. QED
      BY <1>1, <1>2, <1>3, <2>4, <3>1 DEF AllAccounted
  <2>8. QED
    BY <1>1, <1>2, <2>4, <2>6, <2>7 DEF FollowInv
<1>4. CASE missed = 0 /\ pending # <<>> /\ printed' = Append(printed, Head(pending))
           /\ pending' = Tail(pending) /\ missed' = missed
  <2> DEFINE e == Head(pending)
  <2>1. /\ e \in Events /\ pending' \in Seq(Events) /\ Len(pending') = Len(pending) - 1
        /\ \A i \in 1 .. Len(pending') : pending'[i] = pending[i + 1]
    BY <1>2, <1>4, HeadTailProperties
  <2>2. e \in Lines /\ ~IsGap(e)
    BY <2>1, EventsAreNoGaps
  <2>3. printed' \in Seq(Lines)
    BY <1>2, <1>4, <2>2, AppendProperties
  <2>4. Shown' = Shown
    BY <1>2, <1>4, ReceivedInPlace DEF Shown
  <2>5. GapUnits(printed') = GapUnits(printed)
    BY <1>2, <1>4, <2>2, GapsCounted
  <2>6. FollowTypes'
    BY <1>1, <1>2, <1>4, <2>1, <2>3, <2>5 DEF FollowInv, FollowTypes
  <2>7. \A i \in DOMAIN pending' : pending'[i] \notin before
    <3>1. Len(pending) \in Nat /\ DOMAIN pending = 1 .. Len(pending) /\ DOMAIN pending' = 1 .. Len(pending')
      BY <1>2, <2>1, LenProperties
    <3>2. \A i \in 1 .. Len(pending') : i + 1 \in DOMAIN pending
      BY <2>1, <3>1
    <3>3. QED
      BY <1>2, <2>1, <3>1, <3>2 DEF AllAccounted
  <2>8. AllAccounted'
    BY <1>1, <1>2, <1>4, <2>4, <2>5, <2>7 DEF AllAccounted
  <2>9. QED
    BY <1>1, <1>2, <2>4, <2>6, <2>8 DEF FollowInv
<1>5. QED
  BY <1>3, <1>4 DEF Receive

\* While the handlers go on, what they send is added to what is pending; if that
\* was full, what falls out is counted.
LEMMA ServeStep ==
  ASSUME Types, StoryInStep, FollowInv, Serve
  PROVE  FollowInv'
<1>1. phase' = phase /\ printed' = printed /\ before' = before /\ ChatNext
  BY DEF Serve
<1>2. /\ printed \in Seq(Lines) /\ pending \in Seq(Events) /\ missed \in Nat
      /\ IsFiniteSet(GapUnits(printed)) /\ InOrder(Shown) /\ Reported(Shown) \subseteq Sent
  BY DEF FollowInv, FollowTypes
<1>3. CASE told' = told
  <2>1. pending' = pending /\ missed' = missed /\ Sent' = Sent
    BY <1>3 DEF Serve, Sent
  <2>2. Shown' = Shown
    BY <1>1, <2>1 DEF Shown
  <2>3. QED
    BY <1>1, <2>1, <2>2 DEF FollowInv, FollowTypes, AllAccounted
<1>4. CASE told' # told
  <2>1. PICK r \in Requests, e \in Events :
          /\ \A q \in Requests : told'[q] # told[q] <=> q = r
          /\ e = Event(r, Last(told'[r]))
          /\ e \notin Sent
          /\ Sent' = Sent \cup {e}
          /\ e.kind = "Started" => \A x \in Sent : x.req # e.req
    BY <1>1, <1>4, OneMoreSent
  <2>2. CASE phase # "following"
    <3>1. pending' = pending /\ missed' = missed
      BY <2>2 DEF Serve
    <3>2. Shown' = Shown
      BY <1>1, <3>1 DEF Shown
    <3>3. QED
      BY <1>1, <2>1, <2>2, <3>1, <3>2 DEF FollowInv, FollowTypes
  <2>3. CASE phase = "following"
    <3> DEFINE full == Len(pending) = FeedCap
               kept == IF full THEN Tail(pending) ELSE pending
               unseen == Sent \ (before \cup Reported(Shown))
    <3>1. pending' = Append(kept, e) /\ missed' = IF full THEN missed + 1 ELSE missed
      <4>1. (CHOOSE q \in Requests : told'[q] # told[q]) = r
        BY <2>1
      <4>2. QED
        BY <1>4, <2>1, <2>3, <4>1 DEF Serve
    <3>2. AllAccounted
      BY <2>3 DEF FollowInv
    <3>3. /\ before \subseteq Sent /\ (\A i \in DOMAIN pending : pending[i] \notin before)
          /\ IsFiniteSet(unseen) /\ Cardinality(unseen) = missed + Cardinality(GapUnits(printed))
      BY <3>2 DEF AllAccounted
    <3>4. /\ kept \in Seq(Events)
          /\ \A i \in DOMAIN kept : kept[i] \notin before
          /\ InOrder(printed \o kept)
          /\ Reported(printed \o kept) \subseteq Sent
          /\ IsFiniteSet(Sent \ (before \cup Reported(printed \o kept)))
          /\ missed' \in Nat
          /\ Cardinality(Sent \ (before \cup Reported(printed \o kept))) = missed' + Cardinality(GapUnits(printed))
      <4>1. CASE ~full
        <5>1. kept = pending /\ missed' = missed
          BY <3>1, <4>1
        <5>2. QED
          BY <1>2, <3>3, <5>1 DEF Shown
      <4>2. CASE full
        <5> DEFINE h == Head(pending)
                   rest == Tail(pending)
        <5>1. kept = rest /\ missed' = missed + 1
          BY <3>1, <4>2
        <5>2. pending # <<>>
          BY <4>2, FollowAssumption, EmptySeq
        <5>3. /\ h \in Events /\ rest \in Seq(Events) /\ Len(rest) = Len(pending) - 1
              /\ \A i \in 1 .. Len(rest) : rest[i] = pending[i + 1]
          BY <1>2, <5>2, HeadTailProperties
        <5>4. Len(pending) \in Nat /\ DOMAIN pending = 1 .. Len(pending) /\ DOMAIN rest = 1 .. Len(rest) /\ Len(pending) > 0
          BY <1>2, <5>2, <5>3, LenProperties, EmptySeq
        <5>5. \A i \in DOMAIN rest : rest[i] \notin before
          <6>1. \A i \in 1 .. Len(rest) : i + 1 \in DOMAIN pending
            BY <5>3, <5>4
          <6>2. QED
            BY <3>3, <5>3, <5>4, <6>1
        <5>6. h \notin before
          <6>1. h = pending[1] /\ 1 \in DOMAIN pending
            BY <5>2, <5>4, <1>2
          <6>2. QED
            BY <3>3, <6>1
        <5>7. InOrder(printed \o pending)
          BY <1>2 DEF Shown
        <5>8. /\ InOrder(printed \o rest)
              /\ Reported(printed \o rest) = Reported(Shown) \ {h}
              /\ h \in Reported(Shown)
          BY <1>2, <5>2, <5>7, LostBetween DEF Shown
        <5> HIDE DEF h, rest
        <5>9. h \in Sent
          BY <1>2, <5>8
        <5>10. Sent \ (before \cup Reported(printed \o rest)) = unseen \cup {h} /\ h \notin unseen
          BY <5>6, <5>8, <5>9
        <5> HIDE DEF unseen
        <5>11. IsFiniteSet(unseen \cup {h}) /\ Cardinality(unseen \cup {h}) = Cardinality(unseen) + 1
          BY <3>3, <5>10, FS_AddElement
        <5>12. Cardinality(GapUnits(printed)) \in Nat
          BY <1>2, FS_CardinalityType
        <5>13. Cardinality(unseen) + 1 = (missed + 1) + Cardinality(GapUnits(printed))
          BY <1>2, <3>3, <5>12
        <5>14. Reported(printed \o rest) \subseteq Sent
          BY <1>2, <5>8
        <5>15. Cardinality(unseen \cup {h}) = missed' + Cardinality(GapUnits(printed)) /\ missed' \in Nat
          BY <1>2, <3>3, <5>1, <5>11, <5>13
        <5> HIDE DEF kept
        <5>16. QED
          BY <5>1, <5>3, <5>5, <5>8, <5>10, <5>11, <5>14, <5>15
      <4>3. QED
        BY <4>1, <4>2
    <3> HIDE DEF kept, full
    <3>5. kept \in Seq(Lines) /\ e \in Lines /\ printed \o kept \in Seq(Lines)
      BY <1>2, <3>4, NoGapsYet, EventsAreNoGaps, ConcatProperties
    <3>6. Shown' = Append(printed \o kept, e)
      <4>1. Append(kept, e) = kept \o <<e>> /\ <<e>> \in Seq(Lines)
        BY <3>5, AppendIsConcat
      <4>2. Append(printed \o kept, e) = (printed \o kept) \o <<e>>
        BY <3>5, AppendIsConcat
      <4>3. (printed \o kept) \o <<e>> = printed \o (kept \o <<e>>)
        BY <1>2, <3>5, <4>1, ConcatAssociative
      <4>4. QED
        BY <1>1, <3>1, <4>1, <4>2, <4>3 DEF Shown
    <3>7. e \notin Reported(printed \o kept)
      BY <2>1, <3>4
    <3>8. e.kind = "Started" => \A x \in Reported(printed \o kept) : x.req # e.req
      BY <2>1, <3>4
    <3>9. InOrder(Shown') /\ Reported(Shown') = Reported(printed \o kept) \cup {e}
      BY <3>4, <3>5, <3>6, <3>7, <3>8, OrderMore
    <3>10. Reported(Shown') \subseteq Sent'
      BY <2>1, <3>4, <3>9
    <3>11. pending' \in Seq(Events) /\ \A i \in DOMAIN pending' : pending'[i] \notin before
      <4>1. /\ pending' \in Seq(Events) /\ Len(pending') = Len(kept) + 1
            /\ (\A i \in 1 .. Len(kept) : pending'[i] = kept[i]) /\ pending'[Len(kept) + 1] = e
        BY <3>1, <3>4, AppendProperties
      <4>2. Len(kept) \in Nat /\ DOMAIN kept = 1 .. Len(kept) /\ DOMAIN pending' = 1 .. Len(kept) + 1
        BY <3>4, <4>1, LenProperties
      <4>3. e \notin before
        BY <2>1, <3>3
      <4>4. QED
        BY <3>4, <4>1, <4>2, <4>3
    <3>12. Sent' \ (before' \cup Reported(Shown')) = Sent \ (before \cup Reported(printed \o kept))
      BY <1>1, <2>1, <3>3, <3>9
    <3>13. AllAccounted'
      BY <1>1, <2>1, <3>3, <3>4, <3>11, <3>12 DEF AllAccounted
    <3>14. FollowTypes'
      BY <1>1, <1>2, <2>3, <3>4, <3>11 DEF FollowTypes
    <3>15. QED
      BY <1>1, <2>3, <3>9, <3>10, <3>13, <3>14 DEF FollowInv
  <2>4. QED
    BY <2>2, <2>3
<1>5. QED
  BY <1>3, <1>4
-----------------------------------------------------------------------------
\* Nothing is shown at first, nor to one who does not look any more.
Nothing == printed = <<>> /\ pending = <<>> /\ missed = 0 /\ phase \in {"asking", "over"}

LEMMA NothingShown == Nothing => FollowInv
<1> SUFFICES ASSUME Nothing PROVE FollowInv
  OBVIOUS
<1>1. <<>> \in Seq(Lines) /\ <<>> \in Seq(Events) /\ DOMAIN <<>> = {} /\ Len(<<>>) = 0
  BY EmptySeq
<1>2. Shown = <<>>
  BY <1>1, ConcatEmptySeq DEF Shown, Nothing
<1>3. Reporting(<<>>) = {} /\ GapUnits(<<>>) = {}
  BY <1>1 DEF Reporting, GapUnits
<1>4. IsFiniteSet({})
  BY FS_EmptySet
<1>5. InOrder(Shown) /\ Reported(Shown) = {}
  BY <1>2, <1>3 DEF InOrder, Reported
<1>6. FollowTypes
  BY <1>1, <1>3, <1>4 DEF FollowTypes, Nothing
<1>7. QED
  BY <1>1, <1>3, <1>5, <1>6 DEF FollowInv, Nothing

LEMMA NothingShownThen == Nothing' => FollowInv'
<1>1. Nothing => FollowInv
  BY NothingShown
<1>2. QED
  BY <1>1, PTL

\* Every step keeps what the command shows honest.
LEMMA FollowStep ==
  ASSUME ChatInv, FollowInv, [FollowNext]_<<chatVars, followVars>>
  PROVE  FollowInv'
<1>1. Types /\ StoryInStep /\ RingHolds
  BY DEF ChatInv, RingInStep
<1>2. CASE Serve
  BY <1>1, <1>2, ServeStep
<1>3. CASE List
  <2>1. /\ phase = "asking" /\ phase' = "listed" /\ Sent' = Sent
        /\ pending' = pending /\ missed' = missed /\ before' = before
    BY <1>3 DEF List, chatVars, Sent
  <2>2. pending = <<>> /\ missed = 0 /\ pending \in Seq(Events)
    BY <2>1 DEF FollowInv, FollowTypes
  <2>3. /\ printed' \in Seq(Events) /\ InOrder(printed') /\ Reported(printed') \subseteq Sent
        /\ printed' \in Seq(Lines) /\ GapUnits(printed') = {}
    BY <1>1, <1>3, TailInOrder, NoGapsYet
  <2>4. Shown' = printed'
    BY <2>1, <2>2, <2>3, ConcatEmptySeq DEF Shown
  <2>5. FollowTypes'
    BY <2>1, <2>2, <2>3, FS_EmptySet DEF FollowTypes
  <2>6. QED
    BY <2>1, <2>2, <2>3, <2>4, <2>5 DEF FollowInv
<1>4. CASE Subscribe
  BY <1>1, <1>4, SubscribeStep
<1>5. CASE Receive
  BY <1>1, <1>5, ReceiveStep
<1>6. CASE Stop
  BY <1>6, NothingShownThen DEF Stop, Nothing
<1>7. CASE UNCHANGED <<chatVars, followVars>>
  BY <1>7 DEF chatVars, followVars, FollowInv, FollowTypes, AllAccounted, Shown, Sent
<1>8. QED
  BY <1>2, <1>3, <1>4, <1>5, <1>6, <1>7 DEF FollowNext

\* What a command that follows the log shows is honest, for any numbers of
\* requests and lines asked for, any sizes of ring and channel, and however slowly
\* it receives.
THEOREM FollowingIsHonest == FollowSpec => []FollowIsHonest
<1>1. FollowSpec => ChatSpec
  BY FollowingIsHarmless
<1>2. FollowInit => FollowInv
  BY NothingShown DEF FollowInit, Nothing
<1>3. ChatInv /\ FollowInv /\ [FollowNext]_<<chatVars, followVars>> => FollowInv'
  BY FollowStep
<1>4. FollowInv => FollowIsHonest
  <2>1. SUFFICES ASSUME FollowInv PROVE FollowIsHonest
    OBVIOUS
  <2>2. Reports = Reporting(Shown) /\ {Shown[i] : i \in Reports} = Reported(Shown)
    BY DEF Reports, Reporting, Reported
  <2>3. GapTotal = missed + Cardinality(GapUnits(printed))
    BY DEF GapTotal, GapUnits
  <2>4. QED
    BY <2>1, <2>2, <2>3 DEF FollowInv, InOrder, AllAccounted, FollowIsHonest
<1>5. QED
  BY <1>1, <1>2, <1>3, <1>4, ChatInductive, PTL DEF FollowSpec
=============================================================================
