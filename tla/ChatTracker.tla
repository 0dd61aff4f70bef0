---------------------------- MODULE ChatTracker ----------------------------
(***************************************************************************)
(* The chat handler (src/api/chat.rs) as it accounts for requests in the   *)
(* RequestTracker (src/admin/tracker.rs): a counter per model, a ring of   *)
(* recent events and a broadcast of all of them.  A client may disconnect  *)
(* at any await, which drops the future and with it the guards alive; the  *)
(* backend call of a streaming request is a task of its own and goes on.   *)
(***************************************************************************)
EXTENDS Integers, Sequences, FiniteSets, SequencesExt

CONSTANTS
  Requests,     \* requests to be served
  Streams,      \* those with stream = true
  Ids,          \* ids of models and routes, as requests name them
  HistoryCap    \* request_history_size

ASSUME ChatAssumption ==
  /\ IsFiniteSet(Requests)
  /\ Streams \subseteq Requests
  /\ HistoryCap \in Nat \ {0}

VARIABLES
  stage,     \* stage[r]: how far the handler of r is
  model,     \* model[r]: the id r asks for
  call,      \* call[r]: the backend call: "none", "running" or how it ended
  inFlight,  \* inFlight[m]: in_flight counter of the tracker
  told,      \* told[r]: kinds of the events of r sent to the broadcast channel
  history    \* events in the ring, oldest first

chatVars == <<stage, model, call, inFlight, told, history>>

Terminal == {"Completed", "Failed", "Canceled"}

Event(r, k) == [req |-> r, kind |-> k]

ChatInit ==
  /\ stage = [r \in Requests |-> "idle"]
  /\ model \in [Requests -> Ids]
  /\ call = [r \in Requests |-> "none"]
  /\ inFlight = [m \in Ids |-> 0]
  /\ told = [r \in Requests |-> <<>>]
  /\ history = <<>>
-----------------------------------------------------------------------------
Increment(m) == inFlight' = [inFlight EXCEPT ![m] = @ + 1]
Decrement(m) == inFlight' = [inFlight EXCEPT ![m] = @ - 1]

\* RequestTracker::record first sends to the subscribers ...
Broadcast(r, k) == told' = [told EXCEPT ![r] = Append(@, k)]

\* The oldest event stays.
Store_KeepsOldest(e) ==
  history' = IF Len(history) = HistoryCap THEN history ELSE Append(history, e)

\* ... and then, once it has the lock, appends to the ring.
Store(e) ==
  history' = Append(IF Len(history) = HistoryCap THEN Tail(history) ELSE history, e)

\* The event of r that was sent last and is now to be stored.
LastSent(r) == Event(r, Last(told[r]))

\* The request is counted and Started is broadcast; the lock comes later.
Arrive(r) ==
  /\ stage[r] = "idle"
  /\ Increment(model[r])
  /\ Broadcast(r, "Started")
  /\ stage' = [stage EXCEPT ![r] = "starting"]
  /\ UNCHANGED <<model, call, history>>

\* Started is stored and the backend is called; a streaming request gets its
\* guard only now.
CallBackend(r) ==
  /\ stage[r] = "starting"
  /\ Store(LastSent(r))
  /\ call' = [call EXCEPT ![r] = "running"]
  /\ stage' = [stage EXCEPT ![r] = "serving"]
  /\ UNCHANGED <<model, inFlight, told>>

\* The call ends: with the whole answer (for a stream: a chunk with a finish
\* reason), with an error, or a stream just ends.
CallEnds(r) ==
  /\ call[r] = "running"
  /\ \E result \in {"finished", "error"} \cup (IF r \in Streams THEN {"cut"} ELSE {}) :
       call' = [call EXCEPT ![r] = result]
  /\ UNCHANGED <<stage, model, inFlight, told, history>>

\* A stream without an error counts as a success.
Verdict_IgnoresFinish(r) == IF call[r] = "error" THEN "Failed" ELSE "Completed"

\* How the end is classified.
Verdict(r) ==
  CASE call[r] = "error"    -> "Failed"
    [] call[r] = "finished" -> "Completed"
    [] OTHER                -> "Canceled"

\* finalize leaves the guard armed.
Finalize_Armed(r) ==
  /\ stage[r] = "serving"
  /\ call[r] \notin {"none", "running"}
  /\ UNCHANGED inFlight
  /\ Broadcast(r, Verdict(r))
  /\ stage' = [stage EXCEPT ![r] = "ending"]
  /\ UNCHANGED <<model, call, history>>

\* The call ended: the terminal event is broadcast.  A stream disarms its guard
\* and decrements first, the other path still holds its guard.
Finalize(r) ==
  /\ stage[r] = "serving"
  /\ call[r] \notin {"none", "running"}
  /\ IF r \in Streams THEN Decrement(model[r]) ELSE UNCHANGED inFlight
  /\ Broadcast(r, Verdict(r))
  /\ stage' = [stage EXCEPT ![r] = "ending"]
  /\ UNCHANGED <<model, call, history>>

\* It is stored, and the guard of a non-streaming request falls.
Respond(r) ==
  /\ stage[r] = "ending"
  /\ Store(LastSent(r))
  /\ IF r \in Streams THEN UNCHANGED inFlight ELSE Decrement(model[r])
  /\ stage' = [stage EXCEPT ![r] = "over"]
  /\ UNCHANGED <<model, call, told>>

\* Whether r holds a guard that decrements when it is dropped.
Guarded(r) ==
  IF r \in Streams THEN stage[r] = "serving" ELSE stage[r] \in {"starting", "serving", "ending"}

\* The client goes away at an await: guards fall, nothing is recorded.  Without a
\* guard yet, a stream stays counted.
Disconnect(r) ==
  /\ stage[r] \in {"starting", "serving", "ending"}
  /\ IF Guarded(r) THEN Decrement(model[r]) ELSE UNCHANGED inFlight
  /\ call' = [call EXCEPT ![r] = IF @ = "running" /\ r \notin Streams THEN "dropped" ELSE @]
  /\ stage' = [stage EXCEPT ![r] = IF @ = "starting" /\ r \in Streams THEN "leaked" ELSE "gone"]
  /\ UNCHANGED <<model, told, history>>
-----------------------------------------------------------------------------
Handle(r) == Arrive(r) \/ CallBackend(r) \/ CallEnds(r) \/ Finalize(r) \/ Respond(r)

ChatNext == \E r \in Requests : Handle(r) \/ Disconnect(r)

ChatSpec == ChatInit /\ [][ChatNext]_chatVars
-----------------------------------------------------------------------------
\* Requests in progress that the counter of m must include.
InProgress(m) ==
  {r \in Requests : /\ model[r] = m
                    /\ stage[r] \in {"starting", "serving"} \cup (IF r \in Streams THEN {} ELSE {"ending"})}

\* "RAII guards keep counters balanced on panic and client disconnect" (CHANGELOG,
\* Request lifecycle tracking): the in-flight counters are exact through every end
\* of a request and every disconnect but one, a stream that its client leaves
\* while Started is recorded, which stays counted.
CountersBalanced ==
  \A m \in Ids :
    inFlight[m] = Cardinality(InProgress(m)) + Cardinality({r \in Requests : model[r] = m /\ stage[r] = "leaked"})

\* Subscribers see of every request Started and then at most one end; who was
\* served to the end has one, and it says what the backend call came to.
OneStoryEach ==
  \A r \in Requests :
    LET story == told[r] IN
    /\ stage[r] = "idle" <=> story = <<>>
    /\ story # <<>> => story[1] = "Started" /\ Len(story) <= 2
    /\ stage[r] \in {"ending", "over"} => Len(story) = 2
    /\ Len(story) = 2 =>
         /\ story[2] \in Terminal
         /\ story[2] = "Completed" <=> call[r] = "finished"

\* How many events of r are in the ring for certain, were none forgotten: who left
\* may have left one waiting for the lock.
Recorded(r) == Len(told[r]) - (IF stage[r] \in {"starting", "ending", "gone", "leaked"} THEN 1 ELSE 0)

\* The ring keeps within its capacity and tells of each request the last things
\* its subscribers were told, short of what is still to be stored; it forgets
\* only when it is full, and never the end of a request before its beginning.
RingFollowsFeed ==
  /\ Len(history) <= HistoryCap
  /\ \A i, j \in DOMAIN history :
       i < j /\ history[i].req = history[j].req => history[i].kind = "Started" /\ history[j].kind # "Started"
  /\ \A i \in DOMAIN history :
       LET r == history[i].req IN
       /\ history[i].kind \in Range(told[r])
       /\ Recorded(r) > 0 => Event(r, told[r][Recorded(r)]) \in Range(history)
  /\ \A r \in Requests :
       stage[r] = "over" /\ Len(history) < HistoryCap => \A k \in DOMAIN told[r] : Event(r, told[r][k]) \in Range(history)

=============================================================================
