------------------------------ MODULE Routing ------------------------------
(***************************************************************************)
(* One request through a route: RoutedBackend                              *)
(* (src/routing/routed_backend.rs) tries the targets of the rule that      *)
(* matches, each within first_token_timeout, and commits to the first one  *)
(* that answers.  Streaming attempts are spawned tasks that push chunks    *)
(* into a bounded channel; a client may go away at any time.  Requests     *)
(* share nothing in the router, so there is one.                           *)
(***************************************************************************)
EXTENDS Integers, Sequences, FiniteSets, Errors

CONSTANTS
  Targets,    \* ids of the backends routes may name
  Cloud,      \* those that forward to an upstream over HTTP
  Rules,      \* Rules[k]: the targets of the k-th rule, in order
  CatchAll,   \* indices of the rules without a matcher
  MaxChunks,  \* bound: chunks of one answer
  QueueCap    \* capacity of the channel of a streaming attempt

ASSUME RoutingAssumption ==
  /\ Cloud \subseteq Targets
  /\ Rules \in Seq(Seq(Targets) \ {<<>>})
  /\ CatchAll \in SUBSET DOMAIN Rules \ {{}}
  /\ MaxChunks \in Nat \ {0}
  /\ QueueCap \in Nat \ {0}

VARIABLES
  streaming,  \* chat_completion_stream rather than chat_completion
  pc,         \* "select", "next", "awaiting", "relaying" or "done"
  targets,    \* targets of the rule selected
  attempt,    \* attempt[i]: the call made to targets[i]
  queue,      \* chunks in internal_rx of the last attempt
  failed,     \* the attempts list: indices of the targets given up
  trace,      \* RouteTrace: index of backend_id (0 = none) and fallback_count
  received,   \* chunks handed to the client, each with the index of its target
  connected,  \* the client has not gone away
  outcome     \* what the request returned

router == <<pc, targets, failed, trace, outcome>>
routingVars == <<streaming, router, attempt, queue, received, connected>>

\* A call to a backend: how far it is, chunks sent, whether the answer was cut
\* off after it had begun, whether the router gave it up.
NewAttempt == [state |-> "running", sent |-> 0, cut |-> FALSE, abandoned |-> FALSE]

Running(i) == attempt[i].state = "running"

RoutingInit ==
  /\ streaming \in BOOLEAN
  /\ pc = "select"
  /\ targets = <<>>
  /\ attempt = <<>>
  /\ queue = <<>>
  /\ failed = <<>>
  /\ trace = [backend |-> 0, fallbacks |-> 0]
  /\ received = <<>>
  /\ connected = TRUE
  /\ outcome = "none"
-----------------------------------------------------------------------------
(* The calls to the backends.                                              *)

\* An error before anything was sent.
FailAtOnce(i) ==
  /\ Running(i)
  /\ ~attempt[i].abandoned
  /\ attempt[i].sent = 0
  /\ \E e \in EngineErrors :
       attempt' = [attempt EXCEPT ![i].state = IF Retryable(e) THEN "retryable" ELSE "fatal"]
  /\ UNCHANGED queue

\* The next chunk, once there is room in the channel.
Produce(i) ==
  /\ streaming
  /\ Running(i)
  /\ ~attempt[i].abandoned
  /\ attempt[i].sent < MaxChunks
  /\ Len(queue) < QueueCap
  /\ attempt' = [attempt EXCEPT ![i].sent = @ + 1]
  /\ queue' = Append(queue, attempt[i].sent + 1)

\* The whole answer, or the end of the stream: an upstream's may be empty, a
\* worker sends at least the chunk with the assistant's role.
AnswerEnds(i) ==
  /\ Running(i)
  /\ ~attempt[i].abandoned
  /\ streaming /\ targets[i] \notin Cloud => attempt[i].sent > 0
  /\ attempt' = [attempt EXCEPT ![i].state = "ok", ![i].sent = IF streaming THEN @ ELSE 1]
  /\ UNCHANGED queue

\* The stream breaks off.  A local worker reports the error; the adapters of
\* upstreams log it, leave their loop and return Ok.
CutOff(i) ==
  /\ streaming
  /\ Running(i)
  /\ ~attempt[i].abandoned
  /\ attempt[i].sent > 0
  /\ attempt' = [attempt EXCEPT ![i].state = IF targets[i] \in Cloud THEN "ok" ELSE "fatal",
                                ![i].cut = TRUE]
  /\ UNCHANGED queue

\* A call given up ends: an HTTP call where it stands, a generation when it
\* next tries to send or has come to its end.
Wither(i) ==
  /\ Running(i)
  /\ attempt[i].abandoned
  /\ attempt' = [attempt EXCEPT ![i].state = "gone"]
  /\ UNCHANGED queue

BackendStep(i) ==
  /\ FailAtOnce(i) \/ Produce(i) \/ AnswerEnds(i) \/ CutOff(i) \/ Wither(i)
  /\ UNCHANGED <<streaming, router, received, connected>>
-----------------------------------------------------------------------------
(* The router.                                                             *)

\* CompiledRoute::select_rule: the first rule whose matchers all hold.  One
\* without matchers always does; which others do depends on the request.
SelectRule ==
  /\ pc = "select"
  /\ \E matching \in SUBSET DOMAIN Rules :
       /\ CatchAll \subseteq matching
       /\ \E k \in matching : (\A j \in matching : k <= j) /\ targets' = Rules[k]
  /\ pc' = "next"
  /\ UNCHANGED <<streaming, attempt, queue, failed, trace, received, connected, outcome>>

\* The last target is never tried.
MoreTargets_OffByOne == Len(attempt) + 1 < Len(targets)

MoreTargets == Len(attempt) < Len(targets)

\* The call is made, with a channel of its own.
TryNext ==
  /\ pc = "next"
  /\ MoreTargets
  /\ attempt' = Append(attempt, NewAttempt)
  /\ queue' = <<>>
  /\ pc' = "awaiting"
  /\ UNCHANGED <<streaming, targets, failed, trace, received, connected, outcome>>

Exhausted ==
  /\ pc = "next"
  /\ ~MoreTargets
  /\ outcome' = "exhausted"
  /\ pc' = "done"
  /\ UNCHANGED <<streaming, targets, attempt, queue, failed, trace, received, connected>>

\* The target is named before its failed predecessors are counted.
Recorded == trace' = [backend |-> Len(attempt), fallbacks |-> Len(failed)]

\* Without a timeout.
GiveUp_OnlyWhenClosed ==
  LET i == Len(attempt) IN
  /\ pc = "awaiting"
  /\ IF streaming THEN queue = <<>> /\ ~Running(i) ELSE attempt[i].state = "retryable"
  /\ failed' = Append(failed, i)
  /\ pc' = "next"
  /\ UNCHANGED <<streaming, targets, attempt, queue, trace, received, connected, outcome>>

\* The handle of a target that timed out is forgotten instead of aborted.
GiveUp_NoAbort ==
  LET i == Len(attempt) IN
  /\ pc = "awaiting"
  /\ IF streaming THEN queue = <<>> ELSE attempt[i].state \in {"running", "retryable"}
  /\ failed' = Append(failed, i)
  /\ pc' = "next"
  /\ UNCHANGED <<streaming, targets, attempt, queue, trace, received, connected, outcome>>

\* The next target is tried after a timeout, after a retryable error, and, when
\* streaming, after any end without a chunk, whatever its result was.  The
\* attempt is aborted, or dropped with its future.
GiveUp ==
  LET i == Len(attempt) IN
  /\ pc = "awaiting"
  /\ IF streaming THEN queue = <<>> ELSE attempt[i].state \in {"running", "retryable"}
  /\ attempt' = [attempt EXCEPT ![i].abandoned = TRUE]
  /\ failed' = Append(failed, i)
  /\ pc' = "next"
  /\ UNCHANGED <<streaming, targets, queue, trace, received, connected, outcome>>

\* The non-streaming call answered, or failed for good.
Answered ==
  LET i == Len(attempt) IN
  /\ pc = "awaiting"
  /\ ~streaming
  /\ \/ /\ attempt[i].state = "ok"
        /\ Recorded
        /\ received' = <<<<i, 1>>>>
        /\ outcome' = "ok"
     \/ /\ attempt[i].state = "fatal"
        /\ outcome' = "error"
        /\ UNCHANGED <<trace, received>>
  /\ pc' = "done"
  /\ UNCHANGED <<streaming, targets, attempt, queue, failed, connected>>

\* A chunk goes from the channel to the client, or the client turns out to be
\* gone and the attempt is aborted.
PassOn(i) ==
  /\ queue # <<>>
  /\ queue' = Tail(queue)
  /\ IF connected
     THEN /\ received' = Append(received, <<i, Head(queue)>>)
          /\ pc' = "relaying"
          /\ UNCHANGED <<attempt, outcome>>
     ELSE /\ attempt' = [attempt EXCEPT ![i].abandoned = TRUE]
          /\ outcome' = "ok"
          /\ pc' = "done"
          /\ UNCHANGED received

FirstChunk ==
  /\ pc = "awaiting"
  /\ streaming
  /\ PassOn(Len(attempt))
  /\ Recorded
  /\ UNCHANGED <<streaming, targets, failed, connected>>

NextChunk ==
  /\ pc = "relaying"
  /\ PassOn(Len(attempt))
  /\ UNCHANGED <<streaming, targets, failed, trace, connected>>

\* A target that fails in the middle is replaced by the next one.
EndOfStream_FallsBack ==
  LET i == Len(attempt) IN
  /\ pc = "relaying"
  /\ queue = <<>>
  /\ ~Running(i)
  /\ IF attempt[i].state = "ok"
     THEN outcome' = "ok" /\ pc' = "done" /\ UNCHANGED failed
     ELSE failed' = Append(failed, i) /\ pc' = "next" /\ UNCHANGED outcome
  /\ UNCHANGED <<streaming, targets, attempt, queue, trace, received, connected>>

\* The attempt's own result is not asked for.
EndOfStream_AlwaysOk ==
  /\ pc = "relaying"
  /\ queue = <<>>
  /\ ~Running(Len(attempt))
  /\ outcome' = "ok"
  /\ pc' = "done"
  /\ UNCHANGED <<streaming, targets, attempt, queue, failed, trace, received, connected>>

\* The attempt's error kind is passed on as it is.
EndOfStream_RawResult ==
  /\ pc = "relaying"
  /\ queue = <<>>
  /\ ~Running(Len(attempt))
  /\ outcome' = attempt[Len(attempt)].state
  /\ pc' = "done"
  /\ UNCHANGED <<streaming, targets, attempt, queue, failed, trace, received, connected>>

\* The channel is closed and empty: the result of the attempt is the request's.
EndOfStream ==
  LET i == Len(attempt) IN
  /\ pc = "relaying"
  /\ queue = <<>>
  /\ ~Running(i)
  /\ outcome' = IF attempt[i].state = "ok" THEN "ok" ELSE "error"
  /\ pc' = "done"
  /\ UNCHANGED <<streaming, targets, attempt, queue, failed, trace, received, connected>>

\* The client goes away: a streaming request is a task of its own and finds out
\* when it sends, the future of another is dropped with the call it awaits.
Disconnect ==
  /\ connected
  /\ pc # "done"
  /\ connected' = FALSE
  /\ IF streaming THEN UNCHANGED <<pc, attempt, outcome>>
     ELSE /\ pc = "awaiting"
          /\ attempt' = [attempt EXCEPT ![Len(attempt)].abandoned = TRUE]
          /\ outcome' = "dropped"
          /\ pc' = "done"
  /\ UNCHANGED <<streaming, targets, queue, failed, trace, received>>
-----------------------------------------------------------------------------
RouterStep ==
  SelectRule \/ TryNext \/ Exhausted \/ GiveUp \/ Answered \/ FirstChunk \/ NextChunk \/ EndOfStream

\* The indices attempts can have.
Slots == UNION {DOMAIN Rules[k] : k \in DOMAIN Rules}

BackendSteps == \E i \in Slots \cap DOMAIN attempt : BackendStep(i)

RoutingNext == RouterStep \/ BackendSteps \/ Disconnect

RoutingSpec == RoutingInit /\ [][RoutingNext]_routingVars

\* The router is polled and its timers fire; what was given up ends; a backend
\* that began to answer goes on (decoding is bounded, an upstream's response has
\* the timeout of its HTTP client), and a connected client reads.  Of a backend
\* that has sent nothing yet nothing is assumed.
RoutingFairness ==
  /\ WF_routingVars(RouterStep)
  /\ \A i \in Slots :
       /\ WF_routingVars(i \in DOMAIN attempt /\ Wither(i) /\ UNCHANGED <<streaming, router, received, connected>>)
       /\ WF_routingVars(pc = "relaying" /\ i \in DOMAIN attempt /\ BackendStep(i))

RoutingFairSpec == RoutingSpec /\ RoutingFairness
-----------------------------------------------------------------------------
RoutingTypeOK ==
  /\ streaming \in BOOLEAN
  /\ pc \in {"select", "next", "awaiting", "relaying", "done"}
  /\ targets \in Seq(Targets)
  /\ attempt \in Seq([state : {"running", "ok", "retryable", "fatal", "gone"}, sent : 0 .. MaxChunks,
                      cut : BOOLEAN, abandoned : BOOLEAN])
  /\ queue \in Seq(1 .. MaxChunks)
  /\ failed \in Seq(Nat)
  /\ trace \in [backend : Nat, fallbacks : Nat]
  /\ received \in Seq(Nat \X (1 .. MaxChunks))
  /\ connected \in BOOLEAN
  /\ outcome \in {"none", "ok", "error", "exhausted", "dropped"}

\* What the client gets is the beginning of the answer of one target, without a
\* gap or a repetition, and it is the target the trace (hence the headers of a
\* plain response) names, with the number of targets that failed before it.
OneVoice ==
  /\ \A n \in DOMAIN received : received[n] = <<trace.backend, n>>
  /\ received # <<>> => trace.fallbacks = trace.backend - 1

\* AllBackendsFailed lists every target of the rule, in order, each of them
\* really given up and none of them heard by the client.
ExhaustedAfterAll ==
  outcome = "exhausted" =>
    /\ failed = [i \in DOMAIN targets |-> i]
    /\ \A i \in DOMAIN targets : attempt[i].abandoned
    /\ received = <<>>

\* Never two calls that nobody has given up, and none when the request is over:
\* a fallback does not double the work, a finished request leaves none behind.
OneLiveCall ==
  LET live == {i \in DOMAIN attempt : Running(i) /\ ~attempt[i].abandoned}
  IN  /\ Cardinality(live) <= 1
      /\ pc \in {"next", "done"} => live = {}

\* A connected client that is told the request succeeded has the whole answer,
\* except when an upstream cut a stream off and its adapter called that an end.
CompleteOrToldSo ==
  outcome = "ok" /\ connected =>
    LET i == trace.backend
    IN  /\ attempt[i].state = "ok"
        /\ Len(received) = attempt[i].sent
        /\ attempt[i].cut => targets[i] \in Cloud

\* Every request ends, with targets that never answer and clients that go away,
\* and in the end no call made for it is running.
EverythingEnds ==
  <>[](pc = "done" /\ \A i \in Slots \cap DOMAIN attempt : ~Running(i))

=============================================================================
