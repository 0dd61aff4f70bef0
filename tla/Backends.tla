------------------------------ MODULE Backends ------------------------------
(***************************************************************************)
(* Chat calls to all kinds of backends: the composition of the worker      *)
(* thread of a local model and the adapters of hosted ones, with clients   *)
(* that read, read slowly or leave, and a shutdown.                        *)
(***************************************************************************)
EXTENDS Worker, Upstream

backendsVars == <<callVars, workerVars, up>>

BackendsInit == CallsInit /\ WorkerInit /\ UpstreamInit

LocalStep == WorkerStep \/ \E r \in Requests : LocalCall(r)

CloudStep == \E r \in Requests : UpstreamStep(r)

ClientStep == \E r \in Requests : Arrive(r) \/ Read(r) \/ Leave(r)

BackendsNext ==
  \/ LocalStep /\ UNCHANGED up
  \/ CloudStep /\ UNCHANGED workerVars
  \/ ClientStep /\ UNCHANGED <<workerVars, up>>

BackendsSpec == BackendsInit /\ [][BackendsNext]_backendsVars

\* Futures are polled, the thread runs, HTTP requests have a timeout; a client
\* is assumed to read or to leave, which nothing in the code sees to.
BackendsFairness ==
  /\ WF_backendsVars(ThreadStep /\ UNCHANGED up)
  /\ WF_backendsVars(DrainStep /\ UNCHANGED up)
  /\ \A r \in Requests :
       /\ WF_backendsVars(LocalCall(r) /\ UNCHANGED up)
       /\ WF_backendsVars(UpstreamStep(r) /\ UNCHANGED workerVars)
       /\ WF_backendsVars(Read(r) /\ UNCHANGED <<workerVars, up>>)

BackendsFairSpec == BackendsSpec /\ BackendsFairness
-----------------------------------------------------------------------------
\* Every call that got to a backend returns: behind a slow generation, a panic,
\* a full channel or a shutdown; and the shutdown itself comes to its end.
CallsEnd ==
  /\ \A r \in Requests : stage[r] = "called" ~> stage[r] = "over"
  /\ drain = "sending" ~> drain = "over"

Stream == INSTANCE AnswerStream WITH
  Calls  <- Requests,
  kinds  <- [r \in Requests |-> Kinds(r)],
  result <- [r \in Requests |-> IF result[r] \in {"none", "Ok"} THEN result[r] ELSE "error"],
  on     <- {r \in Requests : up[r].on}

\* A stream's chunks and its result are what AnswerStream promises, for every
\* kind of backend and whatever happens on the way.
ImplementsAnswerStream == Stream!StreamSpec

\* The text is what was said, or that and one piece more, without the stop sequence
\* they ended in.
Stopped(text, said) == \E p \in Pieces : StopsAt(said \o p) # {} /\ text = Truncated(said \o p)

\* A finish reason certifies the answer: a hosted model's texts were all passed on,
\* in order and once, but for those the adapter could not parse; a local model's
\* are the text of the answer, or, when a stop sequence ended it, fall short of
\* it or exceed it by no more than the last piece and that sequence account for.
\* No text sent to a client ends in a stop sequence.
AnswerWhole ==
  \A r \in Requests :
    /\ Finished(r) /\ ask[r].model \in Cloud =>
         /\ {sent[r][i][2] : i \in TextsOf(r)} = (1 .. up[r].texts) \ up[r].lost
         /\ \A i, j \in TextsOf(r) : i < j => sent[r][i][2] < sent[r][j][2]
    /\ ask[r].model \in Local =>
         /\ Said(r) # <<>> => StopsAt(Said(r)) = {}
         /\ result[r] = "Ok" /\ Finished(r) =>
              \/ answer[r] = Said(r)
              \/ Last(sent[r]) = Finish("stop") /\ Stopped(answer[r], Said(r))

\* The status tells whose fault it was: 400 the request's, 502 the upstream's,
\* 503 a worker lost to a panic or to a shutdown, and 500 what is left: files or
\* libraries, a context too small for the answer, an answer nobody can read, a
\* request the upstream rejects.  A request that fits and meets no mishap is
\* answered, and none is told to retry where retrying cannot help.
Overflows(r) == ask[r].prompt + ask[r].max > ContextSize

BlameIsRight ==
  \A r \in Requests :
    reply[r] # None =>
      LET status == reply[r].status  isLocal == ask[r].model \in Local IN
      /\ status = 400 => ask[r].empty \/ (isLocal /\ ask[r].prompt > ContextSize)
      /\ status = 502 => mishap[r] \in {"429", "5xx", "timeout", "connect"}
      /\ status = 503 => isLocal /\ (poisoned \/ draining \/ mishap[r] = "panic")
      /\ status = 500 => \/ mishap[r] \in {"load", "library", "garbled", "4xx", "transport"}
                         \/ isLocal /\ (Overflows(r) \/ draining)
      /\ mishap[r] \in {"429", "5xx", "timeout", "connect"} /\ ~ask[r].stream => status = 502
      /\ reply[r].retry = 0

\* Once a panic has set the flag, nothing that the worker holds or is given is
\* answered any more.
NothingAfterPanic ==
  [][\A r \in Requests : poisoned /\ ask[r].model \in Local /\ result'[r] = "Ok" => result[r] = "Ok"]_backendsVars

=============================================================================
