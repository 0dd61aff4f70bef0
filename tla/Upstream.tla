------------------------------ MODULE Upstream ------------------------------
(***************************************************************************)
(* The adapters of hosted models: src/engine/openai.rs (OpenAI and Groq)   *)
(* and src/engine/anthropic.rs.  Each call is one HTTP request of its own  *)
(* with a timeout over the whole of it; the upstream is external and may   *)
(* refuse, break off or send events the adapter cannot parse.              *)
(***************************************************************************)
EXTENDS Calls

CONSTANT MaxTexts  \* bound: pieces of text in an upstream's answer

ASSUME UpstreamAssumption == MaxTexts \in Nat

VARIABLE
  up  \* up[r]: what the upstream sent: the event due, texts so far, those garbled,
      \* and whether it went on after its finish

UpstreamInit == up = [r \in Requests |-> [due |-> "none", texts |-> 0, lost |-> {}, on |-> FALSE]]

Cloud == OpenAI \cup Anthropic

CloudCalling(r, s) == stage[r] = s /\ ask[r].model \in Cloud
-----------------------------------------------------------------------------
(* The request body.                                                       *)

\* build_body passes the messages on; to_anthropic_request gathers those of the
\* system, wherever they stand, into one text.
System(ms) == LET own == SelectSeq(ms, LAMBDA m : m.role = "system")
              IN  [i \in DOMAIN own |-> own[i].content]

Body(model, ms) ==
  IF model \in OpenAI THEN [system |-> <<>>, messages |-> ms]
  ELSE [system |-> System(ms), messages |-> SelectSeq(ms, LAMBDA m : m.role # "system")]

\* map_stop_reason: anything unknown is a stop.
StopReason(reason) == IF reason = "max_tokens" THEN "length" ELSE "stop"
-----------------------------------------------------------------------------
Post(r) ==
  /\ CloudCalling(r, "called")
  /\ Goto(r, "posted")
  /\ UNCHANGED <<ask, open, sent, unread, mishap, answer, result, reply, up>>

\* request_error tells how the transport failed.
TransportError(m) == CASE m = "timeout" -> "Timeout" [] m = "connect" -> "Network" [] OTHER -> "InferenceFailed"

\* Too many requests is an error like any other of the client's.
StatusError_No429(m) == IF m = "5xx" THEN "UpstreamServerError" ELSE "InferenceFailed"

\* upstream_error, after the special case of 429.
StatusError(m) == CASE m = "429" -> "RateLimited" [] m = "5xx" -> "UpstreamServerError" [] OTHER -> "InferenceFailed"

\* The call fails for reason m, and with error e.
Fail(r, m, e) ==
  /\ mishap' = [mishap EXCEPT ![r] = m]
  /\ Settle({r}, e)
  /\ UNCHANGED <<ask, open, sent, unread, answer, up>>

NoResponse(r) ==
  /\ CloudCalling(r, "posted")
  /\ \E m \in {"timeout", "connect", "transport"} : Fail(r, m, TransportError(m))

Refused(r) ==
  /\ CloudCalling(r, "posted")
  /\ \E m \in {"429", "4xx", "5xx"} : Fail(r, m, StatusError(m))

\* A plain answer is parsed whole; an Anthropic one is put together of its text
\* blocks.
Plain(r) ==
  /\ CloudCalling(r, "posted")
  /\ ~ask[r].stream
  /\ \/ Fail(r, "garbled", "InferenceFailed")
     \/ /\ \E n \in 0 .. MaxTexts :
             /\ up' = [up EXCEPT ![r].texts = n]
             /\ answer' = [answer EXCEPT ![r] = [i \in 1 .. n |-> i]]
        /\ Settle({r}, "Ok")
        /\ UNCHANGED <<ask, open, sent, unread, mishap>>

Streams(r) ==
  /\ CloudCalling(r, "posted")
  /\ ask[r].stream
  /\ Goto(r, "reading")
  /\ up' = [up EXCEPT ![r].due = "role"]
  /\ UNCHANGED <<ask, open, sent, unread, mishap, answer, result, reply>>
-----------------------------------------------------------------------------
(* The events of a stream, each read when the one before is passed on.     *)

Reading(r, event) == CloudCalling(r, "reading") /\ up[r].due = event

\* The loop is left, for the end of the stream or for a fault in it: Ok.
EndStream(r) ==
  /\ Settle({r}, "Ok")
  /\ UNCHANGED <<ask, open, sent, unread, answer, up>>

\* A chunk that finds no room is dropped.
Forward_TrySend(r, chunk, next) ==
  \/ Send(r, chunk) /\ up' = [up EXCEPT ![r] = next]
     /\ UNCHANGED <<ask, stage, open, mishap, answer, result, reply>>
  \/ open[r] /\ ~CanSend(r) /\ up' = [up EXCEPT ![r] = next] /\ UNCHANGED callVars
  \/ ~open[r] /\ EndStream(r) /\ UNCHANGED mishap

\* A chunk goes out and the upstream goes on to event; a client that has gone
\* ends the stream.
Forward(r, chunk, next) ==
  \/ Send(r, chunk) /\ up' = [up EXCEPT ![r] = next]
     /\ UNCHANGED <<ask, stage, open, mishap, answer, result, reply>>
  \/ ~open[r] /\ EndStream(r) /\ UNCHANGED mishap

\* message_start, or the first chunk of an OpenAI stream.
RoleEvent(r) == Reading(r, "role") /\ Forward(r, Role, [up[r] EXCEPT !.due = "text"])

\* content_block_delta with text (one without is passed over), or a chunk.
TextEvent(r) ==
  /\ Reading(r, "text")
  /\ up[r].texts < MaxTexts
  /\ LET n == up[r].texts + 1 IN Forward(r, Text(n), [up[r] EXCEPT !.texts = n])

\* message_delta with a reason, or the last chunk.
FinishEvent(r) ==
  /\ Reading(r, "text")
  /\ \E reason \in {"end_turn", "max_tokens"} :
       Forward(r, Finish(StopReason(reason)), [up[r] EXCEPT !.due = "end"])

\* An upstream that goes on after its finish: what it sends is passed on as before,
\* the next finish too.  (Bound: once.)
GoesOn(r) ==
  /\ Reading(r, "end")
  /\ ~up[r].on
  /\ up' = [up EXCEPT ![r].due = "text", ![r].on = TRUE]
  /\ UNCHANGED callVars

\* The closing event of the stream closes the answer once more.
Done_Finishes(r) == Reading(r, "end") /\ Forward(r, Finish("stop"), [up[r] EXCEPT !.due = "none"])

\* The rest of the stream: [DONE] ends an OpenAI one, message_stop is ignored
\* and the end of the body ends an Anthropic one.
Done(r) ==
  /\ Reading(r, "end")
  /\ EndStream(r)
  /\ UNCHANGED mishap

\* An event that cannot be parsed is skipped, whatever it was.
Garbled(r) ==
  /\ CloudCalling(r, "reading")
  /\ mishap[r] = "none"
  /\ mishap' = [mishap EXCEPT ![r] = "garbled"]
  /\ \/ up[r].due = "role" /\ up' = [up EXCEPT ![r].due = "text"]
     \/ /\ up[r].due = "text" /\ up[r].texts < MaxTexts
        /\ up' = [up EXCEPT ![r].texts = @ + 1, ![r].lost = @ \cup {up[r].texts + 1}]
     \/ up[r].due = "text" /\ up' = [up EXCEPT ![r].due = "end"]
  /\ UNCHANGED <<ask, stage, open, sent, unread, answer, result, reply>>

\* A broken connection, the timeout, an error event: logged, and the loop left.
CutOff(r) ==
  /\ CloudCalling(r, "reading")
  /\ mishap' = [mishap EXCEPT ![r] = "cut"]
  /\ EndStream(r)

UpstreamStep(r) ==
  \/ Post(r) \/ NoResponse(r) \/ Refused(r) \/ Plain(r) \/ Streams(r)
  \/ RoleEvent(r) \/ TextEvent(r) \/ FinishEvent(r) \/ GoesOn(r) \/ Done(r) \/ Garbled(r) \/ CutOff(r)

=============================================================================
