------------------------------- MODULE Worker -------------------------------
(***************************************************************************)
(* The worker thread of a local model (src/engine/llama/worker.rs), the    *)
(* generation loop it runs (inference.rs) and the calls that reach it      *)
(* through the command channel (mod.rs, protocol.rs).  One model, which is *)
(* loaded by the first call and shut down once; placement, eviction and    *)
(* reloading are ModelLifecycle's.                                         *)
(***************************************************************************)
EXTENDS Calls

CONSTANTS
  QueueCap,     \* capacity of the command channel
  ContextSize,  \* context_size of the model, in tokens
  BatchSize,    \* batch_size, 512 if not configured
  Pieces,       \* texts of the tokens the model may sample: sequences of characters
  StopSeqs,     \* the stop sequences of the requests, in order
  LoadMayFail,  \* whether llama.cpp may refuse the model
  MayPanic      \* whether inference may panic

ASSUME WorkerAssumption ==
  /\ Requests \cap {"Load", "Shutdown"} = {}
  /\ QueueCap \in Nat \ {0}
  /\ ContextSize \in Nat \ {0}
  /\ BatchSize \in Nat \ {0}
  /\ \A p \in Pieces : p \in Seq(Range(p))
  /\ LoadMayFail \in BOOLEAN /\ MayPanic \in BOOLEAN

VARIABLES
  loadState,  \* "Unloaded", "Loading" or "Loaded"
  poisoned,   \* the flag of the same name
  draining,   \* the flag of the same name
  drain,      \* how far shutdown is: "no", "sending", "joining" or "over"
  thread,     \* the worker: "none", "idle", "busy", "unwinding" or "exited"
  queue,      \* commands in the channel: requests, "Load" and "Shutdown"
  gen         \* the generation in progress

workerVars == <<loadState, poisoned, draining, drain, thread, queue, gen>>

NoGen == [req |-> None, phase |-> "none", pieces |-> <<>>, text |-> <<>>, tokens |-> 0, next |-> 0,
          reason |-> "length"]

WorkerInit ==
  /\ loadState = "Unloaded"
  /\ poisoned = FALSE
  /\ draining = FALSE
  /\ drain = "no"
  /\ thread = "none"
  /\ queue = <<>>
  /\ gen = NoGen

backendVars == <<loadState, poisoned, draining, drain>>
-----------------------------------------------------------------------------
(* format_prompt: the messages as the model gets them, a sequence of turns *)
(* that ends in one for the model to fill.                                 *)

\* The roles a Gemma-style template knows.
GemmaRole(role) == IF role = "assistant" THEN "model" ELSE "user"

\* A model without a template gets ChatML; one whose template the legacy engine
\* and then the Jinja engine (both of llama.cpp) cannot apply gets Gemma turns.
FormatPrompt(template, ms) ==
  IF template = "unusable"
  THEN Append([i \in DOMAIN ms |-> [ms[i] EXCEPT !.role = GemmaRole(@)]], [role |-> "model", content |-> None])
  ELSE Append(ms, [role |-> "assistant", content |-> None])
-----------------------------------------------------------------------------
(* A call: ensure_loaded_for_request, cmd_tx, send, and the wait.          *)

Calling(r, s) == stage[r] = s /\ ask[r].model \in Local

Alive == thread \notin {"none", "exited"}

Refuse(r, e) ==
  /\ Settle({r}, e)
  /\ UNCHANGED <<ask, open, sent, unread, mishap, answer, workerVars>>

Step(r, s) ==
  /\ Goto(r, s)
  /\ UNCHANGED <<ask, open, sent, unread, mishap, answer, result, reply>>

\* The flags are looked at once before the load state is.
Enter(r) ==
  /\ Calling(r, "called")
  /\ \/ poisoned /\ Refuse(r, "BackendPoisoned")
     \/ ~poisoned /\ draining /\ Refuse(r, "BackendDraining")
     \/ ~poisoned /\ ~draining /\ Step(r, "entered") /\ UNCHANGED workerVars

\* The first caller leads the load and spawns the thread; the others wait.
EnsureLoaded(r) ==
  /\ Calling(r, "entered")
  /\ \/ /\ loadState = "Loaded"
        /\ Step(r, "guarded")
        /\ UNCHANGED workerVars
     \/ /\ loadState = "Unloaded"
        /\ drain = "no"
        /\ loadState' = "Loading"
        /\ thread' = "idle"
        /\ queue' = <<"Load">>
        /\ Step(r, "leading")
        /\ UNCHANGED <<poisoned, draining, drain, gen>>

\* Who passed the flags before the shutdown finds no model after it and loads once
\* more, in a second thread that never gets a command: cmd_tx refuses this call, and
\* who looked at the flags before has got the lock by the time a load is through.
LoadTooLate(r) ==
  /\ Calling(r, "entered")
  /\ loadState = "Unloaded"
  /\ drain # "no"
  /\ ~\E q \in Requests : Calling(q, "checked")
  /\ \/ Settle({r}, "BackendDraining") /\ UNCHANGED mishap
     \/ /\ LoadMayFail
        /\ Settle({r}, "ModelLoadFailed")
        /\ mishap' = [mishap EXCEPT ![r] = "load"]
  /\ UNCHANGED <<ask, open, sent, unread, answer, workerVars>>

\* cmd_tx looks at the flags again ...
CheckFlags(r) ==
  /\ Calling(r, "guarded")
  /\ \/ poisoned /\ Refuse(r, "BackendPoisoned")
     \/ ~poisoned /\ draining /\ Refuse(r, "BackendDraining")
     \/ ~poisoned /\ ~draining /\ Step(r, "checked") /\ UNCHANGED workerVars

\* ... and then, once it has the lock, at the load state.
TakeSender(r) ==
  /\ Calling(r, "checked")
  /\ IF loadState = "Loaded"
     THEN Step(r, "sending") /\ UNCHANGED workerVars
     ELSE Refuse(r, "InferenceFailed")

\* The command waits for room; the channel is closed when the thread has exited.
SendCommand(r) ==
  /\ Calling(r, "sending")
  /\ \/ /\ Alive
        /\ Len(queue) < QueueCap
        /\ queue' = Append(queue, r)
        /\ Step(r, "waiting")
        /\ UNCHANGED <<backendVars, thread, gen>>
     \/ ~Alive /\ Refuse(r, "BackendPoisoned")

LocalCall(r) ==
  Enter(r) \/ EnsureLoaded(r) \/ LoadTooLate(r) \/ CheckFlags(r) \/ TakeSender(r) \/ SendCommand(r)
-----------------------------------------------------------------------------
(* The thread.                                                             *)

NextIs(c) == queue # <<>> /\ Head(queue) = c

\* The first command: the model is there, and the leader is told.  A shutdown in
\* the meantime does not stop it.
Load ==
  /\ thread = "idle"
  /\ NextIs("Load")
  /\ loadState' = "Loaded"
  /\ queue' = Tail(queue)
  /\ \E r \in Requests : Calling(r, "leading") /\ Step(r, "guarded")
  /\ UNCHANGED <<poisoned, draining, drain, thread, gen>>

\* llama.cpp does not start or refuses the file, or panics: the thread exits.
LoadFails ==
  /\ LoadMayFail
  /\ thread = "idle"
  /\ NextIs("Load")
  /\ loadState' = "Unloaded"
  /\ thread' = "exited"
  /\ queue' = <<>>
  /\ \E r \in Requests :
       /\ Calling(r, "leading")
       /\ mishap' = [mishap EXCEPT ![r] = "load"]
       /\ Settle({r}, "ModelLoadFailed")
  /\ UNCHANGED <<ask, open, sent, unread, answer, poisoned, draining, drain, gen>>

\* handle_chat and handle_chat_stream; a stream begins with the role.
TakeCommand ==
  /\ thread = "idle"
  /\ queue # <<>>
  /\ Head(queue) \in Requests
  /\ thread' = "busy"
  /\ queue' = Tail(queue)
  /\ gen' = [NoGen EXCEPT !.req = Head(queue),
                          !.phase = IF ask[Head(queue)].stream THEN "role" ELSE "prompt"]
  /\ UNCHANGED <<backendVars, callVars>>

\* One step of the generation of r, which is in phase p.
InPhase(p) == thread = "busy" /\ gen.phase = p

ToPhase(p) == gen' = [gen EXCEPT !.phase = p]

\* The command is answered and the thread takes the next.
Answer(v) ==
  /\ Settle({gen.req}, v)
  /\ answer' = [answer EXCEPT ![gen.req] = gen.text]
  /\ thread' = "idle"
  /\ gen' = NoGen
  /\ UNCHANGED <<ask, open, mishap, backendVars, queue>>

SendRole ==
  /\ InPhase("role")
  /\ \/ Send(gen.req, Role) /\ ToPhase("prompt")
        /\ UNCHANGED <<ask, stage, open, mishap, answer, result, reply, backendVars, thread, queue>>
     \/ ~open[gen.req] /\ Answer("Ok") /\ NoSend

\* The batch keeps its configured size.
BatchCapacity_Configured(prompt) == Min({BatchSize, ContextSize})

BatchCapacity(prompt) == Min({Max({BatchSize, prompt}), ContextSize})

PromptFault(p) ==
  IF p > ContextSize           THEN "ContextLengthExceeded"
  ELSE IF p > BatchCapacity(p) THEN "InferenceFailed"
  ELSE "none"

\* The whole prompt is decoded as one batch.
Prompt ==
  LET p == ask[gen.req].prompt IN
  /\ InPhase("prompt")
  /\ IF PromptFault(p) = "none"
     THEN /\ gen' = [gen EXCEPT !.phase = "sample", !.next = p]
          /\ UNCHANGED <<callVars, backendVars, thread, queue>>
     ELSE Answer(PromptFault(p)) /\ NoSend

\* check_stop_sequences: the first stop sequence the text ends with.
StopsAt(text) == {i \in DOMAIN StopSeqs : IsSuffix(StopSeqs[i], text)}
Truncated(text) == SubSeq(text, 1, Len(text) - Len(StopSeqs[Min(StopsAt(text))]))

\* The loop ends: a stream gets its finish reason.
EndLoop(g) == gen' = [g EXCEPT !.phase = IF ask[g.req].stream THEN "finish" ELSE "answer"]

\* The piece goes out before the text is looked at.
Sampled_StopAfterSend(p) ==
  LET g == [gen EXCEPT !.text = @ \o p, !.tokens = @ + 1, !.pieces = Append(@, p)] IN
  gen' = [g EXCEPT !.phase = IF ask[g.req].stream THEN "push" ELSE "decode"]

\* A piece that completes a stop sequence is cut off and not sent.
Sampled(p) ==
  LET g == [gen EXCEPT !.text = @ \o p, !.tokens = @ + 1] IN
  IF StopsAt(g.text) # {}
  THEN EndLoop([g EXCEPT !.text = Truncated(g.text), !.reason = "stop"])
  ELSE gen' = [g EXCEPT !.pieces = Append(@, p), !.phase = IF ask[g.req].stream THEN "push" ELSE "decode"]

\* One round of the loop: end of generation, a piece (without text, if more tokens
\* make its first character), or a token that llama.cpp cannot turn into one.
Sample ==
  /\ InPhase("sample")
  /\ \/ gen.tokens = ask[gen.req].max /\ EndLoop(gen)
     \/ /\ gen.tokens < ask[gen.req].max
        /\ \/ EndLoop([gen EXCEPT !.reason = "stop"])
           \/ \E p \in Pieces : Sampled(p)
           \/ gen' = [gen EXCEPT !.tokens = @ + 1, !.phase = "decode"]
  /\ UNCHANGED <<callVars, backendVars, thread, queue>>

\* The callback of a stream; when the client has gone there is no final chunk.
Push ==
  /\ InPhase("push")
  /\ \/ Send(gen.req, Text(Last(gen.pieces))) /\ ToPhase("decode")
        /\ UNCHANGED <<ask, stage, open, mishap, answer, result, reply, backendVars, thread, queue>>
     \/ ~open[gen.req] /\ Answer("Ok") /\ NoSend

\* The place of the token in the context: it must be the next one, and exist.
Position == ask[gen.req].prompt + gen.tokens - 1

Decode ==
  /\ InPhase("decode")
  /\ IF Position = gen.next /\ Position < ContextSize
     THEN /\ gen' = [gen EXCEPT !.phase = "sample", !.next = @ + 1]
          /\ UNCHANGED <<callVars, backendVars, thread, queue>>
     ELSE Answer("InferenceFailed") /\ NoSend

\* The chunk with the finish reason, if the client is there to take it ...
SendFinish ==
  /\ InPhase("finish")
  /\ \/ Send(gen.req, Finish(gen.reason))
     \/ ~open[gen.req] /\ NoSend
  /\ ToPhase("answer")
  /\ UNCHANGED <<ask, stage, open, mishap, answer, result, reply, backendVars, thread, queue>>

\* ... and the answer to the command.
Complete == InPhase("answer") /\ Answer("Ok") /\ NoSend

\* Something in llama.cpp fails: the template, the tokenizer, the context, or the
\* decoding of the prompt or of a token, after text went out.
LibraryFails ==
  /\ InPhase("prompt") \/ InPhase("decode")
  /\ mishap[gen.req] = "none"
  /\ Settle({gen.req}, "InferenceFailed")
  /\ mishap' = [mishap EXCEPT ![gen.req] = "library"]
  /\ thread' = "idle"
  /\ gen' = NoGen
  /\ UNCHANGED <<ask, open, sent, unread, answer, backendVars, queue>>

\* Inference panics: while the stack unwinds the command goes, and with it the
\* sender its caller waits for.
Panic ==
  /\ MayPanic
  /\ thread = "busy"
  /\ gen.phase \in {"prompt", "sample", "decode"}
  /\ Settle({gen.req}, "BackendPoisoned")
  /\ mishap' = [mishap EXCEPT ![gen.req] = "panic"]
  /\ thread' = "unwinding"
  /\ gen' = NoGen
  /\ UNCHANGED <<ask, open, sent, unread, answer, backendVars, queue>>

Queued == ToSet(queue) \cap Requests

\* The thread goes on after a panic.
Poison_Continues ==
  /\ thread = "unwinding"
  /\ poisoned' = TRUE
  /\ thread' = "idle"
  /\ UNCHANGED <<callVars, loadState, draining, drain, queue, gen>>

\* Then the flag is set and the thread exits; what is queued goes with it.
Poison ==
  /\ thread = "unwinding"
  /\ poisoned' = TRUE
  /\ thread' = "exited"
  /\ queue' = <<>>
  /\ Settle(Queued, "BackendPoisoned")
  /\ UNCHANGED <<ask, open, sent, unread, mishap, answer, loadState, draining, drain, gen>>

\* Commands behind a Shutdown are dropped like those behind a panic.
Stop ==
  /\ thread = "idle"
  /\ NextIs("Shutdown")
  /\ thread' = "exited"
  /\ queue' = <<>>
  /\ Settle(Queued, "BackendPoisoned")
  /\ UNCHANGED <<ask, open, sent, unread, mishap, answer, backendVars, gen>>

ThreadStep ==
  Load \/ LoadFails \/ TakeCommand \/ SendRole \/ Prompt \/ Sample \/ Push \/ Decode \/ SendFinish \/ Complete \/ Poison \/ Stop
-----------------------------------------------------------------------------
(* shutdown.                                                               *)

\* New calls are refused from now on, and the load state is Unloaded whatever it was.
\* A backend that is still loading is not waited for: its load goes on and sets the
\* state to Loaded after all.
BeginDrain ==
  /\ drain = "no"
  /\ draining' = TRUE
  /\ loadState' = "Unloaded"
  /\ drain' = IF loadState = "Loaded" THEN "sending" ELSE "over"
  /\ UNCHANGED <<callVars, poisoned, thread, queue, gen>>

\* The command is sent only if there is room.
SendShutdown_TrySend ==
  /\ drain = "sending"
  /\ IF Alive
     THEN drain' = "joining" /\ queue' = IF Len(queue) < QueueCap THEN Append(queue, "Shutdown") ELSE queue
     ELSE drain' = "over" /\ UNCHANGED queue
  /\ UNCHANGED <<callVars, loadState, poisoned, draining, thread, gen>>

\* Shutdown waits for room like any command, without a limit.
SendShutdown ==
  /\ drain = "sending"
  /\ \/ Alive /\ Len(queue) < QueueCap /\ queue' = Append(queue, "Shutdown") /\ drain' = "joining"
     \/ ~Alive /\ drain' = "over" /\ UNCHANGED queue
  /\ UNCHANGED <<callVars, loadState, poisoned, draining, thread, gen>>

\* The grace period bounds the wait for the acknowledgement only: the thread is
\* joined in any case.
Join ==
  /\ drain = "joining"
  /\ thread = "exited"
  /\ drain' = "over"
  /\ UNCHANGED <<callVars, loadState, poisoned, draining, thread, queue, gen>>

DrainStep == SendShutdown \/ Join

WorkerStep == ThreadStep \/ LibraryFails \/ Panic \/ BeginDrain \/ DrainStep

=============================================================================
