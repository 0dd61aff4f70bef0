-------------------------------- MODULE Calls --------------------------------
(***************************************************************************)
(* Chat calls as the handler makes them and a backend sees them: the trait *)
(* InferenceBackend (src/engine/backend.rs), the types of src/api/types.rs *)
(* and the ends of chat_completions (src/api/chat.rs) that call it.        *)
(***************************************************************************)
EXTENDS Integers, Sequences, FiniteSets, SequencesExt, FiniteSetsExt, Errors

CONSTANTS
  Requests,   \* calls
  Asks,       \* what they may ask for: functions from Requests to records
  Local,      \* models served by the worker thread
  OpenAI,     \* models behind an OpenAI-compatible API
  Anthropic,  \* models behind Anthropic's API
  TokenCap,   \* max_tokens_cap of the backends
  ChunkCap,   \* capacity of the channel of a stream
  None

Registered == Local \cup OpenAI \cup Anthropic

ASSUME CallsAssumption ==
  /\ IsFiniteSet(Requests)
  /\ Local \cap (OpenAI \cup Anthropic) = {}
  /\ \A f \in Asks : f \in [Requests -> [model : STRING, stream : BOOLEAN, empty : BOOLEAN,
                                         prompt : Nat, max : Nat]]
  /\ TokenCap \in Nat
  /\ ChunkCap \in Nat \ {0}

VARIABLES
  ask,      \* ask[r]: model, stream, no messages, tokens of the prompt, max_tokens
  stage,    \* stage[r]: how far the call is
  open,     \* open[r]: the client is there
  sent,     \* sent[r]: chunks accepted by the channel of r, in order
  unread,   \* unread[r]: how many of them the client has still to take
  mishap,   \* mishap[r]: what went wrong for r outside this program
  answer,   \* answer[r]: the text that the call produced
  result,   \* result[r]: "none", "Ok", an EngineError, or "Dropped"
  reply     \* reply[r]: status and Retry-After of the HTTP response

callVars == <<ask, stage, open, sent, unread, mishap, answer, result, reply>>

CallsInit ==
  /\ ask \in Asks
  /\ stage = [r \in Requests |-> "idle"]
  /\ open = [r \in Requests |-> TRUE]
  /\ sent = [r \in Requests |-> <<>>]
  /\ unread = [r \in Requests |-> 0]
  /\ mishap = [r \in Requests |-> "none"]
  /\ answer = [r \in Requests |-> <<>>]
  /\ result = [r \in Requests |-> "none"]
  /\ reply = [r \in Requests |-> None]

Role == <<"role", None>>
Text(v) == <<"text", v>>
Finish(reason) == <<"finish", reason>>

Goto(r, s) == stage' = [stage EXCEPT ![r] = s]

Respond(r, status, retry) == reply' = [reply EXCEPT ![r] = Response(status, retry)]

Clamp(max) == Min({max, TokenCap})

Unknown(r) == ask[r].model \notin Registered

\* chat_completions up to the call: lookup, validation, the silent clamp.  The
\* response to a stream has begun, with 200, before the backend is asked.
Arrive(r) ==
  /\ stage[r] = "idle"
  /\ \/ /\ Unknown(r)
        /\ Respond(r, StatusOf("ModelNotFound"), 0)
        /\ Goto(r, "over")
        /\ UNCHANGED ask
     \/ /\ ~Unknown(r) /\ ask[r].empty
        /\ Respond(r, StatusOf("BadRequest"), 0)
        /\ Goto(r, "over")
        /\ UNCHANGED ask
     \/ /\ ~Unknown(r) /\ ~ask[r].empty
        /\ ask' = [ask EXCEPT ![r].max = Clamp(@)]
        /\ IF ask[r].stream THEN Respond(r, 200, 0) ELSE UNCHANGED reply
        /\ Goto(r, "called")
  /\ UNCHANGED <<open, sent, unread, mishap, answer, result>>

\* tx.send: possible when there is room, refused when the client has gone.
CanSend(r) == unread[r] < ChunkCap \/ ~open[r]

Send(r, chunk) ==
  /\ open[r]
  /\ unread[r] < ChunkCap
  /\ sent' = [sent EXCEPT ![r] = Append(@, chunk)]
  /\ unread' = [unread EXCEPT ![r] = @ + 1]

NoSend == UNCHANGED <<sent, unread>>

\* The calls of rs return v; who waits for a plain answer gets its status.
Settle(rs, v) ==
  /\ result' = [r \in Requests |-> IF r \in rs /\ result[r] = "none" THEN v ELSE result[r]]
  /\ stage' = [r \in Requests |-> IF r \in rs THEN "over" ELSE stage[r]]
  /\ reply' = [r \in Requests |->
                 IF r \in rs /\ result[r] = "none" /\ ~ask[r].stream
                 THEN IF v = "Ok" THEN Response(200, 0) ELSE ErrorResponse(v)
                 ELSE reply[r]]

Read(r) ==
  /\ open[r]
  /\ unread[r] > 0
  /\ unread' = [unread EXCEPT ![r] = @ - 1]
  /\ UNCHANGED <<ask, stage, open, sent, mishap, answer, result, reply>>

\* The client disconnects.  A streaming call is a task of its own and learns it
\* when it sends; the future of a plain one is dropped where it waits (what that
\* does to a load it leads is in ModelLifecycle).
Leave(r) ==
  /\ open[r]
  /\ stage[r] \notin {"idle", "over"}
  /\ ask[r].stream \/ stage[r] # "leading"
  /\ open' = [open EXCEPT ![r] = FALSE]
  /\ unread' = [unread EXCEPT ![r] = 0]
  /\ IF ask[r].stream THEN UNCHANGED <<stage, result>>
     ELSE /\ stage' = [stage EXCEPT ![r] = "over"]
          /\ result' = [result EXCEPT ![r] = "Dropped"]
  /\ UNCHANGED <<ask, sent, mishap, answer, reply>>

Kinds(r) == [i \in DOMAIN sent[r] |-> sent[r][i][1]]

\* Which of the chunks sent to r bring text.
TextsOf(r) == {i \in DOMAIN sent[r] : sent[r][i][1] = "text"}

\* What a client reads that puts the contents of its chunks together: those of a
\* role and of a finish are empty.
Content(chunk) == IF chunk[1] = "text" THEN chunk[2] ELSE <<>>
Said(r) == FlattenSeq([i \in DOMAIN sent[r] |-> Content(sent[r][i])])

Finished(r) == "finish" \in ToSet(Kinds(r))

=============================================================================
