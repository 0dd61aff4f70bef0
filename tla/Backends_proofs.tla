-------------------------- MODULE Backends_proofs --------------------------
(***************************************************************************)
(* Theorems about Backends, for any number of calls, models, queue and     *)
(* channel capacities, context sizes and stop sequences: what a panic      *)
(* leaves behind, whose fault the client is told, that both kinds of       *)
(* backends implement AnswerStream, and that a finished answer is whole.   *)
(***************************************************************************)
EXTENDS Backends, SequenceTheorems, NaturalsInduction, WellFoundedInduction, TLAPS

(***************************************************************************)
(* The inductive invariant.                                                *)
(***************************************************************************)

Ask == [model : STRING, stream : BOOLEAN, empty : BOOLEAN, prompt : Nat, max : Nat]
Unsent == {"idle", "called", "entered", "leading", "guarded", "checked", "sending", "posted"}
LocalStages == {"entered", "leading", "guarded", "checked", "sending", "waiting"}
Stages == Unsent \cup {"waiting", "reading", "over"}
Results == EngineErrors \cup {"none", "Ok", "Dropped"}
LocalMishaps == {"none", "load", "library", "panic"}
CloudMishaps == {"none", "429", "4xx", "5xx", "timeout", "connect", "transport", "garbled", "cut"}
Chunks == {"role", "text", "finish"} \X (Pieces \cup Nat \cup {None, "stop", "length"})
Phases == {"role", "prompt", "sample", "push", "decode", "finish", "answer"}

CallTypes ==
  /\ ask \in [Requests -> Ask]
  /\ stage \in [Requests -> Stages]
  /\ open \in [Requests -> BOOLEAN]
  /\ sent \in [Requests -> Seq(Chunks)]
  /\ unread \in [Requests -> Nat]
  /\ mishap \in [Requests -> LocalMishaps \cup CloudMishaps]
  /\ result \in [Requests -> Results]
  /\ reply \in [Requests -> [status : Nat, retry : Nat] \cup {None}]

IsGen(g) ==
  g = [req |-> g.req, phase |-> g.phase, pieces |-> g.pieces, text |-> g.text, tokens |-> g.tokens,
       next |-> g.next, reason |-> g.reason]

WorkerTypes ==
  /\ loadState \in {"Unloaded", "Loading", "Loaded"}
  /\ poisoned \in BOOLEAN /\ draining \in BOOLEAN
  /\ drain \in {"no", "sending", "joining", "over"}
  /\ thread \in {"none", "idle", "busy", "unwinding", "exited"}
  /\ queue \in Seq(Requests \cup {"Load", "Shutdown"})
  /\ IsGen(gen)
  /\ gen.pieces \in Seq(Pieces) /\ gen.tokens \in Nat /\ gen.next \in Int
  /\ gen.reason \in {"stop", "length"}

UpRecord == [due : {"none", "role", "text", "end"}, texts : Nat, lost : SUBSET Nat, on : BOOLEAN]
UpTypes == up \in [Requests -> UpRecord]

\* The flags against the load state and the thread: the chain behind both the
\* panic and the shutdown.
Usable == loadState = "Loaded" \/ draining

FlagInv ==
  /\ draining <=> drain # "no"
  /\ \A i \in DOMAIN queue : queue[i] = "Shutdown" => draining
  /\ \A i \in DOMAIN queue : queue[i] = "Load" => i = 1 /\ (loadState = "Loading" \/ draining)
  /\ poisoned => thread = "exited" /\ Usable
  /\ loadState = "Loaded" => Alive \/ poisoned \/ draining
  /\ thread \in {"busy", "unwinding"} => Usable
  /\ \A r \in Requests : stage[r] \in {"guarded", "checked", "sending"} => Usable
  /\ \A i \in DOMAIN queue : queue[i] \in Requests => Usable

\* Who waits for the worker, in its queue or in its hands, is there once, and is
\* still to be answered or has left.
Awaited(r) ==
  /\ ask[r].model \in Local
  /\ \/ stage[r] = "waiting"
     \/ stage[r] = "over" /\ ~ask[r].stream /\ result[r] = "Dropped" /\ reply[r] = None

QueueInv ==
  /\ \A r \in Requests : \A i \in DOMAIN queue : queue[i] = r => Awaited(r) /\ sent[r] = <<>>
  /\ \A i, j \in DOMAIN queue : queue[i] \in Requests /\ queue[i] = queue[j] => i = j
  /\ thread = "busy" => \A i \in DOMAIN queue : queue[i] # gen.req

NoFinish(r) == \A i \in DOMAIN sent[r] : sent[r][i][1] # "finish"

\* The generation in progress: what it has sent, and its place in the context.
PhaseOK ==
  /\ gen.phase \in Phases
  /\ gen.phase \in {"role", "push", "finish"} => ask[gen.req].stream
  /\ gen.phase = "role" => sent[gen.req] = <<>>
  /\ gen.phase # "answer" => NoFinish(gen.req)
  /\ gen.phase \in {"role", "prompt"} => gen.tokens = 0
  /\ gen.tokens <= ask[gen.req].max
  /\ gen.phase = "sample" => gen.next = ask[gen.req].prompt + gen.tokens
  /\ gen.phase \in {"push", "decode"} =>
       gen.tokens > 0 /\ gen.next = ask[gen.req].prompt + gen.tokens - 1
  /\ gen.phase = "push" => gen.pieces # <<>>

GenInv ==
  /\ thread # "busy" => gen = NoGen
  /\ thread = "busy" => gen.req \in Requests /\ Awaited(gen.req) /\ PhaseOK

\* The stages of a call.
StageOK(r) ==
  /\ stage[r] \in LocalStages => ask[r].model \in Local
  /\ stage[r] \in {"posted", "reading"} => ask[r].model \in Cloud
  /\ stage[r] # "over" => result[r] = "none"
  /\ stage[r] \in Unsent \/ ~ask[r].stream => sent[r] = <<>>
  /\ stage[r] = "reading" =>
       /\ ask[r].stream
       /\ up[r].due = "role" => sent[r] = <<>>
       /\ up[r].due = "text" => NoFinish(r) \/ up[r].on

\* What is told and what happened.
ReplyOK(r) ==
  /\ stage[r] = "idle" => reply[r] = None
  /\ ~ask[r].stream /\ stage[r] # "over" => reply[r] = None
  /\ stage[r] \in {"idle", "called", "entered", "posted"} => mishap[r] = "none"
  /\ ask[r].model \in Local => mishap[r] \in LocalMishaps
  /\ ask[r].stream /\ reply[r] # None =>
       reply[r].status \in {200, 400, 404} /\ (reply[r].status = 400 => ask[r].empty)

\* BlameIsRight, of one call.
Blame(r) ==
  reply[r] # None =>
    LET status == reply[r].status  isLocal == ask[r].model \in Local IN
    /\ status = 400 => ask[r].empty \/ (isLocal /\ ask[r].prompt > ContextSize)
    /\ status = 502 => mishap[r] \in {"429", "5xx", "timeout", "connect"}
    /\ status = 503 => isLocal /\ (poisoned \/ draining \/ mishap[r] = "panic")
    /\ status = 500 => \/ mishap[r] \in {"load", "library", "garbled", "4xx", "transport"}
                       \/ isLocal /\ (Overflows(r) \/ draining)
    /\ mishap[r] \in {"429", "5xx", "timeout", "connect"} /\ ~ask[r].stream => status = 502
    /\ reply[r].retry = 0

CallInv == \A r \in Requests : StageOK(r) /\ ReplyOK(r) /\ Blame(r)

BackendsInv ==
  /\ CallTypes
  /\ WorkerTypes
  /\ UpTypes
  /\ FlagInv
  /\ QueueInv
  /\ GenInv
  /\ CallInv

(***************************************************************************)
(* What the operators do.                                                  *)
(***************************************************************************)

LEMMA MinOfTwo ==
  ASSUME NEW a \in Int, NEW b \in Int
  PROVE  Min({a, b}) \in {a, b} /\ Min({a, b}) <= a /\ Min({a, b}) <= b
<1>1. \E x \in {a, b} : \A y \in {a, b} : x <= y
  BY SMT
<1> QED BY <1>1, Zenon DEF Min

LEMMA MaxOfTwo ==
  ASSUME NEW a \in Int, NEW b \in Int
  PROVE  Max({a, b}) \in {a, b} /\ Max({a, b}) >= a /\ Max({a, b}) >= b
<1>1. \E x \in {a, b} : \A y \in {a, b} : x >= y
  BY SMT
<1> QED BY <1>1, Zenon DEF Max

\* The clamp of max_tokens yields a number of tokens.
LEMMA ClampIsNat ==
  ASSUME NEW max \in Nat
  PROVE  Clamp(max) \in Nat
<1>1. max \in Int /\ TokenCap \in Int
  BY CallsAssumption
<1>2. Min({max, TokenCap}) \in {max, TokenCap}
  BY Zenon, <1>1, MinOfTwo
<1> QED BY <1>2, CallsAssumption DEF Clamp

\* The batch that is allocated holds any prompt that fits the context.
LEMMA BatchHoldsPrompt ==
  ASSUME NEW p \in Nat
  PROVE  PromptFault(p) \in {"ContextLengthExceeded", "none"} /\ (PromptFault(p) # "none" => p > ContextSize)
<1> DEFINE most == Max({BatchSize, p})
<1>0. BatchSize \in Int /\ p \in Int /\ ContextSize \in Int
  BY WorkerAssumption
<1>a. most \in {BatchSize, p} /\ most >= p
  BY Zenon, <1>0, MaxOfTwo
<1>1. most \in Nat /\ most >= p
  BY <1>a, WorkerAssumption
<1> HIDE DEF most
<1>b. most \in Int
  BY <1>1
<1>2. Min({most, ContextSize}) \in {most, ContextSize}
  BY Zenon, <1>0, <1>b, MinOfTwo
<1>3. p > ContextSize \/ p <= BatchCapacity(p)
  BY <1>1, <1>2, WorkerAssumption DEF BatchCapacity, most
<1>4. BatchCapacity(p) \in Nat
  BY <1>1, <1>2, WorkerAssumption DEF BatchCapacity, most
<1> QED BY <1>3, <1>4, <1>0 DEF PromptFault

\* The tables of error.rs: what the status of an error is.
LEMMA StatusMeans ==
  ASSUME NEW e \in EngineErrors
  PROVE  /\ ErrorResponse(e) \in [status : Nat, retry : Nat]
         /\ ErrorResponse(e).status = 400 => e = "ContextLengthExceeded"
         /\ ErrorResponse(e).status = 502 <=>
              e \in {"Timeout", "Network", "UpstreamServerError", "RateLimited", "AllBackendsFailed"}
         /\ ErrorResponse(e).status = 503 <=>
              e \in {"BackendPoisoned", "BackendDraining", "ModelUnavailable", "BackendBusy"}
         /\ ErrorResponse(e).status = 500 => e \in {"ModelLoadFailed", "InferenceFailed", "NotImplemented"}
         /\ e \notin {"ModelUnavailable", "BackendBusy"} => ErrorResponse(e).retry = 0
BY DEF EngineErrors, ErrorResponse, Response, StatusOf, ApiError, RetryAfter

\* What Settle does to the calls it ends, and to the others.
LEMMA SettleMeans ==
  ASSUME CallTypes, NEW rs \in SUBSET Requests, NEW v \in Results \ {"none", "Dropped"}, Settle(rs, v)
  PROVE  /\ stage' \in [Requests -> Stages]
         /\ result' \in [Requests -> Results]
         /\ reply' \in [Requests -> [status : Nat, retry : Nat] \cup {None}]
         /\ \A r \in Requests \ rs :
              stage'[r] = stage[r] /\ result'[r] = result[r] /\ reply'[r] = reply[r]
         /\ \A r \in rs :
              /\ stage'[r] = "over"
              /\ result'[r] = IF result[r] = "none" THEN v ELSE result[r]
              /\ result[r] # "none" \/ ask[r].stream => reply'[r] = reply[r]
              /\ result[r] = "none" /\ ~ask[r].stream =>
                   reply'[r] = IF v = "Ok" THEN Response(200, 0) ELSE ErrorResponse(v)
<1>1. Response(200, 0) \in [status : Nat, retry : Nat]
  BY DEF Response
<1>2. v # "Ok" => ErrorResponse(v) \in [status : Nat, retry : Nat]
  BY StatusMeans DEF Results
<1>3. stage' \in [Requests -> Stages]
  BY DEF Settle, CallTypes, Stages
<1>4. result' \in [Requests -> Results]
  BY DEF Settle, CallTypes
<1>5. reply' \in [Requests -> [status : Nat, retry : Nat] \cup {None}]
  BY <1>1, <1>2 DEF Settle, CallTypes
<1>6. \A r \in Requests :
        /\ stage'[r] = IF r \in rs THEN "over" ELSE stage[r]
        /\ result'[r] = IF r \in rs /\ result[r] = "none" THEN v ELSE result[r]
        /\ reply'[r] = IF r \in rs /\ result[r] = "none" /\ ~ask[r].stream
                       THEN IF v = "Ok" THEN Response(200, 0) ELSE ErrorResponse(v)
                       ELSE reply[r]
  BY DEF Settle
<1> QED BY <1>3, <1>4, <1>5, <1>6

(***************************************************************************)
(* What is left alone keeps what the invariant says of it.                 *)
(***************************************************************************)

\* Nothing that the invariant says of the call r changes.
Untouched(r) ==
  /\ ask'[r] = ask[r] /\ stage'[r] = stage[r] /\ result'[r] = result[r] /\ reply'[r] = reply[r]
  /\ sent'[r] = sent[r] /\ mishap'[r] = mishap[r] /\ up'[r] = up[r]

FlagsStay == (draining => draining') /\ (poisoned => poisoned')

LEMMA OthersKept ==
  ASSUME BackendsInv, NEW r \in Requests, Untouched(r), FlagsStay
  PROVE  StageOK(r)' /\ ReplyOK(r)' /\ Blame(r)'
<1>0. StageOK(r) /\ ReplyOK(r) /\ Blame(r)
  BY DEF BackendsInv, CallInv
<1>1. StageOK(r)'
  BY <1>0 DEF StageOK, NoFinish, Untouched
<1>2. ReplyOK(r)'
  BY <1>0 DEF ReplyOK, Untouched
<1>3. Blame(r)'
  BY <1>0 DEF Blame, Untouched, FlagsStay, Overflows
<1> QED BY <1>1, <1>2, <1>3

\* A step that changes nothing of the worker, and only a call that is not there.
LEMMA OneCall ==
  ASSUME BackendsInv, UNCHANGED workerVars, NEW r \in Requests, stage[r] \notin {"waiting", "over"},
         CallTypes', UpTypes', \A q \in Requests \ {r} : Untouched(q),
         stage'[r] \in {"guarded", "checked", "sending"} => Usable,
         StageOK(r)', ReplyOK(r)', Blame(r)'
  PROVE  BackendsInv'
<1>1. WorkerTypes'
  BY DEF BackendsInv, WorkerTypes, IsGen, workerVars
<1>2. FlagInv'
  <2>1. \A q \in Requests : stage'[q] \in {"guarded", "checked", "sending"} => Usable
    BY DEF BackendsInv, FlagInv, Untouched
  <2> QED BY <2>1 DEF BackendsInv, FlagInv, Usable, Alive, workerVars
<1>3. \A q \in Requests : Awaited(q) => q # r
  BY DEF Awaited
<1>4. \A q \in Requests : Awaited(q) => Awaited(q)' /\ sent'[q] = sent[q] /\ ask'[q] = ask[q]
  BY <1>3 DEF Awaited, Untouched
<1>5. QueueInv'
  <2>1. UNCHANGED <<queue, thread, gen>>
    BY DEF workerVars
  <2> QED BY <1>4, <2>1 DEF BackendsInv, QueueInv
<1>6. GenInv'
  <2>1. UNCHANGED <<thread, gen>>
    BY DEF workerVars
  <2>2. thread = "busy" => Awaited(gen.req)' /\ sent'[gen.req] = sent[gen.req] /\ ask'[gen.req] = ask[gen.req]
    BY <1>4, <2>1 DEF BackendsInv, GenInv, Awaited
  <2> QED BY <2>1, <2>2 DEF BackendsInv, GenInv, PhaseOK, Awaited, NoFinish, NoGen
<1>7. CallInv'
  <2>1. FlagsStay
    BY DEF FlagsStay, workerVars
  <2>2. \A q \in Requests \ {r} : StageOK(q)' /\ ReplyOK(q)' /\ Blame(q)'
    BY <2>1, OthersKept
  <2> QED BY <2>2 DEF CallInv
<1> QED BY <1>1, <1>2, <1>5, <1>6, <1>7 DEF BackendsInv

(***************************************************************************)
(* The end of a call: what justifies the answer v.                         *)
(***************************************************************************)

OwnFaults == {"load", "library", "garbled", "4xx", "transport"}
UpstreamFaults == {"429", "5xx", "timeout", "connect"}
Answers == {"Ok", "ContextLengthExceeded", "Timeout", "Network", "UpstreamServerError", "RateLimited",
            "BackendPoisoned", "BackendDraining", "ModelLoadFailed", "InferenceFailed"}

Justified(r, v) ==
  /\ v \in Answers
  /\ v = "ContextLengthExceeded" => ask[r].model \in Local /\ ask[r].prompt > ContextSize
  /\ v \in {"Timeout", "Network", "UpstreamServerError", "RateLimited"} => mishap'[r] \in UpstreamFaults
  /\ mishap'[r] \in UpstreamFaults =>
       ask[r].stream \/ v \in {"Timeout", "Network", "UpstreamServerError", "RateLimited"}
  /\ v \in {"BackendPoisoned", "BackendDraining"} =>
       ask[r].model \in Local /\ (poisoned' \/ draining' \/ mishap'[r] = "panic")
  /\ v \in {"ModelLoadFailed", "InferenceFailed"} =>
       mishap'[r] \in OwnFaults \/ (ask[r].model \in Local /\ (Overflows(r) \/ draining'))

LEMMA AnswersAreResults == Answers \subseteq Results \ {"none", "Dropped"} /\ Answers \ {"Ok"} \subseteq EngineErrors
BY DEF Answers, Results, EngineErrors

LEMMA BlameSettled ==
  ASSUME BackendsInv, NEW rs \in SUBSET Requests, NEW v, Settle(rs, v), UNCHANGED ask, FlagsStay,
         NEW r \in rs, Justified(r, v), result[r] # "none" /\ ~ask[r].stream => reply[r] = None,
         ask[r].model \in Local => mishap'[r] \in LocalMishaps
  PROVE  Blame(r)' /\ ReplyOK(r)'
<1>0. v \in Answers /\ CallTypes /\ r \in Requests /\ ask[r] \in Ask /\ ask[r].stream \in BOOLEAN
  BY DEF Justified, BackendsInv, CallTypes, Ask
<1>1. /\ stage'[r] = "over"
      /\ result[r] # "none" \/ ask[r].stream => reply'[r] = reply[r]
      /\ result[r] = "none" /\ ~ask[r].stream =>
           reply'[r] = IF v = "Ok" THEN Response(200, 0) ELSE ErrorResponse(v)
  BY <1>0, SettleMeans, AnswersAreResults
<1>2. ReplyOK(r) /\ Blame(r)
  BY DEF BackendsInv, CallInv
<1>3. Overflows(r)' <=> Overflows(r)
  BY DEF Overflows
<1>4. CASE ask[r].stream
  <2>1. Blame(r)'
    BY <1>0, <1>1, <1>2, <1>4 DEF Blame, ReplyOK
  <2>2. ReplyOK(r)'
    BY <1>0, <1>1, <1>2, <1>4 DEF ReplyOK
  <2> QED BY <2>1, <2>2
<1>5. CASE ~ask[r].stream /\ result[r] # "none"
  <2>1. reply'[r] = None
    BY <1>1, <1>5
  <2> QED BY <1>0, <1>1, <1>5, <2>1 DEF Blame, ReplyOK
<1>6. CASE ~ask[r].stream /\ result[r] = "none" /\ v = "Ok"
  <2>1. reply'[r].status = 200 /\ reply'[r].retry = 0
    BY <1>1, <1>6 DEF Response
  <2>2. Blame(r)'
    BY <2>1, <1>6 DEF Blame, Justified, UpstreamFaults
  <2>3. ReplyOK(r)'
    BY <1>0, <1>1, <1>6 DEF ReplyOK
  <2> QED BY <2>2, <2>3
<1>7. CASE ~ask[r].stream /\ result[r] = "none" /\ v # "Ok"
  <2>1. reply'[r] = ErrorResponse(v) /\ v \in EngineErrors
    BY <1>0, <1>1, <1>7, AnswersAreResults
  <2>2. /\ reply'[r].status = 400 => v = "ContextLengthExceeded"
        /\ reply'[r].status = 502 <=> v \in {"Timeout", "Network", "UpstreamServerError", "RateLimited"}
        /\ reply'[r].status = 503 => v \in {"BackendPoisoned", "BackendDraining"}
        /\ reply'[r].status = 500 => v \in {"ModelLoadFailed", "InferenceFailed"}
        /\ reply'[r].retry = 0
    BY <1>0, <2>1, StatusMeans DEF Answers
  <2> HIDE <2>1
  <2>3. Blame(r)'
    BY <2>2, <1>3, <1>7 DEF Blame, Justified, UpstreamFaults, OwnFaults
  <2>4. ReplyOK(r)'
    BY <1>0, <1>1, <1>7 DEF ReplyOK
  <2> QED BY <2>3, <2>4
<1> QED BY <1>0, <1>4, <1>5, <1>6, <1>7

\* A call that is not with the worker ends.
LEMMA CallSettles ==
  ASSUME BackendsInv, NEW r \in Requests, stage[r] \notin {"waiting", "over"},
         NEW v, Settle({r}, v), Justified(r, v),
         UNCHANGED <<ask, open, sent, unread, workerVars>>,
         UpTypes', \A q \in Requests \ {r} : up'[q] = up[q],
         NEW m \in LocalMishaps \cup CloudMishaps, mishap' = [mishap EXCEPT ![r] = m],
         ask[r].model \in Local => m \in LocalMishaps
  PROVE  BackendsInv'
<1>0. v \in Results \ {"none", "Dropped"} /\ CallTypes /\ {r} \in SUBSET Requests
  BY AnswersAreResults DEF Justified, BackendsInv
<1>1. /\ stage' \in [Requests -> Stages]
      /\ result' \in [Requests -> Results]
      /\ reply' \in [Requests -> [status : Nat, retry : Nat] \cup {None}]
      /\ \A q \in Requests \ {r} : stage'[q] = stage[q] /\ result'[q] = result[q] /\ reply'[q] = reply[q]
      /\ stage'[r] = "over"
  BY <1>0, SettleMeans
<1>2. mishap' \in [Requests -> LocalMishaps \cup CloudMishaps] /\ mishap'[r] = m
      /\ \A q \in Requests \ {r} : mishap'[q] = mishap[q]
  BY <1>0 DEF CallTypes
<1>3. CallTypes'
  BY <1>0, <1>1, <1>2 DEF CallTypes
<1>4. \A q \in Requests \ {r} : Untouched(q)
  BY <1>1, <1>2 DEF Untouched
<1>5. StageOK(r) /\ StageOK(r)'
  <2>1. StageOK(r)
    BY DEF BackendsInv, CallInv
  <2> QED BY <2>1, <1>1 DEF StageOK, LocalStages, Unsent, NoFinish
<1>6. result[r] = "none"
  BY <1>5 DEF StageOK
<1>7. FlagsStay
  BY DEF FlagsStay, workerVars
<1>8. Blame(r)' /\ ReplyOK(r)'
  BY <1>0, <1>2, <1>6, <1>7, BlameSettled
<1> QED BY <1>1, <1>3, <1>4, <1>5, <1>8, OneCall

\* A local call goes on to its next stage.
LEMMA CallSteps ==
  ASSUME BackendsInv, NEW r \in Requests, ask[r].model \in Local,
         stage[r] \in {"called", "entered", "guarded", "checked"},
         NEW s \in {"entered", "guarded", "checked", "sending"}, Step(r, s),
         s = "entered" => stage[r] = "called", s # "entered" => Usable,
         UNCHANGED <<workerVars, up>>
  PROVE  BackendsInv'
<1>0. CallTypes /\ UpTypes /\ StageOK(r) /\ ReplyOK(r) /\ Blame(r)
  BY DEF BackendsInv, CallInv
<1>1. /\ stage' \in [Requests -> Stages] /\ stage'[r] = s
      /\ \A q \in Requests \ {r} : stage'[q] = stage[q]
  BY <1>0 DEF Step, Goto, CallTypes, Stages, Unsent
<1>2. CallTypes' /\ UpTypes'
  BY <1>0, <1>1 DEF CallTypes, Step, UpTypes
<1>3. \A q \in Requests \ {r} : Untouched(q)
  BY <1>1 DEF Untouched, Step
<1>4. StageOK(r)'
  BY <1>0, <1>1 DEF StageOK, LocalStages, Unsent, NoFinish, Step
<1>5. ReplyOK(r)'
  BY <1>0, <1>1 DEF ReplyOK, Step
<1>6. Blame(r)'
  BY <1>0 DEF Blame, Step, Overflows, workerVars
<1> QED BY <1>1, <1>2, <1>3, <1>4, <1>5, <1>6, OneCall

(***************************************************************************)
(* Clients.                                                                *)
(***************************************************************************)

LEMMA ArriveKeeps ==
  ASSUME BackendsInv, NEW r \in Requests, Arrive(r), UNCHANGED <<workerVars, up>>
  PROVE  BackendsInv'
<1>0. CallTypes /\ UpTypes /\ StageOK(r) /\ ReplyOK(r) /\ Blame(r) /\ stage[r] = "idle" /\ ask[r] \in Ask
  BY DEF BackendsInv, CallInv, Arrive, CallTypes
<1>1. CASE \E a \in {"ModelNotFound", "BadRequest"} :
             /\ Respond(r, StatusOf(a), 0) /\ Goto(r, "over") /\ UNCHANGED ask
             /\ a = "BadRequest" => ask[r].empty
  <2>1. PICK a \in {"ModelNotFound", "BadRequest"} :
             /\ Respond(r, StatusOf(a), 0) /\ Goto(r, "over") /\ UNCHANGED ask
             /\ a = "BadRequest" => ask[r].empty
    BY <1>1
  <2>2. StatusOf(a) \in {400, 404} /\ (StatusOf(a) = 400 => a = "BadRequest")
    BY DEF StatusOf
  <2> DEFINE st == StatusOf(a)
  <2> HIDE DEF st
  <2>3. /\ reply' \in [Requests -> [status : Nat, retry : Nat] \cup {None}]
        /\ reply'[r] = [status |-> st, retry |-> 0]
        /\ \A q \in Requests \ {r} : reply'[q] = reply[q]
    BY <1>0, <2>1, <2>2 DEF Respond, Response, CallTypes, st
  <2>4. /\ stage' \in [Requests -> Stages] /\ stage'[r] = "over"
        /\ \A q \in Requests \ {r} : stage'[q] = stage[q]
    BY <1>0, <2>1 DEF Goto, CallTypes, Stages
  <2>5. UNCHANGED <<ask, open, sent, unread, mishap, answer, result>>
    BY <2>1 DEF Arrive
  <2>6. CallTypes' /\ UpTypes'
    BY <1>0, <2>3, <2>4, <2>5 DEF CallTypes, UpTypes
  <2>7. \A q \in Requests \ {r} : Untouched(q)
    BY <2>3, <2>4, <2>5 DEF Untouched
  <2>8. StageOK(r)'
    BY <1>0, <2>4, <2>5 DEF StageOK, LocalStages, Unsent
  <2>9. reply'[r].status = st /\ reply'[r].retry = 0 /\ st \in {400, 404} /\ (st = 400 => ask[r].empty)
    BY <2>1, <2>2, <2>3 DEF st
  <2>10. mishap[r] = "none"
    BY <1>0 DEF ReplyOK
  <2>11. ReplyOK(r)'
    BY <1>0, <2>4, <2>5, <2>9, <2>10 DEF ReplyOK, LocalMishaps
  <2>12. Blame(r)'
    BY <2>5, <2>9, <2>10 DEF Blame
  <2> QED BY <1>0, <2>4, <2>6, <2>7, <2>8, <2>11, <2>12, OneCall
<1>2. CASE /\ ask' = [ask EXCEPT ![r].max = Clamp(@)]
           /\ IF ask[r].stream THEN Respond(r, 200, 0) ELSE UNCHANGED reply
           /\ Goto(r, "called")
  <2>1. Clamp(ask[r].max) \in Nat
    BY <1>0, ClampIsNat DEF Ask
  <2>2. /\ ask' \in [Requests -> Ask]
        /\ \A q \in Requests \ {r} : ask'[q] = ask[q]
        /\ ask'[r].model = ask[r].model /\ ask'[r].stream = ask[r].stream /\ ask'[r].empty = ask[r].empty
    BY <1>0, <1>2, <2>1 DEF CallTypes, Ask
  <2>3. /\ reply' \in [Requests -> [status : Nat, retry : Nat] \cup {None}]
        /\ ask[r].stream => reply'[r] = [status |-> 200, retry |-> 0]
        /\ ~ask[r].stream => reply'[r] = None
        /\ \A q \in Requests \ {r} : reply'[q] = reply[q]
    <3>1. reply[r] = None /\ reply \in [Requests -> [status : Nat, retry : Nat] \cup {None}]
      BY <1>0 DEF ReplyOK, CallTypes
    <3>2. CASE ask[r].stream
      <4>1. reply' = [reply EXCEPT ![r] = [status |-> 200, retry |-> 0]]
        BY <1>2, <3>2 DEF Respond, Response
      <4> QED BY <3>1, <3>2, <4>1
    <3>3. CASE ~ask[r].stream
      BY <1>2, <3>1, <3>3
    <3> QED BY <3>2, <3>3
  <2>4. /\ stage' \in [Requests -> Stages] /\ stage'[r] = "called"
        /\ \A q \in Requests \ {r} : stage'[q] = stage[q]
    BY <1>0, <1>2 DEF Goto, CallTypes, Stages, Unsent
  <2>5. UNCHANGED <<open, sent, unread, mishap, answer, result>>
    BY DEF Arrive
  <2>6. CallTypes' /\ UpTypes'
    BY <1>0, <2>2, <2>3, <2>4, <2>5 DEF CallTypes, UpTypes
  <2>7. \A q \in Requests \ {r} : Untouched(q)
    BY <2>2, <2>3, <2>4, <2>5 DEF Untouched
  <2>8. StageOK(r)'
    BY <1>0, <2>2, <2>4, <2>5 DEF StageOK, LocalStages, Unsent
  <2>9. ask[r].stream => reply'[r].status = 200 /\ reply'[r].retry = 0
    BY <2>3
  <2>10. mishap[r] = "none"
    BY <1>0 DEF ReplyOK
  <2>11. ReplyOK(r)'
    BY <1>0, <2>2, <2>3, <2>4, <2>5, <2>9, <2>10 DEF ReplyOK, LocalMishaps
  <2>12. Blame(r)'
    BY <1>0, <2>2, <2>3, <2>5, <2>9, <2>10 DEF Blame, Ask
  <2> QED BY <1>0, <2>4, <2>6, <2>7, <2>8, <2>11, <2>12, OneCall
<1> QED BY <1>1, <1>2 DEF Arrive

LEMMA ReadKeeps ==
  ASSUME BackendsInv, NEW r \in Requests, Read(r), UNCHANGED <<workerVars, up>>
  PROVE  BackendsInv'
<1>0. CallTypes /\ UpTypes
  BY DEF BackendsInv
<1>1. unread' \in [Requests -> Nat]
  BY <1>0 DEF Read, CallTypes
<1>2. CallTypes' /\ UpTypes'
  BY <1>0, <1>1 DEF Read, CallTypes, UpTypes
<1>3. UNCHANGED <<ask, stage, sent, mishap, result, reply, loadState, poisoned, draining, drain, thread, queue, gen, up>>
  BY DEF Read, workerVars
<1>4. WorkerTypes' /\ FlagInv'
  BY <1>3 DEF BackendsInv, WorkerTypes, IsGen, FlagInv, Usable, Alive
<1>5. QueueInv' /\ GenInv'
  BY <1>3 DEF BackendsInv, QueueInv, GenInv, PhaseOK, Awaited, NoFinish, NoGen
<1>6. CallInv'
  BY <1>3 DEF BackendsInv, CallInv, StageOK, ReplyOK, Blame, NoFinish, Overflows
<1> QED BY <1>2, <1>4, <1>5, <1>6 DEF BackendsInv

LEMMA LeaveKeeps ==
  ASSUME BackendsInv, NEW r \in Requests, Leave(r), UNCHANGED <<workerVars, up>>
  PROVE  BackendsInv'
<1>0. CallTypes /\ UpTypes /\ StageOK(r) /\ ReplyOK(r) /\ Blame(r)
  BY DEF BackendsInv, CallInv
<1>1. UNCHANGED <<ask, sent, mishap, reply, loadState, poisoned, draining, drain, thread, queue, gen, up>>
  BY DEF Leave, workerVars
<1>2. open' \in [Requests -> BOOLEAN] /\ unread' \in [Requests -> Nat]
  BY <1>0 DEF Leave, CallTypes
<1>3. /\ stage' \in [Requests -> Stages] /\ result' \in [Requests -> Results]
      /\ \A q \in Requests \ {r} : stage'[q] = stage[q] /\ result'[q] = result[q]
      /\ ask[r].stream => stage'[r] = stage[r] /\ result'[r] = result[r]
      /\ ~ask[r].stream => stage'[r] = "over" /\ result'[r] = "Dropped" /\ reply[r] = None
    BY <1>0 DEF Leave, CallTypes, Stages, Results, ReplyOK
<1>4. CallTypes' /\ UpTypes'
  BY <1>0, <1>1, <1>2, <1>3 DEF CallTypes, UpTypes
<1>5. WorkerTypes'
  BY <1>1 DEF BackendsInv, WorkerTypes, IsGen
<1>6. FlagInv'
  <2>1. \A q \in Requests : stage'[q] \in {"guarded", "checked", "sending"} => Usable
    BY <1>3 DEF BackendsInv, FlagInv
  <2> QED BY <1>1, <2>1 DEF BackendsInv, FlagInv, Usable, Alive
<1>7. \A q \in Requests : Awaited(q) => Awaited(q)'
  BY <1>1, <1>3 DEF Awaited
<1>8. QueueInv'
  BY <1>1, <1>7 DEF BackendsInv, QueueInv
<1>9. GenInv'
  <2>1. thread = "busy" => Awaited(gen.req)'
    BY <1>1, <1>7 DEF BackendsInv, GenInv, Awaited
  <2> QED BY <1>1, <2>1 DEF BackendsInv, GenInv, PhaseOK, Awaited, NoFinish, NoGen
<1>10. CallInv'
  <2>1. FlagsStay
    BY <1>1 DEF FlagsStay
  <2>2. \A q \in Requests \ {r} : Untouched(q)
    BY <1>1, <1>3 DEF Untouched
  <2>3. \A q \in Requests \ {r} : StageOK(q)' /\ ReplyOK(q)' /\ Blame(q)'
    BY <2>1, <2>2, OthersKept
  <2>4. CASE ask[r].stream
    <3>1. Untouched(r)
      BY <1>1, <1>3, <2>4 DEF Untouched
    <3> QED BY <2>1, <2>3, <3>1, OthersKept DEF CallInv
  <2>5. CASE ~ask[r].stream
    <3>1. StageOK(r)'
      BY <1>0, <1>1, <1>3, <2>5 DEF StageOK, LocalStages, Unsent
    <3>2. ReplyOK(r)' /\ Blame(r)'
      BY <1>0, <1>1, <1>3, <2>5 DEF ReplyOK, Blame
    <3> QED BY <2>3, <3>1, <3>2 DEF CallInv
  <2> QED BY <2>4, <2>5
<1> QED BY <1>4, <1>5, <1>6, <1>8, <1>9, <1>10 DEF BackendsInv

(***************************************************************************)
(* A local call, up to its command.                                        *)
(***************************************************************************)

\* The call is refused for the state of the worker.
LEMMA RefusalKeeps ==
  ASSUME BackendsInv, NEW r \in Requests, UNCHANGED up,
         NEW e \in {"BackendPoisoned", "BackendDraining", "InferenceFailed"}, Refuse(r, e), ask[r].model \in Local, stage[r] \in {"called", "guarded", "checked", "sending"},
         poisoned \/ draining, e = "InferenceFailed" => draining
  PROVE  BackendsInv'
<1>2. CallTypes /\ UpTypes /\ ReplyOK(r)
  BY DEF BackendsInv, CallInv
<1>3. UNCHANGED <<ask, open, sent, unread, mishap, workerVars>> /\ Settle({r}, e)
  BY DEF Refuse
<1>4. mishap[r] \in LocalMishaps
  BY <1>2 DEF ReplyOK
<1>5. poisoned' = poisoned /\ draining' = draining
  BY <1>3 DEF workerVars
<1>6. Justified(r, e)
  BY <1>3, <1>4, <1>5 DEF Justified, Answers, UpstreamFaults, LocalMishaps
<1>7. mishap' = [mishap EXCEPT ![r] = mishap[r]]
  BY <1>2, <1>3 DEF CallTypes
<1>8. UpTypes' /\ \A q \in Requests \ {r} : up'[q] = up[q]
  BY <1>2 DEF UpTypes
<1>9. stage[r] \notin {"waiting", "over"}
  OBVIOUS
<1> QED BY <1>3, <1>4, <1>6, <1>7, <1>8, <1>9, CallSettles

LEMMA EnterKeeps ==
  ASSUME BackendsInv, NEW r \in Requests, Enter(r), UNCHANGED up
  PROVE  BackendsInv'
<1>1. ask[r].model \in Local /\ stage[r] = "called"
  BY DEF Enter, Calling
<1>2. CASE poisoned /\ Refuse(r, "BackendPoisoned")
  BY <1>1, <1>2, RefusalKeeps
<1>3. CASE ~poisoned /\ draining /\ Refuse(r, "BackendDraining")
  BY <1>1, <1>3, RefusalKeeps
<1>4. CASE Step(r, "entered") /\ UNCHANGED workerVars
  BY <1>1, <1>4, CallSteps
<1> QED BY <1>2, <1>3, <1>4 DEF Enter

LEMMA CheckFlagsKeeps ==
  ASSUME BackendsInv, NEW r \in Requests, CheckFlags(r), UNCHANGED up
  PROVE  BackendsInv'
<1>1. ask[r].model \in Local /\ stage[r] = "guarded"
  BY DEF CheckFlags, Calling
<1>2. CASE poisoned /\ Refuse(r, "BackendPoisoned")
  BY <1>1, <1>2, RefusalKeeps
<1>3. CASE ~poisoned /\ draining /\ Refuse(r, "BackendDraining")
  BY <1>1, <1>3, RefusalKeeps
<1>4. CASE Step(r, "checked") /\ UNCHANGED workerVars
  <2>1. Usable
    BY <1>1 DEF BackendsInv, FlagInv
  <2> QED BY <1>1, <1>4, <2>1, CallSteps
<1> QED BY <1>2, <1>3, <1>4 DEF CheckFlags

LEMMA TakeSenderKeeps ==
  ASSUME BackendsInv, NEW r \in Requests, TakeSender(r), UNCHANGED up
  PROVE  BackendsInv'
<1>1. ask[r].model \in Local /\ stage[r] = "checked" /\ Usable
  BY DEF TakeSender, Calling, BackendsInv, FlagInv
<1>2. CASE Step(r, "sending") /\ UNCHANGED workerVars
  BY <1>1, <1>2, CallSteps
<1>3. CASE loadState # "Loaded" /\ Refuse(r, "InferenceFailed")
  BY <1>1, <1>3, RefusalKeeps DEF Usable
<1> QED BY <1>2, <1>3 DEF TakeSender

LEMMA LoadTooLateKeeps ==
  ASSUME BackendsInv, NEW r \in Requests, LoadTooLate(r), UNCHANGED up
  PROVE  BackendsInv'
<1>0. CallTypes /\ UpTypes /\ ReplyOK(r) /\ FlagInv
  BY DEF BackendsInv, CallInv
<1>1. /\ ask[r].model \in Local /\ stage[r] = "entered" /\ draining
      /\ mishap[r] = "none" /\ stage[r] \notin {"waiting", "over"}
      /\ UNCHANGED <<ask, open, sent, unread, workerVars>> /\ draining' = draining
  BY <1>0 DEF LoadTooLate, Calling, FlagInv, ReplyOK, workerVars
<1>2. UpTypes' /\ \A q \in Requests \ {r} : up'[q] = up[q]
  BY <1>0 DEF UpTypes
<1>3. CASE Settle({r}, "BackendDraining") /\ UNCHANGED mishap
  <2>1. Justified(r, "BackendDraining")
    BY <1>1, <1>3 DEF Justified, Answers, UpstreamFaults
  <2>2. mishap' = [mishap EXCEPT ![r] = "none"] /\ "none" \in LocalMishaps
    BY <1>0, <1>1, <1>3 DEF CallTypes, LocalMishaps
  <2> QED BY <1>1, <1>2, <1>3, <2>1, <2>2, CallSettles
<1>4. CASE Settle({r}, "ModelLoadFailed") /\ mishap' = [mishap EXCEPT ![r] = "load"]
  <2>1. mishap'[r] = "load" /\ "load" \in LocalMishaps
    BY <1>0, <1>4 DEF CallTypes, LocalMishaps
  <2>2. Justified(r, "ModelLoadFailed")
    BY <1>1, <2>1 DEF Justified, Answers, UpstreamFaults, OwnFaults
  <2> QED BY <1>1, <1>2, <1>4, <2>1, <2>2, CallSettles
<1> QED BY <1>3, <1>4 DEF LoadTooLate

\* Nobody is past the load before there was one: the thread that is spawned is
\* the only one.
LEMMA EnsureLoadedKeeps ==
  ASSUME BackendsInv, NEW r \in Requests, EnsureLoaded(r), UNCHANGED up
  PROVE  BackendsInv'
<1>0. CallTypes /\ UpTypes /\ WorkerTypes /\ FlagInv /\ GenInv /\ StageOK(r) /\ ReplyOK(r) /\ Blame(r)
  BY DEF BackendsInv, CallInv
<1>1. ask[r].model \in Local /\ stage[r] = "entered"
  BY DEF EnsureLoaded, Calling
<1>2. CASE loadState = "Loaded" /\ Step(r, "guarded") /\ UNCHANGED workerVars
  BY <1>1, <1>2, CallSteps DEF Usable
<1>3. CASE /\ loadState = "Unloaded" /\ drain = "no"
           /\ loadState' = "Loading" /\ thread' = "idle" /\ queue' = <<"Load">>
           /\ Step(r, "leading") /\ UNCHANGED <<poisoned, draining, drain, gen>>
  <2>1. ~Usable /\ ~poisoned /\ ~draining /\ thread # "busy"
    BY <1>0, <1>3 DEF FlagInv, Usable
  <2>2. /\ stage' \in [Requests -> Stages] /\ stage'[r] = "leading"
        /\ \A q \in Requests \ {r} : stage'[q] = stage[q]
        /\ UNCHANGED <<ask, open, sent, unread, mishap, answer, result, reply>>
    BY <1>0, <1>3 DEF Step, Goto, CallTypes, Stages, Unsent
  <2>3. CallTypes' /\ UpTypes'
    BY <1>0, <2>2 DEF CallTypes, UpTypes
  <2>4. queue' \in Seq(Requests \cup {"Load", "Shutdown"}) /\ DOMAIN queue' = {1} /\ queue'[1] = "Load"
    BY <1>3
  <2>5. WorkerTypes'
    BY <1>0, <1>3, <2>4 DEF WorkerTypes, IsGen
  <2>6. FlagInv'
    <3>1. \A q \in Requests : stage'[q] \notin {"guarded", "checked", "sending"}
      BY <1>0, <2>1, <2>2 DEF FlagInv
    <3>2. "Load" \notin Requests
      BY WorkerAssumption
    <3> QED BY <1>0, <1>3, <2>1, <2>4, <3>1, <3>2 DEF FlagInv, Usable, Alive
  <2>7. QueueInv'
    <3>1. "Load" \notin Requests
      BY WorkerAssumption
    <3> QED BY <1>3, <2>4, <3>1 DEF QueueInv
  <2>8. GenInv'
    BY <1>0, <1>3, <2>1 DEF GenInv, NoGen
  <2>9. CallInv'
    <3>1. FlagsStay /\ \A q \in Requests \ {r} : Untouched(q)
      BY <1>3, <2>2 DEF FlagsStay, Untouched
    <3>2. \A q \in Requests \ {r} : StageOK(q)' /\ ReplyOK(q)' /\ Blame(q)'
      BY <3>1, OthersKept
    <3>3. StageOK(r)'
      BY <1>0, <1>1, <2>2 DEF StageOK, LocalStages, Unsent
    <3>4. ReplyOK(r)' /\ Blame(r)'
      BY <1>0, <1>1, <1>3, <2>2 DEF ReplyOK, Blame, Overflows
    <3> QED BY <3>2, <3>3, <3>4 DEF CallInv
  <2> QED BY <2>3, <2>5, <2>6, <2>7, <2>8, <2>9 DEF BackendsInv
<1> QED BY <1>2, <1>3 DEF EnsureLoaded

\* The command stands in the queue once, because its caller was not waiting yet.
LEMMA SendCommandKeeps ==
  ASSUME BackendsInv, NEW r \in Requests, SendCommand(r), UNCHANGED up
  PROVE  BackendsInv'
<1>0. CallTypes /\ UpTypes /\ WorkerTypes /\ FlagInv /\ QueueInv /\ GenInv /\ StageOK(r) /\ ReplyOK(r) /\ Blame(r)
  BY DEF BackendsInv, CallInv
<1>1. ask[r].model \in Local /\ stage[r] = "sending" /\ Usable
  BY <1>0 DEF SendCommand, Calling, FlagInv
<1>2. CASE ~Alive /\ Refuse(r, "BackendPoisoned")
  <2>1. poisoned \/ draining
    BY <1>0, <1>1, <1>2 DEF FlagInv, Usable
  <2> QED BY <1>1, <1>2, <2>1, RefusalKeeps
<1>3. CASE /\ Alive /\ queue' = Append(queue, r) /\ Step(r, "waiting")
           /\ UNCHANGED <<backendVars, thread, gen>>
  <2>1. /\ stage' \in [Requests -> Stages] /\ stage'[r] = "waiting"
        /\ \A q \in Requests \ {r} : stage'[q] = stage[q]
        /\ UNCHANGED <<ask, open, sent, unread, mishap, answer, result, reply>>
    BY <1>0, <1>3 DEF Step, Goto, CallTypes, Stages
  <2>2. CallTypes' /\ UpTypes'
    BY <1>0, <2>1 DEF CallTypes, UpTypes
  <2> DEFINE n == Len(queue)
  <2>3. /\ queue' \in Seq(Requests \cup {"Load", "Shutdown"})
        /\ n \in Nat /\ DOMAIN queue = 1 .. n /\ DOMAIN queue' = 1 .. n + 1 /\ queue'[n + 1] = r
        /\ \A i \in 1 .. n : queue'[i] = queue[i]
    BY <1>0, <1>3 DEF WorkerTypes
  <2> HIDE DEF n
  <2>4. UNCHANGED <<loadState, poisoned, draining, drain, thread, gen>>
    BY <1>3 DEF backendVars
  <2>5. WorkerTypes'
    BY <1>0, <2>3, <2>4 DEF WorkerTypes, IsGen
  <2>6. FlagInv'
    <3>1. \A q \in Requests : stage'[q] \in {"guarded", "checked", "sending"} => Usable
      BY <1>0, <1>1, <2>1 DEF FlagInv
    <3>2. r \notin {"Load", "Shutdown"}
      BY WorkerAssumption
    <3>3. \A i \in DOMAIN queue' : queue'[i] \in {"Load", "Shutdown"} => i \in DOMAIN queue /\ queue'[i] = queue[i]
      BY <2>3, <3>2
    <3> QED BY <1>0, <1>1, <2>4, <3>1, <3>3 DEF FlagInv, Usable, Alive
  <2>7. \A q \in Requests : Awaited(q) => q # r /\ Awaited(q)'
    BY <1>1, <2>1 DEF Awaited
  <2>8. Awaited(r)' /\ sent'[r] = <<>>
    BY <1>0, <1>1, <2>1 DEF Awaited, StageOK, Unsent
  <2>9. QueueInv'
    <3>1. \A q \in Requests : \A i \in 1 .. n : queue[i] = q => Awaited(q) /\ sent[q] = <<>>
      BY <1>0, <2>3 DEF QueueInv
    <3>2. \A i \in 1 .. n : queue[i] # r
      BY <3>1, <2>7
    <3>3. \A q \in Requests : \A i \in DOMAIN queue' : queue'[i] = q => Awaited(q)' /\ sent'[q] = <<>>
      <4> SUFFICES ASSUME NEW q \in Requests, NEW i \in 1 .. n + 1, queue'[i] = q
                   PROVE  Awaited(q)' /\ sent'[q] = <<>>
        BY <2>3
      <4>1. CASE i = n + 1
        BY <2>3, <2>8, <4>1
      <4>2. CASE i \in 1 .. n
        BY <2>1, <2>3, <2>7, <3>1, <4>2
      <4> QED BY <2>3, <4>1, <4>2
    <3>4. \A i, j \in DOMAIN queue' : queue'[i] \in Requests /\ queue'[i] = queue'[j] => i = j
      BY <1>0, <2>3, <3>2 DEF QueueInv
    <3>5. thread' = "busy" => \A i \in DOMAIN queue' : queue'[i] # gen'.req
      <4>1. thread = "busy" => gen.req # r
        BY <1>0, <2>7 DEF GenInv
      <4>2. thread = "busy" => \A i \in 1 .. n : queue[i] # gen.req
        BY <1>0, <2>3 DEF QueueInv
      <4> QED BY <2>3, <2>4, <4>1, <4>2
    <3> QED BY <3>3, <3>4, <3>5 DEF QueueInv
  <2>10. GenInv'
    <3>1. thread = "busy" => Awaited(gen.req)'
      BY <1>0, <2>4, <2>7 DEF GenInv, Awaited
    <3> QED BY <1>0, <2>1, <2>4, <3>1 DEF GenInv, PhaseOK, Awaited, NoFinish, NoGen
  <2>11. CallInv'
    <3>1. FlagsStay /\ \A q \in Requests \ {r} : Untouched(q)
      BY <2>1, <2>4 DEF FlagsStay, Untouched
    <3>2. \A q \in Requests \ {r} : StageOK(q)' /\ ReplyOK(q)' /\ Blame(q)'
      BY <3>1, OthersKept
    <3>3. StageOK(r)'
      BY <1>0, <1>1, <2>1 DEF StageOK, LocalStages, Unsent
    <3>4. ReplyOK(r)' /\ Blame(r)'
      BY <1>0, <1>1, <2>1, <2>4 DEF ReplyOK, Blame, Overflows
    <3> QED BY <3>2, <3>3, <3>4 DEF CallInv
  <2> QED BY <2>2, <2>5, <2>6, <2>9, <2>10, <2>11 DEF BackendsInv
<1> QED BY <1>2, <1>3 DEF SendCommand

(***************************************************************************)
(* The thread.                                                             *)
(***************************************************************************)

\* A step of the generation in progress, which may send to its own call.
LEMMA GenMoves ==
  ASSUME BackendsInv, thread = "busy",
         UNCHANGED <<ask, stage, open, mishap, result, reply, backendVars, thread, queue, up>>,
         sent' \in [Requests -> Seq(Chunks)], unread' \in [Requests -> Nat],
         \A q \in Requests \ {gen.req} : sent'[q] = sent[q],
         ask[gen.req].stream \/ sent' = sent,
         IsGen(gen'), gen'.req = gen.req, gen'.pieces \in Seq(Pieces), gen'.tokens \in Nat,
         gen'.next \in Int, gen'.reason \in {"stop", "length"}, PhaseOK'
  PROVE  BackendsInv'
<1>r. PICK r \in Requests : r = gen.req
  BY DEF BackendsInv, GenInv
<1>0. CallTypes /\ UpTypes /\ WorkerTypes /\ FlagInv /\ QueueInv /\ Awaited(r)
  BY <1>r DEF BackendsInv, GenInv, Awaited
<1>1. UNCHANGED <<loadState, poisoned, draining, drain>>
  BY DEF backendVars
<1>2. CallTypes' /\ UpTypes'
  BY <1>0 DEF CallTypes, UpTypes
<1>3. WorkerTypes'
  BY <1>0, <1>1 DEF WorkerTypes
<1>4. FlagInv'
  BY <1>0, <1>1 DEF FlagInv, Usable, Alive
<1>5. QueueInv'
  <2>1. \A i \in DOMAIN queue : queue[i] # r
    BY <1>0, <1>r DEF QueueInv
  <2>2. \A q \in Requests : Awaited(q) => Awaited(q)'
    BY DEF Awaited
  <2> QED BY <1>0, <2>1, <2>2 DEF QueueInv
<1>6. GenInv'
  <2>1. Awaited(r)'
    BY <1>0, <1>r DEF Awaited
  <2>2. gen'.req = r
    BY <1>r
  <2> QED BY <1>0, <2>1, <2>2 DEF GenInv, Awaited
<1>7. CallInv'
  <2>1. FlagsStay /\ \A q \in Requests \ {r} : Untouched(q)
    BY <1>1, <1>r DEF FlagsStay, Untouched
  <2>2. \A q \in Requests \ {r} : StageOK(q)' /\ ReplyOK(q)' /\ Blame(q)'
    BY <2>1, OthersKept
  <2>3. StageOK(r) /\ ReplyOK(r) /\ Blame(r)
    BY <1>0 DEF BackendsInv, CallInv
  <2>4. StageOK(r)'
    <3>1. ask[r].stream \/ sent' = sent
      BY <1>r
    <3>2. stage[r] \in {"waiting", "over"}
      BY <1>0 DEF Awaited
    <3> QED BY <2>3, <3>1, <3>2 DEF StageOK, Unsent
  <2>5. ReplyOK(r)' /\ Blame(r)'
    BY <1>1, <2>3 DEF ReplyOK, Blame, Overflows
  <2> QED BY <2>2, <2>4, <2>5 DEF CallInv
<1> QED BY <1>2, <1>3, <1>4, <1>5, <1>6, <1>7 DEF BackendsInv

\* The generation ends and the answer v goes to its caller.
LEMMA GenEnds ==
  ASSUME BackendsInv, thread = "busy", NEW v, Settle({gen.req}, v), Justified(gen.req, v),
         NEW m \in LocalMishaps, mishap' = [mishap EXCEPT ![gen.req] = m],
         thread' \in {"idle", "unwinding"}, gen' = NoGen,
         UNCHANGED <<ask, open, sent, unread, backendVars, queue, up>>
  PROVE  BackendsInv'
<1>r. PICK r \in Requests : r = gen.req
  BY DEF BackendsInv, GenInv
<1>0. CallTypes /\ UpTypes /\ WorkerTypes /\ FlagInv /\ QueueInv /\ Awaited(r) /\ StageOK(r)
  BY <1>r DEF BackendsInv, GenInv, CallInv, Awaited
<1>s. Settle({r}, v) /\ Justified(r, v) /\ v \in Results \ {"none", "Dropped"}
  BY <1>r, AnswersAreResults DEF Justified, Overflows
<1>i. \A i \in DOMAIN queue : queue[i] # r
  BY <1>0, <1>r DEF QueueInv
<1>m. mishap' = [mishap EXCEPT ![r] = m]
  BY <1>r
<1>1. /\ stage' \in [Requests -> Stages]
      /\ result' \in [Requests -> Results]
      /\ reply' \in [Requests -> [status : Nat, retry : Nat] \cup {None}]
      /\ \A q \in Requests \ {r} : stage'[q] = stage[q] /\ result'[q] = result[q] /\ reply'[q] = reply[q]
      /\ stage'[r] = "over"
  BY <1>0, <1>s, SettleMeans
<1>2. /\ mishap' \in [Requests -> LocalMishaps \cup CloudMishaps] /\ mishap'[r] = m
      /\ \A q \in Requests \ {r} : mishap'[q] = mishap[q]
  BY <1>0, <1>m DEF CallTypes
<1>3. CallTypes' /\ UpTypes'
  BY <1>0, <1>1, <1>2 DEF CallTypes, UpTypes
<1>4. UNCHANGED <<loadState, poisoned, draining, drain>>
  BY DEF backendVars
<1>5. WorkerTypes'
  <2>1. <<>> \in Seq(Pieces)
    OBVIOUS
  <2> QED BY <1>0, <1>4, <2>1 DEF WorkerTypes, IsGen, NoGen
<1>6. FlagInv'
  <2>1. \A q \in Requests : stage'[q] \in {"guarded", "checked", "sending"} => Usable
    BY <1>0, <1>1 DEF FlagInv
  <2>2. Usable /\ ~poisoned
    BY <1>0 DEF FlagInv
  <2> QED BY <1>0, <1>4, <2>1, <2>2 DEF FlagInv, Usable, Alive
<1>7. QueueInv'
  <2>1. \A q \in Requests \ {r} : Awaited(q) => Awaited(q)'
    BY <1>1 DEF Awaited
  <2> QED BY <1>0, <1>i, <2>1 DEF QueueInv
<1>8. GenInv'
  BY DEF GenInv
<1>9. CallInv'
  <2>1. FlagsStay /\ \A q \in Requests \ {r} : Untouched(q)
    BY <1>1, <1>2, <1>4 DEF FlagsStay, Untouched
  <2>2. \A q \in Requests \ {r} : StageOK(q)' /\ ReplyOK(q)' /\ Blame(q)'
    BY <2>1, OthersKept
  <2>3. StageOK(r)'
    BY <1>0, <1>1 DEF StageOK, LocalStages, Unsent
  <2>4. result[r] # "none" /\ ~ask[r].stream => reply[r] = None
    BY <1>0 DEF Awaited, StageOK
  <2>5. ReplyOK(r)' /\ Blame(r)'
    BY <1>0, <1>s, <1>2, <2>1, <2>4, BlameSettled
  <2> QED BY <2>2, <2>3, <2>5 DEF CallInv
<1> QED BY <1>3, <1>5, <1>6, <1>7, <1>8, <1>9 DEF BackendsInv

\* Answer leaves mishap alone.
LEMMA AnswerKeeps ==
  ASSUME BackendsInv, thread = "busy", NEW v, Answer(v), NoSend, UNCHANGED up,
         v \in {"Ok", "ContextLengthExceeded", "InferenceFailed"},
         v = "ContextLengthExceeded" => ask[gen.req].prompt > ContextSize,
         v = "InferenceFailed" => Overflows(gen.req)
  PROVE  BackendsInv'
<1>1. CallTypes /\ gen.req \in Requests /\ ask[gen.req].model \in Local /\ ReplyOK(gen.req)
  BY DEF BackendsInv, GenInv, Awaited, CallInv
<1>2. mishap[gen.req] \in LocalMishaps
  BY <1>1 DEF ReplyOK
<1>3. mishap' = [mishap EXCEPT ![gen.req] = mishap[gen.req]] /\ mishap' = mishap
  BY <1>1 DEF Answer, CallTypes
<1>4. Justified(gen.req, v)
  BY <1>1, <1>2, <1>3 DEF Justified, Answers, UpstreamFaults, LocalMishaps
<1>5. /\ Settle({gen.req}, v) /\ thread' \in {"idle", "unwinding"} /\ gen' = NoGen
      /\ UNCHANGED <<ask, open, sent, unread, backendVars, queue, up>>
  BY DEF Answer, NoSend
<1> QED BY <1>2, <1>3, <1>4, <1>5, GenEnds

\* What a busy thread is at.
LEMMA Busy ==
  ASSUME BackendsInv, thread = "busy"
  PROVE  /\ CallTypes /\ WorkerTypes /\ IsGen(gen)
         /\ gen.req \in Requests /\ ask[gen.req] \in Ask /\ sent[gen.req] \in Seq(Chunks)
         /\ ask[gen.req].model \in Local /\ Awaited(gen.req) /\ PhaseOK
BY DEF BackendsInv, GenInv, CallTypes, WorkerTypes, Awaited

\* A chunk goes out, and the generation on to phase p.
LEMMA GenSends ==
  ASSUME BackendsInv, thread = "busy", NEW chunk \in Chunks, Send(gen.req, chunk), NEW p, ToPhase(p),
         UNCHANGED <<ask, stage, open, mishap, result, reply, backendVars, thread, queue, up>>,
         \/ gen.phase = "role" /\ p = "prompt" /\ chunk = Role
         \/ gen.phase = "push" /\ p = "decode" /\ chunk[1] = "text"
         \/ gen.phase = "finish" /\ p = "answer"
  PROVE  BackendsInv'
<1>r. PICK r \in Requests : r = gen.req
  BY Busy
<1>0. CallTypes /\ WorkerTypes /\ IsGen(gen) /\ sent[r] \in Seq(Chunks) /\ PhaseOK /\ ask[r].stream
  BY <1>r, Busy DEF PhaseOK
<1>1. /\ sent' \in [Requests -> Seq(Chunks)] /\ sent'[r] = Append(sent[r], chunk)
      /\ \A q \in Requests \ {r} : sent'[q] = sent[q]
  BY <1>r, <1>0 DEF Send, CallTypes
<1>2. unread' \in [Requests -> Nat]
  BY <1>r, <1>0 DEF Send, CallTypes
<1>3. /\ IsGen(gen') /\ gen'.phase = p
      /\ gen'.req = gen.req /\ gen'.pieces = gen.pieces /\ gen'.tokens = gen.tokens
      /\ gen'.next = gen.next /\ gen'.reason = gen.reason
  BY <1>0 DEF ToPhase, IsGen
<1>4. (\A i \in DOMAIN sent[r] : sent[r][i][1] # "finish") /\ chunk[1] # "finish"
        => \A i \in DOMAIN sent'[r] : sent'[r][i][1] # "finish"
  BY <1>0, <1>1
<1>5. PhaseOK'
  <2>1. CASE gen.phase = "role"
    BY <1>r, <1>0, <1>1, <1>3, <1>4, <2>1 DEF PhaseOK, NoFinish, Role, Phases
  <2>2. CASE gen.phase = "push"
    BY <1>r, <1>0, <1>1, <1>3, <1>4, <2>2 DEF PhaseOK, NoFinish, Phases
  <2>3. CASE gen.phase = "finish"
    BY <1>r, <1>0, <1>3, <2>3 DEF PhaseOK, Phases
  <2> QED BY <2>1, <2>2, <2>3
<1>6. gen'.pieces \in Seq(Pieces) /\ gen'.tokens \in Nat /\ gen'.next \in Int /\ gen'.reason \in {"stop", "length"}
  BY <1>0, <1>3 DEF WorkerTypes
<1> QED BY <1>r, <1>0, <1>1, <1>2, <1>3, <1>5, <1>6, GenMoves

LEMMA SendRoleKeeps == ASSUME BackendsInv, SendRole, UNCHANGED up PROVE BackendsInv'
<1>1. thread = "busy" /\ gen.phase = "role"
  BY DEF SendRole, InPhase
<1>2. CASE /\ Send(gen.req, Role) /\ ToPhase("prompt")
           /\ UNCHANGED <<ask, stage, open, mishap, answer, result, reply, backendVars, thread, queue>>
  <2>1. Role \in Chunks
    BY DEF Role, Chunks
  <2> QED BY <1>1, <1>2, <2>1, GenSends
<1>3. CASE Answer("Ok") /\ NoSend
  BY <1>1, <1>3, AnswerKeeps
<1> QED BY <1>2, <1>3 DEF SendRole

LEMMA PushKeeps == ASSUME BackendsInv, Push, UNCHANGED up PROVE BackendsInv'
<1>1. thread = "busy" /\ gen.phase = "push"
  BY DEF Push, InPhase
<1>2. CASE /\ Send(gen.req, Text(Last(gen.pieces))) /\ ToPhase("decode")
           /\ UNCHANGED <<ask, stage, open, mishap, answer, result, reply, backendVars, thread, queue>>
  <2>1. gen.pieces \in Seq(Pieces) /\ gen.pieces # <<>>
    BY <1>1, Busy DEF WorkerTypes, PhaseOK
  <2>2. Last(gen.pieces) \in Pieces
    BY <2>1 DEF Last
  <2>3. Text(Last(gen.pieces)) \in Chunks /\ Text(Last(gen.pieces))[1] = "text"
    BY <2>2 DEF Text, Chunks
  <2> QED BY <1>1, <1>2, <2>3, GenSends
<1>3. CASE Answer("Ok") /\ NoSend
  BY <1>1, <1>3, AnswerKeeps
<1> QED BY <1>2, <1>3 DEF Push

LEMMA SendFinishKeeps == ASSUME BackendsInv, SendFinish, UNCHANGED up PROVE BackendsInv'
<1>1. thread = "busy" /\ gen.phase = "finish" /\ ToPhase("answer")
      /\ UNCHANGED <<ask, stage, open, mishap, answer, result, reply, backendVars, thread, queue>>
  BY DEF SendFinish, InPhase
<1>0. CallTypes /\ WorkerTypes /\ IsGen(gen) /\ PhaseOK
  BY <1>1, Busy
<1>2. CASE Send(gen.req, Finish(gen.reason))
  <2>1. Finish(gen.reason) \in Chunks
    BY <1>0 DEF Finish, Chunks, WorkerTypes
  <2> QED BY <1>1, <1>2, <2>1, GenSends
<1>3. CASE NoSend
  <2>1. UNCHANGED <<sent, unread>>
    BY <1>3 DEF NoSend
  <2>2. /\ IsGen(gen') /\ gen'.phase = "answer"
        /\ gen'.req = gen.req /\ gen'.pieces = gen.pieces /\ gen'.tokens = gen.tokens
        /\ gen'.next = gen.next /\ gen'.reason = gen.reason
    BY <1>0, <1>1 DEF ToPhase, IsGen
  <2>3. PhaseOK'
    BY <1>0, <1>1, <2>2 DEF PhaseOK, Phases
  <2>4. /\ sent' \in [Requests -> Seq(Chunks)] /\ unread' \in [Requests -> Nat]
        /\ \A q \in Requests \ {gen.req} : sent'[q] = sent[q]
    BY <1>0, <2>1 DEF CallTypes
  <2>5. gen'.pieces \in Seq(Pieces) /\ gen'.tokens \in Nat /\ gen'.next \in Int /\ gen'.reason \in {"stop", "length"}
    BY <1>0, <2>2 DEF WorkerTypes
  <2> QED BY <1>1, <2>1, <2>2, <2>3, <2>4, <2>5, GenMoves
<1> QED BY <1>2, <1>3 DEF SendFinish

LEMMA CompleteKeeps == ASSUME BackendsInv, Complete, UNCHANGED up PROVE BackendsInv'
<1>1. thread = "busy" /\ Answer("Ok") /\ NoSend
  BY DEF Complete, InPhase
<1> QED BY <1>1, AnswerKeeps

\* A step within the context: nothing goes out.
LEMMA GenGoesOn ==
  ASSUME BackendsInv, thread = "busy", UNCHANGED <<callVars, backendVars, thread, queue, up>>,
         IsGen(gen'), gen'.req = gen.req, gen'.pieces \in Seq(Pieces), gen'.tokens \in Nat,
         gen'.next \in Int, gen'.reason \in {"stop", "length"}, PhaseOK'
  PROVE  BackendsInv'
<1>1. CallTypes
  BY DEF BackendsInv
<1>2. /\ sent' \in [Requests -> Seq(Chunks)] /\ unread' \in [Requests -> Nat]
      /\ \A q \in Requests \ {gen.req} : sent'[q] = sent[q]
      /\ UNCHANGED <<ask, stage, open, mishap, result, reply, sent>>
  BY <1>1 DEF callVars, CallTypes
<1> QED BY <1>2, GenMoves

LEMMA PromptKeeps == ASSUME BackendsInv, Prompt, UNCHANGED up PROVE BackendsInv'
<1>r. PICK p \in Nat : p = ask[gen.req].prompt
  BY Busy DEF Prompt, InPhase, Ask
<1>1. thread = "busy" /\ gen.phase = "prompt"
  BY DEF Prompt, InPhase
<1>0. WorkerTypes /\ IsGen(gen) /\ PhaseOK
  BY <1>1, Busy
<1>2. CASE PromptFault(p) = "none"
  <2>1. gen' = [gen EXCEPT !.phase = "sample", !.next = p] /\ UNCHANGED <<callVars, backendVars, thread, queue>>
    BY <1>r, <1>2 DEF Prompt
  <2>2. /\ IsGen(gen') /\ gen'.phase = "sample" /\ gen'.next = p
        /\ gen'.req = gen.req /\ gen'.pieces = gen.pieces /\ gen'.tokens = gen.tokens /\ gen'.reason = gen.reason
    BY <1>0, <2>1 DEF IsGen
  <2>3. PhaseOK'
    BY <1>r, <1>0, <1>1, <2>1, <2>2 DEF PhaseOK, Phases, NoFinish, callVars
  <2> QED BY <1>0, <1>1, <2>1, <2>2, <2>3, GenGoesOn DEF WorkerTypes
<1>3. CASE PromptFault(p) # "none"
  <2>1. Answer(PromptFault(p)) /\ NoSend
    BY <1>r, <1>3 DEF Prompt
  <2>2. PromptFault(p) = "ContextLengthExceeded" /\ p > ContextSize
    BY <1>3, BatchHoldsPrompt
  <2> QED BY <1>r, <1>1, <2>1, <2>2, AnswerKeeps
<1> QED BY <1>2, <1>3

\* A token that finds no place in the context is one that the request asked for.
LEMMA DecodeKeeps == ASSUME BackendsInv, Decode, UNCHANGED up PROVE BackendsInv'
<1>r. PICK a \in Ask : a = ask[gen.req]
  BY Busy DEF Decode, InPhase
<1>1. thread = "busy" /\ gen.phase = "decode"
  BY DEF Decode, InPhase
<1>0. WorkerTypes /\ IsGen(gen) /\ PhaseOK /\ gen.tokens \in Nat /\ a.prompt \in Nat /\ a.max \in Nat
  BY <1>1, Busy DEF WorkerTypes, Ask
<1>2. Position = gen.next /\ gen.next = a.prompt + gen.tokens - 1 /\ gen.tokens <= a.max
  BY <1>r, <1>0, <1>1 DEF PhaseOK, Position
<1>3. CASE Position < ContextSize
  <2>1. gen' = [gen EXCEPT !.phase = "sample", !.next = @ + 1] /\ UNCHANGED <<callVars, backendVars, thread, queue>>
    BY <1>2, <1>3 DEF Decode
  <2>2. /\ IsGen(gen') /\ gen'.phase = "sample" /\ gen'.next = gen.next + 1
        /\ gen'.req = gen.req /\ gen'.pieces = gen.pieces /\ gen'.tokens = gen.tokens /\ gen'.reason = gen.reason
    BY <1>0, <2>1 DEF IsGen
  <2>3. PhaseOK'
    BY <1>r, <1>0, <1>1, <1>2, <2>1, <2>2 DEF PhaseOK, Phases, NoFinish, callVars
  <2> QED BY <1>0, <1>1, <2>1, <2>2, <2>3, GenGoesOn DEF WorkerTypes
<1>4. CASE ~(Position < ContextSize)
  <2>1. Answer("InferenceFailed") /\ NoSend
    BY <1>4 DEF Decode
  <2>2. Overflows(gen.req)
    BY <1>r, <1>0, <1>2, <1>4, WorkerAssumption DEF Overflows
  <2> QED BY <1>1, <2>1, <2>2, AnswerKeeps
<1> QED BY <1>3, <1>4

\* The loop ends with the tokens counted so far.
LEMMA EndLoopKeeps ==
  ASSUME BackendsInv, thread = "busy", gen.phase = "sample",
         UNCHANGED <<callVars, backendVars, thread, queue, up>>,
         NEW g, IsGen(g), EndLoop(g), g.req = gen.req, g.pieces = gen.pieces, g.next = gen.next,
         g.tokens \in Nat, g.tokens <= ask[gen.req].max, g.reason \in {"stop", "length"}
  PROVE  BackendsInv'
<1>r. PICK a \in Ask : a = ask[gen.req]
  BY Busy
<1>0. WorkerTypes /\ PhaseOK /\ UNCHANGED <<ask, sent>>
  BY Busy DEF callVars
<1> DEFINE p == IF ask[g.req].stream THEN "finish" ELSE "answer"
<1>1. gen' = [g EXCEPT !.phase = p]
  BY DEF EndLoop
<1>2. p \in {"finish", "answer"} /\ (p = "finish" => ask[gen.req].stream)
  OBVIOUS
<1> HIDE DEF p
<1>3. /\ IsGen(gen') /\ gen'.phase = p /\ gen'.req = gen.req /\ gen'.pieces = gen.pieces
      /\ gen'.next = gen.next /\ gen'.tokens = g.tokens /\ gen'.reason = g.reason
  BY <1>1 DEF IsGen
<1>4. PhaseOK'
  BY <1>0, <1>2, <1>3 DEF PhaseOK, Phases, NoFinish
<1> QED BY <1>0, <1>3, <1>4, GenGoesOn DEF WorkerTypes

\* A token is counted, and its place is the next of the context.
LEMMA TokenKeeps ==
  ASSUME BackendsInv, thread = "busy", gen.phase = "sample", gen.tokens < ask[gen.req].max,
         UNCHANGED <<callVars, backendVars, thread, queue, up>>,
         IsGen(gen'), gen'.req = gen.req, gen'.pieces \in Seq(Pieces), gen'.tokens = gen.tokens + 1,
         gen'.next = gen.next, gen'.reason = gen.reason, gen'.phase \in {"push", "decode"},
         gen'.phase = "push" => ask[gen.req].stream /\ gen'.pieces # <<>>
  PROVE  BackendsInv'
<1>r. PICK a \in Ask : a = ask[gen.req]
  BY Busy
<1>0. WorkerTypes /\ PhaseOK /\ UNCHANGED <<ask, sent>>
  BY Busy DEF callVars
<1>1. gen.tokens \in Nat /\ a.prompt \in Nat /\ a.max \in Nat
  BY <1>0 DEF WorkerTypes, Ask
<1>4. PhaseOK'
  BY <1>r, <1>0, <1>1 DEF PhaseOK, Phases, NoFinish
<1> QED BY <1>0, <1>1, <1>4, GenGoesOn DEF WorkerTypes

LEMMA SampleKeeps == ASSUME BackendsInv, Sample, UNCHANGED up PROVE BackendsInv'
<1>r. PICK a \in Ask : a = ask[gen.req]
  BY Busy DEF Sample, InPhase
<1>1. /\ thread = "busy" /\ gen.phase = "sample"
      /\ UNCHANGED <<callVars, backendVars, thread, queue, up>>
  BY DEF Sample, InPhase
<1>0. WorkerTypes /\ IsGen(gen) /\ PhaseOK /\ gen.tokens \in Nat /\ gen.pieces \in Seq(Pieces) /\ a.max \in Nat
  BY <1>1, Busy DEF WorkerTypes, Ask
<1>2. gen.tokens <= a.max /\ gen.reason \in {"stop", "length"}
  BY <1>r, <1>0 DEF PhaseOK, WorkerTypes
<1>3. CASE EndLoop(gen)
  BY <1>r, <1>0, <1>1, <1>2, <1>3, EndLoopKeeps
<1>4. CASE EndLoop([gen EXCEPT !.reason = "stop"])
  <2> DEFINE g == [gen EXCEPT !.reason = "stop"]
  <2>1. /\ IsGen(g) /\ g.req = gen.req /\ g.pieces = gen.pieces /\ g.next = gen.next
        /\ g.tokens = gen.tokens /\ g.reason = "stop"
    BY <1>0 DEF IsGen
  <2>2. EndLoop(g)
    BY <1>4
  <2> HIDE DEF g
  <2> QED BY <1>r, <1>0, <1>1, <1>2, <2>1, <2>2, EndLoopKeeps
<1>5. CASE gen.tokens < a.max /\ gen' = [gen EXCEPT !.tokens = @ + 1, !.phase = "decode"]
  <2>1. /\ IsGen(gen') /\ gen'.req = gen.req /\ gen'.pieces = gen.pieces /\ gen'.next = gen.next
        /\ gen'.tokens = gen.tokens + 1 /\ gen'.phase = "decode" /\ gen'.reason = gen.reason
    BY <1>0, <1>5 DEF IsGen
  <2> QED BY <1>r, <1>0, <1>1, <1>5, <2>1, TokenKeeps
<1>6. CASE gen.tokens < a.max /\ \E p \in Pieces : Sampled(p)
  <2>p. PICK p \in Pieces : Sampled(p)
    BY <1>6
  <2>t. PICK t : t = gen.text \o p
    OBVIOUS
  <2>n. PICK n : n = gen.tokens + 1
    OBVIOUS
  <2>g. PICK g : g = [gen EXCEPT !.text = t, !.tokens = n]
    OBVIOUS
  <2>u. PICK u : u = Truncated(g.text)
    OBVIOUS
  <2>h. PICK h : h = [g EXCEPT !.text = u, !.reason = "stop"]
    OBVIOUS
  <2>s. PICK s : s = IF ask[g.req].stream THEN "push" ELSE "decode"
    OBVIOUS
  <2>1. g = [gen EXCEPT !.text = @ \o p, !.tokens = @ + 1]
    BY <2>t, <2>n, <2>g
  <2>0. IsGen(gen)
    BY <1>0
  <2>2. /\ IsGen(g) /\ g.req = gen.req /\ g.pieces = gen.pieces /\ g.next = gen.next
        /\ g.tokens = gen.tokens + 1 /\ g.reason = gen.reason
    <3>1. /\ IsGen(g) /\ g.req = gen.req /\ g.pieces = gen.pieces /\ g.next = gen.next
          /\ g.tokens = n /\ g.reason = gen.reason
      BY <2>0, <2>g DEF IsGen
    <3> QED BY <2>n, <3>1
  <2>3a. IsGen(g)
    BY <2>2
  <2>3. CASE EndLoop(h)
    <3>1. /\ IsGen(h) /\ h.req = g.req /\ h.pieces = g.pieces /\ h.next = g.next
          /\ h.tokens = g.tokens /\ h.reason = "stop"
      BY <2>3a, <2>h DEF IsGen
    <3>2. h.tokens \in Nat /\ h.tokens <= ask[gen.req].max
      BY <1>r, <1>0, <1>6, <2>2, <3>1
    <3> QED BY <1>1, <2>2, <2>3, <3>1, <3>2, EndLoopKeeps
  <2>4. CASE gen' = [g EXCEPT !.pieces = Append(@, p), !.phase = s]
    <3>1. s \in {"push", "decode"} /\ (s = "push" => ask[gen.req].stream)
      BY <2>2, <2>s
    <3>2. /\ IsGen(gen') /\ gen'.req = gen.req /\ gen'.pieces = Append(gen.pieces, p) /\ gen'.next = gen.next
          /\ gen'.tokens = gen.tokens + 1 /\ gen'.phase = s /\ gen'.reason = gen.reason
      BY <2>2, <2>4 DEF IsGen
    <3>3. gen'.pieces \in Seq(Pieces) /\ gen'.pieces # <<>>
      BY <1>0, <3>2
    <3> QED BY <1>r, <1>1, <1>6, <3>1, <3>2, <3>3, TokenKeeps
  <2>5. \/ EndLoop(h)
        \/ gen' = [g EXCEPT !.pieces = Append(@, p), !.phase = s]
    BY Zenon, <2>p, <2>1, <2>u, <2>h, <2>s DEF Sampled
  <2> QED BY <2>3, <2>4, <2>5
<1>7. \/ EndLoop(gen)
      \/ /\ gen.tokens < a.max
         /\ \/ EndLoop([gen EXCEPT !.reason = "stop"])
            \/ \E p \in Pieces : Sampled(p)
            \/ gen' = [gen EXCEPT !.tokens = @ + 1, !.phase = "decode"]
  BY <1>r DEF Sample
<1> QED BY <1>3, <1>4, <1>5, <1>6, <1>7

LEMMA LibraryFailsKeeps == ASSUME BackendsInv, LibraryFails, UNCHANGED up PROVE BackendsInv'
<1>1. /\ thread = "busy" /\ Settle({gen.req}, "InferenceFailed") /\ thread' = "idle" /\ gen' = NoGen
      /\ mishap' = [mishap EXCEPT ![gen.req] = "library"]
      /\ UNCHANGED <<ask, open, sent, unread, backendVars, queue, up>>
  BY DEF LibraryFails, InPhase
<1>2. gen.req \in Requests /\ mishap'[gen.req] = "library"
  BY <1>1, Busy DEF CallTypes
<1>3. Justified(gen.req, "InferenceFailed")
  BY <1>2 DEF Justified, Answers, UpstreamFaults, OwnFaults
<1> QED BY <1>1, <1>3, GenEnds DEF LocalMishaps

\* The flag is not set yet, and the answer is the same.
LEMMA PanicKeeps == ASSUME BackendsInv, Panic, UNCHANGED up PROVE BackendsInv'
<1>1. /\ thread = "busy" /\ Settle({gen.req}, "BackendPoisoned") /\ thread' = "unwinding" /\ gen' = NoGen
      /\ mishap' = [mishap EXCEPT ![gen.req] = "panic"]
      /\ UNCHANGED <<ask, open, sent, unread, backendVars, queue, up>>
  BY DEF Panic
<1>2. gen.req \in Requests /\ ask[gen.req].model \in Local /\ mishap'[gen.req] = "panic"
  BY <1>1, Busy DEF CallTypes
<1>3. Justified(gen.req, "BackendPoisoned")
  BY <1>2 DEF Justified, Answers, UpstreamFaults
<1> QED BY <1>1, <1>3, GenEnds DEF LocalMishaps

\* The model is there: from now on commands come.
LEMMA LoadKeeps == ASSUME BackendsInv, Load, UNCHANGED up PROVE BackendsInv'
<1>0. CallTypes /\ UpTypes /\ WorkerTypes /\ FlagInv /\ QueueInv /\ GenInv
  BY DEF BackendsInv
<1>r. PICK r \in Requests : Calling(r, "leading") /\ Step(r, "guarded")
  BY DEF Load
<1>1. /\ thread = "idle" /\ thread' = thread /\ loadState' = "Loaded" /\ queue # <<>> /\ queue' = Tail(queue)
      /\ UNCHANGED <<poisoned, draining, drain, gen>>
  BY DEF Load, NextIs
<1>2. /\ stage' \in [Requests -> Stages] /\ stage'[r] = "guarded" /\ stage[r] = "leading" /\ ask[r].model \in Local
      /\ \A q \in Requests \ {r} : stage'[q] = stage[q]
      /\ UNCHANGED <<ask, open, sent, unread, mishap, answer, result, reply>>
  BY <1>0, <1>r DEF Step, Goto, Calling, CallTypes, Stages, Unsent
<1>3. CallTypes' /\ UpTypes'
  BY <1>0, <1>2 DEF CallTypes, UpTypes
<1>4. /\ queue' \in Seq(Requests \cup {"Load", "Shutdown"})
      /\ \A i \in DOMAIN queue' : i + 1 \in DOMAIN queue /\ i + 1 # 1 /\ queue'[i] = queue[i + 1]
  BY <1>0, <1>1 DEF WorkerTypes
<1>5. WorkerTypes'
  BY <1>0, <1>1, <1>4 DEF WorkerTypes, IsGen
<1>6. FlagInv'
  BY <1>0, <1>1, <1>4 DEF FlagInv, Usable, Alive
<1>7. QueueInv'
  <2>1. \A q \in Requests : Awaited(q) => Awaited(q)'
    BY <1>2 DEF Awaited
  <2>2. \A q \in Requests : \A i \in DOMAIN queue' : queue'[i] = q => Awaited(q)' /\ sent'[q] = <<>>
    BY <1>0, <1>2, <1>4, <2>1 DEF QueueInv
  <2>3. \A i, j \in DOMAIN queue' : queue'[i] \in Requests /\ queue'[i] = queue'[j] => i = j
    BY <1>0, <1>4 DEF QueueInv
  <2> QED BY <1>1, <2>2, <2>3 DEF QueueInv
<1>8. GenInv'
  BY <1>0, <1>1 DEF GenInv, NoGen
<1>9. CallInv'
  <2>1. FlagsStay /\ \A q \in Requests \ {r} : Untouched(q)
    BY <1>1, <1>2 DEF FlagsStay, Untouched
  <2>2. \A q \in Requests \ {r} : StageOK(q)' /\ ReplyOK(q)' /\ Blame(q)'
    BY <2>1, OthersKept
  <2>3. StageOK(r) /\ ReplyOK(r) /\ Blame(r)
    BY DEF BackendsInv, CallInv
  <2>4. StageOK(r)'
    BY <1>2, <2>3 DEF StageOK, LocalStages, Unsent
  <2>5. ReplyOK(r)' /\ Blame(r)'
    BY <1>1, <1>2, <2>3 DEF ReplyOK, Blame, Overflows
  <2> QED BY <2>2, <2>4, <2>5 DEF CallInv
<1> QED BY <1>3, <1>5, <1>6, <1>7, <1>8, <1>9 DEF BackendsInv

\* Nobody else is waiting: the only command of a loading worker is the load.
LEMMA LoadFailsKeeps == ASSUME BackendsInv, LoadFails, UNCHANGED up PROVE BackendsInv'
<1>0. CallTypes /\ UpTypes /\ WorkerTypes /\ FlagInv /\ QueueInv /\ GenInv
  BY DEF BackendsInv
<1>r. PICK r \in Requests : /\ Calling(r, "leading") /\ mishap' = [mishap EXCEPT ![r] = "load"]
                            /\ Settle({r}, "ModelLoadFailed")
  BY DEF LoadFails
<1>1. /\ thread = "idle" /\ thread' = "exited" /\ loadState' = "Unloaded" /\ queue # <<>> /\ Head(queue) = "Load"
      /\ queue' = <<>> /\ UNCHANGED <<ask, open, sent, unread, poisoned, draining, drain, gen>>
  BY DEF LoadFails, NextIs
<1>2. (loadState = "Loading" \/ draining) /\ stage[r] = "leading" /\ ask[r].model \in Local
  <2>1. 1 \in DOMAIN queue /\ queue[1] = "Load"
    BY <1>0, <1>1 DEF WorkerTypes
  <2> QED BY <1>0, <1>r, <2>1 DEF FlagInv, Calling
<1>3. "ModelLoadFailed" \in Results \ {"none", "Dropped"}
  BY DEF Results, EngineErrors
<1>4. /\ stage' \in [Requests -> Stages]
      /\ result' \in [Requests -> Results]
      /\ reply' \in [Requests -> [status : Nat, retry : Nat] \cup {None}]
      /\ \A q \in Requests \ {r} : stage'[q] = stage[q] /\ result'[q] = result[q] /\ reply'[q] = reply[q]
      /\ stage'[r] = "over"
  BY <1>0, <1>r, <1>3, SettleMeans
<1>5. /\ mishap' \in [Requests -> LocalMishaps \cup CloudMishaps] /\ mishap'[r] = "load"
      /\ \A q \in Requests \ {r} : mishap'[q] = mishap[q]
  BY <1>0, <1>r DEF CallTypes, LocalMishaps
<1>6. CallTypes' /\ UpTypes'
  BY <1>0, <1>1, <1>4, <1>5 DEF CallTypes, UpTypes
<1>7. WorkerTypes'
  BY <1>0, <1>1 DEF WorkerTypes, IsGen
<1>8. FlagInv'
  <2>1. ~poisoned /\ \A q \in Requests : stage'[q] \in {"guarded", "checked", "sending"} => Usable
    BY <1>0, <1>1, <1>4 DEF FlagInv
  <2> QED BY <1>0, <1>1, <1>2, <2>1 DEF FlagInv, Usable
<1>9. QueueInv' /\ GenInv'
  BY <1>0, <1>1 DEF QueueInv, GenInv, NoGen
<1>10. CallInv'
  <2>1. FlagsStay /\ \A q \in Requests \ {r} : Untouched(q)
    BY <1>1, <1>4, <1>5 DEF FlagsStay, Untouched
  <2>2. \A q \in Requests \ {r} : StageOK(q)' /\ ReplyOK(q)' /\ Blame(q)'
    BY <2>1, OthersKept
  <2>3. StageOK(r)
    BY DEF BackendsInv, CallInv
  <2>4. StageOK(r)'
    BY <1>1, <1>2, <1>4, <2>3 DEF StageOK, LocalStages, Unsent
  <2>5. Justified(r, "ModelLoadFailed") /\ result[r] = "none"
    BY <1>2, <1>5, <2>3 DEF Justified, Answers, UpstreamFaults, OwnFaults, StageOK
  <2>6. ReplyOK(r)' /\ Blame(r)'
    BY <1>r, <1>1, <1>5, <2>1, <2>5, BlameSettled DEF LocalMishaps
  <2> QED BY <2>2, <2>4, <2>6 DEF CallInv
<1> QED BY <1>6, <1>7, <1>8, <1>9, <1>10 DEF BackendsInv

\* The command leaves the queue and is in the thread's hands.
LEMMA TakeCommandKeeps == ASSUME BackendsInv, TakeCommand, UNCHANGED up PROVE BackendsInv'
<1>0. CallTypes /\ UpTypes /\ WorkerTypes /\ FlagInv /\ QueueInv /\ GenInv
  BY DEF BackendsInv
<1>r. PICK r \in Requests : r = Head(queue)
  BY DEF TakeCommand
<1>p. PICK p : p = IF ask[r].stream THEN "role" ELSE "prompt"
  OBVIOUS
<1>1. /\ thread = "idle" /\ queue # <<>> /\ thread' = "busy" /\ queue' = Tail(queue)
      /\ gen' = [NoGen EXCEPT !.req = r, !.phase = p]
      /\ UNCHANGED <<backendVars, callVars>>
  BY <1>r, <1>p DEF TakeCommand
<1>2. /\ UNCHANGED <<ask, stage, open, sent, unread, mishap, answer, result, reply>>
      /\ UNCHANGED <<loadState, poisoned, draining, drain>>
  BY <1>1 DEF callVars, backendVars
<1>3. /\ queue' \in Seq(Requests \cup {"Load", "Shutdown"})
      /\ 1 \in DOMAIN queue /\ queue[1] = r
      /\ \A i \in DOMAIN queue' : i + 1 \in DOMAIN queue /\ i + 1 # 1 /\ queue'[i] = queue[i + 1]
  BY <1>0, <1>r, <1>1 DEF WorkerTypes
<1>4. Awaited(r) /\ sent[r] = <<>> /\ Usable
  BY <1>0, <1>3 DEF QueueInv, FlagInv
<1>5. /\ IsGen(gen') /\ gen'.req = r /\ gen'.phase = p /\ gen'.pieces = <<>> /\ gen'.tokens = 0 /\ gen'.next = 0
      /\ gen'.reason = "length"
  BY <1>1 DEF NoGen, IsGen
<1>6. CallTypes' /\ UpTypes'
  BY <1>0, <1>2 DEF CallTypes, UpTypes
<1>7. WorkerTypes'
  <2>1. gen'.pieces \in Seq(Pieces) /\ gen'.tokens \in Nat /\ gen'.next \in Int /\ gen'.reason \in {"stop", "length"}
    BY <1>5
  <2> QED BY <1>0, <1>1, <1>2, <1>3, <1>5, <2>1 DEF WorkerTypes
<1>8. FlagInv'
  BY <1>0, <1>1, <1>2, <1>3, <1>4 DEF FlagInv, Usable, Alive
<1>9. QueueInv'
  <2>1. \A q \in Requests : Awaited(q) => Awaited(q)'
    BY <1>2 DEF Awaited
  <2>2. \A q \in Requests : \A i \in DOMAIN queue' : queue'[i] = q => Awaited(q)' /\ sent'[q] = <<>>
    BY <1>0, <1>2, <1>3, <2>1 DEF QueueInv
  <2>3. \A i, j \in DOMAIN queue' : queue'[i] \in Requests /\ queue'[i] = queue'[j] => i = j
    BY <1>0, <1>3 DEF QueueInv
  <2>4. \A i \in DOMAIN queue' : queue'[i] # r
    BY <1>0, <1>3 DEF QueueInv
  <2> QED BY <1>5, <2>2, <2>3, <2>4 DEF QueueInv
<1>10. GenInv'
  <2>1. Awaited(r)'
    BY <1>2, <1>4 DEF Awaited
  <2>2. ask[r] \in Ask /\ ask[r].max \in Nat
    BY <1>0 DEF CallTypes, Ask
  <2>3. PhaseOK'
    BY <1>p, <1>2, <1>4, <1>5, <2>2 DEF PhaseOK, Phases, NoFinish
  <2>4. gen'.req \in Requests /\ Awaited(gen.req)'
    BY <1>5, <2>1 DEF Awaited
  <2> QED BY <1>1, <2>3, <2>4 DEF GenInv
<1>11. CallInv'
  <2>1. FlagsStay /\ \A q \in Requests : Untouched(q)
    BY <1>2 DEF FlagsStay, Untouched
  <2> QED BY <2>1, OthersKept DEF CallInv
<1> QED BY <1>6, <1>7, <1>8, <1>9, <1>10, <1>11 DEF BackendsInv

\* The thread exits: who is queued behind what ended it is told that it is lost.
LEMMA ThreadExits ==
  ASSUME BackendsInv, thread \in {"idle", "unwinding"}, thread' = "exited", queue' = <<>>,
         Settle(Queued, "BackendPoisoned"), poisoned' \in BOOLEAN, poisoned => poisoned',
         poisoned' \/ draining, poisoned' => Usable,
         UNCHANGED <<ask, open, sent, unread, mishap, loadState, draining, drain, gen, up>>
  PROVE  BackendsInv'
<1>0. CallTypes /\ UpTypes /\ WorkerTypes /\ FlagInv /\ QueueInv /\ GenInv
  BY DEF BackendsInv
<1>1. Queued \in SUBSET Requests
  BY DEF Queued
<1>2. \A r \in Queued : Awaited(r) /\ sent[r] = <<>>
  <2> SUFFICES ASSUME NEW r \in Queued PROVE Awaited(r) /\ sent[r] = <<>>
    OBVIOUS
  <2>1. r \in Requests /\ \E i \in DOMAIN queue : queue[i] = r
    BY DEF Queued, ToSet
  <2> QED BY <1>0, <2>1 DEF QueueInv
<1>3. "BackendPoisoned" \in Results \ {"none", "Dropped"}
  BY DEF Results, EngineErrors
<1>4. /\ stage' \in [Requests -> Stages]
      /\ result' \in [Requests -> Results]
      /\ reply' \in [Requests -> [status : Nat, retry : Nat] \cup {None}]
      /\ \A q \in Requests \ Queued : stage'[q] = stage[q] /\ result'[q] = result[q] /\ reply'[q] = reply[q]
      /\ \A q \in Queued : stage'[q] = "over"
  BY <1>0, <1>1, <1>3, SettleMeans
<1>5. CallTypes' /\ UpTypes'
  BY <1>0, <1>4 DEF CallTypes, UpTypes
<1>6. WorkerTypes'
  BY <1>0 DEF WorkerTypes, IsGen
<1>7. FlagInv'
  <2>1. \A q \in Requests : stage'[q] \in {"guarded", "checked", "sending"} => Usable
    BY <1>0, <1>4 DEF FlagInv
  <2> QED BY <1>0, <2>1 DEF FlagInv, Usable, Alive
<1>8. QueueInv' /\ GenInv'
  BY <1>0 DEF QueueInv, GenInv, NoGen
<1>9. CallInv'
  <2>1. FlagsStay /\ \A q \in Requests \ Queued : Untouched(q)
    BY <1>4 DEF FlagsStay, Untouched
  <2>2. \A q \in Requests \ Queued : StageOK(q)' /\ ReplyOK(q)' /\ Blame(q)'
    BY <2>1, OthersKept
  <2>3. ASSUME NEW q \in Queued PROVE StageOK(q)' /\ ReplyOK(q)' /\ Blame(q)'
    <3>1. q \in Requests /\ Awaited(q) /\ sent[q] = <<>> /\ StageOK(q) /\ ReplyOK(q)
      BY <1>1, <1>2 DEF BackendsInv, CallInv
    <3>2. StageOK(q)'
      BY <1>4, <3>1 DEF StageOK, LocalStages, Unsent
    <3>3. mishap'[q] \in LocalMishaps /\ ask[q].model \in Local
      BY <3>1 DEF ReplyOK, Awaited
    <3>4. Justified(q, "BackendPoisoned")
      BY <3>3 DEF Justified, Answers, UpstreamFaults, LocalMishaps
    <3>5. result[q] # "none" /\ ~ask[q].stream => reply[q] = None
      BY <3>1 DEF StageOK, Awaited
    <3> QED BY <1>1, <2>1, <3>2, <3>3, <3>4, <3>5, BlameSettled
  <2> QED BY <2>2, <2>3 DEF CallInv
<1> QED BY <1>5, <1>6, <1>7, <1>8, <1>9 DEF BackendsInv

LEMMA PoisonKeeps == ASSUME BackendsInv, Poison, UNCHANGED up PROVE BackendsInv'
<1>1. Usable
  BY DEF BackendsInv, FlagInv, Poison
<1> QED BY <1>1, ThreadExits DEF Poison

\* A Shutdown in the queue tells that the flag is set.
LEMMA StopKeeps == ASSUME BackendsInv, Stop, UNCHANGED up PROVE BackendsInv'
<1>1. WorkerTypes /\ FlagInv /\ queue # <<>> /\ Head(queue) = "Shutdown" /\ UNCHANGED backendVars
  BY DEF BackendsInv, Stop, NextIs
<1>2. 1 \in DOMAIN queue /\ queue[1] = "Shutdown"
  BY <1>1 DEF WorkerTypes
<1>3. draining /\ UNCHANGED <<loadState, poisoned, draining, drain>> /\ poisoned \in BOOLEAN
  BY <1>1, <1>2 DEF FlagInv, WorkerTypes, backendVars
<1> QED BY <1>3, ThreadExits DEF Stop, Usable

(***************************************************************************)
(* The shutdown: it changes flags and the queue, and no call.              *)
(***************************************************************************)

LEMMA DrainKeeps ==
  ASSUME BackendsInv, UNCHANGED <<callVars, poisoned, thread, gen, up>>, WorkerTypes', FlagInv',
         draining => draining',
         \A i \in DOMAIN queue' : queue'[i] \in Requests => i \in DOMAIN queue /\ queue[i] = queue'[i]
  PROVE  BackendsInv'
<1>0. CallTypes /\ UpTypes /\ QueueInv /\ GenInv
  BY DEF BackendsInv
<1>1. UNCHANGED <<ask, stage, open, sent, unread, mishap, answer, result, reply>>
  BY DEF callVars
<1>2. CallTypes' /\ UpTypes'
  BY <1>0, <1>1 DEF CallTypes, UpTypes
<1>3. \A r \in Requests : Awaited(r)' <=> Awaited(r)
  BY <1>1 DEF Awaited
<1>4. QueueInv'
  <2>1. \A r \in Requests : \A i \in DOMAIN queue' : queue'[i] = r => Awaited(r)' /\ sent'[r] = <<>>
    BY <1>0, <1>1, <1>3 DEF QueueInv
  <2>2. \A i, j \in DOMAIN queue' : queue'[i] \in Requests /\ queue'[i] = queue'[j] => i = j
    BY <1>0 DEF QueueInv
  <2>3. thread = "busy" => \A i \in DOMAIN queue' : queue'[i] # gen.req
    BY <1>0 DEF QueueInv, GenInv
  <2> QED BY <2>1, <2>2, <2>3 DEF QueueInv
<1>5. GenInv'
  BY <1>0, <1>1 DEF GenInv, PhaseOK, Awaited, NoFinish, NoGen
<1>6. CallInv'
  <2>1. FlagsStay /\ \A q \in Requests : Untouched(q)
    BY <1>1 DEF FlagsStay, Untouched
  <2> QED BY <2>1, OthersKept DEF CallInv
<1> QED BY <1>2, <1>4, <1>5, <1>6 DEF BackendsInv

LEMMA BeginDrainKeeps == ASSUME BackendsInv, BeginDrain, UNCHANGED up PROVE BackendsInv'
<1>1. WorkerTypes /\ FlagInv
  BY DEF BackendsInv
<1>2. /\ draining' = TRUE /\ loadState' = "Unloaded" /\ drain' \in {"sending", "over"}
      /\ UNCHANGED <<callVars, poisoned, thread, queue, gen>>
  BY <1>1 DEF BeginDrain, WorkerTypes
<1>3. WorkerTypes'
  BY <1>1, <1>2 DEF WorkerTypes, IsGen
<1>4. FlagInv'
  BY <1>1, <1>2 DEF FlagInv, Usable, Alive
<1> QED BY <1>2, <1>3, <1>4, DrainKeeps

LEMMA DrainStepKeeps == ASSUME BackendsInv, DrainStep, UNCHANGED up PROVE BackendsInv'
<1>1. WorkerTypes /\ FlagInv
  BY DEF BackendsInv
<1>2. /\ UNCHANGED <<callVars, loadState, poisoned, draining, thread, gen>>
      /\ drain # "no" /\ drain' \in {"joining", "over"}
  BY DEF DrainStep, SendShutdown, Join
<1>3. \/ queue' = queue
      \/ queue' = Append(queue, "Shutdown")
  BY DEF DrainStep, SendShutdown, Join
<1>4. /\ queue' \in Seq(Requests \cup {"Load", "Shutdown"})
      /\ \A i \in DOMAIN queue' : queue'[i] # "Shutdown" => i \in DOMAIN queue /\ queue[i] = queue'[i]
  <2>1. queue \in Seq(Requests \cup {"Load", "Shutdown"})
    BY <1>1 DEF WorkerTypes
  <2>2. CASE queue' = queue
    BY <2>1, <2>2
  <2>3. CASE queue' = Append(queue, "Shutdown")
    BY <2>1, <2>3
  <2> QED BY <1>3, <2>2, <2>3
<1>5. WorkerTypes'
  BY <1>1, <1>2, <1>4 DEF WorkerTypes, IsGen
<1>6. "Shutdown" \notin Requests
  BY WorkerAssumption
<1>7. FlagInv'
  <2>1. \A i \in DOMAIN queue' : queue'[i] \in Requests \cup {"Load"} => i \in DOMAIN queue /\ queue[i] = queue'[i]
    BY <1>4, <1>6
  <2>2. draining /\ UNCHANGED stage
    BY <1>1, <1>2 DEF FlagInv, callVars
  <2> QED BY <1>1, <1>2, <2>1, <2>2 DEF FlagInv, Usable, Alive
<1> QED BY <1>2, <1>4, <1>5, <1>6, <1>7, DrainKeeps

(***************************************************************************)
(* The adapters of hosted models.                                          *)
(***************************************************************************)

LEMMA CloudIsNotLocal ==
  ASSUME NEW r, ask[r].model \in Cloud
  PROVE  ask[r].model \notin Local
BY CallsAssumption DEF Cloud

\* What a call to a hosted model finds.
LEMMA CloudCall ==
  ASSUME BackendsInv, NEW r \in Requests, NEW s \in {"called", "posted", "reading"}, CloudCalling(r, s)
  PROVE  /\ CallTypes /\ UpTypes /\ StageOK(r) /\ ReplyOK(r) /\ Blame(r)
         /\ ask[r] \in Ask /\ up[r] \in UpRecord /\ sent[r] \in Seq(Chunks)
         /\ stage[r] = s /\ ask[r].model \in Cloud /\ ask[r].model \notin Local
<1>1. stage[r] = s /\ ask[r].model \in Cloud
  BY DEF CloudCalling
<1> QED BY <1>1, CloudIsNotLocal DEF BackendsInv, CallInv, CallTypes, UpTypes, UpRecord

\* A call goes on to its next stage, or a stream to its next event.
LEMMA CloudSteps ==
  ASSUME BackendsInv, NEW r \in Requests, NEW s \in {"called", "posted", "reading"}, CloudCalling(r, s),
         NEW t \in {"posted", "reading"}, Goto(r, t), t = "posted" => s = "called",
         t = "reading" => ask[r].stream /\ s # "called",
         NEW next \in UpRecord, up' = [up EXCEPT ![r] = next],
         t = "reading" /\ next.due = "role" => sent[r] = <<>>,
         t = "reading" /\ next.due = "text" => NoFinish(r) \/ next.on,
         NEW m \in LocalMishaps \cup CloudMishaps, mishap' = [mishap EXCEPT ![r] = m],
         t = "posted" => m = mishap[r],
         UNCHANGED <<ask, open, sent, unread, answer, result, reply, workerVars>>
  PROVE  BackendsInv'
<1>0. /\ CallTypes /\ UpTypes /\ StageOK(r) /\ ReplyOK(r) /\ Blame(r) /\ ask[r] \in Ask
      /\ stage[r] = s /\ ask[r].model \in Cloud /\ ask[r].model \notin Local
  BY CloudCall
<1>1. /\ stage' \in [Requests -> Stages] /\ stage'[r] = t
      /\ \A q \in Requests \ {r} : stage'[q] = stage[q]
  BY <1>0 DEF Goto, CallTypes, Stages, Unsent
<1>2. UpTypes' /\ up'[r] = next /\ \A q \in Requests \ {r} : up'[q] = up[q]
  BY <1>0 DEF UpTypes, UpRecord
<1>3. /\ mishap' \in [Requests -> LocalMishaps \cup CloudMishaps] /\ mishap'[r] = m
      /\ \A q \in Requests \ {r} : mishap'[q] = mishap[q]
  BY <1>0 DEF CallTypes
<1>4. CallTypes'
  BY <1>0, <1>1, <1>3 DEF CallTypes
<1>5. \A q \in Requests \ {r} : Untouched(q)
  BY <1>1, <1>2, <1>3 DEF Untouched
<1>6. StageOK(r)'
  <2>1. result[r] = "none" /\ (t = "posted" => sent[r] = <<>>) /\ (~ask[r].stream => sent[r] = <<>>)
    BY <1>0 DEF StageOK, Unsent
  <2> QED BY <1>0, <1>1, <1>2, <2>1 DEF StageOK, LocalStages, Unsent, NoFinish
<1>7. ReplyOK(r)'
  BY <1>0, <1>1, <1>3 DEF ReplyOK
<1>8. Blame(r)'
  <2>1. ask[r].stream /\ reply[r] # None => reply[r].status \in {200, 400, 404} /\ (reply[r].status = 400 => ask[r].empty)
    BY <1>0 DEF ReplyOK
  <2>2. ~ask[r].stream => reply[r] = None
    BY <1>0 DEF ReplyOK
  <2> QED BY <1>0, <1>3, <2>1, <2>2 DEF Blame, Ask, UpstreamFaults
<1> QED BY <1>0, <1>1, <1>2, <1>4, <1>5, <1>6, <1>7, <1>8, OneCall

\* A call ends with the answer that its mishap calls for.
LEMMA CloudEnds ==
  ASSUME BackendsInv, NEW r \in Requests, NEW s \in {"posted", "reading"}, CloudCalling(r, s),
         NEW m \in LocalMishaps \cup CloudMishaps, mishap' = [mishap EXCEPT ![r] = m],
         NEW v, Settle({r}, v), v \in Answers \ {"ContextLengthExceeded", "BackendPoisoned", "BackendDraining"},
         v \in {"Timeout", "Network", "UpstreamServerError", "RateLimited"} => m \in UpstreamFaults,
         m \in UpstreamFaults => ask[r].stream \/ v \in {"Timeout", "Network", "UpstreamServerError", "RateLimited"},
         v \in {"ModelLoadFailed", "InferenceFailed"} => m \in OwnFaults,
         UpTypes', \A q \in Requests \ {r} : up'[q] = up[q],
         UNCHANGED <<ask, open, sent, unread, workerVars>>
  PROVE  BackendsInv'
<1>0. CallTypes /\ stage[r] = s /\ ask[r].model \notin Local
  BY CloudCall
<1>1. mishap'[r] = m
  BY <1>0 DEF CallTypes
<1>2. Justified(r, v)
  BY <1>1 DEF Justified
<1>3. stage[r] \notin {"waiting", "over"}
  BY <1>0
<1> QED BY <1>0, <1>2, <1>3, CallSettles

LEMMA PostKeeps ==
  ASSUME BackendsInv, NEW r \in Requests, Post(r), UNCHANGED workerVars
  PROVE  BackendsInv'
<1>1. /\ CloudCalling(r, "called") /\ Goto(r, "posted")
      /\ UNCHANGED <<ask, open, sent, unread, mishap, answer, result, reply, up>>
  BY DEF Post
<1>2. CallTypes /\ UpTypes /\ up[r] \in UpRecord /\ mishap[r] = "none"
  BY <1>1, CloudCall DEF ReplyOK
<1>3. up' = [up EXCEPT ![r] = up[r]] /\ mishap' = [mishap EXCEPT ![r] = mishap[r]]
  BY <1>1, <1>2 DEF UpTypes, CallTypes
<1>4. mishap[r] \in CloudMishaps
  BY <1>2 DEF CloudMishaps
<1> QED BY <1>1, <1>2, <1>3, <1>4, CloudSteps

LEMMA StreamsKeeps ==
  ASSUME BackendsInv, NEW r \in Requests, Streams(r), UNCHANGED workerVars
  PROVE  BackendsInv'
<1>1. /\ CloudCalling(r, "posted") /\ ask[r].stream /\ Goto(r, "reading")
      /\ up' = [up EXCEPT ![r].due = "role"]
      /\ UNCHANGED <<ask, open, sent, unread, mishap, answer, result, reply>>
  BY DEF Streams
<1>2. CallTypes /\ UpTypes /\ up[r] \in UpRecord /\ mishap[r] = "none" /\ sent[r] = <<>>
  BY <1>1, CloudCall DEF ReplyOK, StageOK, Unsent
<1>3. PICK next : next = [up[r] EXCEPT !.due = "role"]
  OBVIOUS
<1>4. next \in UpRecord /\ next.due = "role" /\ up' = [up EXCEPT ![r] = next]
  BY <1>1, <1>2, <1>3 DEF UpRecord, UpTypes
<1>5. mishap' = [mishap EXCEPT ![r] = "none"] /\ "none" \in CloudMishaps
  BY <1>1, <1>2 DEF CallTypes, CloudMishaps
<1> QED BY <1>1, <1>2, <1>4, <1>5, CloudSteps

LEMMA GarbledKeeps ==
  ASSUME BackendsInv, NEW r \in Requests, Garbled(r), UNCHANGED workerVars
  PROVE  BackendsInv'
<1>1. /\ CloudCalling(r, "reading") /\ mishap' = [mishap EXCEPT ![r] = "garbled"]
      /\ UNCHANGED <<ask, stage, open, sent, unread, answer, result, reply>>
  BY DEF Garbled
<1>2. /\ CallTypes /\ UpTypes /\ up[r] \in UpRecord /\ stage[r] = "reading" /\ ask[r].stream
      /\ up[r].due = "role" => sent[r] = <<>>
      /\ up[r].due = "text" => NoFinish(r) \/ up[r].on
  BY <1>1, CloudCall DEF StageOK
<1>3. PICK next \in UpRecord : /\ up' = [up EXCEPT ![r] = next]
                               /\ next.due = "text" => up[r].due \in {"role", "text"}
                               /\ next.due # "role" /\ next.on = up[r].on
  <2>1. CASE up[r].due = "role" /\ up' = [up EXCEPT ![r].due = "text"]
    <3>1. PICK next : next = [up[r] EXCEPT !.due = "text"]
      OBVIOUS
    <3>2. next \in UpRecord /\ next.due = "text" /\ next.on = up[r].on /\ up' = [up EXCEPT ![r] = next]
      BY <1>2, <2>1, <3>1 DEF UpRecord, UpTypes
    <3> QED BY <2>1, <3>2
  <2>2. CASE /\ up[r].due = "text"
             /\ up' = [up EXCEPT ![r].texts = @ + 1, ![r].lost = @ \cup {up[r].texts + 1}]
    <3>n. PICK n \in Nat : n = up[r].texts + 1
      BY <1>2 DEF UpRecord
    <3>l. PICK l \in SUBSET Nat : l = up[r].lost \cup {n}
      BY <1>2 DEF UpRecord
    <3>0. up' = [up EXCEPT ![r].texts = n, ![r].lost = l]
      BY <1>2, <2>2, <3>n, <3>l DEF UpTypes
    <3>1. PICK next : next = [up[r] EXCEPT !.texts = n, !.lost = l]
      OBVIOUS
    <3>2. next \in UpRecord /\ next.due = "text" /\ next.on = up[r].on
      BY <1>2, <2>2, <3>1 DEF UpRecord
    <3>3. up' = [up EXCEPT ![r] = next]
      BY <1>2, <3>0, <3>1 DEF UpTypes
    <3> QED BY <2>2, <3>2, <3>3
  <2>3. CASE up[r].due = "text" /\ up' = [up EXCEPT ![r].due = "end"]
    <3>1. PICK next : next = [up[r] EXCEPT !.due = "end"]
      OBVIOUS
    <3>2. next \in UpRecord /\ next.due = "end" /\ next.on = up[r].on /\ up' = [up EXCEPT ![r] = next]
      BY <1>2, <2>3, <3>1 DEF UpRecord, UpTypes
    <3> QED BY <2>3, <3>2
  <2> QED BY <2>1, <2>2, <2>3 DEF Garbled
<1>4. next.due = "text" => NoFinish(r) \/ next.on
  BY <1>2, <1>3 DEF NoFinish
<1>5. Goto(r, "reading")
  BY <1>1, <1>2 DEF Goto, CallTypes
<1>6. "garbled" \in CloudMishaps
  BY DEF CloudMishaps
<1> QED BY <1>1, <1>2, <1>3, <1>4, <1>5, <1>6, CloudSteps

LEMMA GoesOnKeeps ==
  ASSUME BackendsInv, NEW r \in Requests, GoesOn(r), UNCHANGED workerVars
  PROVE  BackendsInv'
<1>1. /\ CloudCalling(r, "reading") /\ up' = [up EXCEPT ![r].due = "text", ![r].on = TRUE]
      /\ UNCHANGED <<ask, stage, open, sent, unread, mishap, answer, result, reply>>
  BY DEF GoesOn, Reading, callVars
<1>2. CallTypes /\ UpTypes /\ up[r] \in UpRecord /\ stage[r] = "reading" /\ ask[r].stream
  BY <1>1, CloudCall DEF StageOK
<1>3. PICK next : next = [up[r] EXCEPT !.due = "text", !.on = TRUE]
  OBVIOUS
<1>4. next \in UpRecord /\ next.due = "text" /\ next.on /\ up' = [up EXCEPT ![r] = next]
  BY <1>1, <1>2, <1>3 DEF UpRecord, UpTypes
<1>5. Goto(r, "reading") /\ mishap' = [mishap EXCEPT ![r] = mishap[r]]
  BY <1>1, <1>2 DEF Goto, CallTypes
<1>6. mishap[r] \in LocalMishaps \cup CloudMishaps
  BY <1>2 DEF CallTypes
<1> QED BY <1>1, <1>2, <1>4, <1>5, <1>6, CloudSteps

\* A stream that is left, with what went wrong last.
LEMMA StreamEnds ==
  ASSUME BackendsInv, NEW r \in Requests, CloudCalling(r, "reading"), EndStream(r), UNCHANGED workerVars,
         NEW m \in LocalMishaps \cup CloudMishaps, mishap' = [mishap EXCEPT ![r] = m]
  PROVE  BackendsInv'
<1>1. /\ Settle({r}, "Ok") /\ UNCHANGED <<ask, open, sent, unread, up>>
      /\ ask[r].stream /\ UpTypes
  BY CloudCall DEF EndStream, StageOK
<1>2. UpTypes' /\ "Ok" \in Answers \ {"ContextLengthExceeded", "BackendPoisoned", "BackendDraining"}
  BY <1>1 DEF UpTypes, Answers
<1> QED BY <1>1, <1>2, CloudEnds

LEMMA StreamStops ==
  ASSUME BackendsInv, NEW r \in Requests, CloudCalling(r, "reading"), EndStream(r), UNCHANGED mishap,
         UNCHANGED workerVars
  PROVE  BackendsInv'
<1>1. mishap[r] \in LocalMishaps \cup CloudMishaps /\ mishap' = [mishap EXCEPT ![r] = mishap[r]]
  BY CloudCall DEF CallTypes
<1> QED BY <1>1, StreamEnds

LEMMA CutOffKeeps ==
  ASSUME BackendsInv, NEW r \in Requests, CutOff(r), UNCHANGED workerVars
  PROVE  BackendsInv'
BY StreamEnds DEF CutOff, CloudMishaps

LEMMA DoneKeeps ==
  ASSUME BackendsInv, NEW r \in Requests, Done(r), UNCHANGED workerVars
  PROVE  BackendsInv'
BY StreamStops DEF Done, Reading

\* A chunk goes out: what may follow it does.
LEMMA ForwardKeeps ==
  ASSUME BackendsInv, NEW r \in Requests, CloudCalling(r, "reading"), NEW chunk \in Chunks,
         NEW next \in UpRecord, Forward(r, chunk, next), UNCHANGED workerVars,
         next.due # "role", next.on = up[r].on,
         next.due = "text" => up[r].due \in {"role", "text"} /\ chunk[1] # "finish"
  PROVE  BackendsInv'
<1>0. /\ CallTypes /\ UpTypes /\ StageOK(r) /\ ReplyOK(r) /\ Blame(r) /\ sent[r] \in Seq(Chunks)
      /\ stage[r] = "reading" /\ ask[r].stream
  BY CloudCall DEF StageOK
<1>1. CASE ~open[r] /\ EndStream(r) /\ UNCHANGED mishap
  BY <1>1, StreamStops
<1>2. CASE /\ Send(r, chunk) /\ up' = [up EXCEPT ![r] = next]
           /\ UNCHANGED <<ask, stage, open, mishap, answer, result, reply>>
  <2>1. /\ sent' \in [Requests -> Seq(Chunks)] /\ sent'[r] = Append(sent[r], chunk)
        /\ \A q \in Requests \ {r} : sent'[q] = sent[q]
    BY <1>0, <1>2 DEF Send, CallTypes
  <2>2. unread' \in [Requests -> Nat]
    BY <1>0, <1>2 DEF Send, CallTypes
  <2>3. UpTypes' /\ up'[r] = next /\ \A q \in Requests \ {r} : up'[q] = up[q]
    BY <1>0, <1>2 DEF UpTypes, UpRecord
  <2>4. CallTypes'
    BY <1>0, <1>2, <2>1, <2>2 DEF CallTypes
  <2>5. \A q \in Requests \ {r} : Untouched(q)
    BY <1>2, <2>1, <2>3 DEF Untouched
  <2>6. StageOK(r)'
    <3>1. next.due = "text" => NoFinish(r) \/ next.on
      BY <1>0 DEF StageOK, NoFinish
    <3>2. next.due = "text" => next.on \/ \A i \in DOMAIN sent'[r] : sent'[r][i][1] # "finish"
      BY <1>0, <2>1, <3>1 DEF NoFinish
    <3> QED BY <1>0, <1>2, <2>3, <3>2 DEF StageOK, LocalStages, Unsent, NoFinish
  <2>7. ReplyOK(r)' /\ Blame(r)'
    <3>1. UNCHANGED <<poisoned, draining>>
      BY DEF workerVars
    <3> QED BY <1>0, <1>2, <3>1 DEF ReplyOK, Blame, Overflows
  <2> QED BY <1>0, <1>2, <2>3, <2>4, <2>5, <2>6, <2>7, OneCall
<1> QED BY <1>1, <1>2 DEF Forward

LEMMA EventsKeep ==
  ASSUME BackendsInv, NEW r \in Requests, RoleEvent(r) \/ TextEvent(r) \/ FinishEvent(r), UNCHANGED workerVars
  PROVE  BackendsInv'
<1>0. CloudCalling(r, "reading") /\ up[r] \in UpRecord
  BY CloudCall DEF RoleEvent, TextEvent, FinishEvent, Reading
<1>1. CASE RoleEvent(r)
  <2>1. PICK next : next = [up[r] EXCEPT !.due = "text"]
    OBVIOUS
  <2>2. next \in UpRecord /\ next.due = "text" /\ next.on = up[r].on
    BY <1>0, <2>1 DEF UpRecord
  <2>3. Role \in Chunks /\ Role[1] # "finish"
    BY DEF Role, Chunks
  <2>4. Forward(r, Role, next) /\ up[r].due = "role"
    BY <1>1, <2>1 DEF RoleEvent, Reading
  <2> QED BY <1>0, <2>2, <2>3, <2>4, ForwardKeeps
<1>2. CASE TextEvent(r)
  <2>n. PICK n \in Nat : n = up[r].texts + 1
    BY <1>0 DEF UpRecord
  <2>1. PICK next : next = [up[r] EXCEPT !.texts = n]
    OBVIOUS
  <2>2. next \in UpRecord /\ next.due = up[r].due /\ next.on = up[r].on
    BY <1>0, <2>1 DEF UpRecord
  <2>3. Text(n) \in Chunks /\ Text(n)[1] # "finish"
    BY DEF Text, Chunks
  <2>4. Forward(r, Text(n), next) /\ up[r].due = "text"
    BY <1>2, <2>n, <2>1 DEF TextEvent, Reading
  <2> QED BY <1>0, <2>2, <2>3, <2>4, ForwardKeeps
<1>3. CASE FinishEvent(r)
  <2>0. PICK reason \in {"end_turn", "max_tokens"} : Forward(r, Finish(StopReason(reason)), [up[r] EXCEPT !.due = "end"])
    BY <1>3 DEF FinishEvent
  <2>1. PICK next : next = [up[r] EXCEPT !.due = "end"]
    OBVIOUS
  <2>2. next \in UpRecord /\ next.due = "end" /\ next.on = up[r].on
    BY <1>0, <2>1 DEF UpRecord
  <2>3. Finish(StopReason(reason)) \in Chunks
    BY DEF Finish, StopReason, Chunks
  <2> QED BY <1>0, <2>0, <2>1, <2>2, <2>3, ForwardKeeps
<1> QED BY <1>1, <1>2, <1>3

LEMMA FailKeeps ==
  ASSUME BackendsInv, NEW r \in Requests, CloudCalling(r, "posted"), NEW m, NEW e, Fail(r, m, e), UNCHANGED workerVars,
         \/ m \in UpstreamFaults /\ e \in {"Timeout", "Network", "UpstreamServerError", "RateLimited"}
         \/ m \in {"4xx", "transport", "garbled"} /\ e = "InferenceFailed"
  PROVE  BackendsInv'
<1>1. /\ mishap' = [mishap EXCEPT ![r] = m] /\ Settle({r}, e)
      /\ UNCHANGED <<ask, open, sent, unread, up>>
  BY DEF Fail
<1>2. UpTypes' /\ \A q \in Requests \ {r} : up'[q] = up[q]
  BY <1>1, CloudCall DEF UpTypes
<1>3. /\ m \in LocalMishaps \cup CloudMishaps
      /\ e \in Answers \ {"ContextLengthExceeded", "BackendPoisoned", "BackendDraining"}
      /\ e \in {"Timeout", "Network", "UpstreamServerError", "RateLimited"} <=> m \in UpstreamFaults
      /\ e \in {"ModelLoadFailed", "InferenceFailed"} => m \in OwnFaults
  BY DEF UpstreamFaults, OwnFaults, CloudMishaps, Answers
<1> QED BY <1>1, <1>2, <1>3, CloudEnds

LEMMA FailuresKeep ==
  ASSUME BackendsInv, NEW r \in Requests, NoResponse(r) \/ Refused(r), UNCHANGED workerVars
  PROVE  BackendsInv'
<1>0. CloudCalling(r, "posted")
  BY DEF NoResponse, Refused
<1>1. CASE NoResponse(r)
  <2>1. PICK m \in {"timeout", "connect", "transport"} : Fail(r, m, TransportError(m))
    BY <1>1 DEF NoResponse
  <2>2. \/ m \in UpstreamFaults /\ TransportError(m) \in {"Timeout", "Network"}
        \/ m = "transport" /\ TransportError(m) = "InferenceFailed"
    BY DEF TransportError, UpstreamFaults
  <2> QED BY <1>0, <2>1, <2>2, FailKeeps
<1>2. CASE Refused(r)
  <2>1. PICK m \in {"429", "4xx", "5xx"} : Fail(r, m, StatusError(m))
    BY <1>2 DEF Refused
  <2>2. \/ m \in UpstreamFaults /\ StatusError(m) \in {"RateLimited", "UpstreamServerError"}
        \/ m = "4xx" /\ StatusError(m) = "InferenceFailed"
    BY DEF StatusError, UpstreamFaults
  <2> QED BY <1>0, <2>1, <2>2, FailKeeps
<1> QED BY <1>1, <1>2

LEMMA PlainKeeps ==
  ASSUME BackendsInv, NEW r \in Requests, Plain(r), UNCHANGED workerVars
  PROVE  BackendsInv'
<1>0. CloudCalling(r, "posted") /\ CallTypes /\ UpTypes /\ up[r] \in UpRecord /\ mishap[r] = "none"
  BY CloudCall DEF Plain, ReplyOK
<1>1. CASE Fail(r, "garbled", "InferenceFailed")
  BY <1>0, <1>1, FailKeeps
<1>2. CASE /\ \E n \in 0 .. MaxTexts : up' = [up EXCEPT ![r].texts = n]
           /\ Settle({r}, "Ok")
           /\ UNCHANGED <<ask, open, sent, unread, mishap>>
  <2>1. UpTypes' /\ \A q \in Requests \ {r} : up'[q] = up[q]
    BY <1>0, <1>2, UpstreamAssumption DEF UpTypes, UpRecord
  <2>2. mishap' = [mishap EXCEPT ![r] = "none"]
    BY <1>0, <1>2 DEF CallTypes
  <2>3. "none" \in CloudMishaps /\ "none" \notin UpstreamFaults /\ "Ok" \in Answers
    BY DEF CloudMishaps, UpstreamFaults, Answers
  <2> QED BY <1>0, <1>2, <2>1, <2>2, <2>3, CloudEnds
<1> QED BY <1>1, <1>2 DEF Plain

(***************************************************************************)
(* The invariant.                                                          *)
(***************************************************************************)

LEMMA BackendsInitially == BackendsInit => BackendsInv
<1> SUFFICES ASSUME BackendsInit PROVE BackendsInv
  OBVIOUS
<1>0. CallsInit /\ WorkerInit /\ UpstreamInit
  BY DEF BackendsInit
<1>1. CallTypes
  <2>1. ask \in [Requests -> Ask]
    BY <1>0, CallsAssumption DEF CallsInit, Ask
  <2>2. <<>> \in Seq(Chunks)
    OBVIOUS
  <2> QED BY <1>0, <2>1, <2>2 DEF CallsInit, CallTypes, Stages, Unsent, LocalMishaps, Results
<1>2. WorkerTypes
  <2>1. <<>> \in Seq(Requests \cup {"Load", "Shutdown"}) /\ <<>> \in Seq(Pieces)
    OBVIOUS
  <2>2. gen = NoGen
    BY <1>0 DEF WorkerInit
  <2>3. /\ IsGen(gen) /\ gen.pieces \in Seq(Pieces) /\ gen.tokens \in Nat /\ gen.next \in Int
        /\ gen.reason \in {"stop", "length"}
    BY <2>1, <2>2 DEF IsGen, NoGen
  <2> QED BY <1>0, <2>1, <2>3 DEF WorkerInit, WorkerTypes
<1>3. UpTypes
  BY <1>0 DEF UpstreamInit, UpTypes, UpRecord
<1>4. FlagInv
  BY <1>0 DEF WorkerInit, CallsInit, FlagInv
<1>5. QueueInv /\ GenInv
  BY <1>0 DEF WorkerInit, QueueInv, GenInv
<1>6. CallInv
  BY <1>0 DEF CallsInit, CallInv, StageOK, ReplyOK, Blame, LocalStages, Unsent, LocalMishaps
<1> QED BY <1>1, <1>2, <1>3, <1>4, <1>5, <1>6 DEF BackendsInv

LEMMA BackendsStep == BackendsInv /\ [BackendsNext]_backendsVars => BackendsInv'
<1> SUFFICES ASSUME BackendsInv, [BackendsNext]_backendsVars PROVE BackendsInv'
  OBVIOUS
<1>1. CASE LocalStep /\ UNCHANGED up
  <2>1. CASE \E r \in Requests : LocalCall(r)
    BY <1>1, <2>1, EnterKeeps, EnsureLoadedKeeps, LoadTooLateKeeps, CheckFlagsKeeps, TakeSenderKeeps,
       SendCommandKeeps DEF LocalCall
  <2>2. CASE ThreadStep
    BY <1>1, <2>2, LoadKeeps, LoadFailsKeeps, TakeCommandKeeps, SendRoleKeeps, PromptKeeps, SampleKeeps,
       PushKeeps, DecodeKeeps, SendFinishKeeps, CompleteKeeps, PoisonKeeps, StopKeeps DEF ThreadStep
  <2>3. CASE LibraryFails \/ Panic
    BY <1>1, <2>3, LibraryFailsKeeps, PanicKeeps
  <2>4. CASE BeginDrain \/ DrainStep
    BY <1>1, <2>4, BeginDrainKeeps, DrainStepKeeps
  <2> QED BY <1>1, <2>1, <2>2, <2>3, <2>4 DEF LocalStep, WorkerStep
<1>2. CASE CloudStep /\ UNCHANGED workerVars
  <2>1. PICK r \in Requests : UpstreamStep(r)
    BY <1>2 DEF CloudStep
  <2> QED BY <1>2, <2>1, PostKeeps, FailuresKeep, PlainKeeps, StreamsKeeps, EventsKeep, GoesOnKeeps, DoneKeeps,
             GarbledKeeps, CutOffKeeps DEF UpstreamStep
<1>3. CASE ClientStep /\ UNCHANGED <<workerVars, up>>
  BY <1>3, ArriveKeeps, ReadKeeps, LeaveKeeps DEF ClientStep
<1>4. CASE UNCHANGED backendsVars
  <2>1. /\ UNCHANGED <<ask, stage, open, sent, unread, mishap, answer, result, reply>>
        /\ UNCHANGED <<loadState, poisoned, draining, drain, thread, queue, gen, up>>
    BY <1>4 DEF backendsVars, callVars, workerVars
  <2>2. CallTypes' /\ WorkerTypes' /\ UpTypes'
    BY <2>1 DEF BackendsInv, CallTypes, WorkerTypes, IsGen, UpTypes
  <2>3. FlagInv' /\ QueueInv' /\ GenInv'
    BY <2>1 DEF BackendsInv, FlagInv, Usable, Alive, QueueInv, GenInv, PhaseOK, Awaited, NoFinish, NoGen
  <2>4. CallInv'
    BY <2>1 DEF BackendsInv, CallInv, StageOK, ReplyOK, Blame, NoFinish, Overflows
  <2> QED BY <2>2, <2>3, <2>4 DEF BackendsInv
<1> QED BY <1>1, <1>2, <1>3, <1>4 DEF BackendsNext

\* The strengthened invariant holds of every behaviour: every call is in the
\* queue or with the thread at most once, the flags tell the truth about the
\* load state and the thread, and each stage knows what was sent before it.
THEOREM BackendsInductive == BackendsSpec => []BackendsInv
BY BackendsInitially, BackendsStep, PTL DEF BackendsSpec

\* For any number of calls, panics, shutdowns and upstream failures, the status
\* tells whose fault it was (error.rs and the error paths of the engines).
THEOREM BlameIsAlwaysRight == BackendsSpec => []BlameIsRight
<1>1. BackendsInv => BlameIsRight
  BY DEF BackendsInv, CallInv, Blame, BlameIsRight
<1> QED BY <1>1, BackendsInductive, PTL

(***************************************************************************)
(* What no step does.                                                      *)
(***************************************************************************)

\* A call of a local model settles only with what the caller of Settle says.
LEMMA SettledResult ==
  ASSUME NEW rs, NEW v, Settle(rs, v), NEW r \in Requests
  PROVE  result'[r] = IF r \in rs /\ result[r] = "none" THEN v ELSE result[r]
BY DEF Settle

LEMMA PoisonedAnswersNothing ==
  ASSUME BackendsInv, [BackendsNext]_backendsVars, NEW r \in Requests, poisoned, ask[r].model \in Local,
         result'[r] = "Ok"
  PROVE  result[r] = "Ok"
<1>0. CallTypes /\ thread = "exited" /\ thread # "none"
  BY DEF BackendsInv, FlagInv
<1>1. CASE LocalStep /\ UNCHANGED up
  <2>1. CASE \E q \in Requests : LocalCall(q)
    <3>1. PICK q \in Requests : LocalCall(q)
      BY <2>1
    <3>2. \/ UNCHANGED result
          \/ \E e \in {"BackendPoisoned", "BackendDraining", "InferenceFailed", "ModelLoadFailed"} : Settle({q}, e)
      BY <3>1 DEF LocalCall, Enter, EnsureLoaded, LoadTooLate, CheckFlags, TakeSender, SendCommand, Step, Refuse
    <3> QED BY <3>2, SettledResult
  <2>2. CASE WorkerStep
    <3>1. UNCHANGED result
      BY <1>0, <2>2 DEF WorkerStep, ThreadStep, Load, LoadFails, TakeCommand, SendRole, Prompt, Sample, Push, Decode,
         SendFinish, Complete, Poison, Stop, InPhase, LibraryFails, Panic, BeginDrain, DrainStep, SendShutdown,
         Join, callVars
    <3> QED BY <3>1
  <2> QED BY <1>1, <2>1, <2>2 DEF LocalStep
<1>2. CASE CloudStep /\ UNCHANGED workerVars
  <2>1. PICK q \in Requests : UpstreamStep(q)
    BY <1>2 DEF CloudStep
  <2>2. \/ UNCHANGED result
        \/ ask[q].model \in Cloud /\ \E v : Settle({q}, v)
    <3>1. CASE Post(q) \/ Streams(q) \/ Garbled(q) \/ GoesOn(q)
      BY <3>1 DEF Post, Streams, Garbled, GoesOn, callVars
    <3>2. CASE NoResponse(q) \/ Refused(q) \/ Plain(q)
      BY <3>2 DEF NoResponse, Refused, Plain, Fail, CloudCalling
    <3>3. CASE RoleEvent(q) \/ TextEvent(q) \/ FinishEvent(q) \/ Done(q) \/ CutOff(q)
      BY <3>3 DEF RoleEvent, TextEvent, FinishEvent, Done, CutOff, Forward, EndStream, Reading, CloudCalling
    <3> QED BY <2>1, <3>1, <3>2, <3>3 DEF UpstreamStep
  <2>3. ask[q].model \in Cloud => q # r
    BY CloudIsNotLocal
  <2> QED BY <2>2, <2>3, SettledResult
<1>3. CASE ClientStep /\ UNCHANGED <<workerVars, up>>
  <2>1. PICK q \in Requests : Arrive(q) \/ Read(q) \/ Leave(q)
    BY <1>3 DEF ClientStep
  <2>2. UNCHANGED result \/ result' = [result EXCEPT ![q] = "Dropped"]
    BY <2>1 DEF Arrive, Read, Leave
  <2> QED BY <1>0, <2>2 DEF CallTypes
<1>4. CASE UNCHANGED backendsVars
  BY <1>4 DEF backendsVars, callVars
<1> QED BY <1>1, <1>2, <1>3, <1>4 DEF BackendsNext

\* For any number of calls, whatever is queued, sent late or interrupted:
\* nothing is answered once a panic has set the flag (worker.rs, mod.rs).
THEOREM PoisonIsFinal == BackendsSpec => NothingAfterPanic
<1>1. BackendsInv /\ [BackendsNext]_backendsVars =>
        [\A r \in Requests : poisoned /\ ask[r].model \in Local /\ result'[r] = "Ok" => result[r] = "Ok"]_backendsVars
  BY PoisonedAnswersNothing
<1> QED BY <1>1, BackendsInductive, PTL DEF BackendsSpec, NothingAfterPanic

(***************************************************************************)
(* Both kinds of backends implement AnswerStream.                          *)
(***************************************************************************)

LEMMA FirstsOfAppend ==
  ASSUME NEW S, NEW K, \A x \in S : x[1] \in K, NEW s \in Seq(S), NEW c \in S
  PROVE  [i \in DOMAIN Append(s, c) |-> Append(s, c)[i][1]] = Append([i \in DOMAIN s |-> s[i][1]], c[1])
<1>1. PICK n \in Nat : n = Len(s) /\ DOMAIN s = 1 .. n
  OBVIOUS
<1>2. PICK a \in Seq(S) : a = Append(s, c)
  BY Zenon, AppendProperties
<1>3. Len(a) = n + 1 /\ a[n + 1] = c /\ \A i \in 1 .. n : a[i] = s[i]
  BY <1>1, <1>2, AppendProperties
<1>4. PICK t : t = [i \in 1 .. n |-> s[i][1]]
  OBVIOUS
<1>5. t \in Seq(K) /\ Len(t) = n /\ \A i \in 1 .. n : t[i] = s[i][1]
  BY <1>1, <1>4
<1>6. PICK k \in K : k = c[1]
  OBVIOUS
<1>7. PICK b \in Seq(K) : b = Append(t, k)
  BY Zenon, <1>5, AppendProperties
<1>8. Len(b) = n + 1 /\ b[n + 1] = k /\ \A i \in 1 .. n : b[i] = t[i]
  BY <1>5, <1>7, AppendProperties
<1>9. PICK u : u = [i \in 1 .. n + 1 |-> a[i][1]]
  OBVIOUS
<1>10. u \in Seq(K) /\ Len(u) = n + 1 /\ \A i \in 1 .. n + 1 : u[i] = a[i][1]
  <2>1. \A i \in 1 .. n + 1 : a[i] \in S
    BY <1>3
  <2>2. \A i \in 1 .. n + 1 : a[i][1] \in K
    BY <2>1
  <2>3. u \in [1 .. n + 1 -> K] /\ n + 1 \in Nat
    BY <1>9, <2>2
  <2>4. u \in Seq(K) /\ Len(u) = n + 1
    BY <2>3
  <2> QED BY <1>9, <2>4
<1>11. \A i \in 1 .. n + 1 : u[i] = b[i]
  <2>1. u[n + 1] = b[n + 1]
    BY <1>3, <1>6, <1>8, <1>10
  <2>2. \A i \in 1 .. n : u[i] = b[i]
    BY <1>3, <1>5, <1>8, <1>10
  <2>3. \A i \in 1 .. n + 1 : i \in 1 .. n \/ i = n + 1
    OBVIOUS
  <2> QED BY <2>1, <2>2, <2>3
<1>12. u = b
  BY <1>8, <1>10, <1>11, SeqEqual
<1>13. DOMAIN a = 1 .. n + 1
  BY <1>3
<1> QED BY <1>1, <1>2, <1>4, <1>6, <1>7, <1>9, <1>12, <1>13

LEMMA KindsAppend ==
  ASSUME CallTypes, NEW r \in Requests, NEW chunk \in Chunks, sent'[r] = Append(sent[r], chunk)
  PROVE  Kinds(r)' = Append(Kinds(r), chunk[1])
<1>1. PICK s \in Seq(Chunks) : s = sent[r]
  BY DEF CallTypes
<1>2. \A x \in Chunks : x[1] \in {"role", "text", "finish"}
  BY DEF Chunks
<1>3. [i \in DOMAIN Append(s, chunk) |-> Append(s, chunk)[i][1]] = Append([i \in DOMAIN s |-> s[i][1]], chunk[1])
  BY <1>2, FirstsOfAppend
<1> QED BY Zenon, <1>1, <1>3 DEF Kinds

\* No upstream goes on after its finish in this step.
OnStays == \A r \in Requests : up'[r].on = up[r].on

\* A chunk in its place is a step of the abstract stream.
LEMMA SendIsChunk ==
  ASSUME BackendsInv, NEW r \in Requests, NEW chunk \in Chunks, Send(r, chunk), UNCHANGED result, OnStays,
         result[r] = "none", chunk[1] = "role" => sent[r] = <<>>,
         chunk[1] # "role" => NoFinish(r) \/ up[r].on
  PROVE  Stream!StreamNext
<1>0. CallTypes
  BY DEF BackendsInv
<1>1. sent'[r] = Append(sent[r], chunk) /\ \A q \in Requests \ {r} : sent'[q] = sent[q]
  BY <1>0 DEF Send, CallTypes
<1>k. PICK k \in {"role", "text", "finish"} : k = chunk[1]
  BY DEF Chunks
<1>2. Kinds(r)' = Append(Kinds(r), k)
  BY <1>0, <1>1, <1>k, KindsAppend
<1>3. \A q \in Requests \ {r} : Kinds(q)' = Kinds(q)
  BY <1>1 DEF Kinds
<1>4. /\ k = "role" => Kinds(r) = <<>>
      /\ Stream!FinishIn(Kinds(r)) => r \in {q \in Requests : up[q].on}
  <2>1. k = "role" => Kinds(r) = <<>>
    BY <1>k DEF Kinds
  <2>2. NoFinish(r) => ~Stream!FinishIn(Kinds(r))
    BY DEF Kinds, NoFinish, Stream!FinishIn
  <2>3. sent[r] = <<>> => NoFinish(r)
    BY DEF NoFinish
  <2> QED BY <1>k, <2>1, <2>2, <2>3
<1>5. [q \in Requests |-> Kinds(q)]' = [[q \in Requests |-> Kinds(q)] EXCEPT ![r] = Append(@, k)]
  BY <1>2, <1>3
<1>6. {q \in Requests : up[q].on}' = {q \in Requests : up[q].on}
  BY DEF OnStays
<1>7. Stream!Chunk(r)
  BY <1>4, <1>5, <1>6 DEF Stream!Chunk
<1> QED BY <1>7 DEF Stream!StreamNext

\* A return is a step of the abstract stream, or nothing if the call has been
\* dropped already.
LEMMA SettleIsReturn ==
  ASSUME BackendsInv, NEW rs \in SUBSET Requests, NEW v \in Results \ {"none"}, UNCHANGED sent, OnStays,
         \A r \in Requests : result'[r] = IF r \in rs /\ result[r] = "none" THEN v ELSE result[r],
         v # "Ok" => \A r \in rs : NoFinish(r)
  PROVE  [Stream!StreamNext]_(Stream!streamVars)
<1>0. [r \in Requests |-> Kinds(r)]' = [r \in Requests |-> Kinds(r)]
  BY DEF Kinds
<1>o. {r \in Requests : up[r].on}' = {r \in Requests : up[r].on}
  BY DEF OnStays
<1>s. PICK cs \in SUBSET Requests : cs = {r \in rs : result[r] = "none"}
  OBVIOUS
<1>1. CASE cs = {}
  <2>1. \A r \in Requests : result'[r] = result[r]
    BY <1>s, <1>1
  <2> QED BY <1>0, <1>o, <2>1 DEF Stream!streamVars
<1>2. CASE cs # {}
  <2>w. PICK w \in {"Ok", "error"} : w = IF v = "Ok" THEN "Ok" ELSE "error"
    OBVIOUS
  <2>1. \A r \in cs : result[r] = "none"
    BY <1>s
  <2>2. w = "error" => \A r \in cs : ~Stream!FinishIn(Kinds(r))
    BY <1>s, <2>w DEF NoFinish, Kinds, Stream!FinishIn
  <2>3. \A r \in Requests : result'[r] = IF r \in cs THEN v ELSE result[r]
    BY <1>s
  <2>4. \A r \in Requests : (IF result'[r] \in {"none", "Ok"} THEN result'[r] ELSE "error")
          = IF r \in cs THEN w ELSE IF result[r] \in {"none", "Ok"} THEN result[r] ELSE "error"
    BY <2>w, <2>3
  <2>5. Stream!Return(cs)
    <3> DEFINE bar == [r \in Requests |-> IF result[r] \in {"none", "Ok"} THEN result[r] ELSE "error"]
               kinds == [r \in Requests |-> Kinds(r)]
    <3>1. bar' = [c \in Requests |-> IF c \in cs THEN w ELSE bar[c]]
      BY <2>4
    <3>2. \A c \in cs : bar[c] = "none" /\ kinds[c] = Kinds(c)
      BY <2>1
    <3>3. kinds' = kinds
      BY <1>0
    <3> HIDE DEF bar, kinds
    <3>4. \E o \in {"Ok", "error"} :
            /\ o = "error" => \A c \in cs : ~Stream!FinishIn(kinds[c])
            /\ bar' = [c \in Requests |-> IF c \in cs THEN o ELSE bar[c]]
      BY Zenon, <2>2, <3>1, <3>2
    <3> QED BY Zenon, <1>o, <3>2, <3>3, <3>4 DEF Stream!Return, bar, kinds
  <2> QED BY <1>2, <2>5 DEF Stream!StreamNext
<1> QED BY <1>1, <1>2

\* Nothing goes out and nothing returns.
LEMMA QuietStep ==
  ASSUME UNCHANGED <<sent, result>>, OnStays
  PROVE  [Stream!StreamNext]_(Stream!streamVars)
<1>1. [r \in Requests |-> Kinds(r)]' = [r \in Requests |-> Kinds(r)]
  BY DEF Kinds
<1>2. {r \in Requests : up[r].on}' = {r \in Requests : up[r].on}
  BY DEF OnStays
<1> QED BY <1>1, <1>2 DEF Stream!streamVars

LEMMA ReturnStep ==
  ASSUME BackendsInv, NEW rs \in SUBSET Requests, NEW v \in Answers, Settle(rs, v), UNCHANGED sent, OnStays,
         v # "Ok" => \A r \in rs : NoFinish(r)
  PROVE  [Stream!StreamNext]_(Stream!streamVars)
<1>1. \A r \in Requests : result'[r] = IF r \in rs /\ result[r] = "none" THEN v ELSE result[r]
  BY SettledResult
<1>2. v \in Results \ {"none"}
  BY AnswersAreResults
<1> QED BY <1>1, <1>2, SettleIsReturn

\* Whose stage knows nothing of chunks has sent none.
LEMMA UnsentCall ==
  ASSUME BackendsInv, NEW r \in Requests, stage[r] \in Unsent \/ ~ask[r].stream
  PROVE  NoFinish(r)
<1>1. sent[r] = <<>>
  BY DEF BackendsInv, CallInv, StageOK
<1> QED BY <1>1 DEF NoFinish

LEMMA LocalCallMaps ==
  ASSUME BackendsInv, NEW r \in Requests, LocalCall(r), OnStays
  PROVE  [Stream!StreamNext]_(Stream!streamVars)
<1>1. stage[r] \in Unsent
  BY DEF LocalCall, Enter, EnsureLoaded, LoadTooLate, CheckFlags, TakeSender, SendCommand, Calling, Unsent
<1>2. UNCHANGED sent
  BY DEF LocalCall, Enter, EnsureLoaded, LoadTooLate, CheckFlags, TakeSender, SendCommand, Step, Refuse
<1>3. \/ UNCHANGED result
      \/ \E e \in {"BackendPoisoned", "BackendDraining", "InferenceFailed", "ModelLoadFailed"} : Settle({r}, e)
  BY DEF LocalCall, Enter, EnsureLoaded, LoadTooLate, CheckFlags, TakeSender, SendCommand, Step, Refuse
<1>4. {"BackendPoisoned", "BackendDraining", "InferenceFailed", "ModelLoadFailed"} \subseteq Answers
  BY DEF Answers
<1> QED BY <1>1, <1>2, <1>3, <1>4, UnsentCall, ReturnStep, QuietStep

\* What a generation sends comes in order, because its phases do.
LEMMA GenerationMaps ==
  ASSUME BackendsInv, thread = "busy", OnStays,
         SendRole \/ Push \/ SendFinish \/ Prompt \/ Sample \/ Decode \/ Complete
  PROVE  [Stream!StreamNext]_(Stream!streamVars)
<1>r. PICK r \in Requests : r = gen.req
  BY Busy
<1>0. WorkerTypes /\ PhaseOK /\ Awaited(r) /\ StageOK(r)
  BY <1>r, Busy DEF BackendsInv, CallInv
<1>1. ASSUME NEW v \in {"Ok", "ContextLengthExceeded", "InferenceFailed"}, Answer(v), NoSend, gen.phase # "answer" \/ v = "Ok"
      PROVE  [Stream!StreamNext]_(Stream!streamVars)
  <2>1. v # "Ok" => NoFinish(r)
    BY <1>r, <1>0, <1>1 DEF PhaseOK
  <2>2. Settle({r}, v) /\ UNCHANGED sent /\ v \in Answers
    BY <1>r, <1>1 DEF Answer, NoSend, Answers
  <2> QED BY <2>1, <2>2, ReturnStep
<1>2. ASSUME NEW chunk \in Chunks, Send(r, chunk), UNCHANGED result, ask[r].stream,
             chunk[1] = "role" => sent[r] = <<>>, chunk[1] # "role" => NoFinish(r)
      PROVE  [Stream!StreamNext]_(Stream!streamVars)
  <2>1. result[r] = "none"
    BY <1>0, <1>2 DEF Awaited, StageOK
  <2> QED BY <1>2, <2>1, SendIsChunk
<1>3. CASE SendRole
  <2>1. gen.phase = "role" /\ ask[r].stream /\ sent[r] = <<>>
    BY <1>r, <1>0, <1>3 DEF SendRole, InPhase, PhaseOK
  <2>2. Role \in Chunks /\ Role[1] = "role"
    BY DEF Role, Chunks
  <2>3. \/ Send(r, Role) /\ UNCHANGED result
        \/ Answer("Ok") /\ NoSend
    BY <1>r, <1>3 DEF SendRole
  <2> QED BY <1>1, <1>2, <2>1, <2>2, <2>3
<1>4. CASE Push
  <2>1. gen.phase = "push" /\ ask[r].stream /\ NoFinish(r) /\ gen.pieces \in Seq(Pieces) /\ gen.pieces # <<>>
    BY <1>r, <1>0, <1>4 DEF Push, InPhase, PhaseOK, WorkerTypes
  <2>2. Last(gen.pieces) \in Pieces
    BY <2>1 DEF Last
  <2>3. Text(Last(gen.pieces)) \in Chunks /\ Text(Last(gen.pieces))[1] = "text"
    BY <2>2 DEF Text, Chunks
  <2>4. \/ Send(r, Text(Last(gen.pieces))) /\ UNCHANGED result
        \/ Answer("Ok") /\ NoSend
    BY <1>r, <1>4 DEF Push
  <2> QED BY <1>1, <1>2, <2>1, <2>3, <2>4
<1>5. CASE SendFinish
  <2>1. gen.phase = "finish" /\ ask[r].stream /\ NoFinish(r) /\ gen.reason \in {"stop", "length"}
    BY <1>r, <1>0, <1>5 DEF SendFinish, InPhase, PhaseOK, WorkerTypes
  <2>2. Finish(gen.reason) \in Chunks /\ Finish(gen.reason)[1] = "finish"
    BY <2>1 DEF Finish, Chunks
  <2>3. UNCHANGED result /\ (Send(r, Finish(gen.reason)) \/ UNCHANGED sent)
    BY <1>r, <1>5 DEF SendFinish, NoSend
  <2> QED BY <1>2, <2>1, <2>2, <2>3, QuietStep
<1>6. CASE Sample
  BY <1>6, QuietStep DEF Sample, callVars
<1>7. CASE Prompt
  <2>1. PICK p \in Nat : p = ask[gen.req].prompt
    BY Busy DEF Ask
  <2>2. PromptFault(p) \in {"ContextLengthExceeded", "none"}
    BY BatchHoldsPrompt
  <2>3. \/ UNCHANGED callVars
        \/ Answer("ContextLengthExceeded") /\ NoSend
    BY <1>7, <2>1, <2>2 DEF Prompt
  <2>4. gen.phase = "prompt"
    BY <1>7 DEF Prompt, InPhase
  <2> QED BY <1>1, <2>3, <2>4, QuietStep DEF callVars
<1>8. CASE Decode
  <2>1. gen.phase = "decode" /\ (UNCHANGED callVars \/ (Answer("InferenceFailed") /\ NoSend))
    BY <1>8 DEF Decode, InPhase
  <2> QED BY <1>1, <2>1, QuietStep DEF callVars
<1>9. CASE Complete
  BY <1>1, <1>9 DEF Complete
<1> QED BY <1>3, <1>4, <1>5, <1>6, <1>7, <1>8, <1>9

LEMMA WorkerMaps ==
  ASSUME BackendsInv, WorkerStep, OnStays
  PROVE  [Stream!StreamNext]_(Stream!streamVars)
<1>1. CASE SendRole \/ Push \/ SendFinish \/ Prompt \/ Sample \/ Decode \/ Complete
  <2>1. thread = "busy"
    BY <1>1 DEF SendRole, Push, SendFinish, Prompt, Sample, Decode, Complete, InPhase
  <2> QED BY <1>1, <2>1, GenerationMaps
<1>2. CASE Load \/ TakeCommand \/ BeginDrain \/ DrainStep
  <2>1. UNCHANGED <<sent, result>>
    BY <1>2 DEF Load, Step, TakeCommand, BeginDrain, DrainStep, SendShutdown, Join, callVars
  <2> QED BY <2>1, QuietStep
<1>3. CASE LoadFails
  <2>1. PICK r \in Requests : stage[r] = "leading" /\ Settle({r}, "ModelLoadFailed")
    BY <1>3 DEF LoadFails, Calling
  <2>2. NoFinish(r) /\ UNCHANGED sent /\ "ModelLoadFailed" \in Answers
    BY <1>3, <2>1, UnsentCall DEF LoadFails, Unsent, Answers
  <2> QED BY <2>1, <2>2, ReturnStep
<1>4. CASE LibraryFails \/ Panic
  <2>1. PICK r \in Requests : r = gen.req /\ NoFinish(r)
    BY <1>4, Busy DEF LibraryFails, Panic, InPhase, PhaseOK
  <2>2. UNCHANGED sent /\ \E v \in {"InferenceFailed", "BackendPoisoned"} : Settle({r}, v)
    BY <1>4, <2>1 DEF LibraryFails, Panic
  <2>3. {"InferenceFailed", "BackendPoisoned"} \subseteq Answers
    BY DEF Answers
  <2> QED BY <2>1, <2>2, <2>3, ReturnStep
<1>5. CASE Poison \/ Stop
  <2>1. UNCHANGED sent /\ Settle(Queued, "BackendPoisoned") /\ "BackendPoisoned" \in Answers /\ Queued \in SUBSET Requests
    BY <1>5 DEF Poison, Stop, Answers, Queued
  <2>2. \A r \in Queued : NoFinish(r)
    <3> SUFFICES ASSUME NEW r \in Queued PROVE NoFinish(r)
      OBVIOUS
    <3>1. r \in Requests /\ \E i \in DOMAIN queue : queue[i] = r
      BY DEF Queued, ToSet
    <3>2. sent[r] = <<>>
      BY <3>1 DEF BackendsInv, QueueInv
    <3> QED BY <3>2 DEF NoFinish
  <2> QED BY <2>1, <2>2, ReturnStep
<1> QED BY <1>1, <1>2, <1>3, <1>4, <1>5 DEF WorkerStep, ThreadStep

\* The events of a hosted model go out in the order the adapter waits for them.
LEMMA CloudMaps ==
  ASSUME BackendsInv, NEW r \in Requests, UpstreamStep(r)
  PROVE  [Stream!StreamNext]_(Stream!streamVars)
<1>u. UpTypes /\ up[r] \in UpRecord
  BY DEF BackendsInv, UpTypes
<1>s. up' = up => OnStays
  BY DEF OnStays
<1>1. CASE Post(r) \/ Streams(r) \/ Garbled(r)
  <2>1. UNCHANGED <<sent, result>>
    BY <1>1 DEF Post, Streams, Garbled
  <2>2. OnStays
    BY <1>1, <1>u DEF Post, Streams, Garbled, OnStays, UpTypes, UpRecord
  <2> QED BY <2>1, <2>2, QuietStep
<1>2. CASE NoResponse(r) \/ Refused(r) \/ Plain(r)
  <2>1. CloudCalling(r, "posted") /\ UNCHANGED sent
    BY <1>2 DEF NoResponse, Refused, Plain, Fail
  <2>2. \E v \in Answers : Settle({r}, v)
    BY <1>2 DEF NoResponse, Refused, Plain, Fail, TransportError, StatusError, Answers
  <2>3. NoFinish(r)
    BY <2>1, UnsentCall DEF CloudCalling, Unsent
  <2>4. OnStays
    BY <1>2, <1>u, <1>s DEF NoResponse, Refused, Plain, Fail, OnStays, UpTypes, UpRecord
  <2> QED BY <2>1, <2>2, <2>3, <2>4, ReturnStep
<1>3. ASSUME EndStream(r) PROVE [Stream!StreamNext]_(Stream!streamVars)
  <2>1. Settle({r}, "Ok") /\ UNCHANGED sent /\ "Ok" \in Answers /\ OnStays
    BY <1>3, <1>s DEF EndStream, Answers
  <2> QED BY <2>1, ReturnStep
<1>4. CASE Done(r) \/ CutOff(r)
  BY <1>3, <1>4 DEF Done, CutOff
<1>5. ASSUME NEW chunk \in Chunks, NEW next, Forward(r, chunk, next), CloudCalling(r, "reading"),
             next.on = up[r].on, chunk[1] = "role" => up[r].due = "role", chunk[1] # "role" => up[r].due = "text"
      PROVE  [Stream!StreamNext]_(Stream!streamVars)
  <2>1. /\ result[r] = "none" /\ chunk[1] = "role" => sent[r] = <<>>
        /\ chunk[1] # "role" => NoFinish(r) \/ up[r].on
    BY <1>5, CloudCall DEF StageOK
  <2>2. CASE Send(r, chunk) /\ UNCHANGED result /\ up' = [up EXCEPT ![r] = next]
    <3>1. OnStays
      BY <1>5, <1>u, <2>2 DEF OnStays, UpTypes
    <3>2. result[r] = "none"
      BY <1>5, CloudCall DEF StageOK
    <3> QED BY <2>1, <2>2, <3>1, <3>2, SendIsChunk
  <2> QED BY <1>3, <1>5, <2>2 DEF Forward
<1>6. CASE RoleEvent(r)
  BY <1>5, <1>6, <1>u DEF RoleEvent, Reading, Role, Chunks, UpRecord
<1>7. CASE TextEvent(r)
  <2>n. PICK n \in Nat : n = up[r].texts + 1
    BY <1>7, CloudCall DEF TextEvent, Reading, UpRecord
  <2>1. Text(n) \in Chunks /\ Text(n)[1] = "text"
    BY DEF Text, Chunks
  <2>2. up[r].due = "text" /\ CloudCalling(r, "reading") /\ Forward(r, Text(n), [up[r] EXCEPT !.texts = n])
    BY <1>7, <2>n DEF TextEvent, Reading
  <2>3. [up[r] EXCEPT !.texts = n].on = up[r].on
    BY <1>u DEF UpRecord
  <2> QED BY <1>5, <2>1, <2>2, <2>3
<1>8. CASE FinishEvent(r)
  <2>1. PICK reason \in {"end_turn", "max_tokens"} : Forward(r, Finish(StopReason(reason)), [up[r] EXCEPT !.due = "end"])
    BY <1>8 DEF FinishEvent
  <2>2. Finish(StopReason(reason)) \in Chunks /\ Finish(StopReason(reason))[1] = "finish"
    BY DEF Finish, StopReason, Chunks
  <2>3. up[r].due = "text" /\ CloudCalling(r, "reading")
    BY <1>8 DEF FinishEvent, Reading
  <2>4. [up[r] EXCEPT !.due = "end"].on = up[r].on
    BY <1>u DEF UpRecord
  <2> QED BY <1>5, <2>1, <2>2, <2>3, <2>4
<1>9. CASE GoesOn(r)
  <2>1. /\ UNCHANGED <<sent, result>> /\ result[r] = "none"
        /\ up' = [up EXCEPT ![r].due = "text", ![r].on = TRUE]
    BY <1>9, CloudCall DEF GoesOn, Reading, callVars, StageOK
  <2>2. {q \in Requests : up[q].on}' = {q \in Requests : up[q].on} \cup {r}
    BY <1>u, <2>1 DEF UpTypes, UpRecord
  <2>3. [q \in Requests |-> Kinds(q)]' = [q \in Requests |-> Kinds(q)]
    BY <2>1 DEF Kinds
  <2>4. Stream!GoesOn(r)
    BY <2>1, <2>2, <2>3 DEF Stream!GoesOn
  <2> QED BY <2>4 DEF Stream!StreamNext
<1> QED BY <1>1, <1>2, <1>4, <1>6, <1>7, <1>8, <1>9 DEF UpstreamStep

LEMMA ClientMaps ==
  ASSUME BackendsInv, NEW r \in Requests, Arrive(r) \/ Read(r) \/ Leave(r), OnStays
  PROVE  [Stream!StreamNext]_(Stream!streamVars)
<1>1. CASE UNCHANGED <<sent, result>>
  BY <1>1, QuietStep
<1>2. CASE ~ask[r].stream /\ result' = [result EXCEPT ![r] = "Dropped"] /\ UNCHANGED sent /\ stage[r] # "over"
  <2>1. CallTypes /\ result[r] = "none"
    BY <1>2 DEF BackendsInv, CallInv, StageOK
  <2>2. \A q \in Requests : result'[q] = IF q \in {r} /\ result[q] = "none" THEN "Dropped" ELSE result[q]
    BY <1>2, <2>1 DEF CallTypes
  <2>3. NoFinish(r) /\ "Dropped" \in Results \ {"none"}
    BY <1>2, UnsentCall DEF Results
  <2> QED BY <1>2, <2>2, <2>3, SettleIsReturn
<1> QED BY <1>1, <1>2 DEF Arrive, Read, Leave

LEMMA StreamStarts == BackendsInit => Stream!StreamInit
BY DEF BackendsInit, CallsInit, UpstreamInit, Stream!StreamInit, Kinds

LEMMA StreamMaps == BackendsInv /\ [BackendsNext]_backendsVars => [Stream!StreamNext]_(Stream!streamVars)
<1> SUFFICES ASSUME BackendsInv, [BackendsNext]_backendsVars PROVE [Stream!StreamNext]_(Stream!streamVars)
  OBVIOUS
<1>0. up' = up => OnStays
  BY DEF OnStays
<1>1. CASE LocalStep /\ UNCHANGED up
  BY <1>0, <1>1, LocalCallMaps, WorkerMaps DEF LocalStep
<1>2. CASE CloudStep
  BY <1>2, CloudMaps DEF CloudStep
<1>3. CASE ClientStep /\ UNCHANGED <<workerVars, up>>
  BY <1>0, <1>3, ClientMaps DEF ClientStep
<1>4. CASE UNCHANGED backendsVars
  BY <1>0, <1>4, QuietStep DEF backendsVars, callVars
<1> QED BY <1>1, <1>2, <1>3, <1>4 DEF BackendsNext

\* For any number of calls, clients that leave, panics and broken upstreams: the
\* chunks and the result of every call, of a local model or of a hosted one, are
\* those of AnswerStream (worker.rs, inference.rs, openai.rs, anthropic.rs).
THEOREM StreamsAreAnswerStreams == BackendsSpec => ImplementsAnswerStream
<1>1. BackendsInit => Stream!StreamInit
  BY StreamStarts
<1>2. BackendsInv /\ [BackendsNext]_backendsVars => [Stream!StreamNext]_(Stream!streamVars)
  BY StreamMaps
<1> QED BY <1>1, <1>2, BackendsInductive, PTL DEF BackendsSpec, ImplementsAnswerStream, Stream!StreamSpec

(***************************************************************************)
(* A client that puts the pieces together.                                 *)
(***************************************************************************)

\* A set of natural numbers that is not empty has a least element.
LEMMA LeastNumber ==
  ASSUME NEW S \in SUBSET Nat, S # {}
  PROVE  \E n \in S : \A k \in S : n <= k
<1> DEFINE below == {ss \in Nat \X Nat : ss[1] < ss[2]}
<1>1. IsWellFoundedOn(below, Nat)
  BY NatLessThanWellFounded DEF OpToRel
<1>2. \E n \in S : \A k \in S : ~(<<k, n>> \in below)
  <2> HIDE DEF below
  <2>1. QED
    BY <1>1, WFMin
<1>3. PICK n \in S : \A k \in S : ~(<<k, n>> \in below)
  BY <1>2
<1>4. \A k \in S : ~(k < n)
  BY <1>3
<1>5. QED
  BY <1>4

\* f[i] is what the first i members of s make when put together.
Joins(f, s, n) == f = [i \in 1 .. n |-> IF i = 1 THEN s[i] ELSE f[i - 1] \o s[i]]

LEMMA JoinsExist ==
  ASSUME NEW s, NEW k \in Nat
  PROVE  \E f : Joins(f, s, k)
<1> DEFINE bad == {n \in Nat : ~\E f : Joins(f, s, n)}
<1>1. SUFFICES ASSUME bad # {} PROVE FALSE
  OBVIOUS
<1>2. PICK m \in bad : \A n \in bad : m <= n
  BY <1>1, LeastNumber
<1>3. CASE m = 0
  <2> DEFINE g == [i \in 1 .. 0 |-> 0]
  <2>1. Joins(g, s, 0)
    BY DEF Joins
  <2>2. QED
    BY <1>2, <1>3, <2>1
<1>4. CASE m # 0
  <2>1. m \in Nat /\ m - 1 \in Nat /\ m - 1 \notin bad
    BY <1>2, <1>4
  <2>2. PICK f : Joins(f, s, m - 1)
    BY <2>1
  <2> DEFINE g == [i \in 1 .. m |-> IF i < m THEN f[i] ELSE IF m = 1 THEN s[1] ELSE f[m - 1] \o s[m]]
  <2>3. \A i \in 1 .. m - 1 : f[i] = IF i = 1 THEN s[i] ELSE f[i - 1] \o s[i]
    BY <2>2 DEF Joins
  <2>4. ASSUME NEW i \in 1 .. m PROVE g[i] = IF i = 1 THEN s[i] ELSE g[i - 1] \o s[i]
    <3>1. CASE i < m
      <4>1. i \in 1 .. m - 1 /\ g[i] = f[i]
        BY <2>1, <3>1
      <4>2. i # 1 => g[i - 1] = f[i - 1]
        BY <2>1, <3>1
      <4>3. QED
        BY <2>3, <4>1, <4>2
    <3>2. CASE i = m
      <4>1. i # 1 => g[i - 1] = f[i - 1]
        BY <2>1, <3>2
      <4>2. g[i] = IF m = 1 THEN s[1] ELSE f[m - 1] \o s[m]
        BY <2>1, <3>2
      <4>3. QED
        BY <3>2, <4>1, <4>2
    <3>3. QED
      BY <2>1, <3>1, <3>2
  <2>5. g = [i \in 1 .. m |-> g[i]]
    OBVIOUS
  <2> HIDE DEF g
  <2>6. Joins(g, s, m)
    BY <2>4, <2>5 DEF Joins
  <2>7. QED
    BY <1>2, <2>6
<1>5. QED
  BY <1>3, <1>4

\* FlattenSeq joins all members of a sequence.
LEMMA FlattenJoins ==
  ASSUME NEW S, NEW s \in Seq(S), s # <<>>
  PROVE  \E f : Joins(f, s, Len(s)) /\ FlattenSeq(s) = f[Len(s)]
<1>1. Len(s) \in Nat /\ Len(s) # 0
  BY EmptySeq, LenProperties
<1> DEFINE f == CHOOSE g : Joins(g, s, Len(s))
<1>2. Joins(f, s, Len(s))
  BY <1>1, JoinsExist
<1>3. FlattenSeq(s) = f[Len(s)]
  BY <1>1 DEF FlattenSeq, Joins
<1>4. QED
  BY <1>2, <1>3

\* One more member is joined at the end.
LEMMA FlattenMore ==
  ASSUME NEW S, NEW s \in Seq(S), NEW x \in S
  PROVE  FlattenSeq(Append(s, x)) = IF s = <<>> THEN x ELSE FlattenSeq(s) \o x
<1> DEFINE t == Append(s, x)
           n == Len(s)
<1>1. /\ n \in Nat /\ t \in Seq(S) /\ t # <<>> /\ Len(t) = n + 1
      /\ (\A i \in 1 .. n : t[i] = s[i]) /\ t[n + 1] = x
  BY AppendProperties, LenProperties
<1>2. PICK g : Joins(g, t, n + 1) /\ FlattenSeq(t) = g[n + 1]
  BY <1>1, FlattenJoins
<1> HIDE DEF t
<1>3. g[n + 1] = IF n = 0 THEN x ELSE g[n] \o x
  <2>1. n + 1 \in 1 .. n + 1 /\ (n + 1 = 1 <=> n = 0)
    BY <1>1
  <2>2. g[n + 1] = IF n + 1 = 1 THEN t[n + 1] ELSE g[(n + 1) - 1] \o t[n + 1]
    <3> HIDE DEF n
    <3>1. QED
      BY <1>2, <2>1 DEF Joins
  <2>3. (n + 1) - 1 = n
    BY <1>1
  <2>4. QED
    BY <1>1, <2>1, <2>2, <2>3
<1>4. CASE s = <<>>
  <2>1. n = 0
    BY <1>4
  <2>2. QED
    BY <1>2, <1>3, <1>4, <2>1 DEF t
<1>5. CASE s # <<>>
  <2>1. n # 0
    BY <1>5, EmptySeq
  <2>2. PICK f : Joins(f, s, n) /\ FlattenSeq(s) = f[n]
    BY <1>5, FlattenJoins
  <2>3. \A i \in 1 .. n : f[i] = g[i]
    <3> DEFINE bad == {i \in 1 .. n : f[i] # g[i]}
    <3>1. SUFFICES ASSUME bad # {} PROVE FALSE
      OBVIOUS
    <3>2. PICK m \in bad : \A i \in bad : m <= i
      <4>1. bad \in SUBSET Nat
        BY <1>1
      <4> HIDE DEF bad
      <4>2. QED
        BY <3>1, <4>1, LeastNumber
    <3>3. m \in 1 .. n /\ m \in 1 .. n + 1 /\ t[m] = s[m]
      BY <1>1, <3>2
    <3>4. /\ f[m] = IF m = 1 THEN s[m] ELSE f[m - 1] \o s[m]
          /\ g[m] = IF m = 1 THEN t[m] ELSE g[m - 1] \o t[m]
      <4> HIDE DEF n
      <4>1. QED
        BY <1>2, <2>2, <3>3 DEF Joins
    <3>5. m # 1 => f[m - 1] = g[m - 1]
      <4>1. m # 1 => m - 1 \in 1 .. n /\ ~(m <= m - 1)
        BY <1>1, <3>3
      <4>2. QED
        BY <3>2, <4>1
    <3>6. f[m] = g[m]
      BY <3>3, <3>4, <3>5
    <3>7. QED
      BY <3>2, <3>6
  <2>4. f[n] = g[n]
    BY <1>1, <2>1, <2>3
  <2>5. QED
    BY <1>2, <1>3, <1>5, <2>1, <2>2, <2>4 DEF t
<1>6. QED
  BY <1>4, <1>5

LEMMA FlattenNothing == FlattenSeq(<<>>) = <<>>
BY EmptySeq DEF FlattenSeq

(***************************************************************************)
(* What was said to a client, and to which it had to come.                 *)
(***************************************************************************)

Chars == UNION {Range(p) : p \in Pieces}

LEMMA PiecesAreTexts == \A p \in Pieces : p \in Seq(Chars)
<1>1. TAKE p \in Pieces
<1>2. p \in Seq(Range(p))
  BY WorkerAssumption
<1>3. Range(p) \subseteq Chars
  BY DEF Chars
<1>4. QED
  BY <1>2, <1>3, SeqMonotonic

\* The finish that r was sent, if it was, vouches for the text: all of it was said, or
\* a stop sequence ended it.
EndsWell(text, r) ==
  ~NoFinish(r) => text = Said(r) \/ (Last(sent[r]) = Finish("stop") /\ Stopped(text, Said(r)))

LocalWhole(r) ==
  /\ Said(r) \in Seq(Chars)
  /\ Said(r) # <<>> => StopsAt(Said(r)) = {}
  /\ result[r] = "Ok" => EndsWell(answer[r], r)

\* The texts at the places ts of the chunks s are what u, the upstream, sent and
\* the adapter could read, in order.
Faithful(s, ts, u) ==
  /\ u.lost \subseteq 1 .. u.texts
  /\ {s[i][2] : i \in ts} = (1 .. u.texts) \ u.lost
  /\ \A i, j \in ts : i < j => s[i][2] < s[j][2]

CloudWhole(r) == ask[r].stream => Faithful(sent[r], TextsOf(r), up[r])

\* The text of the generation in progress is what was said, and the piece to be
\* said next; when a stop sequence ended it, what Stopped allows.
GenText ==
  thread = "busy" /\ ask[gen.req].stream =>
    /\ gen.phase \in {"role", "prompt", "sample", "decode"} => gen.text = Said(gen.req)
    /\ gen.phase = "push" => gen.text = Said(gen.req) \o Last(gen.pieces) /\ StopsAt(gen.text) = {}
    /\ gen.phase = "finish" =>
         gen.text = Said(gen.req) \/ (gen.reason = "stop" /\ Stopped(gen.text, Said(gen.req)))
    /\ gen.phase = "answer" => EndsWell(gen.text, gen.req)

Whole(r) == (ask[r].model \in Local => LocalWhole(r)) /\ (ask[r].model \in Cloud => CloudWhole(r))

AnswerInv ==
  /\ answer = [r \in Requests |-> answer[r]]
  /\ \A r \in Requests : Whole(r)
  /\ GenText

LEMMA FinishedMeans == \A r \in Requests : Finished(r) <=> ~NoFinish(r)
BY DEF Finished, NoFinish, ToSet, Kinds

\* Nothing sent is nothing said.
LEMMA NothingSaid ==
  ASSUME NEW r, sent[r] = <<>>
  PROVE  Said(r) = <<>> /\ TextsOf(r) = {} /\ NoFinish(r)
<1>1. DOMAIN sent[r] = {} /\ <<>> = [i \in {} |-> Content(sent[r][i])]
  BY EmptySeq
<1>2. Said(r) = <<>>
  BY <1>1, FlattenNothing DEF Said
<1>3. QED
  BY <1>1, <1>2 DEF TextsOf, NoFinish

ContentsOf(s) == [i \in DOMAIN s |-> Content(s[i])]
AnyContent == {Content(x) : x \in Chunks}

\* The contents of one chunk more are one content more.
LEMMA ContentsAppend ==
  ASSUME NEW s \in Seq(Chunks), NEW c \in Chunks
  PROVE  /\ ContentsOf(s) \in Seq(AnyContent)
         /\ ContentsOf(s) = <<>> => s = <<>>
         /\ s = <<>> => ContentsOf(s) = <<>>
         /\ ContentsOf(Append(s, c)) = Append(ContentsOf(s), Content(c))
<1> DEFINE S == Chunks
           T == AnyContent
<1>0. \A x \in S : Content(x) \in T
  BY DEF AnyContent
<1> HIDE DEF S, T
<1>1. PICK n \in Nat : n = Len(s) /\ DOMAIN s = 1 .. n
  BY LenProperties
<1>2. PICK a \in Seq(S) : a = Append(s, c)
  BY Zenon, AppendProperties DEF S
<1>3. Len(a) = n + 1 /\ a[n + 1] = c /\ \A i \in 1 .. n : a[i] = s[i]
  BY <1>1, <1>2, AppendProperties
<1>4. PICK t : t = [i \in 1 .. n |-> Content(s[i])]
  OBVIOUS
<1>5. t \in Seq(T) /\ Len(t) = n /\ \A i \in 1 .. n : t[i] = Content(s[i])
  <2>1. \A i \in 1 .. n : Content(s[i]) \in T
    BY <1>0, <1>1 DEF S
  <2>2. t \in [1 .. n -> T]
    BY <1>4, <2>1
  <2>3. QED
    BY <1>1, <1>4, <2>2
<1>6. PICK k \in T : k = Content(c)
  BY <1>0 DEF S
<1>7. PICK b \in Seq(T) : b = Append(t, k)
  BY Zenon, <1>5, AppendProperties
<1>8. Len(b) = n + 1 /\ b[n + 1] = k /\ \A i \in 1 .. n : b[i] = t[i]
  BY <1>5, <1>7, AppendProperties
<1>9. PICK u : u = [i \in 1 .. n + 1 |-> Content(a[i])]
  OBVIOUS
<1>10. u \in Seq(T) /\ Len(u) = n + 1 /\ \A i \in 1 .. n + 1 : u[i] = Content(a[i])
  <2>1. \A i \in 1 .. n + 1 : a[i] \in S
    BY <1>2, <1>3
  <2>2. \A i \in 1 .. n + 1 : Content(a[i]) \in T
    BY <1>0, <2>1
  <2>3. u \in [1 .. n + 1 -> T] /\ n + 1 \in Nat
    BY <1>9, <2>2
  <2>4. u \in Seq(T) /\ Len(u) = n + 1
    BY <2>3
  <2>5. QED
    BY <1>9, <2>4
<1>11. \A i \in 1 .. n + 1 : u[i] = b[i]
  <2>1. u[n + 1] = b[n + 1]
    BY <1>3, <1>6, <1>8, <1>10
  <2>2. \A i \in 1 .. n : u[i] = b[i]
    BY <1>3, <1>5, <1>8, <1>10
  <2>3. \A i \in 1 .. n + 1 : i \in 1 .. n \/ i = n + 1
    OBVIOUS
  <2>4. QED
    BY <2>1, <2>2, <2>3
<1>12. u = b
  BY <1>8, <1>10, <1>11, SeqEqual
<1>13. DOMAIN a = 1 .. n + 1
  BY <1>3
<1>14. (t = <<>>) <=> (s = <<>>)
  BY <1>1, <1>5, EmptySeq
<1>15. t = ContentsOf(s) /\ u = ContentsOf(a)
  BY <1>1, <1>4, <1>9, <1>13 DEF ContentsOf
<1>16. QED
  BY <1>2, <1>5, <1>6, <1>7, <1>12, <1>14, <1>15 DEF T

\* What is said grows by the content of a chunk.
LEMMA SaidMore ==
  ASSUME CallTypes, NEW r \in Requests, NEW chunk \in Chunks, sent'[r] = Append(sent[r], chunk),
         Said(r) \in Seq(Chars), Content(chunk) \in Seq(Chars)
  PROVE  Said(r)' = Said(r) \o Content(chunk)
<1>1. PICK s \in Seq(Chunks) : s = sent[r]
  BY DEF CallTypes
<1>2. /\ ContentsOf(s) \in Seq(AnyContent)
      /\ ContentsOf(Append(s, chunk)) = Append(ContentsOf(s), Content(chunk))
  BY ContentsAppend
<1>3. Said(r) = FlattenSeq(ContentsOf(s)) /\ Said(r)' = FlattenSeq(Append(ContentsOf(s), Content(chunk)))
  BY <1>1, <1>2 DEF Said, ContentsOf
<1>4. Content(chunk) \in AnyContent
  BY DEF AnyContent
<1>5. PICK cs \in Seq(AnyContent) : cs = ContentsOf(s)
  BY <1>2
<1>6. Said(r)' = IF cs = <<>> THEN Content(chunk) ELSE FlattenSeq(cs) \o Content(chunk)
  BY <1>3, <1>4, <1>5, FlattenMore
<1>7. CASE cs = <<>>
  <2>1. Said(r) = <<>>
    BY <1>3, <1>5, <1>7, FlattenNothing
  <2>2. QED
    BY <1>6, <1>7, <2>1, ConcatEmptySeq
<1>8. CASE cs # <<>>
  BY <1>3, <1>5, <1>6, <1>8
<1>9. QED
  BY <1>7, <1>8

\* Which chunks bring text when there is one more.
LEMMA TextsMore ==
  ASSUME CallTypes, NEW r \in Requests, NEW chunk \in Chunks, sent'[r] = Append(sent[r], chunk)
  PROVE  \E k \in Nat :
           /\ TextsOf(r) \subseteq 1 .. k
           /\ \A i \in 1 .. k : sent'[r][i] = sent[r][i]
           /\ sent'[r][k + 1] = chunk /\ Last(sent'[r]) = chunk
           /\ TextsOf(r)' = IF chunk[1] = "text" THEN TextsOf(r) \cup {k + 1} ELSE TextsOf(r)
<1>1. PICK s \in Seq(Chunks) : s = sent[r]
  BY DEF CallTypes
<1>2. PICK k \in Nat : k = Len(s) /\ DOMAIN s = 1 .. k
  BY LenProperties
<1>3. PICK a \in Seq(Chunks) : a = sent'[r]
  BY Zenon, <1>1, AppendProperties
<1>4. Len(a) = k + 1 /\ a[k + 1] = chunk /\ \A i \in 1 .. k : a[i] = s[i]
  BY <1>1, <1>2, <1>3, AppendProperties
<1>5. DOMAIN a = 1 .. k + 1
  BY <1>4, LenProperties
<1>6. TextsOf(r) = {i \in 1 .. k : s[i][1] = "text"} /\ TextsOf(r)' = {i \in 1 .. k + 1 : a[i][1] = "text"}
  BY <1>1, <1>2, <1>3, <1>5 DEF TextsOf
<1>7. TextsOf(r)' = IF chunk[1] = "text" THEN TextsOf(r) \cup {k + 1} ELSE TextsOf(r)
  <2>1. \A i \in 1 .. k + 1 : i \in 1 .. k \/ i = k + 1
    OBVIOUS
  <2>2. k + 1 \in 1 .. k + 1 /\ k + 1 \notin 1 .. k /\ 1 .. k \subseteq 1 .. k + 1
    OBVIOUS
  <2>3. QED
    BY <1>4, <1>6, <2>1, <2>2
<1>8. Last(a) = chunk
  BY <1>4 DEF Last
<1>9. QED
  BY <1>1, <1>3, <1>4, <1>6, <1>7, <1>8

(***************************************************************************)
(* Steps that send nothing.                                                *)
(***************************************************************************)

\* Nothing that AnswerInv says of the call r changes.
Alike(r) ==
  /\ sent'[r] = sent[r] /\ up'[r] = up[r] /\ answer'[r] = answer[r]
  /\ ask'[r].model = ask[r].model /\ ask'[r].stream = ask[r].stream
  /\ ask[r].model \in Local /\ result'[r] = "Ok" => result[r] = "Ok"

\* What was sent is what was said.
LEMMA SaidStays ==
  ASSUME NEW r, sent'[r] = sent[r]
  PROVE  /\ Said(r)' = Said(r) /\ TextsOf(r)' = TextsOf(r)
         /\ (NoFinish(r)' <=> NoFinish(r))
<1>1. PICK s : s = sent[r]
  OBVIOUS
<1>2. Said(r) = FlattenSeq(ContentsOf(s)) /\ Said(r)' = FlattenSeq(ContentsOf(s))
  BY <1>1 DEF Said, ContentsOf
<1>3. TextsOf(r) = {i \in DOMAIN s : s[i][1] = "text"} /\ TextsOf(r)' = {i \in DOMAIN s : s[i][1] = "text"}
  BY <1>1 DEF TextsOf
<1>4. NoFinish(r)' <=> NoFinish(r)
  BY DEF NoFinish
<1>5. QED
  BY <1>2, <1>3, <1>4

LEMMA WholeStays ==
  ASSUME AnswerInv, NEW r \in Requests, Alike(r)
  PROVE  Whole(r)'
<1>1. Whole(r)
  BY DEF AnswerInv
<1>2. /\ Said(r)' = Said(r) /\ TextsOf(r)' = TextsOf(r) /\ (NoFinish(r)' <=> NoFinish(r))
      /\ sent'[r] = sent[r] /\ up'[r] = up[r]
  BY SaidStays DEF Alike
<1>3. ask[r].model \in Local => LocalWhole(r)'
  BY <1>1, <1>2 DEF Whole, LocalWhole, EndsWell, Alike
<1>4. ask[r].model \in Cloud => CloudWhole(r)'
  BY <1>1, <1>2 DEF Whole, CloudWhole, Alike
<1>5. QED
  BY <1>3, <1>4 DEF Whole, Alike

\* A step after which the same generation is in progress, or none.
LEMMA QuietWhole ==
  ASSUME BackendsInv, AnswerInv, \A r \in Requests : Alike(r), UNCHANGED answer,
         thread' # "busy" \/ UNCHANGED <<thread, gen>>
  PROVE  AnswerInv'
<1>1. answer' = [r \in Requests |-> answer'[r]]
  BY DEF AnswerInv
<1>2. \A r \in Requests : Whole(r)'
  BY WholeStays
<1>3. GenText'
  <2>1. CASE thread' # "busy"
    BY <2>1 DEF GenText
  <2>2. CASE thread' = "busy" /\ UNCHANGED <<thread, gen>>
    <3>1. PICK r \in Requests : r = gen.req
      BY <2>2, Busy
    <3>2. /\ Said(r)' = Said(r) /\ (NoFinish(r)' <=> NoFinish(r)) /\ sent'[r] = sent[r]
          /\ ask'[r].stream = ask[r].stream
      BY SaidStays DEF Alike
    <3>3. gen'.req = r /\ thread = "busy" /\ gen' = gen
      BY <2>2, <3>1
    <3>4. GenText
      BY DEF AnswerInv
    <3>5. QED
      BY <3>1, <3>2, <3>3, <3>4 DEF GenText, EndsWell
  <2>3. QED
    BY <2>1, <2>2
<1>4. QED
  BY <1>1, <1>2, <1>3 DEF AnswerInv

\* The thread answers the command: what it generated is the answer.
LEMMA AnswerWholes ==
  ASSUME BackendsInv, AnswerInv, thread = "busy", NEW v, Answer(v), NoSend, UNCHANGED up
  PROVE  AnswerInv'
<1>r. PICK r \in Requests : r = gen.req
  BY Busy
<1>0. /\ UNCHANGED <<ask, sent, up>> /\ thread' = "idle" /\ answer' = [answer EXCEPT ![r] = gen.text]
      /\ Settle({r}, v)
  BY <1>r DEF Answer, NoSend
<1>1. /\ answer' = [q \in Requests |-> answer'[q]] /\ answer'[r] = gen.text
      /\ \A q \in Requests \ {r} : answer'[q] = answer[q]
  BY <1>0 DEF AnswerInv
<1>2. \A q \in Requests \ {r} : Whole(q)'
  <2>1. \A q \in Requests \ {r} : result'[q] = result[q]
    BY <1>0, SettledResult
  <2>2. \A q \in Requests \ {r} : Alike(q)
    BY <1>0, <1>1, <2>1 DEF Alike
  <2>3. QED
    BY <2>2, WholeStays
<1>3. Whole(r)'
  <2>1. Whole(r) /\ ask[r].model \in Local /\ ask[r].model \notin Cloud /\ PhaseOK /\ GenText
    BY <1>r, Busy, CloudIsNotLocal DEF AnswerInv
  <2>2. Said(r)' = Said(r) /\ (NoFinish(r)' <=> NoFinish(r)) /\ sent'[r] = sent[r]
    BY <1>0, SaidStays
  <2>3. NoFinish(r) \/ (gen.phase = "answer" /\ ask[r].stream)
    BY <1>r, <2>1, UnsentCall DEF PhaseOK
  <2>4. EndsWell(gen.text, r)
    BY <1>r, <2>1, <2>3 DEF GenText, EndsWell
  <2>5. LocalWhole(r)'
    BY <1>1, <2>1, <2>2, <2>4 DEF LocalWhole, Whole, EndsWell
  <2>6. QED
    BY <1>0, <2>1, <2>5 DEF Whole
<1>4. GenText'
  BY <1>0 DEF GenText
<1>5. QED
  BY <1>1, <1>2, <1>3, <1>4 DEF AnswerInv

(***************************************************************************)
(* The generation.                                                         *)
(***************************************************************************)

\* What GenText says of a generation g for the call r, when text was said to it.
Told(g, r, text) ==
  /\ g.phase \in {"role", "prompt", "sample", "decode"} => g.text = text
  /\ g.phase = "push" => g.text = text \o Last(g.pieces) /\ StopsAt(g.text) = {}
  /\ g.phase = "finish" => g.text = text \/ (g.reason = "stop" /\ Stopped(g.text, text))
  /\ g.phase = "answer" => EndsWell(g.text, r)

LEMMA GenTold ==
  ASSUME BackendsInv, AnswerInv, thread = "busy", ask[gen.req].stream
  PROVE  Told(gen, gen.req, Said(gen.req))
BY DEF AnswerInv, GenText, Told

\* The generation goes on, or begins, and nothing is sent.
LEMMA GenQuiet ==
  ASSUME BackendsInv, AnswerInv, UNCHANGED <<ask, sent, answer, result, up>>,
         NEW r \in Requests, gen'.req = r, ask[r].stream => Told(gen', r, Said(r))
  PROVE  AnswerInv'
<1>1. \A q \in Requests : Alike(q)
  BY DEF Alike
<1>2. \A q \in Requests : Whole(q)'
  BY <1>1, WholeStays
<1>3. Said(r)' = Said(r) /\ (NoFinish(r)' <=> NoFinish(r)) /\ sent'[r] = sent[r]
  BY SaidStays
<1>4. GenText'
  BY <1>3 DEF GenText, Told, EndsWell
<1>5. QED
  BY <1>2, <1>4 DEF AnswerInv

LEMMA TakeWhole ==
  ASSUME BackendsInv, AnswerInv, TakeCommand, UNCHANGED up
  PROVE  AnswerInv'
<1>0. WorkerTypes /\ QueueInv
  BY DEF BackendsInv
<1>r. PICK r \in Requests : r = Head(queue)
  BY DEF TakeCommand
<1>p. PICK p : p = IF ask[r].stream THEN "role" ELSE "prompt"
  OBVIOUS
<1>1. queue # <<>> /\ gen' = [NoGen EXCEPT !.req = r, !.phase = p] /\ UNCHANGED callVars
  BY <1>r, <1>p DEF TakeCommand
<1>2. sent[r] = <<>>
  <2>1. 1 \in DOMAIN queue /\ queue[1] = r
    BY <1>0, <1>r, <1>1 DEF WorkerTypes
  <2>2. QED
    BY <1>0, <2>1 DEF QueueInv
<1>3. gen'.req = r /\ gen'.phase = p /\ gen'.text = <<>>
  BY <1>1 DEF NoGen
<1>4. Said(r) = <<>> /\ p \in {"role", "prompt"}
  BY <1>2, <1>p, NothingSaid
<1>5. Told(gen', r, Said(r))
  BY <1>3, <1>4 DEF Told
<1>6. QED
  BY <1>1, <1>3, <1>5, GenQuiet DEF callVars

\* The next token, the end of the loop, and the place in the context.
LEMMA PromptWhole ==
  ASSUME BackendsInv, AnswerInv, Prompt, UNCHANGED up
  PROVE  AnswerInv'
<1>r. PICK r \in Requests : r = gen.req
  BY Busy DEF Prompt, InPhase
<1>p. PICK p : p = ask[r].prompt
  OBVIOUS
<1>1. thread = "busy" /\ gen.phase = "prompt" /\ IsGen(gen)
  BY Busy DEF Prompt, InPhase
<1>2. CASE gen' = [gen EXCEPT !.phase = "sample", !.next = p] /\ UNCHANGED callVars
  <2>1. gen'.req = r /\ gen'.phase = "sample" /\ gen'.text = gen.text
    BY <1>r, <1>1, <1>2 DEF IsGen
  <2>2. ask[r].stream => gen.text = Said(r)
    BY <1>r, <1>1, GenTold DEF Told
  <2>3. ask[r].stream => Told(gen', r, Said(r))
    BY <2>1, <2>2 DEF Told
  <2>4. QED
    BY <1>2, <2>1, <2>3, GenQuiet DEF callVars
<1>3. CASE \E v : Answer(v) /\ NoSend
  BY <1>1, <1>3, AnswerWholes
<1>4. QED
  BY <1>r, <1>p, <1>2, <1>3 DEF Prompt

LEMMA DecodeWhole ==
  ASSUME BackendsInv, AnswerInv, Decode, UNCHANGED up
  PROVE  AnswerInv'
<1>r. PICK r \in Requests : r = gen.req
  BY Busy DEF Decode, InPhase
<1>1. thread = "busy" /\ gen.phase = "decode" /\ IsGen(gen)
  BY Busy DEF Decode, InPhase
<1>2. CASE gen' = [gen EXCEPT !.phase = "sample", !.next = @ + 1] /\ UNCHANGED callVars
  <2>1. gen'.req = r /\ gen'.phase = "sample" /\ gen'.text = gen.text
    BY <1>r, <1>1, <1>2 DEF IsGen
  <2>2. ask[r].stream => gen.text = Said(r)
    BY <1>r, <1>1, GenTold DEF Told
  <2>3. ask[r].stream => Told(gen', r, Said(r))
    BY <2>1, <2>2 DEF Told
  <2>4. QED
    BY <1>2, <2>1, <2>3, GenQuiet DEF callVars
<1>3. CASE \E v : Answer(v) /\ NoSend
  BY <1>1, <1>3, AnswerWholes
<1>4. QED
  BY <1>2, <1>3 DEF Decode

\* The loop ends: the text is what was said, unless a stop sequence cut it.
LEMMA EndLoopWhole ==
  ASSUME BackendsInv, AnswerInv, thread = "busy", gen.phase = "sample", UNCHANGED <<callVars, up>>,
         NEW g, IsGen(g), EndLoop(g), g.req = gen.req,
         g.text = gen.text \/ (g.reason = "stop" /\ Stopped(g.text, gen.text))
  PROVE  AnswerInv'
<1>r. PICK r \in Requests : r = gen.req
  BY Busy
<1>p. PICK p : p = IF ask[r].stream THEN "finish" ELSE "answer"
  OBVIOUS
<1>1. gen' = [g EXCEPT !.phase = p]
  BY <1>r, <1>p DEF EndLoop
<1>2. gen'.req = r /\ gen'.phase = p /\ gen'.text = g.text /\ gen'.reason = g.reason
  BY <1>r, <1>1 DEF IsGen
<1>3. ask[r].stream => p = "finish" /\ gen.text = Said(r)
  BY <1>r, <1>p, GenTold DEF Told
<1>4. ask[r].stream => Told(gen', r, Said(r))
  BY <1>2, <1>3 DEF Told
<1>5. QED
  BY <1>2, <1>4, GenQuiet DEF callVars

LEMMA SampleWhole ==
  ASSUME BackendsInv, AnswerInv, Sample, UNCHANGED up
  PROVE  AnswerInv'
<1>r. PICK r \in Requests : r = gen.req
  BY Busy DEF Sample, InPhase
<1>1. thread = "busy" /\ gen.phase = "sample" /\ IsGen(gen) /\ gen.pieces \in Seq(Pieces) /\ UNCHANGED <<callVars, up>>
  BY Busy DEF Sample, InPhase, WorkerTypes
<1>2. ask[r].stream => gen.text = Said(r)
  BY <1>r, <1>1, GenTold DEF Told
<1>3. CASE EndLoop(gen)
  BY <1>1, <1>3, EndLoopWhole
<1>4. CASE EndLoop([gen EXCEPT !.reason = "stop"])
  <2>1. PICK g : g = [gen EXCEPT !.reason = "stop"]
    OBVIOUS
  <2>2. IsGen(g) /\ g.req = gen.req /\ g.text = gen.text
    BY <1>1, <2>1 DEF IsGen
  <2>3. QED
    BY <1>1, <1>4, <2>1, <2>2, EndLoopWhole
<1>5. CASE gen' = [gen EXCEPT !.tokens = @ + 1, !.phase = "decode"]
  <2>1. gen'.req = r /\ gen'.phase = "decode" /\ gen'.text = gen.text
    BY <1>r, <1>1, <1>5 DEF IsGen
  <2>2. ask[r].stream => Told(gen', r, Said(r))
    BY <1>2, <2>1 DEF Told
  <2>3. QED
    BY <1>1, <2>1, <2>2, GenQuiet DEF callVars
<1>6. CASE \E p \in Pieces : Sampled(p)
  <2>p. PICK p \in Pieces : Sampled(p)
    BY <1>6
  <2>t. PICK t : t = gen.text \o p
    OBVIOUS
  <2>n. PICK n : n = gen.tokens + 1
    OBVIOUS
  <2>g. PICK g : g = [gen EXCEPT !.text = t, !.tokens = n]
    OBVIOUS
  <2>u. PICK u : u = Truncated(g.text)
    OBVIOUS
  <2>h. PICK h : h = [g EXCEPT !.text = u, !.reason = "stop"]
    OBVIOUS
  <2>s. PICK s : s = IF ask[g.req].stream THEN "push" ELSE "decode"
    OBVIOUS
  <2>1. g = [gen EXCEPT !.text = @ \o p, !.tokens = @ + 1]
    BY <2>t, <2>n, <2>g
  <2>2. IsGen(g) /\ g.req = gen.req /\ g.pieces = gen.pieces /\ g.text = t
    BY <1>1, <2>g DEF IsGen
  <2>3. CASE EndLoop(h) /\ StopsAt(g.text) # {}
    <3>1. IsGen(h) /\ h.req = gen.req /\ h.reason = "stop" /\ h.text = u
      BY <2>2, <2>h DEF IsGen
    <3>2. Stopped(h.text, gen.text)
      BY Zenon, <2>t, <2>u, <2>2, <2>3, <3>1 DEF Stopped
    <3>3. QED
      BY <1>1, <2>3, <3>1, <3>2, EndLoopWhole
  <2>4. CASE gen' = [g EXCEPT !.pieces = Append(@, p), !.phase = s] /\ StopsAt(g.text) = {}
    <3>1. gen'.req = r /\ gen'.phase = s /\ gen'.text = t /\ gen'.pieces = Append(gen.pieces, p)
      BY <1>r, <2>2, <2>4 DEF IsGen
    <3>2. ask[r].stream => s = "push"
      BY <1>r, <2>2, <2>s
    <3>3. Last(gen'.pieces) = p
      BY <1>1, <3>1 DEF Last
    <3>4. ask[r].stream => Told(gen', r, Said(r))
      BY <1>2, <2>t, <2>2, <2>4, <3>1, <3>2, <3>3 DEF Told
    <3>5. QED
      BY <1>1, <3>1, <3>4, GenQuiet DEF callVars
  <2>5. \/ EndLoop(h) /\ StopsAt(g.text) # {}
        \/ gen' = [g EXCEPT !.pieces = Append(@, p), !.phase = s] /\ StopsAt(g.text) = {}
    BY Zenon, <2>p, <2>1, <2>u, <2>h, <2>s DEF Sampled
  <2>6. QED
    BY <2>3, <2>4, <2>5
<1>7. QED
  BY <1>3, <1>4, <1>5, <1>6 DEF Sample

\* A chunk goes out to a client of the worker: what it has been told is what it had
\* been, and the content of the chunk.
LEMMA SendWhole ==
  ASSUME BackendsInv, AnswerInv, UNCHANGED <<ask, answer, result, up>>, thread = "busy",
         NEW r \in Requests, r = gen.req, NEW chunk \in Chunks, Send(r, chunk), Content(chunk) \in Seq(Chars),
         Said(r) \o Content(chunk) # <<>> => StopsAt(Said(r) \o Content(chunk)) = {}
  PROVE  /\ answer' = [q \in Requests |-> answer'[q]] /\ (\A q \in Requests : Whole(q)')
         /\ Said(r)' = Said(r) \o Content(chunk) /\ Last(sent'[r]) = chunk
<1>0. /\ CallTypes /\ Awaited(r) /\ Whole(r) /\ ask[r].model \in Local /\ ask[r].model \notin Cloud
      /\ answer = [q \in Requests |-> answer[q]]
  BY Busy, CloudIsNotLocal DEF AnswerInv
<1>1. sent'[r] = Append(sent[r], chunk) /\ \A q \in Requests \ {r} : sent'[q] = sent[q]
  BY <1>0 DEF Send, CallTypes
<1>2. Said(r) \in Seq(Chars)
  BY <1>0 DEF Whole, LocalWhole
<1>3. Said(r)' = Said(r) \o Content(chunk)
  BY <1>0, <1>1, <1>2, SaidMore
<1>4. Last(sent'[r]) = chunk
  BY <1>0, <1>1, TextsMore
<1>5. Said(r)' \in Seq(Chars)
  BY <1>2, <1>3, ConcatProperties
<1>6. result'[r] # "Ok"
  BY <1>0 DEF Awaited, BackendsInv, CallInv, StageOK
<1>7. LocalWhole(r)'
  BY <1>3, <1>5, <1>6 DEF LocalWhole
<1>8. Whole(r)'
  BY <1>0, <1>7 DEF Whole
<1>9. \A q \in Requests \ {r} : Whole(q)'
  <2>1. \A q \in Requests \ {r} : Alike(q)
    BY <1>1 DEF Alike
  <2>2. QED
    BY <2>1, WholeStays
<1>10. QED
  BY <1>0, <1>3, <1>4, <1>8, <1>9

\* A chunk without content.
LEMMA SilentSend ==
  ASSUME BackendsInv, AnswerInv, UNCHANGED <<ask, answer, result, up>>, thread = "busy",
         NEW r \in Requests, r = gen.req, NEW chunk \in Chunks, Send(r, chunk), Content(chunk) = <<>>
  PROVE  /\ answer' = [q \in Requests |-> answer'[q]] /\ (\A q \in Requests : Whole(q)')
         /\ Said(r)' = Said(r) /\ Last(sent'[r]) = chunk
<1>1. LocalWhole(r)
  BY Busy DEF AnswerInv, Whole
<1>2. Said(r) \o Content(chunk) = Said(r)
  BY <1>1, ConcatEmptySeq DEF LocalWhole
<1>3. Content(chunk) \in Seq(Chars)
  BY EmptySeq
<1>4. Said(r) # <<>> => StopsAt(Said(r)) = {}
  BY <1>1 DEF LocalWhole
<1>5. QED
  BY <1>2, <1>3, <1>4, SendWhole

LEMMA SendRoleWhole ==
  ASSUME BackendsInv, AnswerInv, SendRole, UNCHANGED up
  PROVE  AnswerInv'
<1>r. PICK r \in Requests : r = gen.req
  BY Busy DEF SendRole, InPhase
<1>1. thread = "busy" /\ gen.phase = "role" /\ IsGen(gen)
  BY Busy DEF SendRole, InPhase
<1>2. CASE Send(r, Role) /\ ToPhase("prompt") /\ UNCHANGED <<ask, answer, result>>
  <2>1. Role \in Chunks /\ Content(Role) = <<>>
    BY DEF Role, Chunks, Content
  <2>2. /\ answer' = [q \in Requests |-> answer'[q]] /\ (\A q \in Requests : Whole(q)')
        /\ Said(r)' = Said(r)
    BY <1>r, <1>1, <1>2, <2>1, SilentSend
  <2>3. gen'.req = r /\ gen'.phase = "prompt" /\ gen'.text = gen.text
    BY <1>r, <1>1, <1>2 DEF ToPhase, IsGen
  <2>4. ask[r].stream => gen.text = Said(r)
    BY <1>r, <1>1, GenTold DEF Told
  <2>5. GenText'
    BY <1>2, <2>2, <2>3, <2>4 DEF GenText
  <2>6. QED
    BY <2>2, <2>5 DEF AnswerInv
<1>3. CASE Answer("Ok") /\ NoSend
  BY <1>1, <1>3, AnswerWholes
<1>4. QED
  BY <1>r, <1>2, <1>3 DEF SendRole

LEMMA PushWhole ==
  ASSUME BackendsInv, AnswerInv, Push, UNCHANGED up
  PROVE  AnswerInv'
<1>r. PICK r \in Requests : r = gen.req
  BY Busy DEF Push, InPhase
<1>1. thread = "busy" /\ gen.phase = "push" /\ IsGen(gen) /\ gen.pieces \in Seq(Pieces) /\ gen.pieces # <<>>
  BY Busy DEF Push, InPhase, WorkerTypes, PhaseOK
<1>p. PICK p \in Pieces : p = Last(gen.pieces)
  BY <1>1 DEF Last
<1>2. CASE Send(r, Text(p)) /\ ToPhase("decode") /\ UNCHANGED <<ask, answer, result>>
  <2>1. Text(p) \in Chunks /\ Content(Text(p)) = p /\ p \in Seq(Chars)
    BY PiecesAreTexts DEF Text, Chunks, Content
  <2>2. ask[r].stream
    BY <1>r, <1>1, Busy DEF PhaseOK
  <2>3. gen.text = Said(r) \o p /\ StopsAt(gen.text) = {}
    BY <1>r, <1>p, <1>1, <2>2, GenTold DEF Told
  <2>4. /\ answer' = [q \in Requests |-> answer'[q]] /\ (\A q \in Requests : Whole(q)')
        /\ Said(r)' = Said(r) \o p
    BY <1>r, <1>1, <1>2, <2>1, <2>3, SendWhole
  <2>5. gen'.req = r /\ gen'.phase = "decode" /\ gen'.text = gen.text
    BY <1>r, <1>1, <1>2 DEF ToPhase, IsGen
  <2>6. GenText'
    BY <2>3, <2>4, <2>5 DEF GenText
  <2>7. QED
    BY <2>4, <2>6 DEF AnswerInv
<1>3. CASE Answer("Ok") /\ NoSend
  BY <1>1, <1>3, AnswerWholes
<1>4. QED
  BY <1>r, <1>p, <1>2, <1>3 DEF Push

\* Without a client to take it the final chunk is not sent.
LEMMA SendFinishWhole ==
  ASSUME BackendsInv, AnswerInv, SendFinish, UNCHANGED up
  PROVE  AnswerInv'
<1>r. PICK r \in Requests : r = gen.req
  BY Busy DEF SendFinish, InPhase
<1>1. /\ thread = "busy" /\ gen.phase = "finish" /\ IsGen(gen) /\ gen.reason \in {"stop", "length"}
      /\ PhaseOK /\ UNCHANGED <<ask, answer, result, up>>
  BY Busy DEF SendFinish, InPhase, WorkerTypes
<1>2. gen'.req = r /\ gen'.phase = "answer" /\ gen'.text = gen.text
  BY <1>r, <1>1 DEF SendFinish, ToPhase, IsGen
<1>3. /\ ask[r].stream /\ NoFinish(r)
      /\ gen.text = Said(r) \/ (gen.reason = "stop" /\ Stopped(gen.text, Said(r)))
  BY <1>r, <1>1, GenTold DEF PhaseOK, Told
<1>4. CASE Send(r, Finish(gen.reason))
  <2>1. Finish(gen.reason) \in Chunks /\ Content(Finish(gen.reason)) = <<>>
    BY <1>1 DEF Finish, Chunks, Content
  <2>2. /\ answer' = [q \in Requests |-> answer'[q]] /\ (\A q \in Requests : Whole(q)')
        /\ Said(r)' = Said(r) /\ Last(sent'[r]) = Finish(gen.reason)
    BY <1>r, <1>1, <1>4, <2>1, SilentSend
  <2>3. EndsWell(gen.text, r)'
    BY <1>2, <1>3, <2>2 DEF EndsWell
  <2>4. GenText'
    BY <1>2, <2>3 DEF GenText
  <2>5. QED
    BY <2>2, <2>4 DEF AnswerInv
<1>5. CASE NoSend
  <2>1. Told(gen', r, Said(r))
    BY <1>2, <1>3 DEF Told, EndsWell
  <2>2. QED
    BY <1>1, <1>2, <1>5, <2>1, GenQuiet DEF NoSend
<1>6. QED
  BY <1>r, <1>4, <1>5 DEF SendFinish

\* What else the worker, its callers and its shutdown do sends and answers nothing.
LEMMA WorkerWhole ==
  ASSUME BackendsInv, AnswerInv, LocalStep, UNCHANGED up
  PROVE  AnswerInv'
<1>1. CASE SendRole \/ Prompt \/ Sample \/ Push \/ Decode \/ SendFinish \/ Complete \/ TakeCommand
  <2>1. Complete => AnswerInv'
    BY AnswerWholes DEF Complete, InPhase
  <2>2. QED
    BY <1>1, <2>1, SendRoleWhole, PromptWhole, SampleWhole, PushWhole, DecodeWhole, SendFinishWhole, TakeWhole
<1>2. ASSUME UNCHANGED <<ask, sent, answer, up>>, \A r \in Requests : result'[r] = "Ok" => result[r] = "Ok",
             thread' # "busy" \/ UNCHANGED <<thread, gen>>
      PROVE  AnswerInv'
  <2>1. \A r \in Requests : Alike(r)
    BY <1>2 DEF Alike
  <2>2. QED
    BY <1>2, <2>1, QuietWhole
<1>3. ASSUME NEW rs, NEW v \in {"BackendPoisoned", "BackendDraining", "InferenceFailed", "ModelLoadFailed"}, Settle(rs, v)
      PROVE  \A r \in Requests : result'[r] = "Ok" => result[r] = "Ok"
  BY <1>3, SettledResult
<1>4. CASE \E r \in Requests : LocalCall(r)
  <2>1. PICK r \in Requests : LocalCall(r)
    BY <1>4
  <2>2. \/ UNCHANGED result
        \/ \E e \in {"BackendPoisoned", "BackendDraining", "InferenceFailed", "ModelLoadFailed"} : Settle({r}, e)
    BY <2>1 DEF LocalCall, Enter, EnsureLoaded, LoadTooLate, CheckFlags, TakeSender, SendCommand, Step, Refuse
  <2>3. UNCHANGED <<ask, sent, answer>> /\ (thread' # "busy" \/ UNCHANGED <<thread, gen>>)
    BY <2>1 DEF LocalCall, Enter, EnsureLoaded, LoadTooLate, CheckFlags, TakeSender, SendCommand, Step, Refuse,
       workerVars
  <2>4. QED
    BY <1>2, <1>3, <2>2, <2>3
<1>5. CASE Load \/ BeginDrain \/ DrainStep
  <2>1. UNCHANGED <<ask, sent, answer, result, thread, gen>>
    BY <1>5 DEF Load, Step, BeginDrain, DrainStep, SendShutdown, Join, callVars
  <2>2. QED
    BY <1>2, <2>1
<1>6. CASE LoadFails \/ LibraryFails \/ Panic \/ Poison \/ Stop
  <2>1. UNCHANGED <<ask, sent, answer>> /\ thread' # "busy"
    BY <1>6 DEF LoadFails, LibraryFails, Panic, Poison, Stop
  <2>2. \E rs : \E v \in {"BackendPoisoned", "InferenceFailed", "ModelLoadFailed"} : Settle(rs, v)
    BY <1>6 DEF LoadFails, LibraryFails, Panic, Poison, Stop
  <2>3. QED
    BY <1>2, <1>3, <2>1, <2>2
<1>7. QED
  BY <1>1, <1>4, <1>5, <1>6 DEF LocalStep, WorkerStep, ThreadStep

(***************************************************************************)
(* Hosted models and clients.                                              *)
(***************************************************************************)

\* Only a call to a hosted model is concerned.
LEMMA CloudOne ==
  ASSUME BackendsInv, AnswerInv, UNCHANGED <<ask, workerVars>>, NEW r \in Requests, ask[r].model \in Cloud,
         \A q \in Requests \ {r} :
           sent'[q] = sent[q] /\ up'[q] = up[q] /\ answer'[q] = answer[q] /\ result'[q] = result[q],
         answer' = [q \in Requests |-> answer'[q]], CloudWhole(r)'
  PROVE  AnswerInv'
<1>1. \A q \in Requests \ {r} : Alike(q)
  BY DEF Alike
<1>2. \A q \in Requests \ {r} : Whole(q)'
  BY <1>1, WholeStays
<1>3. Whole(r)'
  BY CloudIsNotLocal DEF Whole
<1>4. GenText'
  <2>1. CASE thread = "busy"
    <3>1. PICK q \in Requests : q = gen.req /\ q # r
      BY <2>1, Busy, CloudIsNotLocal
    <3>2. Said(q)' = Said(q) /\ (NoFinish(q)' <=> NoFinish(q)) /\ sent'[q] = sent[q]
      BY <3>1, SaidStays
    <3>3. GenText /\ UNCHANGED <<thread, gen>>
      BY DEF AnswerInv, workerVars
    <3>4. QED
      BY <3>1, <3>2, <3>3 DEF GenText, EndsWell
  <2>2. CASE thread # "busy"
    BY <2>2 DEF GenText, workerVars
  <2>3. QED
    BY <2>1, <2>2
<1>5. QED
  BY <1>2, <1>3, <1>4 DEF AnswerInv

\* A call ends, and nothing was sent.
LEMMA CloudEndsWhole ==
  ASSUME BackendsInv, AnswerInv, UNCHANGED <<ask, sent, answer, up, workerVars>>, NEW r \in Requests,
         ask[r].model \in Cloud, NEW v, UNCHANGED result \/ Settle({r}, v)
  PROVE  AnswerInv'
<1>1. \A q \in Requests \ {r} : result'[q] = result[q]
  BY SettledResult
<1>2. \A q \in Requests : Alike(q)
  BY <1>1, CloudIsNotLocal DEF Alike
<1>3. QED
  BY <1>2, QuietWhole DEF workerVars

LEMMA PlainWhole ==
  ASSUME BackendsInv, AnswerInv, NEW r \in Requests, Plain(r), UNCHANGED workerVars
  PROVE  AnswerInv'
<1>1. ask[r].model \in Cloud /\ ~ask[r].stream /\ UNCHANGED <<ask, sent>>
  BY DEF Plain, CloudCalling, Fail
<1>2. CASE Fail(r, "garbled", "InferenceFailed")
  BY <1>1, <1>2, CloudEndsWhole DEF Fail
<1>3. CASE \E n \in 0 .. MaxTexts : /\ up' = [up EXCEPT ![r].texts = n]
                                    /\ answer' = [answer EXCEPT ![r] = [i \in 1 .. n |-> i]]
                                    /\ Settle({r}, "Ok")
  <2>1. PICK n, a : up' = [up EXCEPT ![r].texts = n] /\ answer' = [answer EXCEPT ![r] = a] /\ Settle({r}, "Ok")
    BY <1>3
  <2>2. up \in [Requests -> UpRecord] /\ answer = [q \in Requests |-> answer[q]]
    BY DEF BackendsInv, UpTypes, UpRecord, AnswerInv
  <2>3. \A q \in Requests \ {r} :
          sent'[q] = sent[q] /\ up'[q] = up[q] /\ answer'[q] = answer[q] /\ result'[q] = result[q]
    BY <1>1, <2>1, <2>2, SettledResult
  <2>4. answer' = [q \in Requests |-> answer'[q]]
    BY <2>1, <2>2
  <2>5. CloudWhole(r)'
    BY <1>1 DEF CloudWhole
  <2>6. QED
    BY <1>1, <2>3, <2>4, <2>5, CloudOne
<1>4. QED
  BY <1>2, <1>3 DEF Plain

\* The stream of r goes on, and with it what is known of its upstream.
LEMMA CloudStreams ==
  ASSUME BackendsInv, AnswerInv, UNCHANGED <<ask, answer, result, workerVars>>, NEW r \in Requests,
         ask[r].model \in Cloud, NEW next, up' = [up EXCEPT ![r] = next],
         \A q \in Requests \ {r} : sent'[q] = sent[q],
         Faithful(sent'[r], TextsOf(r)', next)
  PROVE  AnswerInv'
<1>1. up'[r] = next /\ \A q \in Requests \ {r} : up'[q] = up[q]
  BY DEF BackendsInv, UpTypes
<1>2. CloudWhole(r)'
  BY <1>1 DEF CloudWhole
<1>3. answer' = [q \in Requests |-> answer'[q]]
  BY DEF AnswerInv
<1>4. QED
  BY <1>1, <1>2, <1>3, CloudOne

\* What AnswerInv says of a stream that is being read.
LEMMA ReadingWhole ==
  ASSUME BackendsInv, AnswerInv, NEW r \in Requests, CloudCalling(r, "posted") \/ CloudCalling(r, "reading"),
         ask[r].stream
  PROVE  /\ CallTypes /\ up \in [Requests -> UpRecord] /\ up[r] \in UpRecord
         /\ ask[r].model \in Cloud /\ Faithful(sent[r], TextsOf(r), up[r])
BY CloudCall DEF AnswerInv, Whole, CloudWhole, UpTypes, UpRecord, CloudCalling

\* A chunk goes out: one with text brings the next of the upstream's, any other leaves
\* the texts as they are.
LEMMA ForwardWhole ==
  ASSUME BackendsInv, AnswerInv, UNCHANGED workerVars, NEW r \in Requests, CloudCalling(r, "reading"),
         NEW chunk \in Chunks, NEW next \in UpRecord, Forward(r, chunk, next),
         \/ chunk[1] # "text" /\ next.texts = up[r].texts /\ next.lost = up[r].lost
         \/ chunk = Text(next.texts) /\ next.texts = up[r].texts + 1 /\ next.lost = up[r].lost
  PROVE  AnswerInv'
<1>0. ask[r].stream
  BY CloudCall DEF StageOK
<1>1. CallTypes /\ up[r] \in UpRecord /\ ask[r].model \in Cloud /\ Faithful(sent[r], TextsOf(r), up[r])
  BY <1>0, ReadingWhole
<1>2. CASE Send(r, chunk) /\ up' = [up EXCEPT ![r] = next] /\ UNCHANGED <<ask, answer, result>>
  <2>1. sent'[r] = Append(sent[r], chunk) /\ \A q \in Requests \ {r} : sent'[q] = sent[q]
    BY <1>1, <1>2 DEF Send, CallTypes
  <2>2. PICK k \in Nat :
          /\ TextsOf(r) \subseteq 1 .. k
          /\ \A i \in 1 .. k : sent'[r][i] = sent[r][i]
          /\ sent'[r][k + 1] = chunk /\ Last(sent'[r]) = chunk
          /\ TextsOf(r)' = IF chunk[1] = "text" THEN TextsOf(r) \cup {k + 1} ELSE TextsOf(r)
    BY Zenon, <1>1, <2>1, TextsMore
  <2>a. PICK s, t, ts : s = sent[r] /\ t = sent'[r] /\ ts = TextsOf(r)
    OBVIOUS
  <2>b. PICK n \in Nat, lost \in SUBSET Nat : n = up[r].texts /\ lost = up[r].lost
    BY <1>1 DEF UpRecord
  <2>3. s = sent[r] /\ t = sent'[r] /\ ts = TextsOf(r) /\ n = up[r].texts /\ lost = up[r].lost
    BY <2>a, <2>b
  <2>4. /\ lost \subseteq 1 .. n /\ {s[i][2] : i \in ts} = (1 .. n) \ lost
        /\ \A i, j \in ts : i < j => s[i][2] < s[j][2]
    BY <1>1, <2>3 DEF Faithful
  <2>5. ts \subseteq 1 .. k /\ \A i \in ts : t[i] = s[i]
    BY <2>2, <2>3
  <2>6. CASE chunk[1] # "text"
    <3>1. TextsOf(r)' = ts /\ next.texts = n /\ next.lost = lost
      BY <2>2, <2>3, <2>6 DEF Text
    <3>2. {t[i][2] : i \in ts} = {s[i][2] : i \in ts}
      BY <2>5
    <3>3. \A i, j \in ts : i < j => t[i][2] < t[j][2]
      BY <2>4, <2>5
    <3>4. Faithful(t, ts, next)
      BY <2>4, <3>1, <3>2, <3>3 DEF Faithful
    <3>5. QED
      BY <1>1, <1>2, <2>1, <2>3, <3>1, <3>4, CloudStreams
  <2>7. CASE chunk = Text(next.texts) /\ next.texts = up[r].texts + 1 /\ next.lost = up[r].lost
    <3>1. /\ TextsOf(r)' = ts \cup {k + 1} /\ next.texts = n + 1 /\ next.lost = lost
          /\ t[k + 1][2] = n + 1
      BY <2>2, <2>3, <2>7 DEF Text
    <3>2. \A i \in ts : i \in 1 .. k /\ t[i][2] = s[i][2] /\ s[i][2] \in 1 .. n
      BY <2>4, <2>5
    <3>3. {t[i][2] : i \in ts \cup {k + 1}} = {s[i][2] : i \in ts} \cup {n + 1}
      BY <3>1, <3>2
    <3>4. (1 .. n + 1) \ lost = ((1 .. n) \ lost) \cup {n + 1}
      <4>1. n + 1 \notin lost /\ 1 .. n + 1 = (1 .. n) \cup {n + 1}
        BY <2>4
      <4>2. QED
        BY <4>1
    <3>5. \A i, j \in ts \cup {k + 1} : i < j => t[i][2] < t[j][2]
      <4>1. ASSUME NEW i \in ts \cup {k + 1}, NEW j \in ts \cup {k + 1}, i < j PROVE t[i][2] < t[j][2]
        <5>1. i \in ts
          BY <3>2, <4>1
        <5>2. CASE j \in ts
          BY <2>4, <3>2, <4>1, <5>1, <5>2
        <5>3. CASE j = k + 1
          BY <3>1, <3>2, <5>1, <5>3
        <5>4. QED
          BY <5>2, <5>3
      <4>2. QED
        BY <4>1
    <3>6. lost \subseteq 1 .. n + 1
      BY <2>4
    <3>7. Faithful(t, ts \cup {k + 1}, next)
      BY <2>4, <3>1, <3>3, <3>4, <3>5, <3>6 DEF Faithful
    <3>8. QED
      BY <1>1, <1>2, <2>1, <2>3, <3>1, <3>7, CloudStreams
  <2>8. QED
    BY <2>6, <2>7
<1>3. CASE EndStream(r)
  BY <1>1, <1>3, CloudEndsWhole DEF EndStream
<1>4. QED
  BY <1>2, <1>3 DEF Forward

LEMMA EventsWhole ==
  ASSUME BackendsInv, AnswerInv, UNCHANGED workerVars, NEW r \in Requests,
         RoleEvent(r) \/ TextEvent(r) \/ FinishEvent(r)
  PROVE  AnswerInv'
<1>0. CloudCalling(r, "reading") /\ up[r] \in UpRecord
  BY CloudCall DEF RoleEvent, TextEvent, FinishEvent, Reading
<1>1. CASE RoleEvent(r)
  <2>1. PICK next : next = [up[r] EXCEPT !.due = "text"]
    OBVIOUS
  <2>2. next \in UpRecord /\ next.texts = up[r].texts /\ next.lost = up[r].lost
    BY <1>0, <2>1 DEF UpRecord
  <2>3. Role \in Chunks /\ Role[1] # "text"
    BY DEF Role, Chunks
  <2>4. QED
    BY <1>0, <1>1, <2>1, <2>2, <2>3, ForwardWhole DEF RoleEvent
<1>2. CASE TextEvent(r)
  <2>1. PICK n \in Nat : n = up[r].texts + 1
    BY <1>0 DEF UpRecord
  <2>2. PICK next : next = [up[r] EXCEPT !.texts = n]
    OBVIOUS
  <2>3. next \in UpRecord /\ next.texts = n /\ next.lost = up[r].lost
    BY <1>0, <2>2 DEF UpRecord
  <2>4. Text(n) \in Chunks
    BY DEF Text, Chunks
  <2>5. Forward(r, Text(n), next)
    BY <1>2, <2>1, <2>2 DEF TextEvent
  <2>6. QED
    BY <1>0, <2>1, <2>3, <2>4, <2>5, ForwardWhole
<1>3. CASE FinishEvent(r)
  <2>1. PICK reason : reason \in {"end_turn", "max_tokens"} /\ Forward(r, Finish(StopReason(reason)), [up[r] EXCEPT !.due = "end"])
    BY <1>3 DEF FinishEvent
  <2>2. PICK next : next = [up[r] EXCEPT !.due = "end"]
    OBVIOUS
  <2>3. next \in UpRecord /\ next.texts = up[r].texts /\ next.lost = up[r].lost
    BY <1>0, <2>2 DEF UpRecord
  <2>4. Finish(StopReason(reason)) \in Chunks /\ Finish(StopReason(reason))[1] # "text"
    BY DEF Finish, StopReason, Chunks
  <2>5. QED
    BY <1>0, <2>1, <2>2, <2>3, <2>4, ForwardWhole
<1>4. QED
  BY <1>1, <1>2, <1>3

\* The upstream begins to answer, or sends what cannot be parsed.
LEMMA UnsentWhole ==
  ASSUME BackendsInv, AnswerInv, UNCHANGED workerVars, NEW r \in Requests, Streams(r) \/ Garbled(r) \/ GoesOn(r)
  PROVE  AnswerInv'
<1>0. UNCHANGED <<ask, sent, answer, result>>
  BY DEF Streams, Garbled, GoesOn, callVars
<1>1. ask[r].stream /\ (CloudCalling(r, "posted") \/ CloudCalling(r, "reading"))
  BY CloudCall DEF Streams, Garbled, GoesOn, Reading, StageOK
<1>2. /\ up \in [Requests -> UpRecord] /\ up[r] \in UpRecord /\ ask[r].model \in Cloud
      /\ Faithful(sent[r], TextsOf(r), up[r])
  BY <1>1, ReadingWhole
<1>3. PICK n \in Nat, lost \in SUBSET Nat : n = up[r].texts /\ lost = up[r].lost
  BY <1>2 DEF UpRecord
<1>4. sent'[r] = sent[r] /\ TextsOf(r)' = TextsOf(r) /\ \A q \in Requests \ {r} : sent'[q] = sent[q]
  BY <1>0, SaidStays
<1>5. /\ lost \subseteq 1 .. n /\ {sent[r][i][2] : i \in TextsOf(r)} = (1 .. n) \ lost
      /\ \A i, j \in TextsOf(r) : i < j => sent[r][i][2] < sent[r][j][2]
  BY <1>2, <1>3 DEF Faithful
<1>6. CASE \E d : up' = [up EXCEPT ![r].due = d]
  <2>1. PICK d : up' = [up EXCEPT ![r].due = d]
    BY <1>6
  <2>2. PICK next : next = [up[r] EXCEPT !.due = d]
    OBVIOUS
  <2>3. up' = [up EXCEPT ![r] = next] /\ next.texts = n /\ next.lost = lost
    BY <1>2, <1>3, <2>1, <2>2 DEF UpRecord
  <2>4. Faithful(sent[r], TextsOf(r), next)
    BY <1>5, <2>3 DEF Faithful
  <2>5. QED
    BY <1>0, <1>2, <1>4, <2>3, <2>4, CloudStreams
<1>7. CASE up' = [up EXCEPT ![r].texts = @ + 1, ![r].lost = @ \cup {up[r].texts + 1}]
  <2>1. PICK next : next = [up[r] EXCEPT !.texts = n + 1, !.lost = lost \cup {n + 1}]
    OBVIOUS
  <2>2. up' = [up EXCEPT ![r] = next] /\ next.texts = n + 1 /\ next.lost = lost \cup {n + 1}
    BY <1>2, <1>3, <1>7, <2>1 DEF UpRecord
  <2>3. lost \cup {n + 1} \subseteq 1 .. n + 1 /\ (1 .. n + 1) \ (lost \cup {n + 1}) = (1 .. n) \ lost
    <3>1. n + 1 \notin 1 .. n /\ 1 .. n + 1 = (1 .. n) \cup {n + 1}
      OBVIOUS
    <3>2. QED
      BY <1>5, <3>1
  <2>4. Faithful(sent[r], TextsOf(r), next)
    BY <1>5, <2>2, <2>3 DEF Faithful
  <2>5. QED
    BY <1>0, <1>2, <1>4, <2>2, <2>4, CloudStreams
<1>8. CASE up' = [up EXCEPT ![r].due = "text", ![r].on = TRUE]
  <2>1. PICK next : next = [up[r] EXCEPT !.due = "text", !.on = TRUE]
    OBVIOUS
  <2>2. up' = [up EXCEPT ![r] = next] /\ next.texts = n /\ next.lost = lost
    BY <1>2, <1>3, <1>8, <2>1 DEF UpRecord
  <2>3. Faithful(sent[r], TextsOf(r), next)
    BY <1>5, <2>2 DEF Faithful
  <2>4. QED
    BY <1>0, <1>2, <1>4, <2>2, <2>3, CloudStreams
<1>9. QED
  BY <1>6, <1>7, <1>8 DEF Streams, Garbled, GoesOn

LEMMA CloudWholes ==
  ASSUME BackendsInv, AnswerInv, CloudStep, UNCHANGED workerVars
  PROVE  AnswerInv'
<1>1. PICK r \in Requests : UpstreamStep(r)
  BY DEF CloudStep
<1>2. CASE Post(r) \/ NoResponse(r) \/ Refused(r) \/ Done(r) \/ CutOff(r)
  <2>1. ask[r].model \in Cloud /\ UNCHANGED <<ask, sent, answer, up>>
    BY <1>2 DEF Post, NoResponse, Refused, Done, CutOff, Fail, EndStream, Reading, CloudCalling
  <2>2. UNCHANGED result \/ \E v : Settle({r}, v)
    BY <1>2 DEF Post, NoResponse, Refused, Done, CutOff, Fail, EndStream
  <2>3. QED
    BY <2>1, <2>2, CloudEndsWhole
<1>3. QED
  BY <1>1, <1>2, PlainWhole, UnsentWhole, EventsWhole DEF UpstreamStep

LEMMA ClientWhole ==
  ASSUME BackendsInv, AnswerInv, ClientStep, UNCHANGED <<workerVars, up>>
  PROVE  AnswerInv'
<1>1. PICK r \in Requests : Arrive(r) \/ Read(r) \/ Leave(r)
  BY DEF ClientStep
<1>2. UNCHANGED <<sent, answer>> /\ (UNCHANGED result \/ result' = [result EXCEPT ![r] = "Dropped"])
  BY <1>1 DEF Arrive, Read, Leave
<1>3. CallTypes
  BY DEF BackendsInv
<1>4. \A q \in Requests : ask'[q].model = ask[q].model /\ ask'[q].stream = ask[q].stream
  <2>1. UNCHANGED ask \/ ask' = [ask EXCEPT ![r].max = Clamp(@)]
    BY <1>1 DEF Arrive, Read, Leave
  <2>2. CASE ask' = [ask EXCEPT ![r].max = Clamp(@)]
    <3>1. PICK m : ask' = [ask EXCEPT ![r].max = m]
      BY <2>2
    <3>2. QED
      BY <1>3, <3>1 DEF CallTypes, Ask
  <2>3. QED
    BY <2>1, <2>2
<1>5. \A q \in Requests : result'[q] = "Ok" => result[q] = "Ok"
  BY <1>2, <1>3 DEF CallTypes
<1>6. \A q \in Requests : Alike(q)
  BY <1>2, <1>4, <1>5 DEF Alike
<1>7. QED
  BY <1>2, <1>6, QuietWhole DEF workerVars

LEMMA AnswersInitially == BackendsInit => AnswerInv
<1> SUFFICES ASSUME BackendsInit PROVE AnswerInv
  OBVIOUS
<1>1. /\ answer = [r \in Requests |-> <<>>] /\ sent = [r \in Requests |-> <<>>] /\ thread = "none"
      /\ up = [r \in Requests |-> [due |-> "none", texts |-> 0, lost |-> {}, on |-> FALSE]]
  BY DEF BackendsInit, CallsInit, WorkerInit, UpstreamInit
<1>2. ASSUME NEW r \in Requests PROVE Whole(r)
  <2>1. Said(r) = <<>> /\ TextsOf(r) = {} /\ NoFinish(r)
    BY <1>1, NothingSaid
  <2>2. LocalWhole(r)
    BY <2>1, EmptySeq DEF LocalWhole, EndsWell
  <2>3. up[r].texts = 0 /\ up[r].lost = {}
    BY <1>1
  <2>4. {sent[r][i][2] : i \in TextsOf(r)} = {}
    BY <2>1
  <2>5. Faithful(sent[r], TextsOf(r), up[r])
    BY <2>1, <2>3, <2>4 DEF Faithful
  <2>6. QED
    BY <2>2, <2>5 DEF Whole, CloudWhole
<1>3. GenText
  BY <1>1 DEF GenText
<1>4. QED
  BY <1>1, <1>2, <1>3 DEF AnswerInv

LEMMA AnswersStep == BackendsInv /\ AnswerInv /\ [BackendsNext]_backendsVars => AnswerInv'
<1> SUFFICES ASSUME BackendsInv, AnswerInv, [BackendsNext]_backendsVars PROVE AnswerInv'
  OBVIOUS
<1>1. CASE UNCHANGED backendsVars
  <2>1. UNCHANGED <<ask, sent, answer, result, up, thread, gen>>
    BY <1>1 DEF backendsVars, callVars, workerVars
  <2>2. \A r \in Requests : Alike(r)
    BY <2>1 DEF Alike
  <2>3. QED
    BY <2>1, <2>2, QuietWhole
<1>2. QED
  BY <1>1, WorkerWhole, CloudWholes, ClientWhole DEF BackendsNext

\* For any models, clients, pieces, stop sequences and channel capacities: a stream
\* that has its finish reason brought all of the answer, in order and once, but for
\* what the last piece and the stop sequence that ended it account for, and what a
\* local model's says ends in no stop sequence (inference.rs, openai.rs, anthropic.rs).
THEOREM AnswersAreWhole == BackendsSpec => []AnswerWhole
<1>1. BackendsInv /\ AnswerInv => AnswerWhole
  <2> SUFFICES ASSUME BackendsInv, AnswerInv, NEW r \in Requests
               PROVE  /\ Finished(r) /\ ask[r].model \in Cloud =>
                           /\ {sent[r][i][2] : i \in TextsOf(r)} = (1 .. up[r].texts) \ up[r].lost
                           /\ \A i, j \in TextsOf(r) : i < j => sent[r][i][2] < sent[r][j][2]
                      /\ ask[r].model \in Local =>
                           /\ Said(r) # <<>> => StopsAt(Said(r)) = {}
                           /\ result[r] = "Ok" /\ Finished(r) =>
                                \/ answer[r] = Said(r)
                                \/ Last(sent[r]) = Finish("stop") /\ Stopped(answer[r], Said(r))
    BY DEF AnswerWhole
  <2>1. Finished(r) <=> ~NoFinish(r)
    BY FinishedMeans
  <2>2. Finished(r) => ask[r].stream
    BY <2>1, UnsentCall
  <2>3. Whole(r)
    BY DEF AnswerInv
  <2>4. QED
    BY <2>1, <2>2, <2>3 DEF Whole, CloudWhole, Faithful, LocalWhole, EndsWell
<1>2. QED
  BY <1>1, BackendsInductive, AnswersInitially, AnswersStep, PTL DEF BackendsSpec

=============================================================================
