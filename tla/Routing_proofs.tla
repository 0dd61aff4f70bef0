--------------------------- MODULE Routing_proofs ---------------------------
(***************************************************************************)
(* What a routed request promises its client holds for every list of       *)
(* rules and targets, every length of answers and every size of channel.   *)
(***************************************************************************)
EXTENDS Routing, FiniteSetTheorems, SequenceTheorems, TLAPS

\* The last attempt is the one the router waits for or relays.
OnTrial == pc \in {"awaiting", "relaying"}

\* The request ended with what the last attempt came to.
Settled == outcome \in {"ok", "error", "dropped"}

\* Targets are tried one after the other, and given up before the next is tried.
InOrder ==
  /\ Len(attempt) <= Len(targets)
  /\ OnTrial \/ Settled => Len(attempt) > 0 /\ Len(failed) = Len(attempt) - 1
  /\ ~(OnTrial \/ Settled) => Len(failed) = Len(attempt)
  /\ \A i \in DOMAIN failed : failed[i] = i
  /\ pc = "done" <=> outcome # "none"
  /\ outcome = "exhausted" => Len(attempt) = Len(targets)
  /\ pc = "select" => Len(attempt) = 0

\* What was given up is marked so, what is on trial is not, and what is over and
\* was not given up has ended.
MarkedWhenGivenUp ==
  /\ OnTrial => ~attempt[Len(attempt)].abandoned
  /\ \A i \in DOMAIN attempt :
       /\ i <= Len(failed) => attempt[i].abandoned
       /\ Running(i) /\ ~attempt[i].abandoned => OnTrial
       /\ Running(i) => ~attempt[i].cut
       /\ attempt[i].cut /\ attempt[i].state = "ok" => targets[i] \in Cloud
       /\ ~streaming /\ attempt[i].state = "ok" => attempt[i].sent = 1

\* Chunks are in the channel or with the client, each once and in order.
ChunksInOrder ==
  /\ pc \in {"select", "next", "awaiting"} \/ outcome \in {"exhausted", "dropped"} => received = <<>>
  /\ streaming /\ OnTrial => attempt[Len(attempt)].sent = Len(received) + Len(queue)
  /\ streaming /\ OnTrial => \A j \in DOMAIN queue : queue[j] = Len(received) + j
  /\ ~streaming => pc # "relaying"
  /\ \A j \in DOMAIN received : received[j] = <<Len(attempt), j>>

\* What was heard is recorded, and a success is that of the last attempt.
Honest ==
  /\ received # <<>> \/ pc = "relaying" \/ outcome = "ok" =>
       trace.backend = Len(attempt) /\ trace.fallbacks = Len(failed)
  /\ received # <<>> => OnTrial \/ Settled
  /\ outcome = "ok" /\ connected =>
       attempt[Len(attempt)].state = "ok" /\ Len(received) = attempt[Len(attempt)].sent

RoutingInv == RoutingTypeOK /\ InOrder /\ MarkedWhenGivenUp /\ ChunksInOrder /\ Honest
-----------------------------------------------------------------------------
\* What is known of one call.
Call == [state : {"running", "ok", "retryable", "fatal", "gone"}, sent : 0 .. MaxChunks,
         cut : BOOLEAN, abandoned : BOOLEAN]

\* The lengths that invariants speak of are natural numbers, and sequences are
\* functions on an interval.
LEMMA Lengths ==
  ASSUME RoutingTypeOK
  PROVE  /\ Len(attempt) \in Nat /\ DOMAIN attempt = 1 .. Len(attempt)
         /\ Len(failed) \in Nat /\ DOMAIN failed = 1 .. Len(failed)
         /\ Len(queue) \in Nat /\ DOMAIN queue = 1 .. Len(queue)
         /\ Len(received) \in Nat /\ DOMAIN received = 1 .. Len(received)
         /\ Len(targets) \in Nat /\ DOMAIN targets = 1 .. Len(targets)
         /\ \A i \in DOMAIN attempt : attempt[i] \in Call
<1>1. /\ attempt \in Seq(Call) /\ failed \in Seq(Nat) /\ queue \in Seq(1 .. MaxChunks)
      /\ received \in Seq(Nat \X (1 .. MaxChunks)) /\ targets \in Seq(Targets)
  BY DEF RoutingTypeOK, Call
<1>2. QED
  BY <1>1, LenProperties, ElementOfSeq

\* How a step of a backend changes its call.
FailedAtOnce(a, c) ==
  /\ ~a.abandoned /\ a.sent = 0
  /\ c.state \in {"retryable", "fatal"} /\ c.sent = a.sent /\ c.cut = a.cut
  /\ queue' = queue
SentOne(a, c) ==
  /\ streaming /\ ~a.abandoned /\ a.sent < MaxChunks
  /\ c.state = "running" /\ c.sent = a.sent + 1 /\ c.cut = a.cut
  /\ queue' = Append(queue, a.sent + 1)
AnsweredWhole(a, c) ==
  /\ ~a.abandoned
  /\ c.state = "ok" /\ c.sent = (IF streaming THEN a.sent ELSE 1) /\ c.cut = a.cut
  /\ queue' = queue
BrokeOff(a, c, i) ==
  /\ streaming /\ ~a.abandoned
  /\ c.state = (IF targets[i] \in Cloud THEN "ok" ELSE "fatal") /\ c.sent = a.sent /\ c.cut = TRUE
  /\ queue' = queue
Withered(a, c) ==
  /\ a.abandoned
  /\ c.state = "gone" /\ c.sent = a.sent /\ c.cut = a.cut
  /\ queue' = queue

\* A step of a backend changes its own call and nothing of another's.
LEMMA BackendEffect ==
  ASSUME RoutingTypeOK, NEW i \in DOMAIN attempt, BackendStep(i)
  PROVE  \E c \in Call :
           /\ attempt' = [attempt EXCEPT ![i] = c]
           /\ c.abandoned = attempt[i].abandoned
           /\ attempt[i].state = "running"
           /\ \/ FailedAtOnce(attempt[i], c) \/ SentOne(attempt[i], c) \/ AnsweredWhole(attempt[i], c)
              \/ BrokeOff(attempt[i], c, i) \/ Withered(attempt[i], c)
<1> DEFINE a == attempt[i]
<1>1. a \in Call /\ attempt \in Seq(Call)
  BY Lengths DEF RoutingTypeOK, Call
<1>2. MaxChunks \in Nat \ {0}
  BY RoutingAssumption
<1>3. CASE FailAtOnce(i)
  <2>1. PICK x \in {"retryable", "fatal"} : attempt' = [attempt EXCEPT ![i].state = x]
    BY <1>3 DEF FailAtOnce
  <2> DEFINE c == [a EXCEPT !.state = x]
  <2>2. c \in Call
    BY <1>1, <1>2, <1>3, <2>1 DEF FailAtOnce, Call
  <2>3. attempt' = [attempt EXCEPT ![i] = c]
    BY <1>1, <1>3, <2>1 DEF FailAtOnce
  <2>4. c.abandoned = a.abandoned /\ a.state = "running" /\ FailedAtOnce(a, c)
    BY <1>1, <1>3, <2>1 DEF FailAtOnce, Running, FailedAtOnce, Call
  <2>5. QED
    BY <2>2, <2>3, <2>4
<1>4. CASE Produce(i)
  <2> DEFINE c == [a EXCEPT !.sent = @ + 1]
  <2>1. a.sent \in 0 .. MaxChunks /\ a.sent < MaxChunks
    BY <1>1, <1>4 DEF Produce, Call
  <2>a. a.sent + 1 \in 0 .. MaxChunks
    BY <1>2, <2>1
  <2>2. c \in Call
    BY <1>1, <2>a DEF Call
  <2>3. attempt' = [attempt EXCEPT ![i] = c]
    BY <1>1, <1>4 DEF Produce
  <2>4. c.abandoned = a.abandoned /\ a.state = "running" /\ SentOne(a, c)
    BY <1>1, <1>4 DEF Produce, Running, SentOne, Call
  <2>5. QED
    BY <2>2, <2>3, <2>4
<1>5. CASE AnswerEnds(i)
  <2> DEFINE c == [a EXCEPT !.state = "ok", !.sent = IF streaming THEN @ ELSE 1]
  <2>2. c \in Call
    BY <1>1, <1>2, <1>5 DEF AnswerEnds, Call
  <2>3. attempt' = [attempt EXCEPT ![i] = c]
    BY <1>1, <1>5 DEF AnswerEnds
  <2>4. c.abandoned = a.abandoned /\ a.state = "running" /\ AnsweredWhole(a, c)
    BY <1>1, <1>5 DEF AnswerEnds, Running, AnsweredWhole, Call
  <2>5. QED
    BY <2>2, <2>3, <2>4
<1>6. CASE CutOff(i)
  <2> DEFINE c == [a EXCEPT !.state = IF targets[i] \in Cloud THEN "ok" ELSE "fatal", !.cut = TRUE]
  <2>2. c \in Call
    BY <1>1, <1>2, <1>6 DEF CutOff, Call
  <2>3. attempt' = [attempt EXCEPT ![i] = c]
    BY <1>1, <1>6 DEF CutOff
  <2>4. c.abandoned = a.abandoned /\ a.state = "running" /\ BrokeOff(a, c, i)
    BY <1>1, <1>6 DEF CutOff, Running, BrokeOff, Call
  <2>5. QED
    BY <2>2, <2>3, <2>4
<1>7. CASE Wither(i)
  <2> DEFINE c == [a EXCEPT !.state = "gone"]
  <2>2. c \in Call
    BY <1>1, <1>2, <1>7 DEF Wither, Call
  <2>3. attempt' = [attempt EXCEPT ![i] = c]
    BY <1>1, <1>7 DEF Wither
  <2>4. c.abandoned = a.abandoned /\ a.state = "running" /\ Withered(a, c)
    BY <1>1, <1>7 DEF Wither, Running, Withered, Call
  <2>5. QED
    BY <2>2, <2>3, <2>4
<1>8. QED
  BY <1>3, <1>4, <1>5, <1>6, <1>7 DEF BackendStep

\* Replacing one call by another leaves the rest as it is.
LEMMA OneCall ==
  ASSUME RoutingTypeOK, NEW i \in DOMAIN attempt, NEW c \in Call, attempt' = [attempt EXCEPT ![i] = c]
  PROVE  /\ attempt' \in Seq(Call) /\ Len(attempt') = Len(attempt) /\ DOMAIN attempt' = DOMAIN attempt
         /\ attempt'[i] = c
         /\ \A j \in DOMAIN attempt \ {i} : attempt'[j] = attempt[j]
<1>1. attempt \in Seq(Call) /\ i \in 1 .. Len(attempt) /\ DOMAIN attempt = 1 .. Len(attempt)
  BY Lengths DEF RoutingTypeOK, Call
<1>2. QED
  BY <1>1, ExceptSeq, LenProperties

\* A call that runs and was not given up is the last one, and the router waits for
\* it or relays it.
LEMMA OnlyTheLastLives ==
  ASSUME RoutingTypeOK, InOrder, MarkedWhenGivenUp,
         NEW i \in DOMAIN attempt, Running(i), ~attempt[i].abandoned
  PROVE  OnTrial /\ i = Len(attempt)
<1>1. PICK n \in Nat : n = Len(attempt) /\ DOMAIN attempt = 1 .. n
  BY Lengths
<1>2. PICK f \in Nat : f = Len(failed)
  BY Lengths
<1>3. OnTrial /\ ~(i <= f)
  BY <1>2 DEF MarkedWhenGivenUp
<1>4. f = n - 1
  BY <1>1, <1>2, <1>3 DEF InOrder
<1>5. QED
  BY <1>1, <1>3, <1>4

\* The last attempt is a call there is.
LEMMA LastIsThere ==
  ASSUME RoutingTypeOK, InOrder, OnTrial \/ Settled
  PROVE  Len(attempt) \in DOMAIN attempt /\ attempt[Len(attempt)] \in Call
<1>1. Len(attempt) \in Nat /\ Len(attempt) > 0 /\ DOMAIN attempt = 1 .. Len(attempt)
  BY Lengths DEF InOrder
<1>2. QED
  BY <1>1, Lengths

\* How many attempts there are then.
LEMMA LastPlace ==
  ASSUME RoutingTypeOK, InOrder, OnTrial \/ Settled
  PROVE  \E n \in Nat \ {0} : n = Len(attempt) /\ DOMAIN attempt = 1 .. n /\ Len(failed) = n - 1
<1>1. PICK n \in Nat : n = Len(attempt) /\ DOMAIN attempt = 1 .. n
  BY Lengths
<1>2. n > 0 /\ Len(failed) = n - 1
  BY <1>1 DEF InOrder
<1>3. QED
  BY <1>1, <1>2
-----------------------------------------------------------------------------
\* A step of a backend keeps the types.
LEMMA BackendTypes ==
  ASSUME RoutingInv, NEW i \in DOMAIN attempt, BackendStep(i)
  PROVE  RoutingTypeOK'
<1>1. PICK c \in Call :
        /\ attempt' = [attempt EXCEPT ![i] = c]
        /\ \/ FailedAtOnce(attempt[i], c) \/ SentOne(attempt[i], c) \/ AnsweredWhole(attempt[i], c)
           \/ BrokeOff(attempt[i], c, i) \/ Withered(attempt[i], c)
  BY BackendEffect DEF RoutingInv
<1>2. attempt' \in Seq(Call)
  BY <1>1, OneCall DEF RoutingInv
<1>3. queue' \in Seq(1 .. MaxChunks)
  <2>1. queue \in Seq(1 .. MaxChunks) /\ attempt[i].sent \in 0 .. MaxChunks
    BY Lengths DEF RoutingInv, RoutingTypeOK, Call
  <2>2. CASE SentOne(attempt[i], c)
    <3>1. attempt[i].sent + 1 \in 1 .. MaxChunks
      BY <2>1, <2>2, RoutingAssumption DEF SentOne
    <3>2. QED
      BY <2>1, <2>2, <3>1, AppendProperties DEF SentOne
  <2>3. CASE queue' = queue
    BY <2>1, <2>3
  <2>4. QED
    BY <1>1, <2>2, <2>3 DEF FailedAtOnce, AnsweredWhole, BrokeOff, Withered
<1>4. QED
  BY <1>2, <1>3 DEF BackendStep, router, RoutingInv, RoutingTypeOK, Call

\* A step of a backend keeps the rest of the invariant.
LEMMA BackendKeeps ==
  ASSUME RoutingInv, NEW i \in DOMAIN attempt, BackendStep(i)
  PROVE  RoutingInv'
<1>1. PICK c \in Call :
        /\ attempt' = [attempt EXCEPT ![i] = c]
        /\ c.abandoned = attempt[i].abandoned
        /\ attempt[i].state = "running"
        /\ \/ FailedAtOnce(attempt[i], c) \/ SentOne(attempt[i], c) \/ AnsweredWhole(attempt[i], c)
           \/ BrokeOff(attempt[i], c, i) \/ Withered(attempt[i], c)
  BY BackendEffect DEF RoutingInv
<1>2. /\ Len(attempt') = Len(attempt) /\ DOMAIN attempt' = DOMAIN attempt
      /\ attempt'[i] = c /\ \A j \in DOMAIN attempt \ {i} : attempt'[j] = attempt[j]
  BY <1>1, OneCall DEF RoutingInv
<1>3. /\ streaming' = streaming /\ pc' = pc /\ targets' = targets /\ failed' = failed /\ trace' = trace
      /\ outcome' = outcome /\ received' = received /\ connected' = connected
  BY DEF BackendStep, router
<1>4. RoutingTypeOK'
  BY BackendTypes
<1>5. (OnTrial <=> OnTrial') /\ (Settled <=> Settled')
  BY <1>3 DEF OnTrial, Settled
<1>6. InOrder'
  BY <1>2, <1>3, <1>5 DEF RoutingInv, InOrder
<1>7. MarkedWhenGivenUp'
  <2>1. OnTrial' => ~attempt'[Len(attempt')].abandoned
    BY <1>1, <1>2, <1>5, LastIsThere DEF RoutingInv, MarkedWhenGivenUp
  <2>2. ASSUME NEW j \in DOMAIN attempt', j # i PROVE MarkedWhenGivenUp!2!(j)'
    BY <1>2, <1>3, <1>5, <2>2 DEF RoutingInv, MarkedWhenGivenUp, Running
  <2>3. MarkedWhenGivenUp!2!(i)'
    BY <1>1, <1>2, <1>3, <1>5 DEF RoutingInv, MarkedWhenGivenUp, Running, FailedAtOnce, SentOne,
      AnsweredWhole, BrokeOff, Withered, Call
  <2>4. QED
    BY <1>2, <2>1, <2>2, <2>3 DEF MarkedWhenGivenUp
<1>8. PICK n \in Nat, q \in Nat, h \in Nat : n = Len(attempt) /\ q = Len(queue) /\ h = Len(received)
  BY Lengths DEF RoutingInv
<1>9. ASSUME streaming, OnTrial
      PROVE  /\ attempt'[n].sent = h + Len(queue')
             /\ \A j \in DOMAIN queue' : queue'[j] = h + j
  <2>1. /\ n \in DOMAIN attempt /\ attempt[n].sent = h + q /\ ~attempt[n].abandoned
        /\ queue \in Seq(1 .. MaxChunks) /\ DOMAIN queue = 1 .. q
        /\ \A j \in 1 .. q : queue[j] = h + j
    BY <1>8, <1>9, LastIsThere, Lengths DEF RoutingInv, ChunksInOrder, MarkedWhenGivenUp, RoutingTypeOK
  <2>2. CASE queue' = queue /\ attempt'[n].sent = attempt[n].sent
    BY <1>8, <2>1, <2>2
  <2>3. CASE i = n /\ SentOne(attempt[i], c)
    <3>1. queue' = Append(queue, h + q + 1) /\ attempt'[n].sent = h + q + 1
      BY <1>2, <2>1, <2>3 DEF SentOne
    <3>2. h + q + 1 \in 1 .. MaxChunks
      <4>1. attempt[n].sent \in 0 .. MaxChunks /\ attempt[n].sent < MaxChunks
        BY <2>1, <2>3, Lengths DEF SentOne, Call, RoutingInv
      <4>2. QED
        BY <2>1, <4>1, RoutingAssumption
    <3>3. /\ Len(queue') = q + 1 /\ DOMAIN queue' = 1 .. q + 1
          /\ queue'[q + 1] = h + q + 1 /\ \A j \in 1 .. q : queue'[j] = queue[j]
      <4>0. PICK e \in 1 .. MaxChunks : e = h + q + 1
        BY <3>2
      <4>1. Len(queue') = Len(queue) + 1 /\ queue' \in Seq(1 .. MaxChunks)
            /\ (\A j \in 1 .. Len(queue) : queue'[j] = queue[j])
            /\ queue'[Len(queue) + 1] = h + q + 1
        BY <2>1, <3>1, <4>0, AppendProperties
      <4>2. QED
        BY <1>8, <4>1, LenProperties
    <3>4. ASSUME NEW j \in DOMAIN queue' PROVE queue'[j] = h + j
      <4>1. j \in 1 .. q \/ j = q + 1
        BY <3>3
      <4>2. QED
        BY <2>1, <3>3, <4>1
    <3>5. PICK q1 \in Nat : q1 = Len(queue')
      BY <3>3
    <3>6. attempt'[n].sent = h + q1
      BY <3>1, <3>3, <3>5
    <3>7. QED
      BY <3>4, <3>5, <3>6
  <2>4. i = n \/ Withered(attempt[i], c)
    BY <1>1, <1>8, OnlyTheLastLives DEF RoutingInv, Running, FailedAtOnce, SentOne, AnsweredWhole, BrokeOff
  <2>5. CASE i = n /\ ~SentOne(attempt[i], c)
    BY <1>1, <1>2, <1>9, <2>1, <2>2, <2>5 DEF FailedAtOnce, AnsweredWhole, BrokeOff, Withered
  <2>6. CASE i # n
    BY <1>2, <2>1, <2>2, <2>4, <2>6 DEF Withered
  <2>7. QED
    BY <2>3, <2>5, <2>6
<1>10. ChunksInOrder'
  BY <1>2, <1>3, <1>5, <1>8, <1>9 DEF RoutingInv, ChunksInOrder
<1>11. Honest'
  <2>1. ASSUME outcome = "ok", connected PROVE attempt'[n].state = "ok" /\ attempt'[n].sent = h
    <3>1. n \in DOMAIN attempt /\ attempt[n].state = "ok" /\ attempt[n].sent = h
      BY <1>8, <2>1, LastIsThere DEF RoutingInv, Honest, Settled
    <3>2. QED
      BY <1>1, <1>2, <3>1
  <2>2. QED
    BY <1>2, <1>3, <1>5, <1>8, <2>1 DEF RoutingInv, Honest
<1>12. QED
  BY <1>4, <1>6, <1>7, <1>10, <1>11 DEF RoutingInv
-----------------------------------------------------------------------------
\* What the types say of a state, spelled out for the variables that a step sets.
LEMMA TypesAfter ==
  ASSUME RoutingTypeOK, streaming' = streaming,
         pc' \in {"select", "next", "awaiting", "relaying", "done"},
         targets' \in Seq(Targets), attempt' \in Seq(Call), queue' \in Seq(1 .. MaxChunks),
         failed' \in Seq(Nat), trace' \in [backend : Nat, fallbacks : Nat],
         received' \in Seq(Nat \X (1 .. MaxChunks)), connected' \in BOOLEAN,
         outcome' \in {"none", "ok", "error", "exhausted", "dropped"}
  PROVE  RoutingTypeOK'
  BY DEF RoutingTypeOK, Call

\* Selecting a rule.
LEMMA SelectRuleKeeps == ASSUME RoutingInv, SelectRule PROVE RoutingInv'
<1>1. /\ pc = "select" /\ pc' = "next" /\ targets' \in Seq(Targets)
      /\ UNCHANGED <<streaming, attempt, queue, failed, trace, received, connected, outcome>>
  <2>1. PICK k \in DOMAIN Rules : targets' = Rules[k]
    BY DEF SelectRule
  <2>2. Rules[k] \in Seq(Targets)
    BY RoutingAssumption, ElementOfSeq, LenProperties
  <2>3. QED
    BY <2>1, <2>2 DEF SelectRule
<1>2. RoutingTypeOK'
  BY <1>1, TypesAfter DEF RoutingInv, RoutingTypeOK, Call
<1>3. Len(attempt) = 0 /\ outcome = "none" /\ DOMAIN attempt = {} /\ Len(targets') \in Nat
  <2>1. Len(attempt) = 0 /\ outcome = "none"
    BY <1>1 DEF RoutingInv, InOrder
  <2>2. QED
    BY <1>1, <2>1, Lengths, LenProperties DEF RoutingInv
<1>4. InOrder'
  BY <1>1, <1>3 DEF RoutingInv, InOrder, OnTrial, Settled
<1>5. MarkedWhenGivenUp' /\ ChunksInOrder' /\ Honest'
  BY <1>1, <1>3 DEF RoutingInv, MarkedWhenGivenUp, ChunksInOrder, Honest, OnTrial, Settled
<1>6. QED
  BY <1>2, <1>4, <1>5 DEF RoutingInv

\* Calling the next target.
LEMMA TryNextKeeps == ASSUME RoutingInv, TryNext PROVE RoutingInv'
<1>1. /\ pc = "next" /\ pc' = "awaiting" /\ Len(attempt) < Len(targets)
      /\ attempt' = Append(attempt, NewAttempt) /\ queue' = <<>>
      /\ UNCHANGED <<streaming, targets, failed, trace, received, connected, outcome>>
  BY DEF TryNext, MoreTargets
<1>2. NewAttempt \in Call /\ NewAttempt.sent = 0 /\ NewAttempt.state = "running"
      /\ NewAttempt.abandoned = FALSE /\ NewAttempt.cut = FALSE
  BY RoutingAssumption DEF NewAttempt, Call
<1>3. PICK n \in Nat : n = Len(attempt) /\ n = Len(failed) /\ DOMAIN attempt = 1 .. n
  BY <1>1, Lengths DEF RoutingInv, InOrder, OnTrial, Settled
<1>4. /\ attempt' \in Seq(Call) /\ Len(attempt') = n + 1 /\ DOMAIN attempt' = 1 .. n + 1
      /\ attempt'[n + 1] = NewAttempt
      /\ \A i \in DOMAIN attempt : attempt'[i] = attempt[i]
  <2>1. attempt \in Seq(Call)
    BY DEF RoutingInv, RoutingTypeOK, Call
  <2>2. QED
    BY <1>1, <1>2, <1>3, <2>1, AppendProperties, LenProperties
<1>5. RoutingTypeOK'
  <2>1. <<>> \in Seq(1 .. MaxChunks)
    BY EmptySeq
  <2>2. QED
    BY <1>1, <1>4, <2>1, TypesAfter DEF RoutingInv, RoutingTypeOK
<1>6. outcome = "none" /\ received = <<>>
  BY <1>1 DEF RoutingInv, InOrder, ChunksInOrder
<1>7. InOrder'
  <2>1. PICK t \in Nat : t = Len(targets) /\ n < t
    BY <1>1, <1>3, Lengths DEF RoutingInv
  <2>2. n + 1 <= t /\ n + 1 > 0 /\ n = n + 1 - 1
    BY <2>1
  <2>3. QED
    BY <1>1, <1>3, <1>4, <1>6, <2>1, <2>2 DEF RoutingInv, InOrder, OnTrial, Settled
<1>8. MarkedWhenGivenUp'
  <2>1. ASSUME NEW i \in DOMAIN attempt PROVE MarkedWhenGivenUp!2!(i)'
    BY <1>1, <1>3, <1>4 DEF RoutingInv, MarkedWhenGivenUp, OnTrial, Running
  <2>2. MarkedWhenGivenUp!2!(n + 1)'
    BY <1>1, <1>2, <1>3, <1>4 DEF OnTrial, Running
  <2>3. \A i \in DOMAIN attempt' : i \in DOMAIN attempt \/ i = n + 1
    BY <1>3, <1>4
  <2>4. QED
    BY <1>2, <1>4, <2>1, <2>2, <2>3 DEF MarkedWhenGivenUp
<1>9. ChunksInOrder'
  <2>1. Len(<<>>) = 0 /\ DOMAIN <<>> = {}
    BY EmptySeq
  <2>2. QED
    BY <1>1, <1>2, <1>4, <1>6, <2>1 DEF RoutingInv, ChunksInOrder
<1>10. Honest'
  BY <1>1, <1>6 DEF Honest
<1>11. QED
  BY <1>5, <1>7, <1>8, <1>9, <1>10 DEF RoutingInv

\* All targets of the rule were given up.
LEMMA ExhaustedKeeps == ASSUME RoutingInv, Exhausted PROVE RoutingInv'
<1>1. /\ pc = "next" /\ pc' = "done" /\ ~(Len(attempt) < Len(targets)) /\ outcome' = "exhausted"
      /\ UNCHANGED <<streaming, targets, attempt, queue, failed, trace, received, connected>>
  BY DEF Exhausted, MoreTargets
<1>2. RoutingTypeOK'
  BY <1>1, TypesAfter DEF RoutingInv, RoutingTypeOK, Call
<1>3. Len(attempt) = Len(targets) /\ outcome = "none" /\ received = <<>>
  <2>1. PICK n \in Nat, t \in Nat : n = Len(attempt) /\ t = Len(targets) /\ n <= t
    BY Lengths DEF RoutingInv, InOrder
  <2>2. QED
    BY <1>1, <2>1 DEF RoutingInv, InOrder, ChunksInOrder
<1>4. InOrder'
  BY <1>1, <1>3 DEF RoutingInv, InOrder, OnTrial, Settled
<1>5. MarkedWhenGivenUp' /\ ChunksInOrder' /\ Honest'
  BY <1>1, <1>3 DEF RoutingInv, MarkedWhenGivenUp, ChunksInOrder, Honest, OnTrial, Settled, Running
<1>6. QED
  BY <1>2, <1>4, <1>5 DEF RoutingInv

\* Giving up the last call marks it and changes nothing else of any.
LEMMA AbandonLast ==
  ASSUME RoutingInv, OnTrial, attempt' = [attempt EXCEPT ![Len(attempt)].abandoned = TRUE]
  PROVE  /\ attempt' \in Seq(Call) /\ Len(attempt') = Len(attempt) /\ DOMAIN attempt' = DOMAIN attempt
         /\ attempt'[Len(attempt)].abandoned
         /\ \A i \in DOMAIN attempt :
              /\ attempt[i].abandoned => attempt'[i].abandoned
              /\ attempt'[i].state = attempt[i].state /\ attempt'[i].cut = attempt[i].cut
              /\ attempt'[i].sent = attempt[i].sent
<1> DEFINE l == Len(attempt)
           c == [attempt[l] EXCEPT !.abandoned = TRUE]
<1>1. l \in DOMAIN attempt /\ attempt[l] \in Call /\ attempt \in Seq(Call)
  BY LastIsThere DEF RoutingInv, RoutingTypeOK, Call
<1>2. /\ c \in Call /\ c.abandoned /\ c.state = attempt[l].state /\ c.cut = attempt[l].cut
      /\ c.sent = attempt[l].sent
  BY <1>1 DEF Call
<1>3. attempt' = [attempt EXCEPT ![l] = c]
  BY <1>1
<1> HIDE DEF c, l
<1>4. /\ attempt' \in Seq(Call) /\ Len(attempt') = Len(attempt) /\ DOMAIN attempt' = DOMAIN attempt
      /\ attempt'[l] = c
      /\ \A j \in DOMAIN attempt \ {l} : attempt'[j] = attempt[j]
  BY <1>1, <1>2, <1>3, OneCall DEF RoutingInv
<1>5. QED
  BY <1>2, <1>4 DEF l

\* Giving up the target on trial.
LEMMA GiveUpKeeps == ASSUME RoutingInv, GiveUp PROVE RoutingInv'
<1>1. /\ pc = "awaiting" /\ pc' = "next" /\ OnTrial
      /\ attempt' = [attempt EXCEPT ![Len(attempt)].abandoned = TRUE]
      /\ failed' = Append(failed, Len(attempt))
      /\ UNCHANGED <<streaming, targets, queue, trace, received, connected, outcome>>
  BY DEF GiveUp, OnTrial
<1>2. PICK n \in Nat \ {0} : n = Len(attempt) /\ DOMAIN attempt = 1 .. n /\ Len(failed) = n - 1
  BY <1>1, LastPlace DEF RoutingInv
<1>3. /\ attempt' \in Seq(Call) /\ Len(attempt') = n /\ DOMAIN attempt' = DOMAIN attempt
      /\ attempt'[n].abandoned
      /\ \A i \in DOMAIN attempt :
           /\ attempt[i].abandoned => attempt'[i].abandoned
           /\ attempt'[i].state = attempt[i].state /\ attempt'[i].cut = attempt[i].cut
           /\ attempt'[i].sent = attempt[i].sent
  BY <1>1, <1>2, AbandonLast
<1>4. /\ failed' \in Seq(Nat) /\ Len(failed') = n /\ DOMAIN failed' = 1 .. n
      /\ failed'[n] = n
      /\ \A i \in 1 .. n - 1 : failed'[i] = i
  <2>1. failed \in Seq(Nat) /\ DOMAIN failed = 1 .. n - 1
    BY <1>2, Lengths DEF RoutingInv, RoutingTypeOK
  <2>2. QED
    BY <1>1, <1>2, <2>1, AppendProperties, LenProperties DEF RoutingInv, InOrder
<1>5. RoutingTypeOK'
  BY <1>1, <1>3, <1>4, TypesAfter DEF RoutingInv, RoutingTypeOK
<1>6. outcome = "none" /\ received = <<>>
  BY <1>1 DEF RoutingInv, InOrder, ChunksInOrder
<1>7. InOrder'
  <2>1. \A i \in DOMAIN failed' : failed'[i] = i
    BY <1>2, <1>4
  <2>2. QED
    BY <1>1, <1>2, <1>3, <1>4, <1>6, <2>1 DEF RoutingInv, InOrder, OnTrial, Settled
<1>8. MarkedWhenGivenUp'
  <2>1. \A i \in DOMAIN attempt : attempt'[i].abandoned
    <3>1. ASSUME NEW i \in DOMAIN attempt, i # n PROVE attempt'[i].abandoned
      <4>1. i <= n - 1
        BY <1>2, <3>1
      <4>2. QED
        BY <1>2, <1>3, <4>1 DEF RoutingInv, MarkedWhenGivenUp
    <3>2. QED
      BY <1>2, <1>3, <3>1
  <2>2. QED
    BY <1>1, <1>3, <2>1 DEF RoutingInv, MarkedWhenGivenUp, OnTrial, Running
<1>9. ChunksInOrder' /\ Honest'
  BY <1>1, <1>3, <1>6 DEF RoutingInv, ChunksInOrder, Honest, OnTrial, Settled
<1>10. QED
  BY <1>5, <1>7, <1>8, <1>9 DEF RoutingInv

\* The non-streaming call answered or failed for good.
LEMMA AnsweredKeeps == ASSUME RoutingInv, Answered PROVE RoutingInv'
<1>1. /\ pc = "awaiting" /\ pc' = "done" /\ OnTrial /\ ~streaming
      /\ UNCHANGED <<streaming, targets, attempt, queue, failed, connected>>
  BY DEF Answered, OnTrial
<1>2. PICK n \in Nat \ {0} : n = Len(attempt) /\ DOMAIN attempt = 1 .. n /\ Len(failed) = n - 1
  BY <1>1, LastPlace DEF RoutingInv
<1>3. /\ received = <<>> /\ outcome = "none"
      /\ \A i \in DOMAIN attempt : attempt[i].state = "ok" => attempt[i].sent = 1
  BY <1>1 DEF RoutingInv, InOrder, ChunksInOrder, MarkedWhenGivenUp
<1>4. CASE /\ attempt[n].state = "ok" /\ trace' = [backend |-> n, fallbacks |-> n - 1]
           /\ received' = <<<<n, 1>>>> /\ outcome' = "ok"
  <2>1. /\ received' \in Seq(Nat \X (1 .. MaxChunks)) /\ Len(received') = 1 /\ DOMAIN received' = {1}
        /\ received'[1] = <<n, 1>>
    <3>1. <<n, 1>> \in Nat \X (1 .. MaxChunks)
      BY RoutingAssumption
    <3>2. QED
      BY <1>4, <3>1
  <2>2. RoutingTypeOK'
    BY <1>1, <1>2, <1>4, <2>1, TypesAfter DEF RoutingInv, RoutingTypeOK, Call
  <2>3. InOrder' /\ MarkedWhenGivenUp'
    BY <1>1, <1>2, <1>3, <1>4 DEF RoutingInv, InOrder, MarkedWhenGivenUp, OnTrial, Settled, Running
  <2>4. ChunksInOrder'
    BY <1>1, <1>2, <1>4, <2>1 DEF ChunksInOrder, OnTrial
  <2>5. Honest'
    BY <1>1, <1>2, <1>3, <1>4, <2>1 DEF Honest, OnTrial, Settled
  <2>6. QED
    BY <2>2, <2>3, <2>4, <2>5 DEF RoutingInv
<1>5. CASE attempt[n].state = "fatal" /\ trace' = trace /\ received' = received /\ outcome' = "error"
  <2>1. RoutingTypeOK'
    BY <1>1, <1>5, TypesAfter DEF RoutingInv, RoutingTypeOK, Call
  <2>2. InOrder' /\ MarkedWhenGivenUp'
    BY <1>1, <1>2, <1>3, <1>5 DEF RoutingInv, InOrder, MarkedWhenGivenUp, OnTrial, Settled, Running
  <2>3. ChunksInOrder' /\ Honest'
    BY <1>1, <1>3, <1>5 DEF RoutingInv, ChunksInOrder, Honest, OnTrial, Settled
  <2>4. QED
    BY <2>1, <2>2, <2>3 DEF RoutingInv
<1>6. QED
  BY <1>2, <1>4, <1>5 DEF Answered, Recorded

\* A chunk is passed on, or the client turns out to be gone.
LEMMA PassOnKeeps ==
  ASSUME RoutingInv, OnTrial, streaming, PassOn(Len(attempt)),
         UNCHANGED <<streaming, targets, failed, connected>>,
         trace' = [backend |-> Len(attempt), fallbacks |-> Len(failed)]
  PROVE  RoutingInv'
<1>1. PICK n \in Nat \ {0} : n = Len(attempt) /\ DOMAIN attempt = 1 .. n /\ Len(failed) = n - 1
  BY LastPlace DEF RoutingInv
<1>2. PICK h \in Nat, q \in Nat : h = Len(received) /\ q = Len(queue) /\ DOMAIN queue = 1 .. q
  BY Lengths DEF RoutingInv
<1>3. /\ queue \in Seq(1 .. MaxChunks) /\ queue # <<>> /\ queue' = Tail(queue)
      /\ attempt[n].sent = h + q /\ outcome = "none"
      /\ \A j \in 1 .. q : queue[j] = h + j
  BY <1>1, <1>2 DEF PassOn, RoutingInv, RoutingTypeOK, ChunksInOrder, InOrder, OnTrial
<1>4. /\ queue' \in Seq(1 .. MaxChunks) /\ Len(queue') = q - 1 /\ DOMAIN queue' = 1 .. q - 1
      /\ \A j \in 1 .. q - 1 : queue'[j] = h + j + 1
      /\ Head(queue) = h + 1 /\ h + 1 \in 1 .. MaxChunks /\ q > 0
  <2>1. q > 0
    BY <1>2, <1>3, EmptySeq
  <2>2. /\ Tail(queue) \in Seq(1 .. MaxChunks) /\ Len(Tail(queue)) = q - 1
        /\ \A j \in 1 .. q - 1 : Tail(queue)[j] = queue[j + 1]
    BY <1>2, <1>3, HeadTailProperties
  <2>3. \A j \in 1 .. q - 1 : j + 1 \in 1 .. q /\ h + (j + 1) = h + j + 1
    OBVIOUS
  <2>4. Head(queue) = queue[1] /\ queue[1] \in 1 .. MaxChunks /\ queue[1] = h + 1
    <3>1. 1 \in 1 .. q
      BY <2>1
    <3>2. queue[1] \in 1 .. MaxChunks
      BY <1>2, <1>3, <3>1, ElementOfSeq
    <3>3. QED
      BY <1>3, <3>1, <3>2
  <2>5. DOMAIN queue' = 1 .. q - 1
    BY <1>3, <2>2, LenProperties
  <2>6. QED
    BY <1>3, <2>1, <2>2, <2>3, <2>4, <2>5
<1>5. trace' \in [backend : Nat, fallbacks : Nat] /\ trace'.backend = n /\ trace'.fallbacks = n - 1
  BY <1>1
<1>6. CASE connected
  <2>1. /\ received' = Append(received, <<n, h + 1>>) /\ pc' = "relaying"
        /\ attempt' = attempt /\ outcome' = outcome
    BY <1>1, <1>4, <1>6 DEF PassOn
  <2>2. /\ received' \in Seq(Nat \X (1 .. MaxChunks)) /\ Len(received') = h + 1
        /\ DOMAIN received' = 1 .. h + 1
        /\ received'[h + 1] = <<n, h + 1>> /\ \A j \in 1 .. h : received'[j] = received[j]
    <3>1. PICK e \in Nat \X (1 .. MaxChunks) : e = <<n, h + 1>>
      BY <1>4
    <3>2. received \in Seq(Nat \X (1 .. MaxChunks)) /\ received' = Append(received, e)
      BY <2>1, <3>1 DEF RoutingInv, RoutingTypeOK
    <3>3. QED
      BY <1>2, <3>1, <3>2, AppendProperties, LenProperties
  <2>3. RoutingTypeOK'
    BY <1>4, <1>5, <2>1, <2>2, TypesAfter DEF RoutingInv, RoutingTypeOK, Call
  <2>4. InOrder' /\ MarkedWhenGivenUp'
    BY <1>3, <2>1 DEF RoutingInv, InOrder, MarkedWhenGivenUp, OnTrial, Settled, Running
  <2>5. ChunksInOrder'
    <3>1. attempt'[n].sent = (h + 1) + (q - 1)
      BY <1>3, <2>1
    <3>2. \A j \in DOMAIN queue' : queue'[j] = (h + 1) + j
      BY <1>4
    <3>3. ASSUME NEW j \in DOMAIN received' PROVE received'[j] = <<n, j>>
      <4>1. j \in 1 .. h \/ j = h + 1
        BY <2>2
      <4>2. \A i \in 1 .. h : received[i] = <<n, i>>
        BY <1>1, <1>2, Lengths DEF RoutingInv, ChunksInOrder
      <4>3. QED
        BY <2>2, <4>1, <4>2
    <3>4. QED
      BY <1>1, <1>3, <1>4, <2>1, <2>2, <3>1, <3>2, <3>3 DEF ChunksInOrder, OnTrial
  <2>6. Honest'
    BY <1>1, <1>3, <1>5, <2>1 DEF Honest, OnTrial
  <2>7. QED
    BY <2>3, <2>4, <2>5, <2>6 DEF RoutingInv
<1>7. CASE ~connected
  <2>1. /\ attempt' = [attempt EXCEPT ![Len(attempt)].abandoned = TRUE]
        /\ outcome' = "ok" /\ pc' = "done" /\ received' = received
    BY <1>7 DEF PassOn
  <2>2. /\ attempt' \in Seq(Call) /\ Len(attempt') = n /\ DOMAIN attempt' = DOMAIN attempt
        /\ attempt'[n].abandoned
        /\ \A i \in DOMAIN attempt :
             /\ attempt[i].abandoned => attempt'[i].abandoned
             /\ attempt'[i].state = attempt[i].state /\ attempt'[i].cut = attempt[i].cut
             /\ attempt'[i].sent = attempt[i].sent
    BY <1>1, <2>1, AbandonLast
  <2>3. RoutingTypeOK'
    BY <1>4, <1>5, <2>1, <2>2, TypesAfter DEF RoutingInv, RoutingTypeOK
  <2>4. InOrder'
    BY <1>1, <1>3, <2>1, <2>2 DEF RoutingInv, InOrder, OnTrial, Settled
  <2>5. \A i \in DOMAIN attempt : attempt'[i].abandoned
    <3>1. ASSUME NEW i \in DOMAIN attempt, i # n PROVE attempt'[i].abandoned
      <4>1. i <= n - 1
        BY <1>1, <3>1
      <4>2. QED
        BY <1>1, <2>2, <4>1 DEF RoutingInv, MarkedWhenGivenUp
    <3>2. QED
      BY <1>1, <2>2, <3>1
  <2>6. MarkedWhenGivenUp'
    BY <2>1, <2>2, <2>5 DEF RoutingInv, MarkedWhenGivenUp, OnTrial, Running
  <2>7. ChunksInOrder' /\ Honest'
    BY <1>1, <1>5, <1>7, <2>1, <2>2 DEF RoutingInv, ChunksInOrder, Honest, OnTrial, Settled
  <2>8. QED
    BY <2>3, <2>4, <2>6, <2>7 DEF RoutingInv
<1>8. QED
  BY <1>6, <1>7

\* The first chunk commits the router to its target.
LEMMA FirstChunkKeeps == ASSUME RoutingInv, FirstChunk PROVE RoutingInv'
  BY PassOnKeeps DEF FirstChunk, Recorded, OnTrial

\* The others follow.
LEMMA NextChunkKeeps == ASSUME RoutingInv, NextChunk PROVE RoutingInv'
<1>1. /\ OnTrial /\ streaming /\ PassOn(Len(attempt)) /\ trace' = trace
      /\ UNCHANGED <<streaming, targets, failed, connected>>
  BY DEF NextChunk, OnTrial, RoutingInv, ChunksInOrder, RoutingTypeOK
<1>2. trace = [backend |-> Len(attempt), fallbacks |-> Len(failed)]
  BY DEF NextChunk, RoutingInv, Honest, RoutingTypeOK
<1>3. QED
  BY <1>1, <1>2, PassOnKeeps

\* The channel is closed and empty.
LEMMA EndOfStreamKeeps == ASSUME RoutingInv, EndOfStream PROVE RoutingInv'
<1>1. /\ pc = "relaying" /\ pc' = "done" /\ OnTrial /\ queue = <<>> /\ ~Running(Len(attempt))
      /\ outcome' = (IF attempt[Len(attempt)].state = "ok" THEN "ok" ELSE "error")
      /\ UNCHANGED <<streaming, targets, attempt, queue, failed, trace, received, connected>>
  BY DEF EndOfStream, OnTrial
<1>2. PICK n \in Nat \ {0} : n = Len(attempt) /\ DOMAIN attempt = 1 .. n /\ Len(failed) = n - 1
  BY <1>1, LastPlace DEF RoutingInv
<1>a. PICK h \in Nat : h = Len(received)
  BY Lengths DEF RoutingInv
<1>3. attempt[n].sent = h
  <2>1. streaming /\ attempt[n].sent = Len(received) + Len(queue) /\ Len(queue) = 0
    BY <1>1, <1>2, EmptySeq DEF RoutingInv, ChunksInOrder, RoutingTypeOK
  <2>2. QED
    BY <1>a, <2>1
<1>4. RoutingTypeOK'
  BY <1>1, TypesAfter DEF RoutingInv, RoutingTypeOK, Call
<1>5. InOrder'
  BY <1>1, <1>2 DEF RoutingInv, InOrder, OnTrial, Settled
<1>6. MarkedWhenGivenUp'
  <2>1. \A i \in DOMAIN attempt : i # n => attempt[i].abandoned
    <3>1. ASSUME NEW i \in DOMAIN attempt, i # n PROVE attempt[i].abandoned
      <4>1. i <= n - 1
        BY <1>2, <3>1
      <4>2. QED
        BY <1>2, <4>1 DEF RoutingInv, MarkedWhenGivenUp
    <3>2. QED
      BY <3>1
  <2>2. QED
    BY <1>1, <1>2, <2>1 DEF RoutingInv, MarkedWhenGivenUp, OnTrial, Running
<1>7. ChunksInOrder' /\ Honest'
  BY <1>1, <1>2, <1>3, <1>a DEF RoutingInv, ChunksInOrder, Honest, OnTrial, Settled
<1>8. QED
  BY <1>4, <1>5, <1>6, <1>7 DEF RoutingInv

\* The client goes away.
LEMMA DisconnectKeeps == ASSUME RoutingInv, Disconnect PROVE RoutingInv'
<1>1. CASE streaming
  <2>1. /\ connected' = FALSE
        /\ UNCHANGED <<streaming, pc, targets, attempt, queue, failed, trace, received, outcome>>
    BY <1>1 DEF Disconnect
  <2>2. RoutingTypeOK'
    BY <2>1, TypesAfter DEF RoutingInv, RoutingTypeOK, Call
  <2>3. QED
    BY <2>1, <2>2 DEF RoutingInv, InOrder, MarkedWhenGivenUp, ChunksInOrder, Honest, OnTrial, Settled, Running
<1>2. CASE ~streaming
  <2>1. /\ pc = "awaiting" /\ pc' = "done" /\ OnTrial /\ outcome' = "dropped" /\ connected' = FALSE
        /\ attempt' = [attempt EXCEPT ![Len(attempt)].abandoned = TRUE]
        /\ UNCHANGED <<streaming, targets, queue, failed, trace, received>>
    BY <1>2 DEF Disconnect, OnTrial
  <2>2. PICK n \in Nat \ {0} : n = Len(attempt) /\ DOMAIN attempt = 1 .. n /\ Len(failed) = n - 1
    BY <2>1, LastPlace DEF RoutingInv
  <2>3. /\ attempt' \in Seq(Call) /\ Len(attempt') = n /\ DOMAIN attempt' = DOMAIN attempt
        /\ attempt'[n].abandoned
        /\ \A i \in DOMAIN attempt :
             /\ attempt[i].abandoned => attempt'[i].abandoned
             /\ attempt'[i].state = attempt[i].state /\ attempt'[i].cut = attempt[i].cut
             /\ attempt'[i].sent = attempt[i].sent
    BY <2>1, <2>2, AbandonLast
  <2>4. RoutingTypeOK'
    BY <2>1, <2>3, TypesAfter DEF RoutingInv, RoutingTypeOK
  <2>5. outcome = "none" /\ received = <<>>
    BY <2>1 DEF RoutingInv, InOrder, ChunksInOrder
  <2>6. InOrder'
    BY <2>1, <2>2, <2>3, <2>5 DEF RoutingInv, InOrder, OnTrial, Settled
  <2>7. \A i \in DOMAIN attempt : attempt'[i].abandoned
    <3>1. ASSUME NEW i \in DOMAIN attempt, i # n PROVE attempt'[i].abandoned
      <4>1. i <= n - 1
        BY <2>2, <3>1
      <4>2. QED
        BY <2>2, <2>3, <4>1 DEF RoutingInv, MarkedWhenGivenUp
    <3>2. QED
      BY <2>2, <2>3, <3>1
  <2>8. MarkedWhenGivenUp'
    BY <2>1, <2>3, <2>7 DEF RoutingInv, MarkedWhenGivenUp, OnTrial, Running
  <2>9. ChunksInOrder' /\ Honest'
    BY <1>2, <2>1, <2>3, <2>5 DEF RoutingInv, ChunksInOrder, Honest, OnTrial, Settled
  <2>10. QED
    BY <2>4, <2>6, <2>8, <2>9 DEF RoutingInv
<1>3. QED
  BY <1>1, <1>2
-----------------------------------------------------------------------------
\* At first no target is chosen.
LEMMA RoutingStart == RoutingInit => RoutingInv
<1> SUFFICES ASSUME RoutingInit PROVE RoutingInv
  OBVIOUS
<1>1. Len(<<>>) = 0 /\ DOMAIN <<>> = {} /\ \A S : <<>> \in Seq(S)
  BY EmptySeq
<1>2. QED
  BY <1>1 DEF RoutingInit, RoutingInv, RoutingTypeOK, InOrder, MarkedWhenGivenUp, ChunksInOrder, Honest,
    OnTrial, Settled

\* The invariant is inductive.
THEOREM RoutingInductive == RoutingSpec => []RoutingInv
<1>1. RoutingInit => RoutingInv
  BY RoutingStart
<1>2. RoutingInv /\ [RoutingNext]_routingVars => RoutingInv'
  <2> SUFFICES ASSUME RoutingInv, [RoutingNext]_routingVars PROVE RoutingInv'
    OBVIOUS
  <2>1. CASE UNCHANGED routingVars
    BY <2>1 DEF routingVars, router, RoutingInv, RoutingTypeOK, InOrder, MarkedWhenGivenUp, ChunksInOrder,
      Honest, OnTrial, Settled, Running
  <2>2. CASE RouterStep
    BY <2>2, SelectRuleKeeps, TryNextKeeps, ExhaustedKeeps, GiveUpKeeps, AnsweredKeeps, FirstChunkKeeps,
      NextChunkKeeps, EndOfStreamKeeps DEF RouterStep
  <2>3. CASE BackendSteps
    BY <2>3, BackendKeeps DEF BackendSteps
  <2>4. CASE Disconnect
    BY <2>4, DisconnectKeeps
  <2>5. QED
    BY <2>1, <2>2, <2>3, <2>4 DEF RoutingNext
<1>3. QED
  BY <1>1, <1>2, PTL DEF RoutingSpec

\* The variables keep their types.
THEOREM RoutingTypeCorrect == RoutingSpec => []RoutingTypeOK
  BY RoutingInductive, PTL DEF RoutingInv

\* The client hears one target, from the beginning and in order, and the trace
\* names it.
THEOREM ClientHearsOneVoice == RoutingSpec => []OneVoice
<1>1. RoutingInv => OneVoice
  <2> SUFFICES ASSUME RoutingInv PROVE OneVoice
    OBVIOUS
  <2>1. CASE received = <<>>
    BY <2>1, EmptySeq DEF OneVoice
  <2>2. CASE received # <<>>
    <3>1. OnTrial \/ Settled
      BY <2>2 DEF RoutingInv, Honest
    <3>2. PICK n \in Nat \ {0} : n = Len(attempt) /\ Len(failed) = n - 1
      BY <3>1, LastPlace DEF RoutingInv
    <3>3. QED
      BY <2>2, <3>2 DEF RoutingInv, Honest, ChunksInOrder, OneVoice
  <2>3. QED
    BY <2>1, <2>2
<1>2. QED
  BY <1>1, RoutingInductive, PTL

\* All backends failed only if each target of the rule was tried and given up.
THEOREM ExhaustedMeansAll == RoutingSpec => []ExhaustedAfterAll
<1>1. RoutingInv => ExhaustedAfterAll
  <2> SUFFICES ASSUME RoutingInv, outcome = "exhausted" PROVE ExhaustedAfterAll!2
    BY DEF ExhaustedAfterAll
  <2>1. ~OnTrial /\ ~Settled
    BY DEF RoutingInv, InOrder, OnTrial, Settled
  <2>2. PICK n \in Nat : /\ n = Len(attempt) /\ n = Len(failed) /\ n = Len(targets)
                         /\ DOMAIN failed = 1 .. n /\ DOMAIN attempt = 1 .. n /\ DOMAIN targets = 1 .. n
    BY <2>1, Lengths DEF RoutingInv, InOrder
  <2>3. failed = [i \in 1 .. n |-> i]
    <3>1. failed \in [1 .. n -> Nat]
      BY <2>2, LenProperties DEF RoutingInv, RoutingTypeOK
    <3>2. QED
      BY <2>2, <3>1 DEF RoutingInv, InOrder
  <2>4. \A i \in 1 .. n : attempt[i].abandoned
    BY <2>2 DEF RoutingInv, MarkedWhenGivenUp
  <2>5. received = <<>>
    BY DEF RoutingInv, ChunksInOrder
  <2>6. QED
    BY <2>2, <2>3, <2>4, <2>5
<1>2. QED
  BY <1>1, RoutingInductive, PTL

\* At most one call is live, and none is between targets or at the end.
THEOREM NeverTwoCalls == RoutingSpec => []OneLiveCall
<1>1. RoutingInv => OneLiveCall
  <2> SUFFICES ASSUME RoutingInv PROVE OneLiveCall
    OBVIOUS
  <2> DEFINE live == {i \in DOMAIN attempt : Running(i) /\ ~attempt[i].abandoned}
  <2>1. live \subseteq {Len(attempt)}
    BY OnlyTheLastLives DEF RoutingInv
  <2>2. Cardinality(live) <= 1
    <3>1. IsFiniteSet({Len(attempt)}) /\ Cardinality({Len(attempt)}) = 1
      BY FS_Singleton
    <3>2. QED
      BY <2>1, <3>1, FS_Subset
  <2>3. ~OnTrial => live = {}
    BY DEF RoutingInv, MarkedWhenGivenUp
  <2>4. pc \in {"next", "done"} => ~OnTrial
    BY DEF OnTrial
  <2>5. QED
    BY <2>2, <2>3, <2>4 DEF OneLiveCall
<1>2. QED
  BY <1>1, RoutingInductive, PTL

\* A connected client told of success has the whole answer, unless an upstream
\* cut it off and its adapter called that an end.
THEOREM SuccessIsComplete == RoutingSpec => []CompleteOrToldSo
<1>1. RoutingInv => CompleteOrToldSo
  <2> SUFFICES ASSUME RoutingInv, outcome = "ok", connected PROVE CompleteOrToldSo!2
    BY DEF CompleteOrToldSo
  <2>1. trace.backend = Len(attempt) /\ Settled
    BY DEF RoutingInv, Honest, Settled
  <2>2. Len(attempt) \in DOMAIN attempt
    BY <2>1, LastIsThere DEF RoutingInv
  <2>3. QED
    BY <2>1, <2>2 DEF RoutingInv, Honest, MarkedWhenGivenUp
<1>2. QED
  BY <1>1, RoutingInductive, PTL
=============================================================================
