---------------------------- MODULE Client_proofs ----------------------------
(***************************************************************************)
(* Whatever commands run at the same time, wherever they are interrupted   *)
(* and whatever the network does: what the endpoint file holds, what exit  *)
(* codes tell and what the cache shows, for any number of processes and    *)
(* tasks, any commands, files, time limits and TTL.                        *)
(***************************************************************************)
EXTENDS Client, WellFoundedInduction, SequenceTheorems, TLAPS

CallRec ==
  [verb : Verbs \cup {None}, reply : Answers \cup {None}, value : Nat, elapsed : Nat,
   todo : {<<>>, <<"gpus">>, <<"models", "gpus">>, <<"status", "models", "gpus">>}]

Types ==
  /\ cmd \in [Terminals -> Commands \cup {None}]
  /\ pc \in [Terminals -> {"start", "loaded", "writing", "asking", "declined", "over"}]
  /\ exit \in [Terminals -> {None} \cup 0 .. 5]
  /\ DOMAIN copy = Terminals
  /\ call \in [Callers -> CallRec]
  /\ stray \in [Callers -> Nat]
  /\ applied \in [Callers -> BOOLEAN]
  /\ version \in Nat
  /\ since \in [1 .. version -> 0 .. Oldest]
  /\ cache \in [Kinds -> {None} \cup [value : Nat, age : 0 .. TTL]]
  /\ floor \in Nat
  /\ racing \in [Kinds -> BOOLEAN]
  /\ left \in [Tasks -> Nat]

\* A terminal has a call while its command asks, and a code when it is over; what
\* is to be invalidated, a mutation of a task that succeeded.
InStep ==
  /\ \A p \in Terminals :
       /\ cmd[p] = None => pc[p] = "over"
       /\ cmd[p] # None /\ cmd[p].verb \in Edits => cmd[p].name # None
       /\ pc[p] = "asking" => cmd[p].verb \notin Edits /\ call[p].verb = cmd[p].verb
       /\ call[p].verb # None => pc[p] = "asking"
       /\ exit[p] # None => pc[p] \in {"declined", "over"}
       /\ call[p].todo = <<>>
  /\ \A t \in Tasks : call[t].verb \in {None} \cup Kinds \cup Mutations
  /\ \A t \in Tasks : call[t].todo # <<>> => call[t].verb \in Mutations /\ call[t].reply = "ok"

\* A file, or copy of it, in which the default is an entry.
Sound(f) ==
  /\ DOMAIN f = {"default", "entries"}
  /\ DOMAIN f.entries \subseteq Nat
  /\ f.default # None => f.default \in DOMAIN f.entries

\* Until a process was stopped while it wrote, the file and every copy have a sound
\* default; and while no two saves overlapped, the process that is writing is alone
\* and finds the file empty, and every copy is as a command left the file.
FileInv ==
  /\ \A p \in Terminals : pc[p] = "writing" =>
       /\ cmd[p].verb \in Edits
       /\ cmd[p].verb = "use" => cmd[p].name \in DOMAIN copy[p].entries
  /\ ~cut =>
       /\ file = Corrupt \/ Sound(file)
       /\ \A p \in Terminals : Sound(copy[p])
       /\ ~clash =>
            /\ file # Corrupt => WellFormed(file)
            /\ file = Corrupt => \A p \in Terminals : exit[p] = 0 => cmd[p].verb \notin Edits
            /\ \A p \in Terminals : WellFormed(copy[p])
            /\ \A p \in Terminals : pc[p] = "writing" => file = Blank
            /\ \A p, q \in Terminals : pc[p] = "writing" /\ pc[q] = "writing" => p = q

\* Until the answer of a load or unload is there it has no effect; then it has one if
\* and only if the answer is good; and only a call given up may have one later.
TruthInv ==
  \A p \in Terminals :
    /\ pc[p] # "over" => stray[p] = 0
    /\ pc[p] \in {"start", "loaded"} => ~applied[p]
    /\ pc[p] = "asking" /\ cmd[p].verb \in Effective => applied[p] = (call[p].reply = "ok")
    /\ pc[p] = "over" /\ exit[p] # None /\ cmd[p].verb \in Effective =>
         /\ exit[p] = 0 => applied[p]
         /\ exit[p] \in {2, 4, 5} => ~applied[p] /\ stray[p] = 0

\* Whether k is on the list.
On(k, list) == \E i \in DOMAIN list : list[i] = k

\* The tasks that have invalidated k for a mutation they have not returned from.
Passed(k) == {t \in Tasks : call[t].todo # <<>> /\ ~On(k, call[t].todo)}

\* Versions that no value of k may be behind.
Floors(k) == {floor} \cup {call[t].value : t \in Passed(k)}

\* Since k was last invalidated with no read of it under way, neither what is
\* cached nor what the server has answered is from before that.
SeenInv ==
  /\ floor <= version
  /\ \A q \in Callers : call[q].value <= version
  /\ \A k \in Kinds \ {"routes"} : ~racing[k] => \A n \in Floors(k) :
       /\ cache[k] # None => n <= cache[k].value
       /\ \A t \in Tasks : call[t].verb = k /\ call[t].reply = "ok" => n <= call[t].value

\* An answer is no older than its call, a cached value no older than the limit of
\* its call and the time it is cached.
AgeInv ==
  /\ \A k \in Kinds : cache[k] # None =>
       /\ cache[k].value <= version
       /\ cache[k].value < version => since[cache[k].value + 1] <= Timeout + cache[k].age
  /\ \A t \in Tasks : Waiting(t) => call[t].elapsed <= Timeout
  /\ \A t \in Tasks :
       call[t].verb \in Kinds /\ call[t].reply = "ok" /\ call[t].value < version =>
         since[call[t].value + 1] <= call[t].elapsed

ClientInv == Types /\ InStep /\ FileInv /\ TruthInv /\ SeenInv /\ AgeInv
-----------------------------------------------------------------------------

\* What the assumptions say, verb by verb and answer by answer.
LEMMA Given ==
  /\ None \notin Verbs /\ None \notin Answers /\ None # "ok" /\ None \notin Int
  /\ Edits \subseteq Verbs /\ Mutations \subseteq Verbs /\ Kinds \subseteq Verbs /\ None \notin Mutations /\ None \notin Kinds
  /\ Kinds \cap Mutations = {} /\ Effective \subseteq Mutations
  /\ TTL \in Nat /\ TTL > 0 /\ Timeout \in Nat /\ Oldest \in Nat /\ Oldest = Timeout + TTL
  /\ \A p \in Terminals, t \in Tasks : p # t
BY ClientAssumption DEF Oldest, Verbs, Answers, FileVerbs, Edits, Mutations, Effective, Kinds

\* Of two numbers Max is one that is no smaller, and Min one that is no greater.
LEMMA Greater ==
  ASSUME NEW a \in Int, NEW b \in Int
  PROVE  Max({a, b}) \in {a, b} /\ a <= Max({a, b}) /\ b <= Max({a, b})
<1>1. \E x \in {a, b} : \A y \in {a, b} : x >= y
  OBVIOUS
<1> QED
  BY <1>1 DEF Max

LEMMA Smaller ==
  ASSUME NEW a \in Int, NEW b \in Int
  PROVE  Min({a, b}) \in {a, b} /\ Min({a, b}) <= a /\ Min({a, b}) <= b
<1>1. \E x \in {a, b} : \A y \in {a, b} : x =< y
  OBVIOUS
<1> QED
  BY <1>1 DEF Min

\* A set of names that is not empty has a first one.
LEMMA FirstName ==
  ASSUME NEW S, S \subseteq Nat, S # {}
  PROVE  Min(S) \in S
<1> DEFINE R == {ss \in Nat \X Nat : ss[1] < ss[2]}
<1>1. OpToRel(<, Nat) = R
  BY Zenon DEF OpToRel
<1>2. IsWellFoundedOn(R, Nat)
  BY Zenon, <1>1, NatLessThanWellFounded
<1> HIDE DEF R
<1>3. PICK x \in S : \A y \in S : ~ (<<y, x>> \in R)
  BY <1>2, WFMin
<1>4. ASSUME NEW y \in S, y < x
      PROVE  <<y, x>> \in R
  <2>1. <<y, x>> \in Nat \X Nat /\ <<y, x>>[1] < <<y, x>>[2]
    BY <1>4
  <2> QED
    BY <2>1 DEF R
<1>5. ASSUME NEW y \in S
      PROVE  x =< y
  <2>1. ~(y < x)
    BY <1>3, <1>4
  <2> QED
    BY <2>1
<1> QED
  BY <1>5 DEF Min

-----------------------------------------------------------------------------
LEMMA BlankIsWellFormed == WellFormed(Blank) /\ Sound(Blank) /\ Blank # Corrupt
<1>1. DOMAIN Blank = {"default", "entries"} /\ DOMAIN Corrupt = {"garbled"}
  BY DEF Blank, Corrupt
<1>2. Blank.default = None /\ DOMAIN Blank.entries = {}
  BY DEF Blank
<1> QED
  BY <1>1, <1>2 DEF WellFormed, Sound

LEMMA CorruptIsNone == ASSUME NEW f, Sound(f) PROVE f # Corrupt
<1>1. DOMAIN Corrupt = {"garbled"}
  BY DEF Corrupt
<1> QED
  BY <1>1 DEF Sound

LEMMA ClientStarts == ClientInit => ClientInv
<1> SUFFICES ASSUME ClientInit PROVE ClientInv
  OBVIOUS
<1>1. PICK s \in Sessions :
        /\ EndpointsInit(s.cmds, s.file)
        /\ left = s.ops
        /\ call = [q \in Callers |-> NoCall]
        /\ stray = [q \in Callers |-> 0]
        /\ applied = [q \in Callers |-> FALSE]
        /\ version = 0
        /\ since = <<>>
        /\ cache = [k \in Kinds |-> None]
        /\ floor = 0
        /\ racing = [k \in Kinds |-> FALSE]
  BY DEF ClientInit
<1>2. /\ s.cmds \in [Terminals -> Commands \cup {None}]
      /\ \A p \in Terminals : s.cmds[p] # None /\ s.cmds[p].verb \in Edits => s.cmds[p].name # None
      /\ s.file = Corrupt \/ WellFormed(s.file)
      /\ s.ops \in [Tasks -> Nat]
  BY ClientAssumption
<1>3. /\ cmd = s.cmds /\ file = s.file /\ clash = FALSE
      /\ pc = [p \in Terminals |-> IF s.cmds[p] = None THEN "over" ELSE "start"]
      /\ exit = [p \in Terminals |-> None]
      /\ copy = [p \in Terminals |-> Blank]
  BY <1>1 DEF EndpointsInit
<1>4. NoCall \in CallRec /\ NoCall.verb = None /\ NoCall.reply = None /\ NoCall.todo = <<>> /\ NoCall.value = 0
  BY DEF NoCall, CallRec
<1>5. since \in [1 .. version -> 0 .. Oldest]
  BY <1>1
<1>6. Types
  BY <1>1, <1>2, <1>3, <1>4, <1>5, Given DEF Types
<1>7. InStep
  BY <1>1, <1>2, <1>3, <1>4, Given DEF InStep, Callers
<1>8. FileInv
  <2>1. file = Corrupt \/ Sound(file)
    BY <1>2, <1>3 DEF WellFormed, Sound
  <2> QED
    BY <2>1, <1>2, <1>3, Given, BlankIsWellFormed DEF FileInv
<1>9. TruthInv
  BY <1>1, <1>3, Given DEF TruthInv, Callers
<1>10. SeenInv
  <2>1. \A k \in Kinds : Passed(k) = {}
    BY <1>1, <1>4 DEF Passed, Callers
  <2> QED
    BY <2>1, <1>1, <1>4, Given DEF SeenInv, Floors, Callers, On
<1>11. AgeInv
  BY <1>1, <1>4, Given DEF AgeInv, Waiting, Callers
<1> QED
  BY <1>6, <1>7, <1>8, <1>9, <1>10, <1>11 DEF ClientInv

-----------------------------------------------------------------------------
(* Types, and calls and commands in step.                                  *)

\* A command exits: with any code if it makes no call then.
LEMMA ExitTypes ==
  ASSUME Types, NEW p \in Terminals, NEW code \in 0 .. 5, Exit(p, code)
  PROVE  /\ pc' \in [Terminals -> {"start", "loaded", "writing", "asking", "declined", "over"}]
         /\ exit' \in [Terminals -> {None} \cup 0 .. 5]
         /\ pc'[p] = "over" /\ exit'[p] = code
         /\ \A q \in Terminals : q # p => pc'[q] = pc[q] /\ exit'[q] = exit[q]
BY DEF Types, Exit, Goto

LEMMA FileStepBase ==
  ASSUME Types, InStep, NEW p \in Terminals, FileStep(p), UNCHANGED clientVars
  PROVE  Types' /\ InStep'
<1>1. /\ call' = call /\ stray' = stray /\ applied' = applied /\ version' = version /\ since' = since
      /\ cache' = cache /\ floor' = floor /\ racing' = racing /\ left' = left
  BY DEF clientVars
<1>2. /\ cmd' = cmd
      /\ pc' \in [Terminals -> {"start", "loaded", "writing", "asking", "declined", "over"}]
      /\ exit' \in [Terminals -> {None} \cup 0 .. 5]
      /\ DOMAIN copy' = Terminals
      /\ \A q \in Terminals :
           /\ pc'[q] = "asking" <=> pc[q] = "asking"
           /\ pc[q] = "over" => pc'[q] = "over"
           /\ exit'[q] # exit[q] => pc'[q] = "over"
           /\ pc[q] = "declined" => pc'[q] = "declined"
  <2>1. CASE LoadFile(p)
    <3>1. pc[p] = "start" /\ cmd' = cmd
      BY <2>1 DEF LoadFile
    <3>2. CASE Exit(p, 1) /\ copy' = copy
      BY <3>1, <3>2, ExitTypes DEF Types
    <3>3. CASE Goto(p, "loaded") /\ exit' = exit /\ DOMAIN copy' = DOMAIN copy
      BY <3>1, <3>3 DEF Types, Goto
    <3> QED
      BY <2>1, <3>2, <3>3 DEF LoadFile
  <2>2. CASE Report(p)
    <3>1. pc[p] = "loaded" /\ cmd' = cmd /\ copy' = copy
      BY <2>2 DEF Report
    <3>2. PICK code \in 0 .. 5 : Exit(p, code)
      BY <2>2 DEF Report
    <3> QED
      BY <3>1, <3>2, ExitTypes DEF Types
  <2>3. CASE Truncate(p)
    BY <2>3 DEF Types, Truncate, Goto
  <2>4. CASE Write(p)
    BY <2>4 DEF Types, Write, Exit, Goto
  <2>5. CASE Kill(p)
    <3>1. pc[p] \in {"loaded", "writing"} /\ cmd' = cmd /\ copy' = copy
      BY <2>5 DEF Kill
    <3>2. CASE Exit(p, 1)
      BY <3>1, <3>2, ExitTypes DEF Types
    <3>3. CASE Goto(p, "over") /\ exit' = exit
      BY <3>1, <3>3 DEF Types, Goto
    <3> QED
      BY <2>5, <3>2, <3>3 DEF Kill
  <2> QED
    BY <2>1, <2>2, <2>3, <2>4, <2>5 DEF FileStep
<1>3. Types'
  BY <1>1, <1>2 DEF Types
<1>4. InStep'
  BY <1>1, <1>2 DEF InStep
<1> QED
  BY <1>3, <1>4

LEMMA AskBase ==
  ASSUME Types, InStep, NEW p \in Terminals, Ask(p)
  PROVE  Types' /\ InStep'
<1>1. /\ cmd' = cmd /\ copy' = copy /\ stray' = stray /\ applied' = applied /\ version' = version
      /\ since' = since /\ cache' = cache /\ floor' = floor /\ racing' = racing /\ left' = left
      /\ pc[p] = "loaded" /\ cmd[p].verb \notin FileVerbs \ {"test"}
  BY DEF Ask, fileVars, serverVars, cacheVars
<1>2. cmd[p] # None /\ cmd[p].verb \in Verbs /\ cmd[p].verb \notin Edits
  BY <1>1 DEF Types, InStep, Commands, FileVerbs, Edits
<1>3. CASE Exit(p, 1) /\ call' = call
  <2>1. Types'
    BY <1>1, <1>3, ExitTypes DEF Types
  <2> QED
    BY <2>1, <1>1, <1>3, ExitTypes DEF InStep
<1>4. CASE Send(p, cmd[p].verb) /\ Goto(p, "asking") /\ exit' = exit
  <2> DEFINE c == [NoCall EXCEPT !.verb = cmd[p].verb]
  <2>1. c \in CallRec /\ c.verb = cmd[p].verb /\ c.todo = <<>>
    BY <1>2 DEF NoCall, CallRec
  <2>2. call' = [call EXCEPT ![p] = c]
    BY <1>4 DEF Send
  <2> HIDE DEF c
  <2>3. Types'
    BY <2>1, <2>2, <1>1, <1>4 DEF Types, Goto
  <2>4. InStep'
    BY <2>1, <2>2, <1>1, <1>2, <1>4, Given DEF InStep, Types, Callers, Goto
  <2> QED
    BY <2>3, <2>4
<1> QED
  BY <1>3, <1>4 DEF Ask

LEMMA DeclineBase ==
  ASSUME Types, InStep, NEW p \in Terminals, Decline(p)
  PROVE  Types' /\ InStep'
<1>1. /\ cmd' = cmd /\ copy' = copy /\ stray' = stray /\ applied' = applied /\ version' = version
      /\ since' = since /\ cache' = cache /\ floor' = floor /\ racing' = racing /\ left' = left
      /\ call' = call
      /\ pc[p] = "loaded" /\ pc' = [pc EXCEPT ![p] = "declined"] /\ exit' = [exit EXCEPT ![p] = 0]
  BY DEF Decline, fileVars, clientVars, Goto
<1>2. Types'
  BY <1>1 DEF Types
<1>3. InStep'
  BY <1>1 DEF InStep, Types
<1> QED
  BY <1>2, <1>3

\* What hanging up does to the calls.
LEMMA NoCallTypes == NoCall \in CallRec /\ NoCall.verb = None /\ NoCall.reply = None /\ NoCall.todo = <<>> /\ NoCall.value = 0
BY DEF NoCall, CallRec

LEMMA HearOkBase ==
  ASSUME Types, InStep, NEW p \in Terminals, HearOk(p)
  PROVE  Types' /\ InStep'
<1>1. /\ cmd' = cmd /\ copy' = copy /\ stray' = stray /\ applied' = applied /\ version' = version
      /\ since' = since /\ cache' = cache /\ floor' = floor /\ racing' = racing /\ left' = left
      /\ call' = [call EXCEPT ![p] = NoCall] /\ Exit(p, 0)
  BY DEF HearOk, fileVars, serverVars, cacheVars
<1>2. PICK code \in 0 .. 5 : Exit(p, code)
  BY <1>1
<1>3. Types'
  BY <1>1, <1>2, ExitTypes, NoCallTypes DEF Types
<1>4. InStep'
  BY <1>1, <1>2, ExitTypes, NoCallTypes DEF InStep, Types, Callers
<1> QED
  BY <1>3, <1>4

\* A call ends with an error, whichever it is.
LEMMA ExitCodes == ASSUME NEW verb, NEW error PROVE ExitCode(verb, error) \in 1 .. 5
BY DEF ExitCode

LEMMA EndBase ==
  ASSUME Types, InStep, NEW q \in Callers, NEW error, EndWith(q, error)
  PROVE  Types' /\ InStep'
<1>1. /\ cmd' = cmd /\ copy' = copy /\ applied' = applied /\ version' = version
      /\ since' = since /\ cache' = cache /\ floor' = floor /\ racing' = racing /\ left' = left
      /\ call' = [call EXCEPT ![q] = NoCall]
      /\ stray' \in [Callers -> Nat]
  BY DEF EndWith, HangUp, fileVars, cacheVars, Types
<1>2. CASE q \in Terminals
  <2>1. PICK code \in 0 .. 5 : Exit(q, code)
    BY <1>2, ExitCodes DEF EndWith
  <2>2. Types'
    BY <1>1, <1>2, <2>1, ExitTypes, NoCallTypes DEF Types
  <2>a. \A c \in Callers : call'[c] = IF c = q THEN NoCall ELSE call[c]
    BY <1>1 DEF Types
  <2>b. /\ pc'[q] = "over" /\ exit'[q] = code
        /\ \A p \in Terminals : p # q => pc'[p] = pc[p] /\ exit'[p] = exit[p]
    BY <1>2, <2>1, ExitTypes
  <2>3. InStep'
    BY <1>1, <2>a, <2>b, NoCallTypes DEF InStep, Callers
  <2> QED
    BY <2>2, <2>3
<1>3. CASE q \notin Terminals
  <2>1. pc' = pc /\ exit' = exit
    BY <1>3 DEF EndWith
  <2>2. Types'
    BY <1>1, <2>1, NoCallTypes DEF Types
  <2>3. InStep'
    BY <1>1, <1>3, <2>1, NoCallTypes DEF InStep, Types, Callers
  <2> QED
    BY <2>2, <2>3
<1> QED
  BY <1>2, <1>3

\* A mutation takes effect: one more version, replaced no time ago.
LEMMA ApplyTypes ==
  ASSUME Types, NEW q \in Callers, Apply(q)
  PROVE  /\ version' = version + 1 /\ version' \in Nat
         /\ since' \in [1 .. version' -> 0 .. Oldest]
         /\ \A v \in 1 .. version : since'[v] = since[v]
         /\ since'[version'] = 0
         /\ applied' = [applied EXCEPT ![q] = TRUE]
<1>1. version \in Nat /\ since \in [1 .. version -> 0 .. Oldest] /\ Oldest \in Nat
  BY Given DEF Types
<1>2. since \in Seq(0 .. Oldest) /\ Len(since) = version
  BY <1>1
<1>3. since' = Append(since, 0)
  BY DEF Apply
<1>4. /\ Len(since') = version + 1 /\ since' \in Seq(0 .. Oldest)
      /\ \A v \in 1 .. version : since'[v] = since[v]
      /\ since'[version + 1] = 0
  BY <1>1, <1>2, <1>3, AppendProperties
<1>5. since' \in [1 .. version + 1 -> 0 .. Oldest]
  BY <1>1, <1>4
<1> QED
  BY <1>1, <1>4, <1>5 DEF Apply

LEMMA ServeStrayBase ==
  ASSUME Types, InStep, NEW q \in Callers, ServeStray(q)
  PROVE  Types' /\ InStep'
<1>1. /\ cmd' = cmd /\ copy' = copy /\ pc' = pc /\ exit' = exit /\ call' = call
      /\ cache' = cache /\ floor' = floor /\ racing' = racing /\ left' = left
      /\ Apply(q) /\ stray[q] > 0 /\ stray' = [stray EXCEPT ![q] = @ - 1]
  BY DEF ServeStray, fileVars, cacheVars
<1>2. stray' \in [Callers -> Nat]
  BY <1>1 DEF Types
<1>3. Types'
  BY <1>1, <1>2, ApplyTypes DEF Types
<1>4. InStep'
  BY <1>1 DEF InStep
<1> QED
  BY <1>3, <1>4

\* What serving a request does: the answer, and the mutation if it is one and
\* the answer is good.
LEMMA ServeMeans ==
  ASSUME Types, NEW q \in Callers, Serve(q)
  PROVE  /\ Waiting(q) /\ call[q].reply = None
         /\ \E r \in Answers :
              /\ call' = [call EXCEPT ![q] = [call[q] EXCEPT !.reply = r, !.value = version']]
              /\ IF r = "ok" /\ call[q].verb \in Effective THEN Apply(q)
                 ELSE version' = version /\ since' = since /\ applied' = applied
         /\ version' \in Nat /\ version <= version'
         /\ since' \in [1 .. version' -> 0 .. Oldest]
         /\ cmd' = cmd /\ copy' = copy /\ file' = file /\ clash' = clash /\ cut' = cut /\ pc' = pc /\ exit' = exit /\ stray' = stray
         /\ cache' = cache /\ floor' = floor /\ racing' = racing /\ left' = left
<1>1. PICK r \in (IF Target(q).key = ServerKey THEN Replies(call[q].verb) ELSE {"unauthorized"}) :
        /\ IF r = "ok" /\ call[q].verb \in Effective THEN Apply(q) ELSE UNCHANGED <<version, since, applied>>
        /\ call' = [call EXCEPT ![q].reply = r, ![q].value = version']
  BY DEF Serve
<1>2. r \in Answers
  <2>1. Replies(call[q].verb) \subseteq Answers /\ "unauthorized" \in Answers
    BY DEF Replies, Answers
  <2> QED
    BY <1>1, <2>1
<1>3. call' = [call EXCEPT ![q] = [call[q] EXCEPT !.reply = r, !.value = version']]
  BY <1>1
<1>4. version' \in Nat /\ version <= version' /\ since' \in [1 .. version' -> 0 .. Oldest]
  BY <1>1, ApplyTypes DEF Types
<1> QED
  BY <1>1, <1>2, <1>3, <1>4 DEF Serve, fileVars, cacheVars

LEMMA ServeBase ==
  ASSUME Types, InStep, NEW q \in Callers, Serve(q)
  PROVE  Types' /\ InStep'
<1>1. PICK r \in Answers :
        /\ call' = [call EXCEPT ![q] = [call[q] EXCEPT !.reply = r, !.value = version']]
        /\ IF r = "ok" /\ call[q].verb \in Effective THEN Apply(q)
           ELSE version' = version /\ since' = since /\ applied' = applied
  BY ServeMeans
<1>2. PICK c \in CallRec : c = call[q]
  BY DEF Types
<1> DEFINE d == [c EXCEPT !.reply = r, !.value = version']
<1>3. version' \in Nat
  BY ServeMeans
<1>4. d \in CallRec /\ d.verb = c.verb /\ d.todo = c.todo /\ c.todo = <<>>
  BY <1>2, <1>3, ServeMeans DEF CallRec, Waiting
<1>5. call' = [call EXCEPT ![q] = d]
  BY <1>1, <1>2
<1> HIDE DEF d
<1>6. applied' \in [Callers -> BOOLEAN]
  BY <1>1, ApplyTypes DEF Types
<1>7. Types'
  BY <1>4, <1>5, <1>6, ServeMeans DEF Types
<1>8. /\ cmd' = cmd /\ pc' = pc /\ exit' = exit
      /\ \A p \in Callers : call'[p].verb = call[p].verb /\ call'[p].todo = call[p].todo
      /\ \A p \in Callers : call[p].todo # <<>> => call'[p] = call[p]
  BY <1>2, <1>4, <1>5, ServeMeans DEF Types
<1>9. InStep'
  BY <1>8 DEF InStep, Callers
<1> QED
  BY <1>7, <1>9
-----------------------------------------------------------------------------
\* A task asks: it had no call, has one of the verb now, and one less to make.
LEMMA SendTypes ==
  ASSUME Types, InStep, NEW t \in Tasks, NEW verb \in Kinds \cup Mutations,
         call[t].verb = None, Send(t, verb)
  PROVE  /\ call' \in [Callers -> CallRec]
         /\ \A q \in Callers : q # t => call'[q] = call[q]
         /\ call'[t].verb = verb /\ call'[t].reply = None /\ call'[t].todo = <<>>
         /\ call'[t].elapsed = 0 /\ call'[t].value = 0
<1> DEFINE c == [NoCall EXCEPT !.verb = verb]
<1> verb \in Verbs
  BY Given
<1>1. c \in CallRec /\ c.verb = verb /\ c.reply = None /\ c.todo = <<>> /\ c.elapsed = 0 /\ c.value = 0
  BY DEF NoCall, CallRec
<1>2. call' = [call EXCEPT ![t] = c]
  BY DEF Send
<1> HIDE DEF c
<1> QED
  BY <1>1, <1>2 DEF Types, Callers

LEMMA SpendTypes ==
  ASSUME Types, NEW t \in Tasks, left[t] > 0, Spend(t)
  PROVE  left' \in [Tasks -> Nat]
BY DEF Types, Spend

LEMMA AskingBase ==
  ASSUME Types, InStep, NEW t \in Tasks, NEW verb \in Kinds \cup Mutations,
         call[t].verb = None, Send(t, verb), left[t] > 0, Spend(t),
         UNCHANGED <<cmd, pc, exit, fileVars, serverVars, cache, floor, racing>>
  PROVE  Types' /\ InStep'
<1>1. /\ cmd' = cmd /\ copy' = copy /\ pc' = pc /\ exit' = exit /\ stray' = stray /\ applied' = applied
      /\ version' = version /\ since' = since /\ cache' = cache /\ floor' = floor /\ racing' = racing
  BY DEF fileVars, serverVars
<1>2. Types'
  BY <1>1, SendTypes, SpendTypes DEF Types
<1>3. InStep'
  BY <1>1, SendTypes, Given DEF InStep, Callers
<1> QED
  BY <1>2, <1>3

LEMMA ReadBase ==
  ASSUME Types, InStep, NEW t \in Tasks, NEW k \in Kinds, Read(t, k)
  PROVE  Types' /\ InStep'
<1>1. CASE Send(t, k)
  BY <1>1, AskingBase DEF Read
<1>2. CASE call' = call
  <2>1. /\ cmd' = cmd /\ copy' = copy /\ pc' = pc /\ exit' = exit /\ stray' = stray /\ applied' = applied
        /\ version' = version /\ since' = since /\ cache' = cache /\ floor' = floor /\ racing' = racing
        /\ left' \in [Tasks -> Nat]
    BY SpendTypes DEF Read, fileVars, serverVars
  <2>2. Types'
    BY <1>2, <2>1 DEF Types
  <2>3. InStep'
    BY <1>2, <2>1 DEF InStep
  <2> QED
    BY <2>2, <2>3
<1> QED
  BY <1>1, <1>2 DEF Read

LEMMA MutateBase ==
  ASSUME Types, InStep, NEW t \in Tasks, Mutate(t)
  PROVE  Types' /\ InStep'
<1>1. PICK verb \in Uses \cap Mutations : Send(t, verb)
  BY DEF Mutate
<1> QED
  BY <1>1, AskingBase DEF Mutate

\* A value is stored.
LEMMA StoreMeans ==
  ASSUME Types, NEW t \in Tasks, StoreValue(t)
  PROVE  /\ call[t].verb \in Kinds /\ call[t].reply = "ok" /\ call[t].value \in Nat
         /\ call' = [call EXCEPT ![t] = NoCall] /\ call' \in [Callers -> CallRec]
         /\ cache' = [cache EXCEPT ![call[t].verb] = [value |-> call[t].value, age |-> 0]]
         /\ cache' \in [Kinds -> {None} \cup [value : Nat, age : 0 .. TTL]]
         /\ cmd' = cmd /\ copy' = copy /\ file' = file /\ clash' = clash /\ cut' = cut /\ pc' = pc /\ exit' = exit /\ stray' = stray
         /\ applied' = applied /\ version' = version /\ since' = since
         /\ floor' = floor /\ racing' = racing /\ left' = left
<1>1. call[t] \in CallRec
  BY DEF Types, Callers
<1>2. call[t].value \in Nat
  BY <1>1 DEF CallRec
<1>3. [value |-> call[t].value, age |-> 0] \in [value : Nat, age : 0 .. TTL]
  BY <1>2, Given
<1>4. call[t].verb \in Kinds /\ call' = [call EXCEPT ![t] = NoCall]
      /\ cache' = [cache EXCEPT ![call[t].verb] = [value |-> call[t].value, age |-> 0]]
  BY DEF StoreValue
<1>5. cache' \in [Kinds -> {None} \cup [value : Nat, age : 0 .. TTL]]
  BY <1>3, <1>4 DEF Types
<1>6. call' \in [Callers -> CallRec]
  BY <1>4, NoCallTypes DEF Types
<1> QED
  BY <1>2, <1>4, <1>5, <1>6 DEF StoreValue, fileVars, serverVars

LEMMA StoreBase ==
  ASSUME Types, InStep, NEW t \in Tasks, StoreValue(t)
  PROVE  Types' /\ InStep'
<1>1. Types'
  BY StoreMeans DEF Types
<1>2. cmd' = cmd /\ pc' = pc /\ exit' = exit /\ call' = [call EXCEPT ![t] = NoCall]
  BY StoreMeans
<1>3. /\ call'[t].verb = None /\ call'[t].todo = <<>>
      /\ \A q \in Callers : q # t => call'[q] = call[q]
  BY <1>2, NoCallTypes DEF Types, Callers
<1>4. InStep'
  BY <1>2, <1>3, Given DEF InStep, Callers
<1> QED
  BY <1>1, <1>4

-----------------------------------------------------------------------------
\* What a successful mutation has to invalidate: every kind but the routes.
LEMMA SucceedMeans ==
  ASSUME Types, NEW t \in Tasks, Succeed(t)
  PROVE  /\ call[t].verb \in Mutations /\ call[t].reply = "ok" /\ call[t].todo = <<>>
         /\ call' \in [Callers -> CallRec]
         /\ \A q \in Callers : q # t => call'[q] = call[q]
         /\ call'[t].verb = call[t].verb /\ call'[t].reply = call[t].reply /\ call'[t].value = call[t].value
         /\ call'[t].todo = <<"status", "models", "gpus">>
         /\ cmd' = cmd /\ copy' = copy /\ file' = file /\ clash' = clash /\ cut' = cut /\ pc' = pc /\ exit' = exit /\ stray' = stray
         /\ applied' = applied /\ version' = version /\ since' = since
         /\ cache' = cache /\ floor' = floor /\ racing' = racing /\ left' = left
<1>1. PICK c \in CallRec : c = call[t]
  BY DEF Types, Callers
<1> DEFINE d == [c EXCEPT !.todo = <<"status", "models", "gpus">>]
<1>2. d \in CallRec /\ d.verb = c.verb /\ d.reply = c.reply /\ d.value = c.value
      /\ d.todo = <<"status", "models", "gpus">>
  BY DEF CallRec
<1>3. call' = [call EXCEPT ![t] = d]
  BY <1>1 DEF Succeed, Invalidated
<1> HIDE DEF d
<1>4. /\ call' \in [Callers -> CallRec] /\ call'[t] = d
      /\ \A q \in Callers : q # t => call'[q] = call[q]
  BY <1>2, <1>3 DEF Types, Callers
<1> QED
  BY <1>1, <1>2, <1>4 DEF Succeed, Waiting, fileVars, serverVars, cacheVars

LEMMA SucceedBase ==
  ASSUME Types, InStep, NEW t \in Tasks, Succeed(t)
  PROVE  Types' /\ InStep'
<1>1. Types'
  BY SucceedMeans DEF Types
<1>2. /\ cmd' = cmd /\ pc' = pc /\ exit' = exit
      /\ call'[t].verb = call[t].verb /\ call[t].verb \in Mutations /\ call'[t].reply = "ok"
      /\ \A q \in Callers : q # t => call'[q] = call[q]
  BY SucceedMeans
<1>3. InStep'
  BY <1>2, Given DEF InStep, Callers
<1> QED
  BY <1>1, <1>3

\* The kind that is first is on no list after it, all others stay on it, and the
\* last one is gpus.
LEMMA FirstOnTheList ==
  ASSUME NEW s \in {<<"gpus">>, <<"models", "gpus">>, <<"status", "models", "gpus">>}
  PROVE  /\ Head(s) \in Kinds \ {"routes"} /\ On(Head(s), s) /\ ~On(Head(s), Tail(s))
         /\ \A j \in Kinds \ {Head(s)} : On(j, Tail(s)) <=> On(j, s)
         /\ Tail(s) = <<>> => Head(s) = "gpus"
         /\ Tail(s) \in {<<>>, <<"gpus">>, <<"models", "gpus">>}
<1>1. CASE s = <<"gpus">>
  <2>1. Head(s) = "gpus" /\ Tail(s) = <<>>
    BY <1>1
  <2>2. \A j : ~On(j, <<>>)
    BY DEF On
  <2>3. \A j : On(j, s) <=> j = "gpus"
    BY <1>1 DEF On
  <2> QED
    BY <2>1, <2>2, <2>3 DEF Kinds
<1>2. CASE s = <<"models", "gpus">>
  <2>1. Head(s) = "models" /\ Tail(s) = <<"gpus">>
    BY <1>2
  <2>2. \A j : On(j, <<"gpus">>) <=> j = "gpus"
    BY DEF On
  <2>3. \A j : On(j, s) <=> j \in {"models", "gpus"}
    BY <1>2 DEF On
  <2>4. Tail(s) # <<>>
    BY <2>1
  <2>5. On("models", s) /\ ~On("models", Tail(s)) /\ "models" \in Kinds \ {"routes"}
    BY <2>1, <2>2, <2>3 DEF Kinds
  <2>6. \A j \in Kinds \ {"models"} : On(j, Tail(s)) <=> On(j, s)
    BY <2>1, <2>2, <2>3
  <2> QED
    BY <2>1, <2>4, <2>5, <2>6
<1>3. CASE s = <<"status", "models", "gpus">>
  <2>1. Head(s) = "status" /\ Tail(s) = <<"models", "gpus">>
    BY <1>3
  <2>2. \A j : On(j, <<"models", "gpus">>) <=> j \in {"models", "gpus"}
    BY DEF On
  <2>3. \A j : On(j, s) <=> j \in {"status", "models", "gpus"}
    BY <1>3 DEF On
  <2>4. Tail(s) # <<>>
    BY <2>1
  <2>5. On("status", s) /\ ~On("status", Tail(s)) /\ "status" \in Kinds \ {"routes"}
    BY <2>1, <2>2, <2>3 DEF Kinds
  <2>6. \A j \in Kinds \ {"status"} : On(j, Tail(s)) <=> On(j, s)
    BY <2>1, <2>2, <2>3
  <2> QED
    BY <2>1, <2>4, <2>5, <2>6
<1> QED
  BY <1>1, <1>2, <1>3

\* One kind is invalidated; the mutation returns with the last of them.
LEMMA InvalidateMeans ==
  ASSUME Types, NEW t \in Tasks, Invalidate(t)
  PROVE  LET k == Head(call[t].todo) IN
         /\ call[t].todo \in {<<"gpus">>, <<"models", "gpus">>, <<"status", "models", "gpus">>}
         /\ call[t].todo # <<>> /\ call[t].value \in Nat
         /\ cache' = [cache EXCEPT ![k] = None]
         /\ racing' = [racing EXCEPT ![k] = \E u \in Tasks : call[u].verb = k]
         /\ call' \in [Callers -> CallRec]
         /\ \A q \in Callers : q # t => call'[q] = call[q]
         /\ \/ /\ Tail(call[t].todo) = <<>>
               /\ call'[t] = NoCall
               /\ floor' \in {floor, call[t].value} /\ floor <= floor' /\ call[t].value <= floor'
            \/ /\ Tail(call[t].todo) # <<>>
               /\ call'[t].verb = call[t].verb /\ call'[t].reply = call[t].reply /\ call'[t].value = call[t].value
               /\ call'[t].todo = Tail(call[t].todo)
               /\ floor' = floor
         /\ cmd' = cmd /\ copy' = copy /\ file' = file /\ clash' = clash /\ cut' = cut /\ pc' = pc /\ exit' = exit /\ stray' = stray
         /\ applied' = applied /\ version' = version /\ since' = since /\ left' = left
<1>1. PICK c \in CallRec : c = call[t]
  BY DEF Types, Callers
<1>2. /\ c.todo # <<>>
      /\ cache' = [cache EXCEPT ![Head(c.todo)] = None]
      /\ racing' = [racing EXCEPT ![Head(c.todo)] = \E u \in Tasks : call[u].verb = Head(c.todo)]
      /\ IF Tail(c.todo) = <<>>
           THEN call' = [call EXCEPT ![t] = NoCall] /\ floor' = Max({floor, c.value})
           ELSE call' = [call EXCEPT ![t].todo = Tail(c.todo)] /\ floor' = floor
      /\ cmd' = cmd /\ copy' = copy /\ file' = file /\ clash' = clash /\ cut' = cut /\ pc' = pc /\ exit' = exit /\ stray' = stray
      /\ applied' = applied /\ version' = version /\ since' = since /\ left' = left
  BY <1>1 DEF Invalidate, fileVars, serverVars
<1>3. c.value \in Nat /\ c.todo \in {<<"gpus">>, <<"models", "gpus">>, <<"status", "models", "gpus">>}
  BY <1>2 DEF CallRec
<1>4. floor \in Nat /\ call \in [Callers -> CallRec] /\ t \in Callers
  BY DEF Types, Callers
<1>5. CASE Tail(c.todo) = <<>>
  <2>1. call' = [call EXCEPT ![t] = NoCall] /\ floor' = Max({floor, c.value})
    BY <1>2, <1>5
  <2>2. floor' \in {floor, c.value} /\ floor <= floor' /\ c.value <= floor'
    <3>1. floor \in Int /\ c.value \in Int
      BY <1>3, <1>4
    <3>2. Max({floor, c.value}) \in {floor, c.value} /\ floor <= Max({floor, c.value}) /\ c.value <= Max({floor, c.value})
      BY Zenon, <3>1, Greater
    <3> QED
      BY <2>1, <3>2
  <2>3. call' \in [Callers -> CallRec] /\ call'[t] = NoCall /\ \A q \in Callers : q # t => call'[q] = call[q]
    BY <2>1, <1>4, NoCallTypes
  <2> QED
    BY <1>1, <1>2, <1>3, <1>5, <2>2, <2>3
<1>6. CASE Tail(c.todo) # <<>>
  <2> DEFINE d == [c EXCEPT !.todo = Tail(c.todo)]
  <2>1. d \in CallRec /\ d.verb = c.verb /\ d.reply = c.reply /\ d.value = c.value /\ d.todo = Tail(c.todo)
    BY <1>3, FirstOnTheList DEF CallRec
  <2>2. call' = [call EXCEPT ![t] = d] /\ floor' = floor
    BY <1>1, <1>2, <1>6
  <2> HIDE DEF d
  <2>3. call' \in [Callers -> CallRec] /\ call'[t] = d /\ \A q \in Callers : q # t => call'[q] = call[q]
    BY <2>1, <2>2, <1>4
  <2> QED
    BY <1>1, <1>2, <1>3, <1>6, <2>1, <2>2, <2>3
<1> QED
  BY <1>5, <1>6

LEMMA InvalidateBase ==
  ASSUME Types, InStep, NEW t \in Tasks, Invalidate(t)
  PROVE  Types' /\ InStep'
<1> DEFINE k == Head(call[t].todo)
<1>1. k \in Kinds
  BY InvalidateMeans, FirstOnTheList
<1> HIDE DEF k
<1>2. /\ cache' = [cache EXCEPT ![k] = None]
      /\ racing' = [racing EXCEPT ![k] = \E u \in Tasks : call[u].verb = k]
      /\ floor' \in Nat
  BY InvalidateMeans DEF k, Types
<1>3. cache' \in [Kinds -> {None} \cup [value : Nat, age : 0 .. TTL]] /\ racing' \in [Kinds -> BOOLEAN]
  BY <1>1, <1>2 DEF Types
<1>4. Types'
  BY <1>2, <1>3, InvalidateMeans DEF Types
<1>5. /\ cmd' = cmd /\ pc' = pc /\ exit' = exit
      /\ \A q \in Callers : q # t => call'[q] = call[q]
      /\ \/ call'[t].verb = None /\ call'[t].todo = <<>>
         \/ call'[t].verb = call[t].verb /\ call'[t].reply = call[t].reply /\ call[t].todo # <<>>
  BY InvalidateMeans, NoCallTypes
<1>6. InStep'
  BY <1>5, Given DEF InStep, Callers
<1> QED
  BY <1>4, <1>6

\* Time passes: calls that wait grow older, and so do values, up to a cap.
LEMMA TickMeans ==
  ASSUME Types, Tick
  PROVE  /\ call' \in [Callers -> CallRec]
         /\ \A q \in Callers :
              /\ call'[q].verb = call[q].verb /\ call'[q].reply = call[q].reply
              /\ call'[q].value = call[q].value /\ call'[q].todo = call[q].todo
              /\ Waiting(q) => call[q].elapsed < Timeout /\ call'[q].elapsed = call[q].elapsed + 1
         /\ since' \in [1 .. version -> 0 .. Oldest]
         /\ \A v \in 1 .. version : since'[v] <= since[v] + 1
         /\ cache' \in [Kinds -> {None} \cup [value : Nat, age : 0 .. TTL]]
         /\ \A k \in Kinds :
              /\ cache'[k] # None => cache[k] # None /\ cache'[k].value = cache[k].value /\ cache[k].age \in 0 .. TTL
              /\ cache'[k] # None => cache'[k].age = cache[k].age + 1 \/ cache'[k].age = TTL
         /\ cmd' = cmd /\ copy' = copy /\ file' = file /\ clash' = clash /\ cut' = cut /\ pc' = pc /\ exit' = exit /\ stray' = stray
         /\ applied' = applied /\ version' = version /\ floor' = floor /\ racing' = racing /\ left' = left
<1>1. ASSUME NEW q \in Callers
      PROVE  /\ call'[q] \in CallRec
             /\ call'[q].verb = call[q].verb /\ call'[q].reply = call[q].reply
             /\ call'[q].value = call[q].value /\ call'[q].todo = call[q].todo
             /\ Waiting(q) => call[q].elapsed < Timeout /\ call'[q].elapsed = call[q].elapsed + 1
  <2>1. PICK c \in CallRec : c = call[q]
    BY DEF Types
  <2>2. /\ Waiting(q) => c.elapsed < Timeout
        /\ call'[q] = IF Waiting(q) THEN [c EXCEPT !.elapsed = c.elapsed + 1] ELSE c
    BY <2>1 DEF Tick
  <2> QED
    BY <2>1, <2>2 DEF CallRec
<1>2. call' \in [Callers -> CallRec]
  BY <1>1 DEF Tick
<1>3. ASSUME NEW v \in 1 .. version
      PROVE  v \in DOMAIN since /\ since'[v] \in 0 .. Oldest /\ since'[v] <= since[v] + 1
  <2>1. since[v] \in 0 .. Oldest /\ DOMAIN since = 1 .. version
    BY DEF Types
  <2>2. since'[v] = Min({since[v] + 1, Oldest})
    BY <2>1 DEF Tick
  <2>3. since[v] + 1 \in Int /\ Oldest \in Int
    BY <2>1, Given
  <2>4. /\ Min({since[v] + 1, Oldest}) \in {since[v] + 1, Oldest}
        /\ Min({since[v] + 1, Oldest}) <= since[v] + 1
        /\ Min({since[v] + 1, Oldest}) <= Oldest
    BY Zenon, <2>3, Smaller
  <2> QED
    BY <2>1, <2>2, <2>4, Given
<1>4. since' \in [1 .. version -> 0 .. Oldest]
  BY <1>3 DEF Tick, Types
<1>5. ASSUME NEW k \in Kinds
      PROVE  /\ cache'[k] \in {None} \cup [value : Nat, age : 0 .. TTL]
             /\ cache'[k] # None => cache[k] # None /\ cache'[k].value = cache[k].value /\ cache[k].age \in 0 .. TTL
             /\ cache'[k] # None => cache'[k].age = cache[k].age + 1 \/ cache'[k].age = TTL
  <2>1. CASE cache[k] = None
    BY <2>1 DEF Tick
  <2>2. CASE cache[k] # None
    <3>1. PICK c \in [value : Nat, age : 0 .. TTL] : c = cache[k]
      BY <2>2 DEF Types
    <3>2. cache'[k] = [c EXCEPT !.age = Min({c.age + 1, TTL})]
      BY <2>2, <3>1 DEF Tick
    <3>3. c.age + 1 \in Int /\ TTL \in Int
      BY Given
    <3>4. Min({c.age + 1, TTL}) \in {c.age + 1, TTL} /\ Min({c.age + 1, TTL}) <= TTL
      BY Zenon, <3>3, Smaller
    <3>5. Min({c.age + 1, TTL}) \in 0 .. TTL
      BY <3>4, Given
    <3> QED
      BY <3>1, <3>2, <3>4, <3>5, <2>2
  <2> QED
    BY <2>1, <2>2
<1>6. cache' \in [Kinds -> {None} \cup [value : Nat, age : 0 .. TTL]]
  BY <1>5 DEF Tick
<1> QED
  BY <1>1, <1>2, <1>3, <1>4, <1>5, <1>6 DEF Tick, fileVars

LEMMA TickBase ==
  ASSUME Types, InStep, Tick
  PROVE  Types' /\ InStep'
<1>1. Types'
  BY TickMeans DEF Types
<1>2. /\ cmd' = cmd /\ pc' = pc /\ exit' = exit
      /\ \A q \in Callers : call'[q].verb = call[q].verb /\ call'[q].reply = call[q].reply /\ call'[q].todo = call[q].todo
  BY TickMeans
<1>3. InStep'
  BY <1>2 DEF InStep, Callers
<1> QED
  BY <1>1, <1>3

-----------------------------------------------------------------------------
\* Where a step of a command or of a call leaves the other processes' phases.
LEMMA BaseStep ==
  ASSUME Types, InStep, [ClientNext]_vars
  PROVE  Types' /\ InStep'
<1>1. ASSUME NEW p \in Terminals, Command(p)
      PROVE  Types' /\ InStep'
  BY <1>1, FileStepBase, AskBase, DeclineBase, HearOkBase DEF Command
<1>2. ASSUME NEW t \in Tasks, Dashboard(t)
      PROVE  Types' /\ InStep'
  BY <1>2, ReadBase, StoreBase, MutateBase, SucceedBase, InvalidateBase DEF Dashboard
<1>3. ASSUME NEW q \in Callers, Http(q)
      PROVE  Types' /\ InStep'
  BY <1>3, ServeBase, ServeStrayBase, EndBase DEF Http, HearError, Lose, Expire
<1>4. CASE Tick
  BY <1>4, TickBase
<1>5. CASE UNCHANGED vars
  <2>1. Types'
    BY <1>5 DEF vars, Types
  <2>2. InStep'
    BY <1>5 DEF vars, InStep
  <2> QED
    BY <2>1, <2>2
<1> QED
  BY <1>1, <1>2, <1>3, <1>4, <1>5 DEF ClientNext
-----------------------------------------------------------------------------
(* The endpoint file.                                                      *)

\* Editing a file leaves the default one of its entries; and if it was as commands
\* leave a file, it is so again.
LEMMA AddedKeeps ==
  ASSUME NEW f, NEW n \in Nat, NEW e, Sound(f)
  PROVE  Sound(Added(f, n, e)) /\ (WellFormed(f) => WellFormed(Added(f, n, e)))
<1> DEFINE a == Added(f, n, e)
<1>1. DOMAIN a = {"default", "entries"} /\ a.default = IF f.default = None THEN n ELSE f.default
  BY DEF Added
<1>2. DOMAIN a.entries = {n} \cup DOMAIN f.entries
  BY DEF Added, Merged
<1> HIDE DEF a
<1>3. n # None
  BY Given
<1> QED
  BY <1>1, <1>2, <1>3 DEF a, Sound, WellFormed

LEMMA RemovedKeeps ==
  ASSUME NEW f, NEW n \in Nat, Sound(f)
  PROVE  Sound(Removed(f, n)) /\ (WellFormed(f) => WellFormed(Removed(f, n)))
<1> DEFINE rest == DOMAIN f.entries \ {n}
           r == Removed(f, n)
<1>1. DOMAIN r = {"default", "entries"} /\ DOMAIN r.entries = rest
  BY DEF Removed, Restrict
<1>2. r.default = CASE f.default # n -> f.default [] rest = {} -> None [] OTHER -> Min(rest)
  BY DEF Removed
<1>3. rest \subseteq Nat /\ (rest # {} => Min(rest) \in rest)
  BY FirstName DEF Sound
<1>4. n # None
  BY Given
<1>5. r.default # None => r.default \in rest
  <2>1. CASE f.default # n
    BY <1>2, <2>1 DEF Sound
  <2>2. CASE f.default = n /\ rest = {}
    BY <1>2, <2>2
  <2>3. CASE f.default = n /\ rest # {}
    BY <1>2, <1>3, <2>3
  <2> QED
    BY <2>1, <2>2, <2>3
<1>6. WellFormed(f) /\ r.default = None => rest = {}
  <2>1. CASE f.default # n
    BY <1>2, <2>1 DEF WellFormed
  <2>2. CASE f.default = n /\ rest = {}
    BY <2>2
  <2>3. CASE f.default = n /\ rest # {}
    BY <1>2, <1>3, <2>3, Given
  <2> QED
    BY <2>1, <2>2, <2>3
<1> HIDE DEF r, rest
<1> QED
  BY <1>1, <1>3, <1>5, <1>6 DEF r, Sound, WellFormed

LEMMA UsedKeeps ==
  ASSUME NEW f, NEW n \in DOMAIN f.entries, Sound(f)
  PROVE  LET u == [f EXCEPT !.default = n] IN Sound(u) /\ (WellFormed(f) => WellFormed(u))
<1> DEFINE u == [f EXCEPT !.default = n]
<1>1. DOMAIN u = {"default", "entries"} /\ u.default = n /\ u.entries = f.entries
  BY DEF Sound
<1>2. n \in Nat /\ n # None
  BY Given DEF Sound
<1> HIDE DEF u
<1>3. Sound(u) /\ (WellFormed(f) => WellFormed(u))
  BY <1>1, <1>2 DEF Sound, WellFormed
<1> QED
  BY <1>3 DEF u

LEMMA EditedKeeps ==
  ASSUME NEW c, NEW f, Sound(f), c.name \in Nat, c.verb \in Edits,
         c.verb = "use" => c.name \in DOMAIN f.entries
  PROVE  Sound(Edited(c, f)) /\ (WellFormed(f) => WellFormed(Edited(c, f)))
<1>1. CASE c.verb \in {"add", "login"}
  <2>1. Edited(c, f) = Added(f, c.name, c.entry)
    BY <1>1 DEF Edited
  <2> QED
    BY <2>1, AddedKeeps
<1>2. CASE c.verb = "remove"
  <2>1. Edited(c, f) = Removed(f, c.name)
    BY <1>2 DEF Edited
  <2> QED
    BY <2>1, RemovedKeeps
<1>3. CASE c.verb = "use"
  <2>1. Edited(c, f) = [f EXCEPT !.default = c.name]
    BY <1>3 DEF Edited
  <2> QED
    BY <1>3, <2>1, UsedKeeps
<1> QED
  BY <1>1, <1>2, <1>3 DEF Edits

\* A step that touches neither the file nor a copy, starts no saving and reports
\* no success of one.
LEMMA ElsewhereFile ==
  ASSUME FileInv, cmd' = cmd, copy' = copy, file' = file, clash' = clash, cut' = cut,
         \A p \in Terminals : pc'[p] = "writing" => pc[p] = "writing",
         \A p \in Terminals : exit'[p] = 0 => exit[p] = 0 \/ cmd[p].verb \notin Edits
  PROVE  FileInv'
BY DEF FileInv

LEMMA LoadFileKeepsFile ==
  ASSUME Types, InStep, FileInv, NEW p \in Terminals, LoadFile(p)
  PROVE  FileInv'
<1>1. pc[p] = "start" /\ cmd' = cmd /\ file' = file /\ clash' = clash /\ cut' = cut
  BY DEF LoadFile
<1>2. CASE Exit(p, 1) /\ copy' = copy
  BY <1>1, <1>2, ElsewhereFile DEF Types, Exit, Goto
<1>3. CASE /\ copy' = [copy EXCEPT ![p] = IF file = Corrupt THEN Blank ELSE file]
           /\ Goto(p, "loaded") /\ exit' = exit
  <2> DEFINE g == IF file = Corrupt THEN Blank ELSE file
  <2>1. ~cut => Sound(g) /\ (~clash => WellFormed(g))
    BY BlankIsWellFormed DEF FileInv
  <2>2. \A q \in Terminals : copy'[q] = IF q = p THEN g ELSE copy[q]
    BY <1>3 DEF Types
  <2>3. \A q \in Terminals : pc'[q] = IF q = p THEN "loaded" ELSE pc[q]
    BY <1>3 DEF Types, Goto
  <2> HIDE DEF g
  <2> QED
    BY <1>1, <1>3, <2>1, <2>2, <2>3 DEF FileInv
<1> QED
  BY <1>2, <1>3 DEF LoadFile

LEMMA TruncateKeepsFile ==
  ASSUME Types, InStep, FileInv, NEW p \in Terminals, Truncate(p)
  PROVE  FileInv'
<1>1. /\ cmd' = cmd /\ exit' = exit /\ copy' = copy /\ file' = Blank /\ cut' = cut
      /\ pc[p] = "loaded" /\ cmd[p].verb \in Edits
      /\ cmd[p].verb = "use" => cmd[p].name \in DOMAIN copy[p].entries
      /\ ~clash' => ~clash /\ \A q \in Terminals : pc[q] # "writing"
      /\ \A q \in Terminals : pc'[q] = IF q = p THEN "writing" ELSE pc[q]
  BY DEF Truncate, Goto, Types
<1> QED
  BY <1>1, BlankIsWellFormed DEF FileInv

LEMMA WriteKeepsFile ==
  ASSUME Types, InStep, FileInv, NEW p \in Terminals, Write(p)
  PROVE  FileInv'
<1> DEFINE mine == Edited(cmd[p], copy[p])
<1>1. /\ cmd' = cmd /\ copy' = copy /\ clash' = clash /\ cut' = cut /\ pc[p] = "writing"
      /\ \A q \in Terminals : pc'[q] = IF q = p THEN "over" ELSE pc[q]
      /\ \A q \in Terminals : exit'[q] = IF q = p THEN 0 ELSE exit[q]
  BY DEF Write, Exit, Goto, Types
<1>2. /\ cmd[p] # None /\ cmd[p].name \in Nat /\ cmd[p].verb \in Edits
      /\ cmd[p].verb = "use" => cmd[p].name \in DOMAIN copy[p].entries
  BY <1>1 DEF FileInv, InStep, Types, Commands
<1>a. CASE cut
  BY <1>1, <1>a DEF FileInv
<1>3. ~cut => Sound(mine) /\ (WellFormed(copy[p]) => WellFormed(mine)) /\ mine # Corrupt
  BY <1>2, EditedKeeps, CorruptIsNone DEF FileInv
<1>4. CASE ~cut /\ file' = mine
  BY <1>1, <1>3, <1>4 DEF FileInv
<1>5. CASE ~cut /\ file # Blank /\ file' = Corrupt
  <2>1. clash
    BY <1>1, <1>5 DEF FileInv
  <2> QED
    BY <1>1, <1>5, <2>1 DEF FileInv
<1>6. CASE ~cut /\ file \notin {Blank, Corrupt} /\ file' = [mine EXCEPT !.entries = Merged(@, file.entries)]
  <2>1. clash
    BY <1>1, <1>6 DEF FileInv
  <2> DEFINE e == Merged(mine.entries, file.entries)
             f == [mine EXCEPT !.entries = e]
  <2>2. DOMAIN e = DOMAIN mine.entries \cup DOMAIN file.entries
    BY DEF Merged
  <2>3. file' = f /\ DOMAIN f = {"default", "entries"} /\ f.default = mine.default /\ f.entries = e
    BY <1>3, <1>6 DEF Sound
  <2>4. Sound(file)
    BY <1>6 DEF FileInv
  <2> HIDE DEF e, f, mine
  <2>5. Sound(f)
    BY <1>3, <1>6, <2>2, <2>3, <2>4 DEF Sound
  <2> QED
    BY <1>1, <2>1, <2>3, <2>5 DEF FileInv
<1> QED
  BY <1>a, <1>4, <1>5, <1>6 DEF Write, Overwrite

LEMMA FileStepKeepsFile ==
  ASSUME Types, InStep, FileInv, NEW p \in Terminals, FileStep(p)
  PROVE  FileInv'
<1>1. CASE Report(p)
  BY <1>1, ElsewhereFile DEF Report, Exit, Goto, Types, Edits
<1>2. CASE Kill(p)
  <2>1. /\ cmd' = cmd /\ copy' = copy /\ clash' = clash
        /\ \A q \in Terminals : pc'[q] = "writing" => pc[q] = "writing"
        /\ \A q \in Terminals : exit'[q] = 0 => exit[q] = 0
    BY <1>2 DEF Kill, Exit, Goto, Types
  <2>2. CASE UNCHANGED <<file, cut>>
    BY <2>1, <2>2, ElsewhereFile
  <2>3. CASE cut' = TRUE
    BY <2>1, <2>3 DEF FileInv
  <2> QED
    BY <1>2, <2>2, <2>3 DEF Kill
<1> QED
  BY <1>1, <1>2, LoadFileKeepsFile, TruncateKeepsFile, WriteKeepsFile DEF FileStep

\* The other steps leave the file and the copies alone, start no saving and tell
\* no command that saves of a success.
Elsewhere ==
  /\ cmd' = cmd /\ copy' = copy /\ file' = file /\ clash' = clash /\ cut' = cut
  /\ \A p \in Terminals : pc'[p] = "writing" => pc[p] = "writing"
  /\ \A p \in Terminals : exit'[p] = 0 => exit[p] = 0 \/ cmd[p].verb \notin Edits

LEMMA CommandElsewhere ==
  ASSUME Types, InStep, NEW p \in Terminals, Ask(p) \/ Decline(p) \/ HearOk(p)
  PROVE  Elsewhere
<1>1. CASE Ask(p)
  <2>1. cmd' = cmd /\ copy' = copy /\ file' = file /\ clash' = clash /\ cut' = cut
    BY <1>1 DEF Ask, fileVars
  <2>2. CASE Exit(p, 1)
    BY <2>1, <2>2 DEF Elsewhere, Exit, Goto, Types
  <2>3. CASE Goto(p, "asking") /\ exit' = exit
    BY <2>1, <2>3 DEF Elsewhere, Goto, Types
  <2> QED
    BY <1>1, <2>2, <2>3 DEF Ask
<1>2. CASE Decline(p)
  BY <1>2 DEF Decline, fileVars, Elsewhere, Goto, Types, Edits
<1>3. CASE HearOk(p)
  <2>1. cmd' = cmd /\ copy' = copy /\ file' = file /\ clash' = clash /\ cut' = cut /\ Exit(p, 0) /\ call[p].verb # None
    BY <1>3 DEF HearOk, fileVars, Waiting
  <2>2. cmd[p].verb \notin Edits
    BY <2>1 DEF InStep
  <2> QED
    BY <2>1, <2>2 DEF Elsewhere, Exit, Goto, Types
<1> QED
  BY <1>1, <1>2, <1>3

LEMMA EndElsewhere ==
  ASSUME Types, InStep, NEW q \in Callers, NEW error, EndWith(q, error)
  PROVE  Elsewhere
<1>1. cmd' = cmd /\ copy' = copy /\ file' = file /\ clash' = clash /\ cut' = cut
  BY DEF EndWith, fileVars
<1>2. CASE q \in Terminals
  <2>1. PICK code \in 1 .. 5 : Exit(q, code)
    BY <1>2, ExitCodes DEF EndWith
  <2> QED
    BY <1>1, <1>2, <2>1 DEF Elsewhere, Exit, Goto, Types
<1>3. CASE q \notin Terminals
  BY <1>1, <1>3 DEF Elsewhere, EndWith
<1> QED
  BY <1>2, <1>3

LEMMA CalmElsewhere ==
  ASSUME cmd' = cmd, copy' = copy, file' = file, clash' = clash, cut' = cut, pc' = pc, exit' = exit
  PROVE  Elsewhere
BY DEF Elsewhere

LEMMA FileKept ==
  ASSUME Types, InStep, FileInv, [ClientNext]_vars
  PROVE  FileInv'
<1>1. ASSUME Elsewhere
      PROVE  FileInv'
  BY <1>1, ElsewhereFile DEF Elsewhere
<1>2. ASSUME NEW p \in Terminals, Command(p)
      PROVE  FileInv'
  BY <1>1, <1>2, FileStepKeepsFile, CommandElsewhere DEF Command
<1>3. ASSUME NEW t \in Tasks, Dashboard(t)
      PROVE  FileInv'
  <2>1. cmd' = cmd /\ copy' = copy /\ file' = file /\ clash' = clash /\ cut' = cut /\ pc' = pc /\ exit' = exit
    BY <1>3 DEF Dashboard, Read, StoreValue, Mutate, Succeed, Invalidate, fileVars
  <2> QED
    BY <1>1, <2>1, CalmElsewhere
<1>4. ASSUME NEW q \in Callers, Http(q)
      PROVE  FileInv'
  <2>1. CASE Serve(q) \/ ServeStray(q)
    <3>1. cmd' = cmd /\ copy' = copy /\ file' = file /\ clash' = clash /\ cut' = cut /\ pc' = pc /\ exit' = exit
      BY <2>1 DEF Serve, ServeStray, fileVars
    <3> QED
      BY <1>1, <3>1, CalmElsewhere
  <2>2. CASE HearError(q) \/ Lose(q) \/ Expire(q)
    BY <1>1, <2>2, EndElsewhere DEF HearError, Lose, Expire
  <2> QED
    BY <1>4, <2>1, <2>2 DEF Http
<1>5. CASE Tick
  BY <1>1, <1>5, CalmElsewhere DEF Tick, fileVars
<1>6. CASE UNCHANGED vars
  BY <1>1, <1>6, CalmElsewhere DEF vars
<1> QED
  BY <1>2, <1>3, <1>4, <1>5, <1>6 DEF ClientNext

-----------------------------------------------------------------------------
(* Exit codes.                                                             *)

\* What the exit code of one terminal tells.
Truth(p) ==
  /\ pc[p] # "over" => stray[p] = 0
  /\ pc[p] \in {"start", "loaded"} => ~applied[p]
  /\ pc[p] = "asking" /\ cmd[p].verb \in Effective => applied[p] = (call[p].reply = "ok")
  /\ pc[p] = "over" /\ exit[p] # None /\ cmd[p].verb \in Effective =>
       /\ exit[p] = 0 => applied[p]
       /\ exit[p] \in {2, 4, 5} => ~applied[p] /\ stray[p] = 0

LEMMA TruthOfEach == TruthInv <=> \A p \in Terminals : Truth(p)
BY DEF TruthInv, Truth

\* A terminal that a step does not concern.
LEMMA SameTruth ==
  ASSUME NEW p \in Terminals, Truth(p), cmd' = cmd, pc'[p] = pc[p], exit'[p] = exit[p],
         stray'[p] = stray[p], applied'[p] = applied[p], call'[p].reply = call[p].reply
  PROVE  Truth(p)'
BY DEF Truth

LEMMA FileStepTruth ==
  ASSUME Types, InStep, FileInv, NEW q \in Terminals, FileStep(q), UNCHANGED clientVars,
         NEW p \in Terminals, Truth(p)
  PROVE  Truth(p)'
<1>1. cmd' = cmd /\ call' = call /\ stray' = stray /\ applied' = applied
  BY DEF FileStep, LoadFile, Report, Truncate, Write, Kill, clientVars
<1>2. CASE p # q
  <2>1. pc'[p] = pc[p] /\ exit'[p] = exit[p]
    BY <1>2 DEF FileStep, LoadFile, Report, Truncate, Write, Kill, Exit, Goto, Types
  <2> QED
    BY <1>1, <2>1, SameTruth
<1>3. CASE p = q
  <2>1. pc[p] \in {"start", "loaded", "writing"} /\ exit[p] = None
    BY <1>3 DEF FileStep, LoadFile, Report, Truncate, Write, Kill, InStep
  <2>2. stray[p] = 0 /\ (pc[p] \in {"start", "loaded"} => ~applied[p])
    BY <2>1 DEF Truth
  <2>3. CASE LoadFile(q)
    <3>1. \/ pc'[p] = "over" /\ exit'[p] = 1
          \/ pc'[p] = "loaded" /\ exit'[p] = None /\ pc[p] = "start"
      BY <1>3, <2>1, <2>3 DEF LoadFile, Exit, Goto, Types
    <3> QED
      BY <1>1, <2>1, <2>2, <2>3, <3>1 DEF Truth, LoadFile
  <2>4. CASE Report(q)
    <3>1. pc'[p] = "over" /\ exit'[p] \in {0, 1} /\ cmd[p].verb \notin Effective
      BY <1>3, <2>4 DEF Report, Exit, Goto, Types, Effective
    <3> QED
      BY <1>1, <2>2, <3>1 DEF Truth
  <2>5. CASE Truncate(q)
    <3>1. pc'[p] = "writing"
      BY <1>3, <2>5 DEF Truncate, Goto, Types
    <3> QED
      BY <1>1, <2>2, <3>1 DEF Truth
  <2>6. CASE Write(q)
    <3>1. pc'[p] = "over" /\ exit'[p] = 0
      BY <1>3, <2>6 DEF Write, Exit, Goto, Types
    <3>2. cmd[p].verb \notin Effective
      BY <1>3, <2>6 DEF Write, FileInv, Edits, Effective
    <3> QED
      BY <1>1, <3>1, <3>2 DEF Truth
  <2>7. CASE Kill(q)
    <3>1. pc'[p] = "over" /\ (exit'[p] = None \/ exit'[p] = 1)
      BY <1>3, <2>1, <2>7 DEF Kill, Exit, Goto, Types
    <3> QED
      BY <1>1, <2>2, <3>1 DEF Truth
  <2> QED
    BY <2>3, <2>4, <2>5, <2>6, <2>7 DEF FileStep
<1> QED
  BY <1>2, <1>3

LEMMA CommandTruth ==
  ASSUME Types, InStep, NEW q \in Terminals, Ask(q) \/ Decline(q) \/ HearOk(q),
         NEW p \in Terminals, Truth(p)
  PROVE  Truth(p)'
<1> q \in Callers /\ p \in Callers
  BY DEF Callers
<1>1. cmd' = cmd /\ stray' = stray /\ applied' = applied
  BY DEF Ask, Decline, HearOk, serverVars, clientVars
<1>2. CASE p # q
  <2>1. pc'[p] = pc[p] /\ exit'[p] = exit[p] /\ call'[p] = call[p]
    BY <1>2 DEF Ask, Decline, HearOk, clientVars, Exit, Goto, Send, Types
  <2> QED
    BY <1>1, <2>1, SameTruth
<1>3. CASE p = q /\ Ask(q)
  <2>1. pc[p] = "loaded" /\ stray[p] = 0 /\ ~applied[p]
    BY <1>3 DEF Ask, Truth
  <2>2. CASE Exit(q, 1)
    <3>1. pc'[p] = "over" /\ exit'[p] = 1
      BY <1>3, <2>2 DEF Exit, Goto, Types
    <3> QED
      BY <1>1, <2>1, <3>1 DEF Truth
  <2>3. CASE Send(q, cmd[q].verb) /\ Goto(q, "asking")
    <3>1. pc'[p] = "asking" /\ call'[p].reply = None
      BY <1>3, <2>3 DEF Send, Goto, Types, NoCall
    <3> QED
      BY <1>1, <2>1, <3>1, Given DEF Truth, Types
  <2> QED
    BY <1>3, <2>2, <2>3 DEF Ask
<1>4. CASE p = q /\ Decline(q)
  <2>1. pc[p] = "loaded" /\ pc'[p] = "declined"
    BY <1>4 DEF Decline, Goto, Types
  <2> QED
    BY <1>1, <2>1 DEF Truth
<1>5. CASE p = q /\ HearOk(q)
  <2>1. Waiting(p) /\ call[p].reply = "ok" /\ pc'[p] = "over" /\ exit'[p] = 0
    BY <1>5 DEF HearOk, Exit, Goto, Types
  <2>2. pc[p] = "asking"
    BY <2>1 DEF Waiting, InStep
  <2> QED
    BY <1>1, <2>1, <2>2 DEF Truth, Types
<1> QED
  BY <1>2, <1>3, <1>4, <1>5

LEMMA ServeTruth ==
  ASSUME Types, InStep, NEW q \in Callers, Serve(q), NEW p \in Terminals, Truth(p)
  PROVE  Truth(p)'
<1> p \in Callers
  BY DEF Callers
<1>1. cmd' = cmd /\ pc' = pc /\ exit' = exit /\ stray' = stray /\ Waiting(q) /\ call[q].reply = None
  BY ServeMeans
<1>2. PICK r \in Answers :
        /\ call' = [call EXCEPT ![q] = [call[q] EXCEPT !.reply = r, !.value = version']]
        /\ IF r = "ok" /\ call[q].verb \in Effective THEN Apply(q)
           ELSE version' = version /\ since' = since /\ applied' = applied
  BY ServeMeans
<1>3. CASE p # q
  <2>1. call'[p] = call[p] /\ applied'[p] = applied[p]
    BY <1>2, <1>3 DEF Types, Apply
  <2> QED
    BY <1>1, <2>1, SameTruth
<1>4. CASE p = q
  <2>1. PICK c \in CallRec : c = call[q]
    BY DEF Types
  <2>2. call'[p].reply = r
    BY <1>2, <1>4, <2>1 DEF Types, CallRec
  <2>3. pc[p] = "asking" /\ call[p].verb = cmd[p].verb
    BY <1>1, <1>4 DEF Waiting, InStep
  <2>4. CASE cmd[p].verb \in Effective
    <3>1. applied[p] = FALSE
      BY <1>1, <1>4, <2>3, <2>4, Given DEF Truth, Types
    <3>2. applied'[p] = (r = "ok")
      <4>1. CASE r = "ok"
        BY <1>2, <1>4, <2>3, <2>4, <4>1 DEF Apply, Types
      <4>2. CASE r # "ok"
        BY <1>2, <3>1, <4>2
      <4> QED
        BY <4>1, <4>2
    <3> QED
      BY <1>1, <2>2, <2>3, <3>2 DEF Truth
  <2>5. CASE cmd[p].verb \notin Effective
    BY <1>1, <2>3, <2>5 DEF Truth
  <2> QED
    BY <2>4, <2>5
<1> QED
  BY <1>3, <1>4

LEMMA ServeStrayTruth ==
  ASSUME Types, NEW q \in Callers, ServeStray(q), NEW p \in Terminals, Truth(p)
  PROVE  Truth(p)'
<1> p \in Callers
  BY DEF Callers
<1>1. /\ cmd' = cmd /\ pc' = pc /\ exit' = exit /\ call' = call /\ stray[q] > 0
      /\ stray' = [stray EXCEPT ![q] = @ - 1] /\ applied' = [applied EXCEPT ![q] = TRUE]
  BY DEF ServeStray, Apply
<1>2. CASE p # q
  <2>1. stray'[p] = stray[p] /\ applied'[p] = applied[p]
    BY <1>1, <1>2 DEF Types
  <2> QED
    BY <1>1, <2>1, SameTruth
<1>3. CASE p = q
  <2>1. stray[p] # 0 /\ applied'[p] = TRUE
    BY <1>1, <1>3 DEF Types
  <2> QED
    BY <1>1, <2>1 DEF Truth
<1> QED
  BY <1>2, <1>3

\* A call of a mutation ends with an error other than its answer's only while there
\* is no answer, and then its code leaves open what became of it.
LEMMA CodesOfSilence ==
  ASSUME NEW verb \in Mutations, NEW error \in {"Unreachable", "Timeout"}
  PROVE  ExitCode(verb, error) \in {1, 3}
BY DEF ExitCode, Mutations

LEMMA EndTruth ==
  ASSUME Types, InStep, NEW q \in Callers, HearError(q) \/ Lose(q) \/ Expire(q),
         NEW p \in Terminals, Truth(p)
  PROVE  Truth(p)'
<1> p \in Callers
  BY DEF Callers
<1>1. PICK error : EndWith(q, error) /\ Waiting(q)
        /\ \/ call[q].reply \notin {None, "ok"}
           \/ call[q].reply = None /\ error \in {"Unreachable", "Timeout"}
           \/ call[q].verb \notin Mutations
  BY DEF HearError, Lose, Expire
<1>2. /\ cmd' = cmd /\ applied' = applied /\ call' = [call EXCEPT ![q] = NoCall]
      /\ stray' = IF call[q].verb \in Effective /\ call[q].reply = None /\ Target(q).url = Here
                     /\ Target(q).key = ServerKey
                  THEN [stray EXCEPT ![q] = @ + 1] ELSE stray
      /\ IF q \in Terminals THEN Exit(q, ExitCode(call[q].verb, error)) ELSE UNCHANGED <<pc, exit>>
  BY <1>1 DEF EndWith, HangUp
<1>3. CASE p # q
  <2>1. stray'[p] = stray[p] /\ call'[p] = call[p] /\ pc'[p] = pc[p] /\ exit'[p] = exit[p]
    BY <1>2, <1>3 DEF Types, Exit, Goto
  <2> QED
    BY <1>2, <2>1, SameTruth
<1>4. CASE p = q
  <2>1. pc[p] = "asking" /\ call[p].verb = cmd[p].verb
    BY <1>1, <1>4 DEF Waiting, InStep
  <2>2. pc'[p] = "over" /\ exit'[p] = ExitCode(cmd[p].verb, error) /\ exit'[p] \in 1 .. 5
    BY <1>2, <1>4, <2>1, ExitCodes DEF Types, Exit, Goto
  <2>3. CASE cmd[p].verb \notin Effective
    BY <1>2, <2>2, <2>3 DEF Truth
  <2>4. CASE cmd[p].verb \in Effective /\ call[q].reply = None
    <3>1. exit'[p] \in {1, 3}
      BY <1>1, <1>4, <2>1, <2>2, <2>4, CodesOfSilence, Given
    <3> QED
      BY <1>2, <2>2, <3>1 DEF Truth
  <2>5. CASE cmd[p].verb \in Effective /\ call[q].reply \notin {None, "ok"}
    <3>1. stray'[p] = stray[p] /\ stray[p] = 0 /\ applied[p] = FALSE
      BY <1>2, <1>4, <2>1, <2>5 DEF Truth, Types
    <3> QED
      BY <1>2, <2>2, <3>1 DEF Truth
  <2> QED
    BY <1>1, <1>4, <2>1, <2>3, <2>4, <2>5, Given
<1> QED
  BY <1>3, <1>4

LEMMA TruthKept ==
  ASSUME Types, InStep, FileInv, TruthInv, [ClientNext]_vars
  PROVE  TruthInv'
<1> SUFFICES ASSUME NEW p \in Terminals
             PROVE  Truth(p)'
  BY DEF TruthInv, Truth
<1>1. Truth(p) /\ p \in Callers
  BY TruthOfEach DEF Callers
<1>2. ASSUME NEW q \in Terminals, Command(q)
      PROVE  Truth(p)'
  BY <1>1, <1>2, FileStepTruth, CommandTruth DEF Command
<1>3. ASSUME NEW t \in Tasks, Dashboard(t)
      PROVE  Truth(p)'
  <2>1. cmd' = cmd /\ pc' = pc /\ exit' = exit /\ stray' = stray /\ applied' = applied
    BY <1>3 DEF Dashboard, Read, StoreValue, Mutate, Succeed, Invalidate, serverVars
  <2>2. call'[p] = call[p]
    <3>1. p # t
      BY Given
    <3>2. CASE (\E k \in Uses \cap Kinds : Read(t, k)) \/ Mutate(t)
      BY <1>1, <3>1, <3>2 DEF Read, Mutate, Send, Types
    <3>3. CASE StoreValue(t)
      BY <1>1, <3>1, <3>3 DEF StoreValue, Types
    <3>4. CASE Succeed(t)
      BY <1>1, <3>1, <3>4, SucceedMeans
    <3>5. CASE Invalidate(t)
      BY <1>1, <3>1, <3>5, InvalidateMeans
    <3> QED
      BY <1>3, <3>2, <3>3, <3>4, <3>5 DEF Dashboard
  <2> QED
    BY <1>1, <2>1, <2>2, SameTruth
<1>4. ASSUME NEW q \in Callers, Http(q)
      PROVE  Truth(p)'
  BY <1>1, <1>4, ServeTruth, ServeStrayTruth, EndTruth DEF Http
<1>5. CASE Tick
  <2>1. cmd' = cmd /\ pc' = pc /\ exit' = exit /\ stray' = stray /\ applied' = applied /\ call'[p].reply = call[p].reply
    BY <1>1, <1>5, TickMeans
  <2> QED
    BY <1>1, <2>1, SameTruth
<1>6. CASE UNCHANGED vars
  BY <1>1, <1>6, SameTruth DEF vars
<1> QED
  BY <1>2, <1>3, <1>4, <1>5, <1>6 DEF ClientNext

-----------------------------------------------------------------------------
(* What the cache shows.                                                   *)

\* What a step that neither invalidates nor lets time pass does to the call of a
\* task: it starts anew, is answered with the version there is, has the whole list
\* to invalidate, or stays as it is.
TaskMoves(t) ==
  /\ call'[t].todo # <<>> =>
       /\ call'[t].value = call[t].value
       /\ call[t].todo = call'[t].todo \/ \A j \in Kinds \ {"routes"} : On(j, call'[t].todo)
  /\ Waiting(t)' => call'[t].elapsed = 0 \/ (Waiting(t) /\ call'[t].elapsed = call[t].elapsed)
  /\ call'[t].verb \in Kinds /\ call'[t].reply = "ok" =>
       \/ call'[t].value = version'
       \/ /\ call'[t].verb = call[t].verb /\ call'[t].reply = call[t].reply
          /\ call'[t].value = call[t].value /\ call'[t].elapsed = call[t].elapsed

\* And to the versions, the calls and the cache: a value that is new there is what
\* a task has read.
ServerMoves ==
  /\ \/ version' = version
     \/ version' = version + 1 /\ since'[version'] = 0
  /\ \A v \in 1 .. version : since'[v] = since[v]

CacheMoves ==
  \A k \in Kinds : cache'[k] # None =>
    \/ cache'[k] = cache[k]
    \/ \E t \in Tasks : /\ call[t].verb = k /\ call[t].reply = "ok"
                        /\ cache'[k].value = call[t].value /\ cache'[k].age = 0

Moves ==
  /\ floor' = floor /\ racing' = racing
  /\ ServerMoves /\ CacheMoves
  /\ \A q \in Callers : call'[q].value <= version'
  /\ \A t \in Tasks : TaskMoves(t)

LEMMA CallTypes ==
  ASSUME Types, NEW q \in Callers
  PROVE  /\ call[q].value \in Nat /\ call[q].elapsed \in Nat
         /\ call[q].verb \in Verbs \cup {None} /\ call[q].reply \in Answers \cup {None}
BY DEF Types, CallRec

LEMMA CacheTypes ==
  ASSUME Types, NEW k \in Kinds, cache[k] # None
  PROVE  cache[k].value \in Nat /\ cache[k].age \in 0 .. TTL
BY DEF Types

LEMMA FloorTypes ==
  ASSUME Types, SeenInv, NEW k \in Kinds, NEW n \in Floors(k)
  PROVE  n \in Nat /\ n <= version /\ version \in Nat
<1>1. CASE n = floor
  BY <1>1 DEF Types, SeenInv
<1>2. CASE \E t \in Passed(k) : n = call[t].value
  <2>1. PICK t \in Tasks : n = call[t].value
    BY <1>2 DEF Passed
  <2> QED
    BY <2>1, CallTypes DEF Types, SeenInv, Callers
<1> QED
  BY <1>1, <1>2 DEF Floors

LEMMA MovesKeepSeen ==
  ASSUME Types, Types', SeenInv, Moves
  PROVE  SeenInv'
<1>1. version \in Nat /\ version' \in Nat /\ version <= version' /\ floor' = floor /\ racing' = racing
  BY DEF Types, Moves, ServerMoves
<1>2. floor' <= version' /\ \A q \in Callers : call'[q].value <= version'
  BY <1>1 DEF SeenInv, Moves, Types
<1>3. ASSUME NEW k \in Kinds \ {"routes"}, NEW n \in Floors(k)'
      PROVE  n \in Floors(k)
  <2>1. CASE n = floor'
    BY <1>1, <2>1 DEF Floors
  <2>2. CASE \E t \in Passed(k)' : n = call'[t].value
    <3>1. PICK t \in Tasks : n = call'[t].value /\ call'[t].todo # <<>> /\ ~On(k, call'[t].todo)
      BY <2>2 DEF Passed
    <3>2. call[t].value = n /\ call[t].todo = call'[t].todo
      BY <3>1 DEF Moves, TaskMoves
    <3> QED
      BY <3>1, <3>2 DEF Floors, Passed
  <2> QED
    BY <2>1, <2>2 DEF Floors
<1>4. ASSUME NEW k \in Kinds \ {"routes"}, ~racing'[k], NEW n \in Floors(k)'
      PROVE  /\ cache'[k] # None => n <= cache'[k].value
             /\ \A t \in Tasks : call'[t].verb = k /\ call'[t].reply = "ok" => n <= call'[t].value
  <2>1. n \in Floors(k) /\ n \in Nat /\ n <= version
    BY <1>3, <1>4, FloorTypes
  <2>2. /\ cache[k] # None => n <= cache[k].value
        /\ \A t \in Tasks : call[t].verb = k /\ call[t].reply = "ok" => n <= call[t].value
    BY <1>1, <1>4, <2>1 DEF SeenInv
  <2>3. cache'[k] # None => n <= cache'[k].value
    BY <2>2 DEF Moves, CacheMoves
  <2>4. ASSUME NEW t \in Tasks, call'[t].verb = k, call'[t].reply = "ok"
        PROVE  n <= call'[t].value
    <3>1. CASE call'[t].value = version'
      BY <1>1, <2>1, <3>1
    <3>2. CASE call'[t].verb = call[t].verb /\ call'[t].reply = call[t].reply /\ call'[t].value = call[t].value
      BY <2>2, <2>4, <3>2
    <3> QED
      BY <2>4, <3>1, <3>2 DEF Moves, TaskMoves
  <2> QED
    BY <2>3, <2>4
<1> QED
  BY <1>2, <1>4 DEF SeenInv

\* How old version v is when a step moves on: no older.
LEMMA SinceMoves ==
  ASSUME Types, Types', ServerMoves, NEW v \in Nat, v < version', NEW bound \in Nat,
         v < version => since[v + 1] <= bound
  PROVE  since'[v + 1] <= bound
<1>1. version \in Nat
  BY DEF Types
<1>2. CASE v < version
  <2>1. v + 1 \in 1 .. version
    BY <1>1, <1>2
  <2> QED
    BY <1>2, <2>1 DEF ServerMoves
<1>3. CASE ~(v < version)
  <2>1. v + 1 = version' /\ since'[version'] = 0
    BY <1>1, <1>3 DEF ServerMoves
  <2> QED
    BY <2>1
<1> QED
  BY <1>2, <1>3

LEMMA MovesKeepAge ==
  ASSUME Types, Types', InStep, SeenInv, AgeInv, Moves
  PROVE  AgeInv'
<1>1. version \in Nat /\ version' \in Nat /\ version <= version' /\ ServerMoves
  BY DEF Types, Moves, ServerMoves
<1>2. ASSUME NEW k \in Kinds, cache'[k] # None
      PROVE  /\ cache'[k].value <= version'
             /\ cache'[k].value < version' => since'[cache'[k].value + 1] <= Timeout + cache'[k].age
  <2>1. cache'[k].value \in Nat /\ cache'[k].age \in Nat
    BY <1>2 DEF Types
  <2>2. CASE cache'[k] = cache[k]
    <3>1. cache[k].value <= version /\ (cache[k].value < version => since[cache[k].value + 1] <= Timeout + cache[k].age)
      BY <1>2, <2>2 DEF AgeInv
    <3>2. PICK v \in Nat, bound \in Nat : v = cache[k].value /\ bound = Timeout + cache[k].age
      BY <2>1, <2>2, Given
    <3>3. v < version => since[v + 1] <= bound
      BY <3>1, <3>2
    <3>4. v < version' => since'[v + 1] <= bound
      BY <1>1, <3>3, SinceMoves, Zenon
    <3>5. v <= version'
      BY <1>1, <3>1, <3>2
    <3> QED
      BY <2>2, <3>2, <3>4, <3>5
  <2>3. CASE \E t \in Tasks : /\ call[t].verb = k /\ call[t].reply = "ok"
                              /\ cache'[k].value = call[t].value /\ cache'[k].age = 0
    <3>1. PICK t \in Tasks : /\ call[t].verb = k /\ call[t].reply = "ok"
                             /\ cache'[k].value = call[t].value /\ cache'[k].age = 0
      BY <2>3
    <3>2. call[t].value <= version /\ call[t].elapsed \in Nat
      BY CallTypes DEF SeenInv, Callers
    <3>3. Waiting(t)
      BY <3>1, Given DEF InStep, Waiting
    <3>4. call[t].elapsed <= Timeout /\ (call[t].value < version => since[call[t].value + 1] <= call[t].elapsed)
      BY <3>1, <3>3 DEF AgeInv
    <3>5. call[t].value < version => since[call[t].value + 1] <= Timeout
      <4>1. call[t].value < version => since[call[t].value + 1] \in Nat
        <5>1. call[t].value \in Nat
          BY <2>1, <3>1
        <5>2. \A v \in 1 .. version : since[v] \in Nat
          BY Given DEF Types
        <5> QED
          BY <1>1, <5>1, <5>2
      <4> QED
        BY <3>2, <3>4, <4>1, Given
    <3>6. cache'[k].value < version' => since'[cache'[k].value + 1] <= Timeout
      <4>1. PICK v \in Nat, bound \in Nat : v = cache'[k].value /\ bound = Timeout
        BY <2>1, Given
      <4>2. v < version => since[v + 1] <= bound
        BY <3>1, <3>5, <4>1
      <4>3. v < version' => since'[v + 1] <= bound
        BY <1>1, <4>2, SinceMoves, Zenon
      <4> QED
        BY <4>1, <4>3
    <3> QED
      BY <1>1, <2>1, <3>1, <3>2, <3>6, Given
  <2> QED
    BY <1>2, <2>2, <2>3 DEF Moves, CacheMoves
<1>3. ASSUME NEW t \in Tasks, Waiting(t)'
      PROVE  call'[t].elapsed <= Timeout
  BY <1>3, Given DEF Moves, TaskMoves, AgeInv
<1>4. ASSUME NEW t \in Tasks, call'[t].verb \in Kinds, call'[t].reply = "ok", call'[t].value < version'
      PROVE  since'[call'[t].value + 1] <= call'[t].elapsed
  <2>1. call'[t].verb = call[t].verb /\ call'[t].reply = call[t].reply
        /\ call'[t].value = call[t].value /\ call'[t].elapsed = call[t].elapsed
    BY <1>1, <1>4 DEF Moves, TaskMoves
  <2>2. call[t].value < version => since[call[t].value + 1] <= call[t].elapsed
    BY <1>4, <2>1 DEF AgeInv
  <2>3. call[t].value \in Nat /\ call[t].elapsed \in Nat
    BY CallTypes DEF Callers
  <2> QED
    BY <1>1, <1>4, <2>1, <2>2, <2>3, SinceMoves
<1> QED
  BY <1>2, <1>3, <1>4 DEF AgeInv

\* A call of a task that a step leaves alone moves as it may; and calls of terminals
\* are no concern of the cache.
LEMMA SameMoves == ASSUME NEW t \in Tasks, call'[t] = call[t] PROVE TaskMoves(t)
BY DEF TaskMoves, Waiting

LEMMA NoCallMoves == ASSUME NEW t \in Tasks, call'[t] = NoCall PROVE TaskMoves(t)
BY NoCallTypes, Given DEF TaskMoves, Waiting

LEMMA StillMoves ==
  ASSUME Types, version' = version, since' = since
  PROVE  ServerMoves
BY DEF ServerMoves

LEMMA StillCache == ASSUME cache' = cache PROVE CacheMoves
BY DEF CacheMoves

\* Steps that change nothing but calls.
LEMMA CallMoves ==
  ASSUME Types, SeenInv, version' = version, since' = since, cache' = cache, floor' = floor, racing' = racing,
         \A q \in Callers : call'[q] = call[q] \/ call'[q].value = 0,
         \A t \in Tasks : TaskMoves(t)
  PROVE  Moves
<1>1. ASSUME NEW q \in Callers
      PROVE  call'[q].value <= version'
  <2>1. version \in Nat /\ call[q].value <= version
    BY DEF Types, SeenInv
  <2>2. CASE call'[q] = call[q]
    BY <2>1, <2>2
  <2>3. CASE call'[q].value = 0
    BY <2>1, <2>3
  <2> QED
    BY <2>2, <2>3
<1> QED
  BY <1>1, StillMoves, StillCache DEF Moves

LEMMA CommandMoves ==
  ASSUME Types, InStep, SeenInv, NEW p \in Terminals, Command(p)
  PROVE  Moves
<1>1. version' = version /\ since' = since /\ cache' = cache /\ floor' = floor /\ racing' = racing
  BY DEF Command, Ask, Decline, HearOk, clientVars, serverVars, cacheVars
<1>2. \A q \in Callers : call'[q] = call[q] \/ (q = p /\ call'[q].value = 0)
  <2>1. CASE Ask(p)
    BY <2>1 DEF Ask, Send, NoCall, Types
  <2>2. CASE HearOk(p)
    BY <2>2, NoCallTypes DEF HearOk, Types
  <2>3. CASE UNCHANGED clientVars
    BY <2>3 DEF clientVars
  <2> QED
    BY <2>1, <2>2, <2>3 DEF Command, Decline
<1>3. ASSUME NEW t \in Tasks
      PROVE  TaskMoves(t)
  <2>1. t \in Callers /\ t # p
    BY Given DEF Callers
  <2> QED
    BY <1>2, <2>1, SameMoves
<1> QED
  BY <1>1, <1>2, <1>3, CallMoves

LEMMA EndMoves ==
  ASSUME Types, SeenInv, NEW q \in Callers, NEW error, EndWith(q, error)
  PROVE  Moves
<1>1. /\ version' = version /\ since' = since /\ cache' = cache /\ floor' = floor /\ racing' = racing
      /\ call' = [call EXCEPT ![q] = NoCall]
  BY DEF EndWith, HangUp, cacheVars
<1>2. \A p \in Callers : call'[p] = IF p = q THEN NoCall ELSE call[p]
  BY <1>1 DEF Types
<1>3. ASSUME NEW t \in Tasks
      PROVE  TaskMoves(t)
  BY <1>2, SameMoves, NoCallMoves DEF Callers
<1> QED
  BY <1>1, <1>2, <1>3, NoCallTypes, CallMoves

LEMMA ServeMoves ==
  ASSUME Types, InStep, SeenInv, NEW q \in Callers, Serve(q)
  PROVE  Moves
<1>1. PICK r \in Answers :
        /\ call' = [call EXCEPT ![q] = [call[q] EXCEPT !.reply = r, !.value = version']]
        /\ IF r = "ok" /\ call[q].verb \in Effective THEN Apply(q)
           ELSE version' = version /\ since' = since /\ applied' = applied
  BY ServeMeans
<1>2. cache' = cache /\ floor' = floor /\ racing' = racing /\ Waiting(q) /\ version <= version' /\ version' \in Nat
  BY ServeMeans
<1>3. ServerMoves
  BY <1>1, ApplyTypes, StillMoves DEF ServerMoves
<1>4. PICK c \in CallRec : c = call[q]
  BY DEF Types
<1>5. /\ call'[q].value = version' /\ call'[q].todo = c.todo /\ call'[q].elapsed = c.elapsed /\ call'[q].verb = c.verb
      /\ c.todo = <<>>
      /\ \A p \in Callers : p # q => call'[p] = call[p]
  BY <1>1, <1>2, <1>4 DEF Types, CallRec, Waiting
<1>6. ASSUME NEW t \in Tasks
      PROVE  TaskMoves(t)
  <2>1. CASE t # q
    BY <1>5, <2>1, SameMoves DEF Callers
  <2>2. CASE t = q
    BY <1>2, <1>4, <1>5, <2>2 DEF TaskMoves, Waiting
  <2> QED
    BY <2>1, <2>2
<1>7. \A p \in Callers : call'[p].value <= version'
  <2>1. \A p \in Callers : call[p].value <= version'
    BY <1>2, CallTypes DEF SeenInv, Types
  <2> QED
    BY <1>2, <1>5, <2>1
<1> QED
  BY <1>2, <1>3, <1>6, <1>7, StillCache DEF Moves

LEMMA ServeStrayMoves ==
  ASSUME Types, SeenInv, NEW q \in Callers, ServeStray(q)
  PROVE  Moves
<1>1. cache' = cache /\ floor' = floor /\ racing' = racing /\ call' = call /\ Apply(q)
  BY DEF ServeStray, cacheVars
<1>2. ServerMoves /\ version' = version + 1 /\ version \in Nat
  BY <1>1, ApplyTypes DEF ServerMoves, Types
<1>3. \A p \in Callers : call'[p].value <= version'
  BY <1>1, <1>2, CallTypes DEF SeenInv
<1>4. \A t \in Tasks : TaskMoves(t)
  BY <1>1, SameMoves
<1> QED
  BY <1>1, <1>2, <1>3, <1>4, StillCache DEF Moves

LEMMA SendMoves ==
  ASSUME Types, InStep, SeenInv, NEW t \in Tasks, NEW verb \in Kinds \cup Mutations, call[t].verb = None, Send(t, verb),
         version' = version, since' = since, cache' = cache, floor' = floor, racing' = racing
  PROVE  Moves
<1>1. /\ \A q \in Callers : q # t => call'[q] = call[q]
      /\ call'[t].reply = None /\ call'[t].todo = <<>> /\ call'[t].elapsed = 0 /\ call'[t].value = 0
  BY SendTypes
<1>2. ASSUME NEW u \in Tasks
      PROVE  TaskMoves(u)
  <2>1. CASE u # t
    BY <1>1, <2>1, SameMoves DEF Callers
  <2>2. CASE u = t
    BY <1>1, <2>2, Given DEF TaskMoves
  <2> QED
    BY <2>1, <2>2
<1> QED
  BY <1>1, <1>2, CallMoves

LEMMA DashboardMoves ==
  ASSUME Types, InStep, SeenInv, NEW t \in Tasks, Dashboard(t), ~Invalidate(t)
  PROVE  Moves
<1>1. CASE \E k \in Uses \cap Kinds : Read(t, k)
  <2>1. PICK k \in Kinds : Read(t, k)
    BY <1>1
  <2>2. version' = version /\ since' = since /\ cache' = cache /\ floor' = floor /\ racing' = racing /\ call[t].verb = None
    BY <2>1 DEF Read, serverVars
  <2>3. CASE Send(t, k)
    BY <2>2, <2>3, SendMoves
  <2>4. CASE call' = call
    BY <2>2, <2>4, SameMoves, CallMoves
  <2> QED
    BY <2>1, <2>3, <2>4 DEF Read
<1>2. CASE Mutate(t)
  <2>1. PICK verb \in Mutations : Send(t, verb)
    BY <1>2 DEF Mutate
  <2>2. version' = version /\ since' = since /\ cache' = cache /\ floor' = floor /\ racing' = racing /\ call[t].verb = None
    BY <1>2 DEF Mutate, serverVars
  <2> QED
    BY <2>1, <2>2, SendMoves
<1>3. CASE StoreValue(t)
  <2>1. /\ version' = version /\ since' = since /\ floor' = floor /\ racing' = racing
        /\ call' = [call EXCEPT ![t] = NoCall]
        /\ cache' = [cache EXCEPT ![call[t].verb] = [value |-> call[t].value, age |-> 0]]
        /\ call[t].verb \in Kinds /\ call[t].reply = "ok"
    BY <1>3, StoreMeans
  <2>2. \A q \in Callers : call'[q] = IF q = t THEN NoCall ELSE call[q]
    BY <2>1 DEF Types
  <2>3. \A u \in Tasks : TaskMoves(u)
    BY <2>2, SameMoves, NoCallMoves DEF Callers
  <2>4. \A q \in Callers : call'[q].value <= version'
    BY <2>1, <2>2, NoCallTypes DEF SeenInv, Types
  <2>5. CacheMoves
    BY <2>1 DEF CacheMoves, Types
  <2> QED
    BY <2>1, <2>3, <2>4, <2>5, StillMoves DEF Moves
<1>4. CASE Succeed(t)
  <2>1. /\ \A q \in Callers : q # t => call'[q] = call[q]
        /\ call'[t].verb = call[t].verb /\ call[t].verb \in Mutations /\ call'[t].value = call[t].value
        /\ call'[t].todo = <<"status", "models", "gpus">>
        /\ version' = version /\ since' = since /\ cache' = cache /\ floor' = floor /\ racing' = racing
    BY <1>4, SucceedMeans
  <2>2. \A j \in Kinds \ {"routes"} : On(j, <<"status", "models", "gpus">>)
    <3>1. \A j \in {"status", "models", "gpus"} : On(j, <<"status", "models", "gpus">>)
      BY DEF On
    <3> QED
      BY <3>1 DEF Kinds
  <2>3. ASSUME NEW u \in Tasks
        PROVE  TaskMoves(u)
    <3>1. CASE u # t
      BY <2>1, <3>1, SameMoves DEF Callers
    <3>2. CASE u = t
      <4>1. call'[t].todo # <<>> /\ call'[t].verb \notin Kinds
        BY <2>1, Given
      <4> QED
        BY <2>1, <2>2, <3>2, <4>1 DEF TaskMoves, Waiting
    <3> QED
      BY <3>1, <3>2
  <2>4. \A q \in Callers : call'[q].value <= version'
    BY <2>1 DEF SeenInv
  <2> QED
    BY <2>1, <2>3, <2>4, StillMoves, StillCache DEF Moves
<1> QED
  BY <1>1, <1>2, <1>3, <1>4 DEF Dashboard

LEMMA InvalidateSeen ==
  ASSUME Types, Types', InStep, SeenInv, NEW t \in Tasks, Invalidate(t)
  PROVE  SeenInv'
<1> DEFINE k == Head(call[t].todo)
<1>1. /\ k \in Kinds \ {"routes"} /\ On(k, call[t].todo) /\ ~On(k, Tail(call[t].todo))
      /\ \A j \in Kinds \ {k} : On(j, Tail(call[t].todo)) <=> On(j, call[t].todo)
      /\ Tail(call[t].todo) = <<>> => k = "gpus"
  BY InvalidateMeans, FirstOnTheList
<1>2. /\ call[t].todo # <<>> /\ call[t].value \in Nat
      /\ cache' = [cache EXCEPT ![k] = None]
      /\ racing' = [racing EXCEPT ![k] = \E u \in Tasks : call[u].verb = k]
      /\ \A q \in Callers : q # t => call'[q] = call[q]
      /\ version' = version
      /\ \/ /\ Tail(call[t].todo) = <<>>
            /\ call'[t] = NoCall
            /\ floor' \in {floor, call[t].value}
         \/ /\ Tail(call[t].todo) # <<>>
            /\ call'[t].verb = call[t].verb /\ call'[t].reply = call[t].reply /\ call'[t].value = call[t].value
            /\ call'[t].todo = Tail(call[t].todo)
            /\ floor' = floor
  BY InvalidateMeans DEF k
<1> HIDE DEF k
<1>3. version \in Nat /\ floor <= version /\ \A q \in Callers : call[q].value <= version
  BY DEF SeenInv, Types
<1>4. t \in Callers
  BY DEF Callers
<1>5. floor' <= version' /\ \A q \in Callers : call'[q].value <= version'
  BY <1>2, <1>3, <1>4, NoCallTypes
<1>6. ASSUME NEW j \in Kinds \ {"routes"}, j # k, NEW n \in Floors(j)'
      PROVE  n \in Floors(j)
  <2>1. CASE n = floor'
    <3>1. CASE floor' = floor
      BY <2>1, <3>1 DEF Floors
    <3>2. CASE Tail(call[t].todo) = <<>> /\ floor' = call[t].value
      <4>1. ~On(j, <<>>)
        BY DEF On
      <4>2. ~On(j, call[t].todo)
        BY <1>1, <1>6, <3>2, <4>1
      <4> QED
        BY <1>2, <2>1, <3>2, <4>2 DEF Floors, Passed
    <3> QED
      BY <1>2, <3>1, <3>2
  <2>2. CASE \E u \in Passed(j)' : n = call'[u].value
    <3>1. PICK u \in Tasks : n = call'[u].value /\ call'[u].todo # <<>> /\ ~On(j, call'[u].todo)
      BY <2>2 DEF Passed
    <3>2. CASE u # t
      BY <1>2, <3>1, <3>2 DEF Floors, Passed, Callers
    <3>3. CASE u = t
      <4>1. call'[t].value = call[t].value /\ call'[t].todo = Tail(call[t].todo)
        BY <1>2, <3>1, <3>3, NoCallTypes
      <4>2. ~On(j, call[t].todo)
        BY <1>1, <1>6, <3>1, <3>3, <4>1
      <4> QED
        BY <1>2, <3>1, <3>3, <4>1, <4>2 DEF Floors, Passed
    <3> QED
      BY <3>2, <3>3
  <2> QED
    BY <2>1, <2>2 DEF Floors
<1>7. ASSUME NEW u \in Tasks, call'[u].verb \in Kinds
      PROVE  call'[u] = call[u]
  <2>1. call[t].verb \in Mutations
    BY <1>2 DEF InStep
  <2> QED
    BY <1>2, <1>7, <2>1, NoCallTypes, Given DEF Callers
<1>8. ASSUME NEW j \in Kinds \ {"routes"}, ~racing'[j], NEW n \in Floors(j)'
      PROVE  /\ cache'[j] # None => n <= cache'[j].value
             /\ \A u \in Tasks : call'[u].verb = j /\ call'[u].reply = "ok" => n <= call'[u].value
  <2>1. CASE j = k
    <3>1. cache'[j] = None /\ \A u \in Tasks : call[u].verb # k
      BY <1>1, <1>2, <1>8, <2>1 DEF Types
    <3> QED
      BY <1>7, <2>1, <3>1
  <2>2. CASE j # k
    <3>1. n \in Floors(j) /\ cache'[j] = cache[j] /\ racing'[j] = racing[j]
      BY <1>2, <1>6, <2>2 DEF Types
    <3>2. /\ cache[j] # None => n <= cache[j].value
          /\ \A u \in Tasks : call[u].verb = j /\ call[u].reply = "ok" => n <= call[u].value
      BY <1>8, <3>1 DEF SeenInv
    <3> QED
      BY <1>7, <3>1, <3>2
  <2> QED
    BY <2>1, <2>2
<1> QED
  BY <1>5, <1>8 DEF SeenInv

LEMMA InvalidateAge ==
  ASSUME Types, InStep, AgeInv, NEW t \in Tasks, Invalidate(t)
  PROVE  AgeInv'
<1> DEFINE k == Head(call[t].todo)
<1>1. /\ call[t].todo # <<>>
      /\ cache' = [cache EXCEPT ![k] = None]
      /\ \A q \in Callers : q # t => call'[q] = call[q]
      /\ version' = version /\ since' = since
      /\ \/ call'[t] = NoCall
         \/ call'[t].verb = call[t].verb /\ call'[t].todo # <<>>
  BY InvalidateMeans DEF k
<1>2. call[t].verb \in Mutations
  BY <1>1 DEF InStep
<1>3. \A j \in Kinds : cache'[j] # None => cache'[j] = cache[j]
  BY <1>1 DEF Types
<1>4. \A u \in Tasks : Waiting(u)' \/ call'[u].verb \in Kinds => call'[u] = call[u]
  BY <1>1, <1>2, NoCallTypes, Given DEF Waiting, Callers
<1> HIDE DEF k
<1>5. \A u \in Tasks : Waiting(u)' => Waiting(u) /\ call'[u].elapsed = call[u].elapsed
  BY <1>4 DEF Waiting
<1> QED
  BY <1>1, <1>3, <1>4, <1>5 DEF AgeInv

LEMMA TickSeen ==
  ASSUME Types, SeenInv, Tick
  PROVE  SeenInv'
<1>1. /\ \A q \in Callers : /\ call'[q].verb = call[q].verb /\ call'[q].reply = call[q].reply
                            /\ call'[q].value = call[q].value /\ call'[q].todo = call[q].todo
      /\ \A k \in Kinds : cache'[k] # None => cache[k] # None /\ cache'[k].value = cache[k].value
      /\ version' = version /\ floor' = floor /\ racing' = racing
  BY TickMeans
<1>2. ASSUME NEW k \in Kinds, NEW n \in Floors(k)'
      PROVE  n \in Floors(k)
  BY <1>1, <1>2 DEF Floors, Passed, Callers
<1> QED
  BY <1>1, <1>2 DEF SeenInv, Callers

LEMMA TickAge ==
  ASSUME Types, Types', InStep, SeenInv, AgeInv, Tick
  PROVE  AgeInv'
<1>1. /\ \A q \in Callers :
           /\ call'[q].verb = call[q].verb /\ call'[q].reply = call[q].reply
           /\ call'[q].value = call[q].value /\ call'[q].todo = call[q].todo
           /\ Waiting(q) => call[q].elapsed < Timeout /\ call'[q].elapsed = call[q].elapsed + 1
      /\ \A v \in 1 .. version : since'[v] <= since[v] + 1
      /\ \A k \in Kinds :
           /\ cache'[k] # None => cache[k] # None /\ cache'[k].value = cache[k].value /\ cache[k].age \in 0 .. TTL
           /\ cache'[k] # None => cache'[k].age = cache[k].age + 1 \/ cache'[k].age = TTL
      /\ version' = version
  BY TickMeans
<1>2. version \in Nat /\ \A v \in 1 .. version : since[v] \in 0 .. Oldest /\ since'[v] \in 0 .. Oldest
  BY <1>1 DEF Types
<1>3. ASSUME NEW k \in Kinds, cache'[k] # None
      PROVE  /\ cache'[k].value <= version'
             /\ cache'[k].value < version' => since'[cache'[k].value + 1] <= Timeout + cache'[k].age
  <2>1. /\ cache[k] # None /\ cache'[k].value = cache[k].value /\ cache[k].age \in 0 .. TTL /\ cache[k].value \in Nat
        /\ cache'[k].age = cache[k].age + 1 \/ cache'[k].age = TTL
    BY <1>1, <1>3, CacheTypes
  <2>2. cache[k].value <= version /\ (cache[k].value < version => since[cache[k].value + 1] <= Timeout + cache[k].age)
    BY <2>1 DEF AgeInv
  <2>3. ASSUME cache[k].value < version
        PROVE  since'[cache[k].value + 1] <= Timeout + cache'[k].age
    <3>1. cache[k].value + 1 \in 1 .. version
      BY <1>2, <2>1, <2>3
    <3>2. PICK v \in 1 .. version : v = cache[k].value + 1
      BY <3>1
    <3>3. since[v] <= Timeout + cache[k].age /\ since'[v] <= since[v] + 1 /\ since'[v] <= Timeout + TTL
      BY <1>1, <1>2, <2>2, <2>3, <3>2, Given
    <3>4. since[v] \in Nat /\ since'[v] \in Nat
      BY <1>2, <3>2, Given
    <3> QED
      BY <2>1, <3>2, <3>3, <3>4, Given
  <2> QED
    BY <1>1, <2>1, <2>2, <2>3
<1>4. ASSUME NEW t \in Tasks, Waiting(t)'
      PROVE  call'[t].elapsed <= Timeout
  <2>1. t \in Callers /\ Waiting(t)
    BY <1>1, <1>4 DEF Waiting, Callers
  <2>2. call[t].elapsed \in Nat
    BY <2>1, CallTypes
  <2> QED
    BY <1>1, <2>1, <2>2, Given
<1>5. ASSUME NEW t \in Tasks, call'[t].verb \in Kinds, call'[t].reply = "ok", call'[t].value < version'
      PROVE  since'[call'[t].value + 1] <= call'[t].elapsed
  <2>1. t \in Callers
    BY DEF Callers
  <2>2. call[t].verb \in Kinds /\ call[t].reply = "ok" /\ call[t].value < version /\ call'[t].value = call[t].value
    BY <1>1, <1>5, <2>1
  <2>3. Waiting(t)
    BY <2>2, Given DEF InStep, Waiting
  <2>4. call'[t].elapsed = call[t].elapsed + 1 /\ call[t].elapsed \in Nat /\ call[t].value \in Nat
    BY <1>1, <2>1, <2>3, CallTypes
  <2>5. PICK v \in 1 .. version : v = call[t].value + 1
    BY <1>2, <2>2, <2>4
  <2>6. since[v] <= call[t].elapsed /\ since'[v] <= since[v] + 1
    BY <1>1, <2>2, <2>5 DEF AgeInv
  <2>7. since[v] \in Nat /\ since'[v] \in Nat
    BY <1>2, <2>5, Given
  <2> QED
    BY <2>2, <2>4, <2>5, <2>6, <2>7
<1> QED
  BY <1>3, <1>4, <1>5 DEF AgeInv

LEMMA CacheKept ==
  ASSUME Types, Types', InStep, SeenInv, AgeInv, [ClientNext]_vars
  PROVE  SeenInv' /\ AgeInv'
<1>1. ASSUME Moves
      PROVE  SeenInv' /\ AgeInv'
  BY <1>1, MovesKeepSeen, MovesKeepAge
<1>2. ASSUME NEW p \in Terminals, Command(p)
      PROVE  Moves
  BY <1>2, CommandMoves
<1>3. ASSUME NEW t \in Tasks, Dashboard(t), ~Invalidate(t)
      PROVE  Moves
  BY <1>3, DashboardMoves
<1>4. ASSUME NEW t \in Tasks, Invalidate(t)
      PROVE  SeenInv' /\ AgeInv'
  BY <1>4, InvalidateSeen, InvalidateAge
<1>5. ASSUME NEW q \in Callers, Http(q)
      PROVE  Moves
  <2>1. CASE HearError(q) \/ Lose(q) \/ Expire(q)
    BY <2>1, EndMoves DEF HearError, Lose, Expire
  <2> QED
    BY <1>5, <2>1, ServeMoves, ServeStrayMoves DEF Http
<1>6. CASE Tick
  BY <1>6, TickSeen, TickAge
<1>7. CASE UNCHANGED vars
  <2>1. /\ version' = version /\ since' = since /\ cache' = cache /\ floor' = floor /\ racing' = racing /\ call' = call
    BY <1>7 DEF vars
  <2>2. \A t \in Tasks : TaskMoves(t)
    BY <2>1, SameMoves
  <2> QED
    BY <1>1, <2>1, <2>2, CallMoves
<1> QED
  BY <1>1, <1>2, <1>3, <1>4, <1>5, <1>6, <1>7 DEF ClientNext
-----------------------------------------------------------------------------
LEMMA ClientStep == ClientInv /\ [ClientNext]_vars => ClientInv'
<1> SUFFICES ASSUME ClientInv, [ClientNext]_vars
             PROVE  ClientInv'
  OBVIOUS
<1>1. Types /\ InStep /\ FileInv /\ TruthInv /\ SeenInv /\ AgeInv
  BY DEF ClientInv
<1>2. Types' /\ InStep'
  BY <1>1, BaseStep
<1>3. FileInv' /\ TruthInv' /\ SeenInv' /\ AgeInv'
  BY <1>1, <1>2, FileKept, TruthKept, CacheKept
<1> QED
  BY <1>2, <1>3 DEF ClientInv

\* In every reachable state the files, commands, calls and cached values are as
\* described above (the inductive invariant).
THEOREM ClientInductive == ClientSpec => []ClientInv
BY ClientStarts, ClientStep, PTL DEF ClientSpec

LEMMA FileInvUsable == ClientInv => FileStaysUsable
<1> SUFFICES ASSUME ClientInv, ~cut PROVE FileStaysUsable
  BY DEF FileStaysUsable
<1>1. FileInv
  BY DEF ClientInv
<1>2. file # Corrupt /\ file.default # None => file.default \in DOMAIN file.entries
  BY <1>1 DEF FileInv, Sound
<1>3. ~clash =>
        IF file = Corrupt
          THEN \A p \in Terminals : exit[p] = 0 => cmd[p].verb \notin Edits
          ELSE file.default = None => DOMAIN file.entries = {}
  BY <1>1 DEF FileInv, WellFormed
<1> QED
  BY <1>2, <1>3 DEF FileStaysUsable

\* Whatever commands run at the same time and wherever they are killed, but in the
\* middle of the text they write, the endpoint file never has a default that is not
\* one of its entries; and as long as no two
\* saves overlapped, a command that reported success has left a file that parses,
\* with a default if it has entries.
THEOREM EndpointFileStaysUsable == ClientSpec => []FileStaysUsable
BY ClientInductive, FileInvUsable, PTL

LEMMA TruthInvTells == ClientInv => ExitTellsTheTruth
BY DEF ClientInv, TruthInv, ExitTellsTheTruth

\* Whatever answers get lost or late: exit code 0 of a load or unload means that it
\* took effect, and the codes for "unauthorized", "no such model" and "cannot" that it
\* did not and never will.
THEOREM ExitCodesTellTheTruth == ClientSpec => []ExitTellsTheTruth
BY ClientInductive, TruthInvTells, PTL

LEMMA SeenInvShows == ClientInv => CacheNeverMisleads
<1> SUFFICES ASSUME ClientInv PROVE CacheNeverMisleads
  OBVIOUS
<1>1. Types /\ SeenInv /\ AgeInv
  BY DEF ClientInv
<1>2. OwnWritesSeen
  <2> SUFFICES ASSUME NEW k \in Kinds \ {"routes"}, Fresh(k), cache[k].value < floor
               PROVE  racing[k]
    BY DEF OwnWritesSeen
  <2>1. floor \in Floors(k)
    BY DEF Floors
  <2>2. ~racing[k] => floor <= cache[k].value
    BY <1>1, <2>1 DEF SeenInv, Fresh
  <2>3. cache[k].value \in Nat /\ floor \in Nat
    BY <1>1, CacheTypes DEF Fresh, Types
  <2> QED
    BY <2>2, <2>3
<1>3. NotTooOld
  <2> SUFFICES ASSUME NEW k \in Kinds, Fresh(k), cache[k].value < version
               PROVE  since[cache[k].value + 1] < Oldest
    BY DEF NotTooOld
  <2>1. since[cache[k].value + 1] <= Timeout + cache[k].age /\ cache[k].age < TTL
    BY <1>1 DEF AgeInv, Fresh
  <2>2. cache[k].value \in Nat /\ cache[k].age \in Nat /\ version \in Nat
    BY <1>1, CacheTypes DEF Fresh, Types
  <2>3. cache[k].value + 1 \in 1 .. version
    BY <2>2
  <2>4. since[cache[k].value + 1] \in Nat
    BY <1>1, <2>3, Given DEF Types
  <2> QED
    BY <2>1, <2>2, <2>4, Given
<1> QED
  BY <1>2, <1>3 DEF CacheNeverMisleads

\* Whoever else changes the server and however slow it answers: a value that the
\* cache shows is from after every own mutation that has returned, unless it was
\* being read when that invalidated it; and it was replaced less than a time limit
\* and the TTL ago.
THEOREM CacheIsHonest == ClientSpec => []CacheNeverMisleads
BY ClientInductive, SeenInvShows, PTL

=============================================================================
