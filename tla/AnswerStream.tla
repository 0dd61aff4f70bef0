---------------------------- MODULE AnswerStream ----------------------------
(***************************************************************************)
(* What chat_completion_stream of any backend promises to the holder of    *)
(* the receiving end: a role, pieces of text and a finish reason, in this  *)
(* order and each of the first and last at most once, then one result.  An *)
(* answer may stop short anywhere.  Only an upstream that goes on after    *)
(* its finish is heard after it.                                           *)
(***************************************************************************)
EXTENDS Sequences

CONSTANT Calls

VARIABLES
  kinds,   \* kinds[c]: kinds of the chunks of call c, in the order sent
  result,  \* result[c]: "none", "Ok" or "error"
  on       \* the calls whose upstream goes on after its finish, read or not

streamVars == <<kinds, result, on>>

StreamInit ==
  /\ kinds = [c \in Calls |-> <<>>]
  /\ result = [c \in Calls |-> "none"]
  /\ on = {}

FinishIn(s) == "finish" \in {s[i] : i \in DOMAIN s}

Chunk(c) ==
  /\ result[c] = "none"
  /\ \E k \in {"role", "text", "finish"} :
       /\ k = "role" => kinds[c] = <<>>
       /\ FinishIn(kinds[c]) => c \in on
       /\ kinds' = [kinds EXCEPT ![c] = Append(@, k)]
  /\ UNCHANGED <<result, on>>

GoesOn(c) ==
  /\ result[c] = "none"
  /\ on' = on \cup {c}
  /\ UNCHANGED <<kinds, result>>

\* Some calls return, one or those a common cause ends together; an error comes
\* instead of a finish, never after it.
Return(cs) ==
  /\ \A c \in cs : result[c] = "none"
  /\ \E v \in {"Ok", "error"} :
       /\ v = "error" => \A c \in cs : ~FinishIn(kinds[c])
       /\ result' = [c \in Calls |-> IF c \in cs THEN v ELSE result[c]]
  /\ UNCHANGED <<kinds, on>>

StreamNext == (\E c \in Calls : Chunk(c) \/ GoesOn(c)) \/ (\E cs \in (SUBSET Calls) \ {{}} : Return(cs))

StreamSpec == StreamInit /\ [][StreamNext]_streamVars

=============================================================================
