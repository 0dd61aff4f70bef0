--------------------------- MODULE MCChatTracker ---------------------------
(***************************************************************************)
(* Two streams and one plain request over two ids, with a ring and a       *)
(* channel that hold fewer events than they make, and a command that       *)
(* follows them.                                                           *)
(***************************************************************************)
EXTENDS Follow, TLC

CONSTANTS s1, s2, w

\* While the command follows, one of the streams waits.
FewWhileFollowed == phase = "over" \/ \E s \in Streams : stage[s] = "idle"

StreamSymmetry == Permutations({s1, s2})
=============================================================================
