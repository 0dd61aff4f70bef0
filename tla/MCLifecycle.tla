---------------------------- MODULE MCLifecycle ----------------------------
(***************************************************************************)
(* Small servers for ModelLifecycle: one device on which two automatically *)
(* placed models and a pinned one compete, and two devices with a model    *)
(* split over both.                                                        *)
(***************************************************************************)
EXTENDS ModelLifecycle, TLC

CONSTANTS a, b, p

\* One device of 3 MB: a and b exclude each other, p fits beside either.
OneBudget == 0 :> 3
OneVram   == [m \in Models |-> IF m = p THEN 1 ELSE 2]
OneGpusOf == [m \in Models |-> IF m = p THEN <<0>> ELSE <<>>]

\* Two devices of 3 MB: a needs 3 on the first and 2 on the second, b goes where
\* there is most room, p is bound to the second.
TwoBudget == (0 :> 3) @@ (1 :> 3)
TwoVram   == [m \in Models |-> CASE m = a -> 5 [] m = b -> 2 [] m = p -> 1]
TwoGpusOf == [m \in Models |-> CASE m = a -> <<0, 1>> [] m = b -> <<>> [] m = p -> <<1>>]

\* Two requests differ in nothing but their name.
RequestSymmetry == Permutations(Requests)
=============================================================================
