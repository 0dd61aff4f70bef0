--------------------------- MODULE MCResidentSet ---------------------------
(***************************************************************************)
(* Four devices (one of them disabled) and four models: two placed         *)
(* automatically, one split unevenly over two devices, one pinned to one.  *)
(***************************************************************************)
EXTENDS ResidentSet, TLC

CONSTANTS a, b, c, d

MCModels == {a, b, c, d}
MCBudget == (0 :> 6) @@ (1 :> 5) @@ (2 :> 2) @@ (3 :> 0)
MCVram   == (a :> 2) @@ (b :> 3) @@ (c :> 5) @@ (d :> 1)
MCGpusOf == (a :> <<>>) @@ (b :> <<>>) @@ (c :> <<0, 1>>) @@ (d :> <<0>>)
=============================================================================
