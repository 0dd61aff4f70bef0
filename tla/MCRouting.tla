----------------------------- MODULE MCRouting -----------------------------
(***************************************************************************)
(* A route whose first rule has two targets, an upstream and a local       *)
(* model, and whose catch-all adds another one behind them.                *)
(***************************************************************************)
EXTENDS Routing

CONSTANTS near, far, spare

MCRules == <<<<far, near>>, <<near, far, spare>>>>
=============================================================================
