----------------------------- MODULE Residency -----------------------------
(***************************************************************************)
(* What the scheduling of local models promises, without saying how: the   *)
(* memory of a device is never oversubscribed by the workers on it, only a *)
(* model that serves is given to a request, and a model is taken down only *)
(* when it is unpinned and nobody uses it.                                 *)
(***************************************************************************)
EXTENDS Integers, FiniteSets

CONSTANTS Models, Gpus, Budget, Pinned, Cost(_, _)

VARIABLES
  where,    \* where[m]: devices on which a worker of m occupies memory
  serving,  \* models that requests may be given
  users     \* users[m]: requests that were given m

resident == <<where, serving, users>>

On(g) == {m \in Models : g \in where[m]}

\* The megabytes of a set of models on a device.
Megabytes(S, g) == Cardinality(UNION {{m} \X (1 .. Cost(m, g)) : m \in S})

ResInit ==
  /\ where = [m \in Models |-> {}]
  /\ serving = {}
  /\ users = [m \in Models |-> 0]

\* A worker starts where it fits beside everything that is there.
Start(m) ==
  /\ where[m] = {}
  /\ \E D \in (SUBSET Gpus) \ {{}} :
       /\ \A g \in D : Budget[g] # 0 => Megabytes(On(g) \cup {m}, g) <= Budget[g]
       /\ where' = [where EXCEPT ![m] = D]
  /\ UNCHANGED <<serving, users>>

\* It is up, perhaps with the request that asked for it.
Serve(m) ==
  /\ where[m] # {}
  /\ m \notin serving
  /\ serving' = serving \cup {m}
  /\ \E n \in 0 .. 1 : users' = [users EXCEPT ![m] = n]
  /\ UNCHANGED where

Retire(m) ==
  /\ m \in serving \ Pinned
  /\ users[m] = 0
  /\ serving' = serving \ {m}
  /\ UNCHANGED <<where, users>>

\* The worker is gone: it was retired, or never came up.
Vacate(m) ==
  /\ m \notin serving
  /\ where' = [where EXCEPT ![m] = {}]
  /\ UNCHANGED <<serving, users>>

Use(m) ==
  /\ m \in serving
  /\ users' = [users EXCEPT ![m] = @ + 1]
  /\ UNCHANGED <<where, serving>>

Finish(m) ==
  /\ users[m] > 0
  /\ users' = [users EXCEPT ![m] = @ - 1]
  /\ UNCHANGED <<where, serving>>

ResNext ==
  \E m \in Models : Start(m) \/ Serve(m) \/ Retire(m) \/ Vacate(m) \/ Use(m) \/ Finish(m)

ResSpec == ResInit /\ [][ResNext]_resident
=============================================================================
