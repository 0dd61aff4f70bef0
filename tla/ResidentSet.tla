---------------------------- MODULE ResidentSet ----------------------------
(***************************************************************************)
(* The VRAM bookkeeping of src/engine/scheduling.rs: one ResidentSet per   *)
(* GPU, each a mutex-protected map from model ids to reservations, and the *)
(* functions of Scheduler and Placement that read them.                    *)
(*                                                                         *)
(* A model's estimate and its configured devices never change after        *)
(* startup and config validation refuses a device listed twice, so what a  *)
(* model costs on a device is a constant (Share) and a reservation is just *)
(* the membership of the model in reserved[g].  Metadata of an entry       *)
(* (last_used_ms, in_flight) is shared with the owning backend and is      *)
(* therefore an argument of the operators that read it.                    *)
(***************************************************************************)
EXTENDS Integers, Sequences, FiniteSets, Functions

CONSTANTS
  Models,   \* ids of the local models
  NumGpus,  \* number of devices the scheduler was built with
  Budget,   \* Budget[g]: MB the server may reserve on device g, 0 = disabled
  Vram,     \* Vram[m]: estimated footprint of model m, in MB
  GpusOf,   \* GpusOf[m]: the devices configured for m, <<>> = automatic
  Pinned    \* models configured with pin = true

Gpus == 0 .. (NumGpus - 1)

ASSUME ResidentAssumption ==
  /\ NumGpus \in Nat \ {0}
  /\ IsFiniteSet(Models)
  /\ Budget \in [Gpus -> Nat]
  /\ Vram \in [Models -> Nat]
  /\ GpusOf \in [Models -> Seq(Gpus)]
  /\ \A m \in Models : IsInjective(GpusOf[m])
  /\ Pinned \subseteq Models

VARIABLE reserved  \* reserved[g]: the models holding a reservation on device g
-----------------------------------------------------------------------------
IsAuto(m) == GpusOf[m] = <<>>

\* The devices a placement of m may name.
DevicesOf(m) == IF IsAuto(m) THEN Gpus ELSE Range(GpusOf[m])

\* The remainder of an uneven split is left out.
Share_LosesRemainder(m, g) ==
  IF IsAuto(m) THEN Vram[m] ELSE Vram[m] \div Len(GpusOf[m])

\* Placement::per_device_cost: an even split whose remainder goes to the
\* first device of the list.  A single device, configured or picked
\* automatically, takes it all.
Share(m, g) ==
  IF IsAuto(m) THEN Vram[m]
  ELSE LET n    == Len(GpusOf[m])
           base == Vram[m] \div n
       IN  IF g = GpusOf[m][1] THEN base + (Vram[m] - base * n) ELSE base

\* The megabytes the models in S hold on g, each as a pair of a model and a
\* number, so that their count is the sum of the shares.
Units(S, g) == UNION {{m} \X (1 .. Share(m, g)) : m \in S}

\* ResidentSet::total_reserved_mb, for any set of entries.
Total(S, g) == Cardinality(Units(S, g))

\* Only the request itself is compared with the budget.
Fits_IgnoresReserved(g, m) ==
  Budget[g] = 0 \/ m \in reserved[g] \/ Share(m, g) <= Budget[g]

\* The answer of ResidentSet::try_reserve: always yes on a disabled device and
\* for a model already reserved there, else only within the budget.
Fits(g, m) ==
  \/ Budget[g] = 0
  \/ m \in reserved[g]
  \/ Total(reserved[g], g) + Share(m, g) <= Budget[g]

\* ResidentSet::try_reserve when it succeeds; a disabled device records nothing.
Reserve(g, m) ==
  /\ Fits(g, m)
  /\ reserved' = [reserved EXCEPT ![g] = IF Budget[g] = 0 THEN @ ELSE @ \cup {m}]

\* The whole set is dropped instead of the entry.
Release_DropsDevice(g, m) == reserved' = [h \in Gpus \ {g} |-> reserved[h]]

\* ResidentSet::release: a no-op for a model that is not there.
Release(g, m) == reserved' = [reserved EXCEPT ![g] = @ \ {m}]

Free(g) ==
  IF Total(reserved[g], g) > Budget[g] THEN 0 ELSE Budget[g] - Total(reserved[g], g)

\* A device is picked by the size of its budget alone.
MostFreeDevice_ByBudget ==
  CHOOSE g \in Gpus : \A h \in Gpus : Budget[h] <= Budget[g]

\* Scheduler::pick_most_free_device: the greatest index wins a tie.
MostFreeDevice ==
  CHOOSE g \in Gpus :
    \A h \in Gpus : Free(h) < Free(g) \/ (Free(h) = Free(g) /\ h <= g)
-----------------------------------------------------------------------------
(* Choosing victims.                                                       *)

\* A pinned model may be evicted.
Eligible_IgnoresPin(g, inFlight) == {m \in reserved[g] : inFlight[m] = 0}

Eligible(g, inFlight) == {m \in reserved[g] : m \notin Pinned /\ inFlight[m] = 0}

\* Entries in the order of the hash map, unsorted.
LruOrders_Unsorted(E, lastUsed) ==
  {s \in [1 .. Cardinality(E) -> E] : \A i, j \in DOMAIN s : i < j => s[i] # s[j]}

\* The orders in which a sort by last_used_ms may leave the set E: equal times
\* keep the arbitrary order of the hash map.
LruOrders(E, lastUsed) ==
  {s \in [1 .. Cardinality(E) -> E] :
     \A i, j \in DOMAIN s : i < j => s[i] # s[j] /\ lastUsed[s[i]] <= lastUsed[s[j]]}

\* Accumulation stops one candidate early.
Enough_OffByOne(s, k, g, needed) ==
  /\ Total({s[i] : i \in 1 .. k}, g) + 1 >= needed
  /\ \A j \in 1 .. (k - 1) : Total({s[i] : i \in 1 .. j}, g) + 1 < needed

\* The first k candidates free `needed` and no shorter prefix does.
Enough(s, k, g, needed) ==
  /\ Total({s[i] : i \in 1 .. k}, g) >= needed
  /\ \A j \in 1 .. (k - 1) : Total({s[i] : i \in 1 .. j}, g) < needed

\* ResidentSet::pick_eviction_candidates: every list it may return, the empty
\* set when it returns None.
EvictionCandidates(g, needed, lastUsed, inFlight) ==
  IF Budget[g] = 0 THEN {}
  ELSE UNION {{SubSeq(s, 1, k) : k \in {k \in DOMAIN s : Enough(s, k, g, needed)}} :
                s \in LruOrders(Eligible(g, inFlight), lastUsed)}
-----------------------------------------------------------------------------
RSInit == reserved = [g \in Gpus |-> {}]

\* What any caller may do to the sets, in any order.
RSNext ==
  \E m \in Models : \E g \in DevicesOf(m) : Reserve(g, m) \/ Release(g, m)

RSSpec == RSInit /\ [][RSNext]_reserved
-----------------------------------------------------------------------------
RSTypeOK == reserved \in [Gpus -> SUBSET Models]

\* The reservations on a device never add up to more than its budget, whatever
\* sequence of try_reserve and release calls led there; a disabled device holds
\* no reserved megabyte at all.
BudgetRespected == \A g \in Gpus : Total(reserved[g], g) <= Budget[g]

\* A split model that holds all its devices has exactly its estimate reserved:
\* the integer split of per_device_cost loses and invents nothing.
SplitReservesWhole ==
  \A m \in Models :
    /\ ~IsAuto(m)
    /\ \A g \in DevicesOf(m) : m \in reserved[g]
    => Cardinality(UNION {Units({m}, g) \X {g} : g \in DevicesOf(m)}) = Vram[m]

\* The ages and the business the entries of a device may have when victims are
\* chosen: they belong to the backends, so any combination can be met.
Ages(g) == [reserved[g] -> 0 .. 2]
Business(g) == [reserved[g] -> 0 .. 1]

\* If pick_eviction_candidates answers, unloading every model it names makes
\* the request fit: the loop of try_reserve_with_eviction needs no second round
\* unless another actor interferes.
EvictionSuffices ==
  \A m \in Models : \A g \in DevicesOf(m) : m \notin reserved[g] =>
    \A lastUsed \in Ages(g), inFlight \in Business(g) :
      \A s \in EvictionCandidates(g, Share(m, g), lastUsed, inFlight) :
        Total(reserved[g] \ Range(s), g) + Share(m, g) <= Budget[g]

\* Victims are the least recently used: an idle unpinned model that is spared
\* was used no earlier than any model that is named.
OldestGoFirst ==
  \A m \in Models : \A g \in DevicesOf(m) :
    \A lastUsed \in Ages(g), inFlight \in Business(g) :
      \A s \in EvictionCandidates(g, Share(m, g), lastUsed, inFlight) :
        \A spared \in Eligible(g, inFlight) \ Range(s), v \in Range(s) :
          lastUsed[v] <= lastUsed[spared]

\* pick_most_free_device compares no cost, yet as every automatic model costs
\* the same anywhere, it misses no device that has room under its budget.
AutoPlacementFindsRoom ==
  \A m \in Models : IsAuto(m) =>
    \A g \in Gpus :
      Budget[g] # 0 /\ Total(reserved[g], g) + Vram[m] <= Budget[g] => Fits(MostFreeDevice, m)

=============================================================================
