------------------------- MODULE ResidentSet_proofs -------------------------
(***************************************************************************)
(* The budget is respected for every number of devices, every budget and   *)
(* every set of models, and whatever order callers reserve and release in. *)
(***************************************************************************)
EXTENDS ResidentSet, FiniteSetTheorems, WellFoundedInduction, TLAPS

\* An even share and its remainder are natural numbers.
LEMMA DivisionNat ==
  ASSUME NEW a \in Nat, NEW n \in Nat \ {0}
  PROVE  /\ a \div n \in Nat
         /\ a - (a \div n) * n \in Nat
  OBVIOUS

\* What a model costs on a device is a natural number (per_device_cost).
LEMMA ShareNat ==
  ASSUME NEW m \in Models, NEW g
  PROVE  Share(m, g) \in Nat
<1>1. CASE IsAuto(m)
  BY <1>1, ResidentAssumption DEF Share
<1>2. CASE ~IsAuto(m)
  <2> DEFINE n == Len(GpusOf[m])
  <2>1. n \in Nat \ {0} /\ Vram[m] \in Nat
    BY <1>2, ResidentAssumption DEF IsAuto
  <2>2. /\ Vram[m] \div n \in Nat
        /\ Vram[m] - (Vram[m] \div n) * n \in Nat
    BY <2>1, DivisionNat
  <2>3. QED
    BY <1>2, <2>2 DEF Share
<1>3. QED
  BY <1>1, <1>2

\* The megabytes of one model are as many as its share.
LEMMA OneModelUnits ==
  ASSUME NEW m \in Models, NEW g
  PROVE  /\ IsFiniteSet({m} \X (1 .. Share(m, g)))
         /\ Cardinality({m} \X (1 .. Share(m, g))) = Share(m, g)
<1>1. Share(m, g) \in Nat
  BY ShareNat
<1>2. IsFiniteSet({m}) /\ Cardinality({m}) = 1
  BY FS_Singleton
<1>3. IsFiniteSet(1 .. Share(m, g)) /\ Cardinality(1 .. Share(m, g)) = Share(m, g)
  BY <1>1, FS_Interval
<1>4. QED
  BY <1>1, <1>2, <1>3, FS_Product

\* A set of models holds finitely many megabytes.
LEMMA UnitsFinite ==
  ASSUME NEW S \in SUBSET Models, NEW g
  PROVE  IsFiniteSet(Units(S, g)) /\ Total(S, g) \in Nat
<1> DEFINE family == {{m} \X (1 .. Share(m, g)) : m \in S}
<1> DEFINE f == [m \in S |-> {m} \X (1 .. Share(m, g))]
<1>1. IsFiniteSet(S)
  BY ResidentAssumption, FS_Subset
<1>2. IsFiniteSet(family)
  <2>1. f \in [S -> family] /\ \A F \in family : \E m \in S : f[m] = F
    OBVIOUS
  <2>2. f \in Surjection(S, family)
    BY <2>1 DEF Surjection
  <2>3. QED
    BY <1>1, <2>2, FS_Surjection
<1>3. \A F \in family : IsFiniteSet(F)
  BY OneModelUnits
<1>4. IsFiniteSet(UNION family)
  BY <1>2, <1>3, FS_UNION
<1>5. QED
  BY <1>4, FS_CardinalityType DEF Units, Total

\* Disjoint finite sets count apart.
LEMMA DisjointUnion ==
  ASSUME NEW A, NEW B, IsFiniteSet(A), IsFiniteSet(B), A \cap B = {}
  PROVE  Cardinality(A \cup B) = Cardinality(A) + Cardinality(B)
<1>1. Cardinality(A \cup B) = Cardinality(A) + Cardinality(B) - Cardinality({})
  BY FS_Union
<1>2. Cardinality({}) = 0 /\ Cardinality(A) \in Nat /\ Cardinality(B) \in Nat
  BY FS_EmptySet, FS_CardinalityType
<1>3. QED
  BY <1>1, <1>2

\* Entering a model that was absent adds exactly its share to the total.
LEMMA TotalOfOneMore ==
  ASSUME NEW S \in SUBSET Models, NEW m \in Models, m \notin S, NEW g
  PROVE  Total(S \cup {m}, g) = Total(S, g) + Share(m, g)
<1> DEFINE new == {m} \X (1 .. Share(m, g))
<1>1. Units(S \cup {m}, g) = Units(S, g) \cup new
  BY DEF Units
<1>2. Units(S, g) \cap new = {}
  BY DEF Units
<1>3. /\ IsFiniteSet(Units(S, g)) /\ Cardinality(Units(S, g)) \in Nat
      /\ IsFiniteSet(new) /\ Cardinality(new) = Share(m, g) /\ Share(m, g) \in Nat
  BY UnitsFinite, OneModelUnits, ShareNat DEF Total
<1>4. Cardinality(Units(S, g) \cup new) = Cardinality(Units(S, g)) + Cardinality(new)
  BY <1>2, <1>3, DisjointUnion
<1>5. QED
  BY <1>1, <1>3, <1>4, Zenon DEF Total

\* Fewer models never hold more.
LEMMA TotalMonotonic ==
  ASSUME NEW S \in SUBSET Models, NEW T \in SUBSET S, NEW g
  PROVE  Total(T, g) <= Total(S, g)
<1>1. Units(T, g) \subseteq Units(S, g)
  BY DEF Units
<1>2. IsFiniteSet(Units(S, g))
  BY UnitsFinite
<1>3. QED
  BY <1>1, <1>2, FS_Subset DEF Total

\* No model holds nothing.
LEMMA TotalEmpty == \A g : Total({}, g) = 0
<1>1. \A g : Units({}, g) = {}
  BY DEF Units
<1>2. QED
  BY <1>1, FS_EmptySet DEF Total
-----------------------------------------------------------------------------
\* Every step keeps the reservations sets of models.
LEMMA TypeStep == RSTypeOK /\ [RSNext]_reserved => RSTypeOK'
<1> SUFFICES ASSUME RSTypeOK, [RSNext]_reserved
             PROVE  RSTypeOK'
  OBVIOUS
<1>1. CASE UNCHANGED reserved
  BY <1>1 DEF RSTypeOK
<1>2. ASSUME NEW m \in Models, NEW g \in DevicesOf(m), Reserve(g, m) \/ Release(g, m)
      PROVE  RSTypeOK'
  BY <1>2 DEF RSTypeOK, Reserve, Release
<1>3. QED
  BY <1>1, <1>2 DEF RSNext

\* try_reserve and release keep each device a set of known models.
THEOREM ResidentTypeCorrect == RSSpec => []RSTypeOK
<1>1. RSInit => RSTypeOK
  BY DEF RSInit, RSTypeOK
<1>2. QED
  BY <1>1, TypeStep, PTL DEF RSSpec

\* Every step leaves each total within its budget: a reservation was compared
\* with the budget in the same critical section, a release only lowers it.
LEMMA BudgetStep ==
  RSTypeOK /\ BudgetRespected /\ [RSNext]_reserved => BudgetRespected'
<1> SUFFICES ASSUME RSTypeOK, BudgetRespected, [RSNext]_reserved
             PROVE  BudgetRespected'
  OBVIOUS
<1>1. CASE UNCHANGED reserved
  BY <1>1 DEF BudgetRespected
<1>2. ASSUME NEW m \in Models, NEW g \in DevicesOf(m), Reserve(g, m), NEW h \in Gpus
      PROVE  Total(reserved'[h], h) <= Budget[h]
  <2>1. CASE reserved'[h] = reserved[h]
    BY <2>1 DEF BudgetRespected
  <2>2. CASE reserved'[h] # reserved[h]
    <3>1. h = g /\ Budget[h] # 0 /\ m \notin reserved[h] /\ reserved'[h] = reserved[h] \cup {m}
      BY <1>2, <2>2 DEF Reserve, RSTypeOK
    <3>2. Total(reserved[h], h) + Share(m, h) <= Budget[h]
      BY <1>2, <3>1 DEF Reserve, Fits
    <3>3. Total(reserved[h] \cup {m}, h) = Total(reserved[h], h) + Share(m, h)
      BY <3>1, TotalOfOneMore DEF RSTypeOK
    <3>4. QED
      BY <3>1, <3>2, <3>3
  <2>3. QED
    BY <2>1, <2>2
<1>3. ASSUME NEW m \in Models, NEW g \in DevicesOf(m), Release(g, m), NEW h \in Gpus
      PROVE  Total(reserved'[h], h) <= Budget[h]
  <2>1. reserved[h] \in SUBSET Models /\ reserved'[h] \in SUBSET reserved[h]
    BY <1>3 DEF Release, RSTypeOK
  <2>2. Total(reserved'[h], h) <= Total(reserved[h], h)
    BY <2>1, TotalMonotonic
  <2>3. Total(reserved[h], h) \in Nat /\ Total(reserved'[h], h) \in Nat /\ Budget[h] \in Nat
    BY <2>1, UnitsFinite, ResidentAssumption
  <2>4. QED
    BY <2>2, <2>3 DEF BudgetRespected
<1>4. QED
  BY <1>1, <1>2, <1>3 DEF RSNext, BudgetRespected

\* However callers interleave try_reserve and release, no device is ever
\* reserved beyond its budget.
THEOREM BudgetNeverExceeded == RSSpec => []BudgetRespected
<1>1. RSInit => BudgetRespected
  BY TotalEmpty, ResidentAssumption DEF RSInit, BudgetRespected
<1>2. QED
  BY <1>1, BudgetStep, ResidentTypeCorrect, PTL DEF RSSpec
-----------------------------------------------------------------------------
(* There is a most free device, and it has room where any device has.      *)

\* A set of natural numbers has a least element.
LEMMA LeastNatural ==
  ASSUME NEW S \in SUBSET Nat, S # {}
  PROVE  \E n \in S : \A k \in S : n <= k
<1> DEFINE below == {ss \in Nat \X Nat : ss[1] < ss[2]}
<1>1. IsWellFoundedOn(below, Nat)
  BY NatLessThanWellFounded DEF OpToRel
<1>2. \E n \in S : \A k \in S : ~(<<k, n>> \in below)
  <2> HIDE DEF below
  <2>1. QED
    BY <1>1, WFMin
<1>3. PICK n \in S : \A k \in S : ~(<<k, n>> \in below)
  BY <1>2
<1>4. \A k \in S : ~(k < n)
  BY <1>3
<1>5. QED
  BY <1>4

\* A bounded one has a greatest.
LEMMA GreatestNatural ==
  ASSUME NEW S \in SUBSET Nat, S # {}, NEW b \in Nat, \A k \in S : k <= b
  PROVE  \E n \in S : \A k \in S : k <= n
<1> DEFINE gaps == {b - k : k \in S}
<1>1. gaps \in SUBSET Nat /\ gaps # {}
  <2>1. \A k \in S : b - k \in Nat
    OBVIOUS
  <2>2. QED
    BY <2>1
<1>2. PICK d \in gaps : \A e \in gaps : d <= e
  <2> HIDE DEF gaps
  <2>1. QED
    BY <1>1, LeastNatural
<1>3. PICK n \in S : d = b - n
  OBVIOUS
<1>4. \A k \in S : b - n <= b - k
  BY <1>2, <1>3
<1>5. QED
  BY <1>4

\* What pick_most_free_device compares is a natural number.
LEMMA FreeNat ==
  ASSUME RSTypeOK, NEW g \in Gpus
  PROVE  Free(g) \in Nat /\ Free(g) <= Budget[g] /\ Budget[g] \in Nat
<1>1. Total(reserved[g], g) \in Nat
  BY UnitsFinite DEF RSTypeOK
<1>2. Budget[g] \in Nat
  BY ResidentAssumption
<1>3. QED
  BY <1>1, <1>2 DEF Free

\* The budgets of all devices have a common bound.
LEMMA BudgetsBounded == \E b \in Nat : \A g \in Gpus : Budget[g] <= b
<1> DEFINE blocks == {1 .. Budget[g] : g \in Gpus}
<1> DEFINE f == [g \in Gpus |-> 1 .. Budget[g]]
<1>1. IsFiniteSet(Gpus)
  BY ResidentAssumption, FS_Interval DEF Gpus
<1>2. f \in Surjection(Gpus, blocks)
  BY DEF Surjection
<1>3. IsFiniteSet(blocks)
  BY <1>1, <1>2, FS_Surjection
<1>4. \A g \in Gpus : IsFiniteSet(1 .. Budget[g]) /\ Cardinality(1 .. Budget[g]) = Budget[g]
  BY ResidentAssumption, FS_Interval
<1>5. IsFiniteSet(UNION blocks)
  BY <1>3, <1>4, FS_UNION
<1>6. \A g \in Gpus : Budget[g] <= Cardinality(UNION blocks)
  <2> SUFFICES ASSUME NEW g \in Gpus
               PROVE  Budget[g] <= Cardinality(UNION blocks)
    OBVIOUS
  <2>1. 1 .. Budget[g] \in SUBSET (UNION blocks)
    OBVIOUS
  <2>2. Cardinality(1 .. Budget[g]) <= Cardinality(UNION blocks)
    <3> HIDE DEF blocks
    <3>1. QED
      BY <1>5, <2>1, FS_Subset
  <2>3. QED
    BY <1>4, <2>2
<1>7. QED
  BY <1>5, <1>6, FS_CardinalityType

\* pick_most_free_device always finds the device it looks for.
LEMMA MostFreeExists ==
  ASSUME RSTypeOK
  PROVE  /\ MostFreeDevice \in Gpus
         /\ \A h \in Gpus : Free(h) <= Free(MostFreeDevice)
<1> DEFINE frees == {Free(g) : g \in Gpus}
<1>1. frees \in SUBSET Nat /\ frees # {}
  <2>1. \A g \in Gpus : Free(g) \in Nat
    BY FreeNat
  <2>2. 0 \in Gpus
    BY ResidentAssumption DEF Gpus
  <2>3. QED
    BY <2>1, <2>2
<1>2. PICK b \in Nat : \A g \in Gpus : Budget[g] <= b
  BY BudgetsBounded
<1>3. \A k \in frees : k <= b
  <2>1. \A g \in Gpus : Free(g) <= b
    BY <1>2, FreeNat
  <2>2. QED
    BY <2>1
<1>4. PICK most \in frees : \A k \in frees : k <= most
  <2> HIDE DEF frees
  <2>1. QED
    BY <1>1, <1>3, GreatestNatural
<1> DEFINE best == {g \in Gpus : Free(g) = most}
<1>5. /\ best \in SUBSET Nat /\ best # {}
      /\ NumGpus \in Nat /\ \A g \in best : g <= NumGpus
  BY ResidentAssumption DEF Gpus
<1>6. PICK g \in best : \A h \in best : h <= g
  <2> HIDE DEF best
  <2>1. QED
    BY <1>5, GreatestNatural
<1>7. \A h \in Gpus : Free(h) < Free(g) \/ (Free(h) = Free(g) /\ h <= g)
  <2> SUFFICES ASSUME NEW h \in Gpus
               PROVE  Free(h) < Free(g) \/ (Free(h) = Free(g) /\ h <= g)
    OBVIOUS
  <2>1. Free(h) <= Free(g) /\ Free(g) \in Nat /\ Free(h) \in Nat
    BY <1>4, <1>6, FreeNat
  <2>2. Free(h) = Free(g) => h <= g
    BY <1>6
  <2>3. QED
    BY <2>1, <2>2
<1>8. g \in Gpus
  BY <1>6
<1>9. /\ MostFreeDevice \in Gpus
      /\ \A h \in Gpus : Free(h) < Free(MostFreeDevice) \/ (Free(h) = Free(MostFreeDevice) /\ h <= MostFreeDevice)
  <2> HIDE DEF best
  <2>1. QED
    BY <1>7, <1>8 DEF MostFreeDevice
<1>10. QED
  BY <1>9, FreeNat

\* With budgets respected, whatever fits on some device fits on the one picked.
LEMMA RoomIsFound == RSTypeOK /\ BudgetRespected => AutoPlacementFindsRoom
<1> SUFFICES ASSUME RSTypeOK, BudgetRespected,
                    NEW m \in Models, IsAuto(m), NEW g \in Gpus,
                    Budget[g] # 0, Total(reserved[g], g) + Vram[m] <= Budget[g]
             PROVE  Fits(MostFreeDevice, m)
  BY DEF AutoPlacementFindsRoom
<1> DEFINE h == MostFreeDevice
<1>1. h \in Gpus /\ Free(g) <= Free(h)
  BY MostFreeExists
<1>2. /\ Total(reserved[g], g) \in Nat /\ Total(reserved[h], h) \in Nat
      /\ Budget[g] \in Nat /\ Budget[h] \in Nat /\ Vram[m] \in Nat
  BY <1>1, UnitsFinite, ResidentAssumption DEF RSTypeOK
<1>3. Total(reserved[h], h) <= Budget[h] /\ Total(reserved[g], g) <= Budget[g]
  BY <1>1 DEF BudgetRespected
<1> HIDE DEF h
<1>4. Total(reserved[h], h) + Vram[m] <= Budget[h]
  BY <1>1, <1>2, <1>3 DEF Free
<1>5. Share(m, h) = Vram[m]
  BY DEF Share
<1>6. QED
  BY <1>4, <1>5 DEF Fits, h

\* Automatic placement is never refused while some device has room.
THEOREM AutomaticPlacement == RSSpec => []AutoPlacementFindsRoom
  BY ResidentTypeCorrect, BudgetNeverExceeded, RoomIsFound, PTL
-----------------------------------------------------------------------------
(* Victims are enough and the oldest.                                      *)

\* Two separate sets of models hold what each of them holds.
LEMMA TotalOfDisjoint ==
  ASSUME NEW S \in SUBSET Models, NEW T \in SUBSET Models, S \cap T = {}, NEW g
  PROVE  Total(S \cup T, g) = Total(S, g) + Total(T, g)
<1>1. Units(S \cup T, g) = Units(S, g) \cup Units(T, g)
  BY DEF Units
<1>2. Units(S, g) \cap Units(T, g) = {}
  BY DEF Units
<1>3. /\ IsFiniteSet(Units(S, g)) /\ Cardinality(Units(S, g)) = Total(S, g)
      /\ IsFiniteSet(Units(T, g)) /\ Cardinality(Units(T, g)) = Total(T, g)
  BY UnitsFinite DEF Total
<1>4. Cardinality(Units(S, g) \cup Units(T, g)) = Cardinality(Units(S, g)) + Cardinality(Units(T, g))
  BY <1>2, <1>3, DisjointUnion
<1>5. QED
  BY <1>1, <1>3, <1>4, Zenon DEF Total

\* The elements of a list of eligible entries and of its beginning.
LEMMA PrefixOfOrder ==
  ASSUME RSTypeOK, NEW g \in Gpus, NEW lastUsed, NEW inFlight,
         NEW all \in LruOrders(Eligible(g, inFlight), lastUsed), NEW k \in DOMAIN all
  PROVE  /\ IsFiniteSet(Eligible(g, inFlight))
         /\ Cardinality(Eligible(g, inFlight)) \in Nat
         /\ DOMAIN all = 1 .. Cardinality(Eligible(g, inFlight))
         /\ k \in Nat
         /\ DOMAIN SubSeq(all, 1, k) = 1 .. k
         /\ \A i \in 1 .. k : SubSeq(all, 1, k)[i] = all[i]
         /\ Range(SubSeq(all, 1, k)) = {all[i] : i \in 1 .. k}
         /\ {all[i] : i \in 1 .. k} \subseteq Eligible(g, inFlight)
<1> DEFINE n == Cardinality(Eligible(g, inFlight))
<1>1. Eligible(g, inFlight) \in SUBSET Models
  BY DEF Eligible, RSTypeOK
<1>2. IsFiniteSet(Eligible(g, inFlight)) /\ n \in Nat
  BY <1>1, ResidentAssumption, FS_Subset, FS_CardinalityType
<1>3. all \in [1 .. n -> Eligible(g, inFlight)]
  BY DEF LruOrders
<1>4. k \in 1 .. n /\ k \in Nat
  BY <1>2, <1>3
<1>5. SubSeq(all, 1, k) = [i \in 1 .. k |-> all[i]]
  BY <1>2, <1>3, <1>4
<1>6. QED
  BY <1>2, <1>3, <1>4, <1>5 DEF Range

\* Unloading the victims makes the request fit.
LEMMA VictimsSuffice == RSTypeOK /\ BudgetRespected => EvictionSuffices
<1> SUFFICES ASSUME RSTypeOK, BudgetRespected,
                    NEW m \in Models, NEW g \in DevicesOf(m),
                    NEW lastUsed \in Ages(g), NEW inFlight \in Business(g),
                    NEW s \in EvictionCandidates(g, Share(m, g), lastUsed, inFlight)
             PROVE  Total(reserved[g] \ Range(s), g) + Share(m, g) <= Budget[g]
  BY DEF EvictionSuffices
<1>1. g \in Gpus
  BY ResidentAssumption DEF DevicesOf, Range
<1>a. PICK all \in LruOrders(Eligible(g, inFlight), lastUsed) :
        \E k \in DOMAIN all : s = SubSeq(all, 1, k) /\ Enough(all, k, g, Share(m, g))
  BY DEF EvictionCandidates
<1>2. PICK k \in DOMAIN all :
        s = SubSeq(all, 1, k) /\ Total({all[i] : i \in 1 .. k}, g) >= Share(m, g)
  BY <1>a DEF Enough
<1> DEFINE V == Range(s)
<1>3. V = {all[i] : i \in 1 .. k} /\ V \subseteq Eligible(g, inFlight)
  BY <1>1, <1>2, PrefixOfOrder
<1>4. V \in SUBSET Models /\ reserved[g] \ V \in SUBSET Models /\ (reserved[g] \ V) \cup V = reserved[g]
  BY <1>1, <1>3 DEF Eligible, RSTypeOK
<1>5. Total(V, g) >= Share(m, g)
  BY <1>2, <1>3
<1> HIDE DEF V
<1>6. Total(reserved[g], g) = Total(reserved[g] \ V, g) + Total(V, g)
  <2>1. (reserved[g] \ V) \cap V = {}
    OBVIOUS
  <2>2. Total((reserved[g] \ V) \cup V, g) = Total(reserved[g] \ V, g) + Total(V, g)
    BY <1>4, <2>1, TotalOfDisjoint
  <2>3. QED
    BY <1>4, <2>2
<1>7. /\ Total(V, g) \in Nat /\ Total(reserved[g] \ V, g) \in Nat
      /\ Share(m, g) \in Nat /\ Budget[g] \in Nat
  BY <1>1, <1>4, UnitsFinite, ShareNat, ResidentAssumption
<1>8. Total(reserved[g], g) <= Budget[g]
  BY <1>1 DEF BudgetRespected
<1>9. Total(reserved[g] \ V, g) + Share(m, g) <= Budget[g]
  BY <1>5, <1>6, <1>7, <1>8
<1>10. QED
  BY <1>9 DEF V

\* One round of eviction is enough: for every age and business of the entries,
\* unloading what pick_eviction_candidates names makes room for the request.
THEOREM EvictionIsEnough == RSSpec => []EvictionSuffices
  BY ResidentTypeCorrect, BudgetNeverExceeded, VictimsSuffice, PTL

\* An order lists every eligible entry.
LEMMA OrderIsComplete ==
  ASSUME RSTypeOK, NEW g \in Gpus, NEW lastUsed, NEW inFlight,
         NEW all \in LruOrders(Eligible(g, inFlight), lastUsed),
         NEW e \in Eligible(g, inFlight)
  PROVE  \E j \in DOMAIN all : all[j] = e
<1> DEFINE E == Eligible(g, inFlight)
<1> DEFINE n == Cardinality(E)
<1>1. IsFiniteSet(E) /\ n \in Nat
  <2>1. E \in SUBSET Models
    BY DEF Eligible, RSTypeOK
  <2>2. QED
    BY <2>1, ResidentAssumption, FS_Subset, FS_CardinalityType
<1>2. all \in [1 .. n -> E] /\ \A i, j \in 1 .. n : i < j => all[i] # all[j]
  BY DEF LruOrders
<1>3. \A i, j \in 1 .. n : i # j => all[i] # all[j]
  <2> HIDE DEF n
  <2> SUFFICES ASSUME NEW i \in 1 .. n, NEW j \in 1 .. n, i # j
               PROVE  all[i] # all[j]
    OBVIOUS
  <2>1. i < j \/ j < i
    BY <1>1
  <2>2. QED
    BY <1>2, <2>1
<1> HIDE DEF E
<1>4. all \in Injection(1 .. n, E)
  BY <1>2, <1>3 DEF Injection, IsInjective
<1>5. Cardinality(1 .. n) = n
  BY <1>1, FS_Interval
<1> HIDE DEF n
<1>6. Cardinality(1 .. n) = Cardinality(E)
  BY <1>5 DEF n
<1>7. all \in Surjection(1 .. n, E)
  BY <1>1, <1>4, <1>6, FS_Injection
<1>8. QED
  BY <1>2, <1>7 DEF Surjection, E

\* A spared entry stands behind every victim in the sorted list.
LEMMA VictimsAreOldest == RSTypeOK => OldestGoFirst
<1> SUFFICES ASSUME RSTypeOK,
                    NEW m \in Models, NEW g \in DevicesOf(m),
                    NEW lastUsed \in Ages(g), NEW inFlight \in Business(g),
                    NEW s \in EvictionCandidates(g, Share(m, g), lastUsed, inFlight),
                    NEW spared \in Eligible(g, inFlight) \ Range(s), NEW v \in Range(s)
             PROVE  lastUsed[v] <= lastUsed[spared]
  BY DEF OldestGoFirst
<1>1. g \in Gpus
  BY ResidentAssumption DEF DevicesOf, Range
<1>a. PICK all \in LruOrders(Eligible(g, inFlight), lastUsed) :
        \E k \in DOMAIN all : s = SubSeq(all, 1, k)
  BY DEF EvictionCandidates
<1>2. PICK k \in DOMAIN all : s = SubSeq(all, 1, k)
  BY <1>a
<1>3. /\ k \in Nat /\ Cardinality(Eligible(g, inFlight)) \in Nat
      /\ DOMAIN all = 1 .. Cardinality(Eligible(g, inFlight))
      /\ Range(s) = {all[i] : i \in 1 .. k}
  BY <1>1, <1>2, PrefixOfOrder
<1>4. PICK i \in 1 .. k : v = all[i]
  BY <1>3
<1>5. PICK j \in DOMAIN all : spared = all[j]
  BY <1>1, OrderIsComplete
<1>6. j \notin 1 .. k
  BY <1>3, <1>5
<1>7. i \in DOMAIN all /\ i < j
  BY <1>2, <1>3, <1>4, <1>5, <1>6
<1>8. QED
  BY <1>4, <1>5, <1>7 DEF LruOrders

\* No model is evicted while an idle unpinned one that was used earlier is
\* spared, whatever order equal times leave the entries in.
THEOREM LeastRecentlyUsed == RSSpec => []OldestGoFirst
  BY ResidentTypeCorrect, VictimsAreOldest, PTL
-----------------------------------------------------------------------------
\* The shares of a split model, device by device, add up to its estimate: the
\* first device of the list carries what the even shares of the others leave.
LEMMA SplitAddsUp ==
  ASSUME NEW m \in Models, ~IsAuto(m)
  PROVE  Cardinality(UNION {Units({m}, g) \X {g} : g \in DevicesOf(m)}) = Vram[m]
<1> DEFINE devices == Range(GpusOf[m])
<1>1. PICK n \in Nat \ {0} : /\ n = Len(GpusOf[m]) /\ DOMAIN GpusOf[m] = 1 .. n
                             /\ IsFiniteSet(devices) /\ Cardinality(devices) = n
  <2>1. PICK s : s = GpusOf[m]
    OBVIOUS
  <2>2. s \in Seq(Gpus) /\ s # <<>> /\ IsInjective(s)
    BY <2>1, ResidentAssumption DEF IsAuto
  <2>3. PICK n \in Nat \ {0} : n = Len(s) /\ DOMAIN s = 1 .. n
    BY <2>2
  <2>4. s \in Surjection(1 .. n, Range(s)) /\ s \in Injection(1 .. n, Range(s))
    <3>1. s \in [1 .. n -> Range(s)] /\ \A x \in Range(s) : \E i \in 1 .. n : s[i] = x
      BY <2>2, <2>3 DEF Range
    <3>2. QED
      BY <2>2, <2>3, <3>1 DEF Surjection, Injection, IsInjective
  <2>5. IsFiniteSet(1 .. n) /\ Cardinality(1 .. n) = n
    BY FS_Interval
  <2>6. IsFiniteSet(Range(s)) /\ Cardinality(Range(s)) = n
    BY <2>4, <2>5, FS_Surjection
  <2>7. QED
    BY <2>1, <2>3, <2>6
<1>2. PICK V \in Nat, base \in Nat : V = Vram[m] /\ base = Vram[m] \div n
  BY <1>1, DivisionNat, ResidentAssumption
<1>3. V - base * n \in Nat
  BY <1>2, DivisionNat
<1>4. PICK first : first = GpusOf[m][1]
  OBVIOUS
<1>5. first \in devices
  BY <1>1, <1>4 DEF Range
<1> DEFINE others == devices \ {first}
           rest == base + (V - base * n)
           mine == ({m} \X (1 .. rest)) \X {first}
           theirs == ({m} \X (1 .. base)) \X others
<1>6. UNION {Units({m}, g) \X {g} : g \in DevicesOf(m)} = mine \cup theirs
  <2>1. \A g : Units({m}, g) = {m} \X (1 .. Share(m, g))
    BY DEF Units
  <2>2. \A g : Share(m, g) = IF g = first THEN rest ELSE base
    BY <1>1, <1>2, <1>4 DEF Share
  <2>3. \A g \in devices : Units({m}, g) \X {g} = IF g = first THEN mine ELSE ({m} \X (1 .. base)) \X {g}
    <3> HIDE DEF rest
    <3>1. QED
      BY <2>1, <2>2
  <2>4. DevicesOf(m) = devices
    BY DEF DevicesOf
  <2> DEFINE part(g) == Units({m}, g) \X {g}
  <2>5. part(first) = mine /\ \A g \in others : part(g) = ({m} \X (1 .. base)) \X {g}
    BY <1>5, <2>3
  <2>6. theirs = UNION {({m} \X (1 .. base)) \X {g} : g \in others}
    <3> DEFINE block == {m} \X (1 .. base)
    <3> HIDE DEF block, others
    <3>1. QED
      OBVIOUS
  <2>7. UNION {part(g) : g \in devices} = part(first) \cup UNION {part(g) : g \in others}
    <3> HIDE DEF part, devices
    <3>1. devices = {first} \cup others
      BY <1>5
    <3>2. QED
      BY <3>1
  <2>8. UNION {part(g) : g \in others} = theirs
    <3> HIDE DEF part, others, theirs
    <3>1. QED
      BY <2>5, <2>6
  <2>9. QED
    BY <2>4, <2>5, <2>7, <2>8
<1>7. rest \in Nat /\ base * (n - 1) \in Nat /\ rest + base * (n - 1) = V
  <2>1. base * (n - 1) = base * n - base
    OBVIOUS
  <2>2. n - 1 \in Nat
    BY <1>1
  <2>3. base * (n - 1) \in Nat
    BY <2>2
  <2>4. QED
    BY <1>3, <2>1, <2>3
<1> HIDE DEF rest, devices
<1>8. IsFiniteSet(mine) /\ Cardinality(mine) = rest
  <2>1. IsFiniteSet({m} \X (1 .. rest)) /\ Cardinality({m} \X (1 .. rest)) = rest
    <3>1. rest \in Nat
      BY <1>7
    <3>2. IsFiniteSet(1 .. rest) /\ Cardinality(1 .. rest) = rest
      BY <3>1, FS_Interval
    <3>3. IsFiniteSet({m}) /\ Cardinality({m}) = 1
      BY FS_Singleton
    <3>4. QED
      BY <3>1, <3>2, <3>3, FS_Product
  <2>2. IsFiniteSet({first}) /\ Cardinality({first}) = 1
    BY FS_Singleton
  <2> DEFINE block == {m} \X (1 .. rest)
  <2> HIDE DEF block
  <2>3. IsFiniteSet(block) /\ Cardinality(block) = rest
    BY <2>1 DEF block
  <2>4. IsFiniteSet(block \X {first}) /\ Cardinality(block \X {first}) = Cardinality(block) * Cardinality({first})
    BY <2>2, <2>3, FS_Product
  <2>5. QED
    BY <1>7, <2>2, <2>3, <2>4 DEF block
<1>9. IsFiniteSet(theirs) /\ Cardinality(theirs) = base * (n - 1)
  <2>1. IsFiniteSet(others) /\ Cardinality(others) = n - 1
    BY <1>1, <1>5, FS_RemoveElement
  <2> DEFINE block == {m} \X (1 .. base)
  <2>2. IsFiniteSet(block) /\ Cardinality(block) = base
    <3>1. IsFiniteSet(1 .. base) /\ Cardinality(1 .. base) = base
      BY FS_Interval
    <3>2. IsFiniteSet({m}) /\ Cardinality({m}) = 1
      BY FS_Singleton
    <3>3. QED
      BY <3>1, <3>2, FS_Product
  <2> HIDE DEF block, others
  <2>3. IsFiniteSet(block \X others) /\ Cardinality(block \X others) = Cardinality(block) * Cardinality(others)
    BY <2>1, <2>2, FS_Product
  <2>4. QED
    BY <2>1, <2>2, <2>3 DEF block
<1>10. mine \cap theirs = {}
  OBVIOUS
<1> HIDE DEF mine, theirs
<1>11. Cardinality(mine \cup theirs) = rest + base * (n - 1)
  BY <1>8, <1>9, <1>10, DisjointUnion
<1>12. QED
  BY <1>2, <1>6, <1>7, <1>11

\* A split model that holds all its devices has exactly its estimate reserved:
\* per_device_cost loses nothing for any estimate and any number of devices.
THEOREM SplitsReserveTheWhole == RSSpec => []SplitReservesWhole
<1>1. SplitReservesWhole
  BY SplitAddsUp DEF SplitReservesWhole
<1>2. QED
  BY <1>1, PTL
=============================================================================
