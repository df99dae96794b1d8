-------------------------- MODULE AccountingProofs --------------------------
(***************************************************************************)
(* What adds up: the commission ledger (EconomicsLedger), the volume           *)
(* breakdown of an opportunity (VolumeSlices) and the commission split        *)
(* (CommissionSplit), for any number of schedule versions, revenue events,    *)
(* components, payment references, batch entries, slices and requests.  One   *)
(* module, because all three rest on the same sums.                           *)
(*                                                                         *)
(* The first part is a small theory of finite sums: what MapThenSumSet         *)
(* computes, for every finite set.  It rests on the well-foundedness of the   *)
(* subsets of a finite set.  The second is the ledger: the account of         *)
(* payments is kept because the entries of a batch, summed by accrual and     *)
(* then over the accruals, are the entries of the batch.  The third is the    *)
(* breakdown: the row locks keep overlapping replacements apart, and the      *)
(* rows that a reconciled body leaves add up to the same total.               *)
(* The fourth is the commission split (computeCommissionSplits, as            *)
(* Calculations calls it): the units left over after rounding down are as     *)
(* many as the remainders add up to, the ranks that hand them out are a       *)
(* permutation, so exactly those units are handed out; and one price per       *)
(* unit bounds the distance of every other split from below.  The next is     *)
(* ranking, of matches and of claims: the places are the same count, and the  *)
(* score of a claim is a sum over its evidence.  Then come the books of a     *)
(* period, whose three views are one sum taken in different parts, and at     *)
(* the end the list of the latest matches, whose order is a count as well.    *)
(***************************************************************************)
EXTENDS EconomicsLedger, VolumeSlices, Calculations, FiniteSetTheorems, WellFoundedInduction, TLAPS

-----------------------------------------------------------------------------
(* Finite sums                                                             *)

SumOver(a, S) == MapThenSumSet(LAMBDA x : a[x], S)
Pick(s) == CHOOSE x \in s : TRUE
IsRun(g, a, S) == g = [s \in SUBSET S |-> IF s = {} THEN 0 ELSE a[Pick(s)] + g[s \ {Pick(s)}]]

\* Among some subsets of a finite set one has none of the others inside it: the
\* induction over finite sets that the sums need.
LEMMA MinimalSubset ==
    ASSUME NEW S, IsFiniteSet(S), NEW T, T \subseteq SUBSET S, T # {}
    PROVE  \E x \in T : \A y \in T : ~(y \subseteq x /\ y # x)
  <1>1. IsWellFoundedOn(StrictSubsetOrdering(S), SUBSET S)
    BY FS_StrictSubsetOrderingWellFounded, FS_FiniteSubsetsOfFinite
  <1>2. \E x \in T : \A y \in T : <<y, x>> \notin StrictSubsetOrdering(S)
    BY <1>1, WFMin
  <1> QED BY <1>2 DEF StrictSubsetOrdering

\* What the fold of the community modules is.
LEMMA TotalIs == \A a, S : SumOver(a, S) = (CHOOSE g : IsRun(g, a, S))[S]
  BY DEF SumOver, MapThenSumSet, MapThenFoldSet, IsRun, Pick

LEMMA Picked == \A s : s # {} => Pick(s) \in s
  BY DEF Pick

LEMMA RunStep ==
    ASSUME NEW g, NEW a, NEW S, IsRun(g, a, S), NEW s \in SUBSET S
    PROVE  g[s] = IF s = {} THEN 0 ELSE a[Pick(s)] + g[s \ {Pick(s)}]
  BY DEF IsRun

\* The recursion has one solution, whatever set it is started from,
LEMMA RunUnique ==
    ASSUME NEW g, NEW h, NEW a, NEW S, NEW V \in SUBSET S, IsFiniteSet(V), IsRun(g, a, S), IsRun(h, a, V)
    PROVE  \A s \in SUBSET V : g[s] = h[s]
  <1> DEFINE T == {s \in SUBSET V : g[s] # h[s]}
  <1> SUFFICES ASSUME T # {} PROVE FALSE
    OBVIOUS
  <1>0. T \subseteq SUBSET V
    OBVIOUS
  <1>1. PICK s \in T : \A y \in T : ~(y \subseteq s /\ y # s)
    <2> HIDE DEF T
    <2> QED BY <1>0, MinimalSubset
  <1>2. g[s] = (IF s = {} THEN 0 ELSE a[Pick(s)] + g[s \ {Pick(s)}])
    BY RunStep
  <1>3. h[s] = (IF s = {} THEN 0 ELSE a[Pick(s)] + h[s \ {Pick(s)}])
    BY RunStep, ZenonT(60)
  <1>4. s # {} /\ Pick(s) \in s
    BY <1>2, <1>3, Picked
  <1>5. s \ {Pick(s)} \in SUBSET V /\ s \ {Pick(s)} # s
    BY <1>4
  <1>6. g[s \ {Pick(s)}] = h[s \ {Pick(s)}]
    BY <1>1, <1>5
  <1> QED BY <1>2, <1>3, <1>6

\* and it has one.
LEMMA RunExists ==
    ASSUME NEW a, NEW S, IsFiniteSet(S)
    PROVE  \E g : IsRun(g, a, S)
  <1> DEFINE T == {U \in SUBSET S : ~ \E g : IsRun(g, a, U)}
             R(V) == CHOOSE g : IsRun(g, a, V)
  <1> SUFFICES ASSUME T # {} PROVE FALSE
    OBVIOUS
  <1>0. T \subseteq SUBSET S
    OBVIOUS
  <1>1. PICK U \in T : \A y \in T : ~(y \subseteq U /\ y # U)
    <2> HIDE DEF T
    <2> QED BY <1>0, MinimalSubset
  <1>2. ASSUME NEW V \in SUBSET U, V # U PROVE IsRun(R(V), a, V)
    <2>1. \E g : IsRun(g, a, V)
      BY <1>1, <1>2
    <2> QED BY <2>1
  <1> HIDE DEF R
  <1>3. ASSUME NEW V \in SUBSET U, V # U
        PROVE  R(V)[V] = IF V = {} THEN 0 ELSE a[Pick(V)] + R(V \ {Pick(V)})[V \ {Pick(V)}]
    <2>1. R(V)[V] = IF V = {} THEN 0 ELSE a[Pick(V)] + R(V)[V \ {Pick(V)}]
      BY <1>2, <1>3, RunStep
    <2>2. CASE V # {}
      <3>1. V \ {Pick(V)} \in SUBSET V /\ V \ {Pick(V)} \in SUBSET U /\ V \ {Pick(V)} # U
        BY <1>3, <2>2, Picked
      <3>2. IsFiniteSet(V \ {Pick(V)})
        BY <3>1, FS_Subset
      <3>3. IsRun(R(V), a, V) /\ IsRun(R(V \ {Pick(V)}), a, V \ {Pick(V)})
        BY <1>2, <1>3, <3>1
      <3>4. R(V)[V \ {Pick(V)}] = R(V \ {Pick(V)})[V \ {Pick(V)}]
        BY <3>1, <3>2, <3>3, RunUnique
      <3> QED BY <2>1, <2>2, <3>4
    <2> QED BY <2>1, <2>2
  <1> DEFINE g == [s \in SUBSET U |-> IF s = {} THEN 0 ELSE a[Pick(s)] + R(s \ {Pick(s)})[s \ {Pick(s)}]]
  <1>4. ASSUME NEW s \in SUBSET U, s # {} PROVE g[s \ {Pick(s)}] = R(s \ {Pick(s)})[s \ {Pick(s)}]
    <2>1. s \ {Pick(s)} \in SUBSET U /\ s \ {Pick(s)} # U
      BY <1>4, Picked
    <2> QED BY <2>1, <1>3
  <1>5. g = [s \in SUBSET U |-> IF s = {} THEN 0 ELSE a[Pick(s)] + g[s \ {Pick(s)}]]
    BY <1>4
  <1> HIDE DEF g
  <1> QED BY <1>1, <1>5 DEF IsRun

\* So a total is the chosen element's value plus the total of the rest.
LEMMA TotalStep ==
    ASSUME NEW a, NEW S, IsFiniteSet(S)
    PROVE  SumOver(a, S) = IF S = {} THEN 0 ELSE a[Pick(S)] + SumOver(a, S \ {Pick(S)})
  <1> DEFINE R(V) == CHOOSE g : IsRun(g, a, V)
  <1>1. IsRun(R(S), a, S)
    BY RunExists
  <1>2. IsFiniteSet(S \ {Pick(S)}) /\ S \ {Pick(S)} \in SUBSET S
    BY FS_RemoveElement
  <1>3. IsRun(R(S \ {Pick(S)}), a, S \ {Pick(S)})
    BY <1>2, RunExists
  <1>4. SumOver(a, S) = R(S)[S] /\ SumOver(a, S \ {Pick(S)}) = R(S \ {Pick(S)})[S \ {Pick(S)}]
    BY TotalIs
  <1> HIDE DEF R
  <1>5. R(S)[S] = IF S = {} THEN 0 ELSE a[Pick(S)] + R(S)[S \ {Pick(S)}]
    BY <1>1, RunStep
  <1>6. R(S)[S \ {Pick(S)}] = R(S \ {Pick(S)})[S \ {Pick(S)}]
    BY <1>1, <1>2, <1>3, RunUnique
  <1> QED BY <1>4, <1>5, <1>6

LEMMA TotalType ==
    ASSUME NEW S, IsFiniteSet(S), NEW a, \A x \in S : a[x] \in Int
    PROVE  /\ SumOver(a, S) \in Int
           /\ (\A x \in S : a[x] >= 0) => SumOver(a, S) >= 0
  <1> DEFINE Good(V) == SumOver(a, V) \in Int /\ ((\A x \in V : a[x] >= 0) => SumOver(a, V) >= 0)
             T == {V \in SUBSET S : ~Good(V)}
  <1> SUFFICES ASSUME T # {} PROVE FALSE
    OBVIOUS
  <1>0. T \subseteq SUBSET S
    OBVIOUS
  <1>1. PICK V \in T : \A y \in T : ~(y \subseteq V /\ y # V)
    <2> HIDE DEF T
    <2> QED BY <1>0, MinimalSubset
  <1>2. IsFiniteSet(V)
    BY FS_Subset
  <1>3. SumOver(a, V) = IF V = {} THEN 0 ELSE a[Pick(V)] + SumOver(a, V \ {Pick(V)})
    BY <1>2, TotalStep
  <1>4. V # {} /\ Pick(V) \in V
    BY <1>3, Picked
  <1>5. Good(V \ {Pick(V)})
    BY <1>1, <1>4
  <1> QED BY <1>3, <1>4, <1>5

\* The order of the summation does not matter.
LEMMA TotalRemove ==
    ASSUME NEW S, IsFiniteSet(S), NEW a, \A x \in S : a[x] \in Int
    PROVE  \A x \in S : SumOver(a, S) = a[x] + SumOver(a, S \ {x})
  <1> DEFINE Good(V) == \A x \in V : SumOver(a, V) = a[x] + SumOver(a, V \ {x})
             T == {V \in SUBSET S : ~Good(V)}
  <1> SUFFICES ASSUME T # {} PROVE FALSE
    OBVIOUS
  <1>0. T \subseteq SUBSET S
    OBVIOUS
  <1>1. PICK V \in T : \A y \in T : ~(y \subseteq V /\ y # V)
    <2> HIDE DEF T
    <2> QED BY <1>0, MinimalSubset
  <1>2. PICK x \in V : SumOver(a, V) # a[x] + SumOver(a, V \ {x})
    OBVIOUS
  <1> DEFINE y == Pick(V)
  <1>3. y \in V
    BY Picked
  <1>4. IsFiniteSet(V)
    BY FS_Subset
  <1>5. SumOver(a, V) = a[y] + SumOver(a, V \ {y})
    BY <1>3, <1>4, TotalStep
  <1> HIDE DEF y
  <1>6. x # y
    BY <1>2, <1>5
  <1>7. Good(V \ {y}) /\ Good(V \ {x})
    BY <1>1, <1>2, <1>3
  <1>8. SumOver(a, V \ {y}) = a[x] + SumOver(a, (V \ {y}) \ {x})
    BY <1>6, <1>7
  <1>9. SumOver(a, V \ {x}) = a[y] + SumOver(a, (V \ {x}) \ {y})
    BY <1>3, <1>6, <1>7
  <1>10. (V \ {y}) \ {x} = (V \ {x}) \ {y}
    OBVIOUS
  <1>11. SumOver(a, (V \ {y}) \ {x}) \in Int
    <2>1. IsFiniteSet((V \ {y}) \ {x})
      BY <1>4, FS_RemoveElement
    <2> QED BY <2>1, TotalType
  <1>12. a[x] \in Int /\ a[y] \in Int
    BY <1>3
  <1> DEFINE n == SumOver(a, (V \ {y}) \ {x})
  <1>13. n \in Int
    BY <1>11
  <1>14. SumOver(a, V) = a[y] + (a[x] + n) /\ SumOver(a, V \ {x}) = a[y] + n
    BY <1>5, <1>8, <1>9, <1>10
  <1> HIDE DEF n
  <1>15. a[y] + (a[x] + n) = a[x] + (a[y] + n)
    BY <1>12, <1>13
  <1> QED BY <1>2, <1>14, <1>15

LEMMA TotalAdd ==
    ASSUME NEW S, IsFiniteSet(S), NEW x, x \notin S, NEW a, \A y \in S \cup {x} : a[y] \in Int
    PROVE  SumOver(a, S \cup {x}) = a[x] + SumOver(a, S)
  <1>1. IsFiniteSet(S \cup {x}) /\ (S \cup {x}) \ {x} = S
    BY FS_AddElement
  <1> QED BY <1>1, TotalRemove

LEMMA TotalOfFew ==
    ASSUME NEW a
    PROVE  /\ SumOver(a, {}) = 0
           /\ \A x : a[x] \in Int => SumOver(a, {x}) = a[x]
  <1>1. SumOver(a, {}) = 0
    BY TotalStep, FS_EmptySet
  <1>2. ASSUME NEW x, a[x] \in Int PROVE SumOver(a, {x}) = a[x]
    <2>1. IsFiniteSet({x}) /\ {x} \ {x} = {}
      BY FS_Singleton
    <2>2. SumOver(a, {x}) = a[x] + SumOver(a, {x} \ {x})
      BY <1>2, <2>1, TotalRemove
    <2>3. SumOver(a, {x} \ {x}) = 0
      BY <1>1, <2>1
    <2> QED BY <1>2, <2>2, <2>3
  <1> QED BY <1>1, <1>2

\* Totals add up, agree where their terms agree, and may be taken in two parts.
LEMMA TotalPlus ==
    ASSUME NEW S, IsFiniteSet(S), NEW a, NEW b, NEW c,
           \A x \in S : a[x] \in Int /\ b[x] \in Int /\ c[x] = a[x] + b[x]
    PROVE  SumOver(c, S) = SumOver(a, S) + SumOver(b, S)
  <1> DEFINE Good(V) == SumOver(c, V) = SumOver(a, V) + SumOver(b, V)
             T == {V \in SUBSET S : ~Good(V)}
  <1> SUFFICES ASSUME T # {} PROVE FALSE
    OBVIOUS
  <1>0. T \subseteq SUBSET S
    OBVIOUS
  <1>1. PICK V \in T : \A y \in T : ~(y \subseteq V /\ y # V)
    <2> HIDE DEF T
    <2> QED BY <1>0, MinimalSubset
  <1>2. IsFiniteSet(V)
    BY FS_Subset
  <1>3. V # {}
    <2>1. SumOver(a, {}) = 0 /\ SumOver(b, {}) = 0 /\ SumOver(c, {}) = 0
      BY TotalOfFew
    <2>2. Good({})
      BY <2>1
    <2> QED BY <2>2
  <1>4. PICK x \in V : TRUE
    BY <1>3
  <1> DEFINE W == V \ {x}
  <1>5. IsFiniteSet(W) /\ W \subseteq S
    BY <1>2, FS_RemoveElement
  <1>6. Good(W)
    BY <1>1
  <1>7. SumOver(a, V) = a[x] + SumOver(a, W) /\ SumOver(b, V) = b[x] + SumOver(b, W) /\ SumOver(c, V) = c[x] + SumOver(c, W)
    <2>1. (\A y \in V : a[y] \in Int) /\ (\A y \in V : b[y] \in Int) /\ (\A y \in V : c[y] \in Int)
      OBVIOUS
    <2> QED BY <1>2, <2>1, TotalRemove
  <1>8. SumOver(a, W) \in Int /\ SumOver(b, W) \in Int
    <2>1. (\A y \in W : a[y] \in Int) /\ (\A y \in W : b[y] \in Int)
      OBVIOUS
    <2> HIDE DEF W
    <2> QED BY <1>5, <2>1, TotalType
  <1>9. a[x] \in Int /\ b[x] \in Int /\ c[x] = a[x] + b[x]
    OBVIOUS
  <1>10. SumOver(c, V) # SumOver(a, V) + SumOver(b, V)
    OBVIOUS
  <1> HIDE DEF T, W
  <1> QED BY <1>6, <1>7, <1>8, <1>9, <1>10

\* Only zero is twice itself.
LEMMA TwiceIsZero == ASSUME NEW n \in Int, n = n + n PROVE n = 0
  OBVIOUS

LEMMA TotalSame ==
    ASSUME NEW S, IsFiniteSet(S), NEW a, NEW b, \A x \in S : a[x] \in Int /\ a[x] = b[x]
    PROVE  SumOver(a, S) = SumOver(b, S)
  <1> DEFINE z == [x \in S |-> 0]
  <1>1. \A x \in S : a[x] \in Int /\ z[x] \in Int /\ b[x] = a[x] + z[x] /\ z[x] = z[x] + z[x]
    OBVIOUS
  <1>2. \A x \in S : z[x] \in Int
    OBVIOUS
  <1> HIDE DEF z
  <1>3. SumOver(b, S) = SumOver(a, S) + SumOver(z, S) /\ SumOver(z, S) = SumOver(z, S) + SumOver(z, S)
    BY <1>1, TotalPlus
  <1>4. SumOver(a, S) \in Int /\ SumOver(z, S) \in Int
    BY <1>2, TotalType
  <1>5. SumOver(z, S) = 0
    BY <1>3, <1>4, TwiceIsZero
  <1>6. SumOver(b, S) = SumOver(a, S) + 0
    BY <1>3, <1>5
  <1> QED BY <1>4, <1>6

LEMMA TotalUnion ==
    ASSUME NEW A, NEW B, IsFiniteSet(A), IsFiniteSet(B), A \cap B = {},
           NEW a, \A x \in A \cup B : a[x] \in Int
    PROVE  SumOver(a, A \cup B) = SumOver(a, A) + SumOver(a, B)
  <1> DEFINE Good(V) == SumOver(a, A \cup V) = SumOver(a, A) + SumOver(a, V)
             T == {V \in SUBSET B : ~Good(V)}
  <1> SUFFICES ASSUME T # {} PROVE FALSE
    OBVIOUS
  <1>0. T \subseteq SUBSET B
    OBVIOUS
  <1>1. PICK V \in T : \A y \in T : ~(y \subseteq V /\ y # V)
    <2> HIDE DEF T
    <2> QED BY <1>0, MinimalSubset
  <1>2. IsFiniteSet(V) /\ IsFiniteSet(A \cup V)
    BY FS_Subset, FS_Union
  <1>3. SumOver(a, A) \in Int
    BY TotalType
  <1>4. V # {}
    <2>1. A \cup {} = A
      OBVIOUS
    <2>2. SumOver(a, {}) = 0
      BY TotalOfFew
    <2>3. Good({})
      BY <1>3, <2>1, <2>2
    <2> QED BY <2>3
  <1>5. PICK x \in V : TRUE
    BY <1>4
  <1> DEFINE W == V \ {x}
  <1>6. IsFiniteSet(W) /\ W \subseteq B /\ x \notin A /\ (A \cup V) \ {x} = A \cup W
    BY <1>2, FS_RemoveElement
  <1>7. Good(W)
    BY <1>1
  <1>8. SumOver(a, V) = a[x] + SumOver(a, W) /\ SumOver(a, A \cup V) = a[x] + SumOver(a, A \cup W)
    <2>1. SumOver(a, V) = a[x] + SumOver(a, W)
      BY <1>2, TotalRemove
    <2>2. SumOver(a, A \cup V) = a[x] + SumOver(a, (A \cup V) \ {x})
      <3>1. x \in A \cup V /\ \A y \in A \cup V : a[y] \in Int
        OBVIOUS
      <3> HIDE DEF T, W
      <3> QED BY <1>2, <3>1, TotalRemove
    <2> QED BY <1>6, <2>1, <2>2
  <1>9. SumOver(a, W) \in Int
    <2>1. \A y \in W : a[y] \in Int
      OBVIOUS
    <2> HIDE DEF W
    <2> QED BY <1>6, <2>1, TotalType
  <1>10. a[x] \in Int
    OBVIOUS
  <1>11. SumOver(a, A \cup V) # SumOver(a, A) + SumOver(a, V)
    OBVIOUS
  <1> HIDE DEF T, W
  <1> QED BY <1>3, <1>7, <1>8, <1>9, <1>10, <1>11
-----------------------------------------------------------------------------
(* The entries of a batch                                                   *)

EntryAmounts(batch) == [i \in DOMAIN batch |-> batch[i].amount]
EntriesOn(batch, roots) == {i \in DOMAIN batch : batch[i].root \in roots}

LEMMA BatchTotalIs ==
    ASSUME NEW batch, NEW roots
    PROVE  BatchTotal(batch, roots) = SumOver(EntryAmounts(batch), EntriesOn(batch, roots))
  <1> DEFINE S == EntriesOn(batch, roots)
             a == EntryAmounts(batch)
             Run(g) == g = [s \in SUBSET S |-> IF s = {} THEN 0 ELSE batch[Pick(s)].amount + g[s \ {Pick(s)}]]
  <1>1. BatchTotal(batch, roots) = (CHOOSE g : Run(g))[S]
    BY DEF BatchTotal, MapThenSumSet, MapThenFoldSet, Pick, EntriesOn
  <1>2. \A s \in SUBSET S : s # {} => a[Pick(s)] = batch[Pick(s)].amount
    BY Picked DEF EntriesOn, EntryAmounts
  <1> HIDE DEF S, a
  <1>3. \A g : Run(g) <=> IsRun(g, a, S)
    BY <1>2 DEF IsRun
  <1>4. (CHOOSE g : Run(g)) = (CHOOSE g : IsRun(g, a, S))
    <2> HIDE DEF Run
    <2> QED BY <1>3
  <1> QED BY <1>1, <1>4, TotalIs DEF S, a

LEMMA BatchFacts ==
    ASSUME NEW batch \in Seq(Entry), NEW roots
    PROVE  /\ IsFiniteSet(EntriesOn(batch, roots))
           /\ \A i \in EntriesOn(batch, roots) : EntryAmounts(batch)[i] \in Int /\ EntryAmounts(batch)[i] >= 0
  <1>1. DOMAIN batch = 1..Len(batch) /\ Len(batch) \in Nat
    OBVIOUS
  <1>2. IsFiniteSet(1..Len(batch))
    BY <1>1, FS_Interval
  <1>3. EntriesOn(batch, roots) \in SUBSET (1..Len(batch))
    BY <1>1 DEF EntriesOn
  <1>4. \A i \in 1..Len(batch) : batch[i] \in Entry
    BY <1>1
  <1>5. \A i \in 1..Len(batch) : batch[i].amount \in Int /\ batch[i].amount >= 0
    BY <1>4, EconomicsAssumption DEF Entry
  <1>6. \A i \in 1..Len(batch) : EntryAmounts(batch)[i] = batch[i].amount
    BY <1>1 DEF EntryAmounts
  <1>7. IsFiniteSet(EntriesOn(batch, roots))
    BY <1>2, <1>3, FS_Subset
  <1> QED BY <1>3, <1>5, <1>6, <1>7

LEMMA BatchTotalType ==
    ASSUME NEW batch \in Seq(Entry), NEW roots
    PROVE  BatchTotal(batch, roots) \in Nat
  <1>1. /\ SumOver(EntryAmounts(batch), EntriesOn(batch, roots)) \in Int
        /\ SumOver(EntryAmounts(batch), EntriesOn(batch, roots)) >= 0
    BY BatchFacts, TotalType
  <1> QED BY <1>1, BatchTotalIs

LEMMA RootsFinite == IsFiniteSet(Roots)
  BY EconomicsAssumption, FS_Product DEF Roots

\* The entries of a batch, summed accrual by accrual.
LEMMA BatchSplits ==
    ASSUME NEW batch \in Seq(Entry)
    PROVE  SumOver([r \in Roots |-> BatchTotal(batch, {r})], Roots) = BatchTotal(batch, Roots)
  <1> DEFINE b == [r \in Roots |-> BatchTotal(batch, {r})]
             Good(V) == SumOver(b, V) = BatchTotal(batch, V)
             T == {V \in SUBSET Roots : ~Good(V)}
  <1> SUFFICES ASSUME T # {} PROVE FALSE
    OBVIOUS
  <1>0. T \subseteq SUBSET Roots
    OBVIOUS
  <1>1. PICK V \in T : \A y \in T : ~(y \subseteq V /\ y # V)
    <2> HIDE DEF T
    <2> QED BY <1>0, RootsFinite, MinimalSubset
  <1>2. IsFiniteSet(V)
    BY RootsFinite, FS_Subset
  <1>3. V # {}
    <2>1. EntriesOn(batch, {}) = {}
      BY DEF EntriesOn
    <2>2. BatchTotal(batch, {}) = 0 /\ SumOver(b, {}) = 0
      BY <2>1, BatchTotalIs, TotalOfFew
    <2>3. Good({})
      BY <2>2
    <2> QED BY <2>3
  <1>4. PICK r \in V : TRUE
    BY <1>3
  <1> DEFINE W == V \ {r}
  <1>5. Good(W)
    <2>1. W \in SUBSET Roots /\ W \subseteq V /\ W # V
      OBVIOUS
    <2>2. W \notin T
      BY <1>1, <2>1
    <2> HIDE DEF Good, W
    <2> QED BY <2>1, <2>2
  <1>6. SumOver(b, V) = b[r] + SumOver(b, W)
    <2>1. \A x \in V : b[x] \in Int
      BY BatchTotalType
    <2> HIDE DEF b
    <2> QED BY <1>2, <2>1, TotalRemove
  <1>7. BatchTotal(batch, V) = BatchTotal(batch, {r}) + BatchTotal(batch, W)
    <2>1. EntriesOn(batch, V) = EntriesOn(batch, {r}) \cup EntriesOn(batch, W)
      BY DEF EntriesOn
    <2>2. EntriesOn(batch, {r}) \cap EntriesOn(batch, W) = {}
      BY DEF EntriesOn
    <2>3. IsFiniteSet(EntriesOn(batch, {r})) /\ IsFiniteSet(EntriesOn(batch, W))
      BY BatchFacts
    <2>4. \A i \in EntriesOn(batch, {r}) \cup EntriesOn(batch, W) : EntryAmounts(batch)[i] \in Int
      BY BatchFacts
    <2> HIDE DEF W
    <2>5. SumOver(EntryAmounts(batch), EntriesOn(batch, {r}) \cup EntriesOn(batch, W))
          = SumOver(EntryAmounts(batch), EntriesOn(batch, {r})) + SumOver(EntryAmounts(batch), EntriesOn(batch, W))
      BY <2>2, <2>3, <2>4, TotalUnion
    <2> QED BY <2>1, <2>5, BatchTotalIs
  <1>8. b[r] = BatchTotal(batch, {r}) /\ ~Good(V)
    OBVIOUS
  <1> HIDE DEF T, W, b
  <1> QED BY <1>5, <1>6, <1>7, <1>8

\* An accrual that the batch names at most once gets that entry's amount, or nothing.
LEMMA NamedOnce ==
    ASSUME NEW batch \in Seq(Entry), NEW r,
           \A i, j \in DOMAIN batch : batch[i].root = r /\ batch[j].root = r => i = j
    PROVE  \/ BatchTotal(batch, {r}) = 0
           \/ \E i \in DOMAIN batch : batch[i].root = r /\ BatchTotal(batch, {r}) = batch[i].amount
  <1>1. CASE EntriesOn(batch, {r}) = {}
    BY <1>1, BatchTotalIs, TotalOfFew
  <1>2. ASSUME NEW i \in EntriesOn(batch, {r})
        PROVE  i \in DOMAIN batch /\ batch[i].root = r /\ BatchTotal(batch, {r}) = batch[i].amount
    <2>1. i \in DOMAIN batch /\ batch[i].root = r
      BY <1>2 DEF EntriesOn
    <2>2. EntriesOn(batch, {r}) = {i}
      BY <1>2, <2>1 DEF EntriesOn
    <2>3. EntryAmounts(batch)[i] \in Int
      BY <1>2, BatchFacts
    <2>4. SumOver(EntryAmounts(batch), {i}) = EntryAmounts(batch)[i]
      BY <2>3, TotalOfFew
    <2>5. EntryAmounts(batch)[i] = batch[i].amount
      BY <2>1 DEF EntryAmounts
    <2> QED BY <2>1, <2>2, <2>4, <2>5, BatchTotalIs
  <1> QED BY <1>1, <1>2

-----------------------------------------------------------------------------
(* The inductive invariant                                                 *)

\* What a request in flight knows of its rows.
RequestsOK ==
    \A q \in Requests :
        /\ pc[q] \in {"recordReady", "recordCommitted"} => seen[q].event \in Events
        /\ pc[q] = "recordReady" => seen[q].schedule \in Schedules
        /\ pc[q] = "recordCommitted" => event[seen[q].event] # None
        /\ pc[q] = "paymentReady" => seen[q].reference \in References

\* A reconciliation job is about an event that was recorded.
JobsHaveEvents == \A e \in accrualJobs : event[e] # None

IInv ==
    /\ TypeOK
    /\ RequestsOK
    /\ JobsHaveEvents
    /\ AccruedExactlyOnce
    /\ PaymentsAccountForLedger

Used == {f \in References : payment[f] # None}

\* Both sides of the account as totals.
LEMMA AccountIs == PaymentsAccountForLedger <=> SumOver(payment, Used) = SumOver(paid, Roots)
  BY DEF PaymentsAccountForLedger, SumOver, Used

LEMMA AccountIsNext == PaymentsAccountForLedger' <=> SumOver(payment', Used') = SumOver(paid', Roots)
  BY DEF PaymentsAccountForLedger, SumOver, Used, MapThenSumSet, MapThenFoldSet

RequestRow == [schedule: Schedules \cup {None}, event: Events \cup {None},
               batch: Seq(Entry), reference: References \cup {None}]

LEMMA NoRequestType == NoRequest \in RequestRow
  BY DEF NoRequest, RequestRow

LEMMA InitIInv == Init => IInv
  <1> SUFFICES ASSUME Init PROVE IInv
    OBVIOUS
  <1>1. TypeOK
    BY NoRequestType DEF Init, TypeOK, AbsentSchedule, RequestRow
  <1>2. RequestsOK /\ JobsHaveEvents /\ AccruedExactlyOnce
    BY DEF Init, RequestsOK, JobsHaveEvents, AccruedExactlyOnce
  <1>3. PaymentsAccountForLedger
    <2>1. Used = {} /\ \A r \in Roots : paid[r] = 0
      BY DEF Init, Used
    <2>2. SumOver(payment, {}) = 0
      BY TotalOfFew
    <2>3. \A r \in Roots : paid[r] \in Int /\ paid[r] = paid[r] + paid[r]
      BY <2>1
    <2>4. SumOver(paid, Roots) = SumOver(paid, Roots) + SumOver(paid, Roots) /\ SumOver(paid, Roots) \in Int
      BY <2>3, RootsFinite, TotalPlus, TotalType
    <2>5. SumOver(paid, Roots) = 0
      BY <2>4, TwiceIsZero
    <2> QED BY <2>1, <2>2, <2>5, AccountIs
  <1> QED BY <1>1, <1>2, <1>3 DEF IInv

\* Ending a request keeps what is known of the requests.
LEMMA FinishKeeps ==
    ASSUME IInv, NEW q \in Requests, Finish(q),
           \A e \in Events : event[e] # None => event'[e] # None
    PROVE  /\ RequestsOK'
           /\ pc' \in [Requests -> {"idle", "scheduleReady", "recordReady", "recordCommitted", "paymentReady"}]
           /\ seen' \in [Requests -> RequestRow]
  <1>1. pc' \in [Requests -> {"idle", "scheduleReady", "recordReady", "recordCommitted", "paymentReady"}]
    BY DEF IInv, TypeOK, Finish
  <1>2. seen' \in [Requests -> RequestRow]
    BY NoRequestType DEF IInv, TypeOK, Finish, RequestRow
  <1>3. /\ pc'[q] = "idle"
        /\ \A x \in Requests : x # q => pc'[x] = pc[x] /\ seen'[x] = seen[x]
    BY DEF IInv, TypeOK, Finish
  <1>4. RequestsOK'
    BY <1>3 DEF IInv, RequestsOK
  <1> QED BY <1>1, <1>2, <1>4

\* A step that writes no payment keeps the account.
LEMMA AccountKept ==
    ASSUME IInv, UNCHANGED <<paid, payment>>
    PROVE  PaymentsAccountForLedger'
  <1>1. Used' = Used
    BY DEF Used
  <1> QED BY <1>1, AccountIs, AccountIsNext DEF IInv

\* Beginning one does, when what it read are rows.
LEMMA BeginKeeps ==
    ASSUME IInv, NEW q \in Requests, NEW point, NEW what \in RequestRow, Begin(q, point, what),
           UNCHANGED <<schedule, event, ledgerVars, accrualJobs>>,
           \/ point = "scheduleReady"
           \/ point = "recordReady" /\ what.event \in Events /\ what.schedule \in Schedules
           \/ point = "paymentReady" /\ what.reference \in References
    PROVE  IInv'
  <1>1. /\ pc'[q] = point /\ seen'[q] = what
        /\ \A x \in Requests : x # q => pc'[x] = pc[x] /\ seen'[x] = seen[x]
    BY DEF IInv, TypeOK, Begin
  <1>2. pc' \in [Requests -> {"idle", "scheduleReady", "recordReady", "recordCommitted", "paymentReady"}]
    BY DEF IInv, TypeOK, Begin
  <1>3. seen' \in [Requests -> RequestRow]
    BY DEF IInv, TypeOK, Begin, RequestRow
  <1>4. TypeOK'
    BY <1>2, <1>3 DEF IInv, TypeOK, ledgerVars, RequestRow
  <1>5. RequestsOK'
    BY <1>1 DEF IInv, RequestsOK
  <1>6. JobsHaveEvents' /\ AccruedExactlyOnce' /\ PaymentsAccountForLedger'
    BY AccountKept DEF IInv, JobsHaveEvents, AccruedExactlyOnce, ledgerVars
  <1> QED BY <1>4, <1>5, <1>6 DEF IInv

LEMMA CreateScheduleReadKeeps ==
    ASSUME IInv, NEW q \in Requests, NEW p \in Schedules \cup {None}, CreateScheduleRead(q, p)
    PROVE  IInv'
  <1> DEFINE what == [NoRequest EXCEPT !.schedule = p]
  <1>1. what = [schedule |-> p, event |-> None, batch |-> <<>>, reference |-> None]
    BY DEF NoRequest
  <1>2. Begin(q, "scheduleReady", what) /\ UNCHANGED <<schedule, event, ledgerVars, accrualJobs>>
    BY DEF CreateScheduleRead
  <1> HIDE DEF what
  <1>3. what \in RequestRow
    BY <1>1 DEF RequestRow
  <1> QED BY <1>2, <1>3, BeginKeeps

LEMMA RecordReadKeeps ==
    ASSUME IInv, NEW q \in Requests, NEW e \in Events, NEW s \in Schedules, RecordRead(q, e, s)
    PROVE  IInv'
  <1> DEFINE what == [NoRequest EXCEPT !.event = e, !.schedule = s]
             first == [NoRequest EXCEPT !.event = e]
  <1>0. first = [schedule |-> None, event |-> e, batch |-> <<>>, reference |-> None]
    BY DEF NoRequest
  <1>1. what = [schedule |-> s, event |-> e, batch |-> <<>>, reference |-> None]
    <2>1. what = [first EXCEPT !.schedule = s]
      BY DEF NoRequest
    <2> HIDE DEF what, first
    <2> QED BY <1>0, <2>1
  <1>2. Begin(q, "recordReady", what) /\ UNCHANGED <<schedule, event, ledgerVars, accrualJobs>>
    BY DEF RecordRead
  <1> HIDE DEF what
  <1>3. what \in RequestRow /\ what.event = e /\ what.schedule = s
    BY <1>1 DEF RequestRow
  <1> QED BY <1>2, <1>3, BeginKeeps

LEMMA PaymentReadKeeps ==
    ASSUME IInv, NEW q \in Requests, NEW batch \in Batches, NEW f \in References, PaymentRead(q, batch, f)
    PROVE  IInv'
  <1> DEFINE what == [NoRequest EXCEPT !.batch = batch, !.reference = f]
  <1>1. batch \in Seq(Entry)
    <2>1. PICK n \in 1..MaxEntries : batch \in [1..n -> Entry]
      BY DEF Batches
    <2> QED BY <2>1, EconomicsAssumption
  <1>2. what \in RequestRow /\ what.reference = f
    BY <1>1 DEF NoRequest, RequestRow
  <1>3. Begin(q, "paymentReady", what) /\ UNCHANGED <<schedule, event, ledgerVars, accrualJobs>>
    BY DEF PaymentRead
  <1> HIDE DEF what
  <1> QED BY <1>2, <1>3, BeginKeeps

LEMMA FailKeeps ==
    ASSUME IInv, NEW q \in Requests, Fail(q)
    PROVE  IInv'
  <1>1. Finish(q) /\ UNCHANGED <<schedule, event, ledgerVars, accrualJobs>>
    BY DEF Fail
  <1>2. TypeOK' /\ RequestsOK'
    BY <1>1, FinishKeeps DEF IInv, TypeOK, ledgerVars, RequestRow
  <1>3. JobsHaveEvents' /\ AccruedExactlyOnce' /\ PaymentsAccountForLedger'
    BY <1>1, AccountKept DEF IInv, JobsHaveEvents, AccruedExactlyOnce, ledgerVars
  <1> QED BY <1>2, <1>3 DEF IInv

ScheduleRow == [status: ScheduleStatuses \cup {"ABSENT"}, previous: Schedules \cup {None}, version: Nat, born: Nat]

LEMMA CreateScheduleCommitKeeps ==
    ASSUME IInv, NEW q \in Requests, CreateScheduleCommit(q)
    PROVE  IInv'
  <1> DEFINE p == seen[q].schedule
  <1>1. Finish(q) /\ UNCHANGED <<event, ledgerVars, accrualJobs>>
    BY DEF CreateScheduleCommit
  <1>2. PICK s \in Schedules :
           schedule' = [t \in Schedules |->
                          IF t = s THEN NewSchedule(p)
                          ELSE IF t = p THEN [schedule[t] EXCEPT !.status = "SUPERSEDED"]
                          ELSE schedule[t]]
    BY DEF CreateScheduleCommit
  <1>3. p \in Schedules \cup {None}
    BY DEF IInv, TypeOK
  <1>4. \A t \in Schedules : schedule[t] \in ScheduleRow
    BY DEF IInv, TypeOK, ScheduleRow
  <1> HIDE DEF p
  <1>5. NewSchedule(p) \in ScheduleRow
    <2>1. {t \in Schedules : Exists(t)} \in SUBSET Schedules
      OBVIOUS
    <2>2. Cardinality({t \in Schedules : Exists(t)}) \in Nat
      BY <2>1, EconomicsAssumption, FS_Subset, FS_CardinalityType
    <2>3. p # None => schedule[p].version \in Nat
      BY <1>3, <1>4 DEF ScheduleRow
    <2> QED BY <1>3, <2>2, <2>3 DEF NewSchedule, ScheduleRow, ScheduleStatuses
  <1>6. \A t \in Schedules : [schedule[t] EXCEPT !.status = "SUPERSEDED"] \in ScheduleRow
    BY <1>4 DEF ScheduleRow, ScheduleStatuses
  <1>7. schedule' \in [Schedules -> ScheduleRow]
    BY <1>2, <1>4, <1>5, <1>6
  <1>8. TypeOK' /\ RequestsOK'
    BY <1>1, <1>7, FinishKeeps DEF IInv, TypeOK, ledgerVars, RequestRow, ScheduleRow
  <1>9. JobsHaveEvents' /\ AccruedExactlyOnce' /\ PaymentsAccountForLedger'
    BY <1>1, AccountKept DEF IInv, JobsHaveEvents, AccruedExactlyOnce, ledgerVars
  <1> QED BY <1>8, <1>9 DEF IInv

LEMMA RecordCommitKeeps ==
    ASSUME IInv, NEW q \in Requests, RecordCommit(q)
    PROVE  IInv'
  <1>1. PICK e \in Events : e = seen[q].event
    BY DEF RecordCommit, IInv, RequestsOK
  <1>2. PICK s \in Schedules : s = seen[q].schedule
    BY DEF RecordCommit, IInv, RequestsOK
  <1>3. event[e] = None /\ accrualRuns[e] = 0
    BY <1>1 DEF RecordCommit, EventIsUnique, IInv, AccruedExactlyOnce
  <1>4. /\ event' \in [Events -> Schedules \cup {None}]
        /\ event'[e] = s
        /\ \A x \in Events : x # e => event'[x] = event[x]
    BY <1>1, <1>2 DEF RecordCommit, IInv, TypeOK
  <1>5. s # None
    BY EconomicsAssumption
  <1>6. /\ accrualRuns' \in [Events -> Nat]
        /\ accrualRuns'[e] = 1
        /\ \A x \in Events : x # e => accrualRuns'[x] = accrualRuns[x]
    BY <1>1, <1>3 DEF RecordCommit, IInv, TypeOK
  <1>7. /\ pc'[q] = "recordCommitted" /\ seen' = seen
        /\ \A x \in Requests : x # q => pc'[x] = pc[x]
        /\ pc' \in [Requests -> {"idle", "scheduleReady", "recordReady", "recordCommitted", "paymentReady"}]
    BY DEF RecordCommit, IInv, TypeOK
  <1>8. TypeOK'
    BY <1>4, <1>6, <1>7 DEF RecordCommit, IInv, TypeOK
  <1>9. RequestsOK'
    BY <1>1, <1>4, <1>5, <1>7 DEF RecordCommit, IInv, RequestsOK
  <1>10. JobsHaveEvents' /\ AccruedExactlyOnce'
    BY <1>4, <1>5, <1>6 DEF RecordCommit, IInv, TypeOK, JobsHaveEvents, AccruedExactlyOnce
  <1>11. PaymentsAccountForLedger'
    BY AccountKept DEF RecordCommit
  <1> QED BY <1>8, <1>9, <1>10, <1>11 DEF IInv

LEMMA RecordEnqueueKeeps ==
    ASSUME IInv, NEW q \in Requests, RecordEnqueue(q)
    PROVE  IInv'
  <1>1. PICK e \in Events : e = seen[q].event /\ event[e] # None
    BY DEF RecordEnqueue, IInv, RequestsOK
  <1>2. /\ Finish(q) /\ UNCHANGED <<schedule, event, ledgerVars>>
        /\ accrualJobs' = accrualJobs \cup {e}
    BY <1>1 DEF RecordEnqueue
  <1>3. TypeOK' /\ RequestsOK'
    BY <1>2, FinishKeeps DEF IInv, TypeOK, ledgerVars, RequestRow
  <1>4. JobsHaveEvents' /\ AccruedExactlyOnce' /\ PaymentsAccountForLedger'
    BY <1>1, <1>2, AccountKept DEF IInv, JobsHaveEvents, AccruedExactlyOnce, ledgerVars
  <1> QED BY <1>3, <1>4 DEF IInv

\* What a payment that commits writes.
LEMMA PaymentStep ==
    ASSUME IInv, NEW q \in Requests, PaymentCommit(q)
    PROVE  \E batch \in Seq(Entry), f \in References :
              /\ batch = seen[q].batch
              /\ BatchIsValid(batch)
              /\ payment[f] = None
              /\ payment' \in [References -> Nat \cup {None}]
              /\ payment'[f] = BatchTotal(batch, Roots)
              /\ \A x \in References : x # f => payment'[x] = payment[x]
              /\ paid' \in [Roots -> Nat]
              /\ \A r \in Roots : paid'[r] = paid[r] + BatchTotal(batch, {r})
  <1>1. PICK batch \in Seq(Entry) : batch = seen[q].batch
    BY DEF IInv, TypeOK
  <1>2. PICK f \in References : f = seen[q].reference
    BY DEF PaymentCommit, IInv, RequestsOK
  <1>3. BatchIsValid(batch) /\ payment[f] = None
    BY <1>1, <1>2 DEF PaymentCommit, FreshBatchIsValid, ReferenceIsUnique
  <1>4. payment' = [payment EXCEPT ![f] = BatchTotal(batch, Roots)]
    BY <1>1, <1>2 DEF PaymentCommit
  <1>5. paid' = [r \in Roots |-> paid[r] + BatchTotal(batch, {r})]
    BY <1>1 DEF PaymentCommit
  <1>6. BatchTotal(batch, Roots) \in Nat /\ \A r \in Roots : BatchTotal(batch, {r}) \in Nat
    BY BatchTotalType
  <1>7. /\ payment' \in [References -> Nat \cup {None}]
        /\ payment'[f] = BatchTotal(batch, Roots)
        /\ \A x \in References : x # f => payment'[x] = payment[x]
    BY <1>4, <1>6 DEF IInv, TypeOK
  <1>8. /\ paid' \in [Roots -> Nat]
        /\ \A r \in Roots : paid'[r] = paid[r] + BatchTotal(batch, {r})
    <2>1. \A r \in Roots : paid[r] \in Nat
      BY DEF IInv, TypeOK
    <2>2. \A r \in Roots : paid[r] + BatchTotal(batch, {r}) \in Nat
      BY <1>6, <2>1
    <2> QED BY <1>5, <2>2
  <1> QED BY <1>1, <1>3, <1>7, <1>8

LEMMA PaymentCommitKeeps ==
    ASSUME IInv, NEW q \in Requests, PaymentCommit(q)
    PROVE  IInv'
  <1>1. Finish(q) /\ UNCHANGED <<schedule, event, accrualRuns, adjusted, adjustments, accrualJobs>>
    BY DEF PaymentCommit
  <1>2. PICK batch \in Seq(Entry), f \in References :
              /\ payment[f] = None
              /\ payment' \in [References -> Nat \cup {None}]
              /\ payment'[f] = BatchTotal(batch, Roots)
              /\ \A x \in References : x # f => payment'[x] = payment[x]
              /\ paid' \in [Roots -> Nat]
              /\ \A r \in Roots : paid'[r] = paid[r] + BatchTotal(batch, {r})
    BY PaymentStep
  <1>3. TypeOK' /\ RequestsOK'
    BY <1>1, <1>2, FinishKeeps DEF IInv, TypeOK, RequestRow
  <1>4. JobsHaveEvents' /\ AccruedExactlyOnce'
    BY <1>1 DEF IInv, JobsHaveEvents, AccruedExactlyOnce
  <1>5. PaymentsAccountForLedger'
    <2> DEFINE b == [r \in Roots |-> BatchTotal(batch, {r})]
               n == BatchTotal(batch, Roots)
    <2>1. n \in Nat /\ \A r \in Roots : b[r] \in Int
      BY BatchTotalType
    <2>2. SumOver(paid', Roots) = SumOver(paid, Roots) + n
      <3>0. \A r \in Roots : paid[r] \in Int /\ b[r] = BatchTotal(batch, {r})
        BY DEF IInv, TypeOK
      <3>1. \A r \in Roots : paid[r] \in Int /\ b[r] \in Int /\ paid'[r] = paid[r] + b[r]
        <4> HIDE DEF b
        <4> QED BY <1>2, <2>1, <3>0
      <3>2. SumOver(b, Roots) = n
        BY BatchSplits
      <3> HIDE DEF b, n
      <3>3. SumOver(paid', Roots) = SumOver(paid, Roots) + SumOver(b, Roots)
        BY <3>1, RootsFinite, TotalPlus
      <3> QED BY <3>2, <3>3
    <2>3. n # None
      BY <2>1, EconomicsAssumption
    <2>4. Used' = Used \cup {f} /\ f \notin Used
      BY <1>2, <2>3 DEF Used
    <2>5. IsFiniteSet(Used) /\ \A x \in Used : payment[x] \in Int /\ payment'[x] = payment[x]
      <3>1. Used \in SUBSET References
        BY DEF Used
      <3>2. \A x \in Used : x # f /\ payment[x] \in Nat
        BY <1>2 DEF Used, IInv, TypeOK
      <3> QED BY <1>2, <3>1, <3>2, EconomicsAssumption, FS_Subset
    <2>6. SumOver(payment', Used) = SumOver(payment, Used)
      BY <2>5, TotalSame
    <2>7. \A x \in Used \cup {f} : payment'[x] \in Int
      BY <1>2, <2>1, <2>5
    <2> HIDE DEF n
    <2>8. SumOver(payment', Used \cup {f}) = payment'[f] + SumOver(payment', Used)
      BY <2>4, <2>5, <2>7, TotalAdd
    <2>9. payment'[f] = n
      BY <1>2 DEF n
    <2>10. SumOver(payment, Used) \in Int
      BY <2>5, TotalType
    <2>11. SumOver(payment, Used) = SumOver(paid, Roots)
      BY AccountIs DEF IInv
    <2>12. SumOver(payment', Used') = n + SumOver(payment, Used)
      BY <2>4, <2>6, <2>8, <2>9
    <2>13. SumOver(payment', Used') = SumOver(paid', Roots)
      BY <2>1, <2>2, <2>10, <2>11, <2>12
    <2> QED BY <2>13, AccountIsNext
  <1> QED BY <1>3, <1>4, <1>5 DEF IInv

LEMMA AdjustLedgerKeeps ==
    ASSUME IInv, NEW r \in Roots, NEW delta \in Int, AdjustLedger(r, delta)
    PROVE  IInv'
  <1>1. TypeOK'
    BY DEF AdjustLedger, IInv, TypeOK, requestVars
  <1>2. RequestsOK' /\ JobsHaveEvents' /\ AccruedExactlyOnce' /\ PaymentsAccountForLedger'
    BY AccountKept DEF AdjustLedger, IInv, RequestsOK, JobsHaveEvents, AccruedExactlyOnce, requestVars
  <1> QED BY <1>1, <1>2 DEF IInv

\* The job finds the entries that recordRevenueEvent wrote with the event.
LEMMA RunAccrualJobKeeps ==
    ASSUME IInv, NEW e \in Events, RunAccrualJob(e)
    PROVE  IInv'
  <1>1. accrualRuns[e] = 1
    BY DEF RunAccrualJob, IInv, JobsHaveEvents, AccruedExactlyOnce
  <1>2. accrualRuns' = accrualRuns /\ accrualJobs' \subseteq accrualJobs
    BY <1>1 DEF RunAccrualJob, NeedsAccrual
  <1>3. TypeOK'
    BY <1>2 DEF RunAccrualJob, IInv, TypeOK, requestVars
  <1>4. RequestsOK' /\ JobsHaveEvents' /\ AccruedExactlyOnce' /\ PaymentsAccountForLedger'
    BY <1>2, AccountKept DEF RunAccrualJob, IInv, RequestsOK, JobsHaveEvents, AccruedExactlyOnce, requestVars
  <1> QED BY <1>3, <1>4 DEF IInv

LEMMA NextIInv == IInv /\ [Next]_vars => IInv'
  <1> SUFFICES ASSUME IInv, [Next]_vars PROVE IInv'
    OBVIOUS
  <1>1. CASE UNCHANGED vars
    <2>1. UNCHANGED <<schedule, event, accrualRuns, adjusted, paid, payment, adjustments, pc, seen, accrualJobs>>
      BY <1>1 DEF vars, ledgerVars, requestVars
    <2> QED BY <2>1, AccountKept DEF IInv, TypeOK, RequestsOK, JobsHaveEvents, AccruedExactlyOnce
  <1>2. ASSUME NEW q \in Requests, RequestStep(q) PROVE IInv'
    BY <1>2, FailKeeps, CreateScheduleReadKeeps, CreateScheduleCommitKeeps, RecordReadKeeps,
        RecordCommitKeeps,
       RecordEnqueueKeeps, PaymentReadKeeps, PaymentCommitKeeps DEF RequestStep
  <1>3. ASSUME NEW r \in Roots, NEW a \in 1..MaxAmount, AdjustLedger(r, a) \/ AdjustLedger(r, -a) PROVE IInv'
    <2>1. a \in Int /\ -a \in Int
      BY EconomicsAssumption
    <2> QED BY <1>3, <2>1, AdjustLedgerKeeps
  <1>4. ASSUME NEW e \in Events, RunAccrualJob(e) PROVE IInv'
    BY <1>4, RunAccrualJobKeeps
  <1> QED BY <1>1, <1>2, <1>3, <1>4 DEF Next

-----------------------------------------------------------------------------
(* The theorems                                                            *)

\* recordRevenueEvent, the worker's job and recordPayment, for any number of each:
\* rows keep their types, every revenue event is accrued exactly once, and the
\* payments on file add up to the PAYMENT entries of the ledger.
THEOREM Ledger_Sound == Spec => []LedgerIsSound
  <1>1. IInv => LedgerIsSound
    BY DEF IInv, LedgerIsSound
  <1> QED BY <1>1, InitIInv, NextIInv, PTL DEF Spec

\* recordPayment: however payments and DEBIT adjustments race, no payment takes an
\* accrual past what is owed on it, but for a batch that names the accrual twice.
THEOREM Never_Overpaid == Spec => NeverOverpaid
  <1> DEFINE Within == \A r \in Roots : paid'[r] > paid[r] => paid'[r] <= NetAmount(r) \/ NamedTwice(r)
  <1>1. IInv /\ [Next]_vars => [Within]_vars
    <2> SUFFICES ASSUME IInv, Next PROVE Within
      OBVIOUS
    <2>1. CASE UNCHANGED paid
      BY <2>1 DEF IInv, TypeOK
    <2>2. ASSUME NEW q \in Requests, PaymentCommit(q) PROVE Within
      <3>1. PICK batch \in Seq(Entry) :
                  /\ batch = seen[q].batch
                  /\ BatchIsValid(batch)
                  /\ \A r \in Roots : paid'[r] = paid[r] + BatchTotal(batch, {r})
        BY <2>2, PaymentStep
      <3> SUFFICES ASSUME NEW r \in Roots, paid'[r] > paid[r], ~NamedTwice(r) PROVE paid'[r] <= NetAmount(r)
        OBVIOUS
      <3>2. \A i, j \in DOMAIN batch : batch[i].root = r /\ batch[j].root = r => i = j
        BY <3>1 DEF NamedTwice
      <3>3. paid[r] \in Int /\ paid'[r] = paid[r] + BatchTotal(batch, {r})
        BY <3>1 DEF IInv, TypeOK
      <3>4. NetAmount(r) \in Int
        BY EconomicsAssumption DEF NetAmount, IInv, TypeOK, Roots
      <3>5. BatchTotal(batch, {r}) # 0
        BY <3>3
      <3>6. PICK i \in DOMAIN batch : batch[i].root = r /\ BatchTotal(batch, {r}) = batch[i].amount
        BY <3>2, <3>5, NamedOnce
      <3>7. batch[i].amount <= NetAmount(r) - paid[r]
        BY <3>1, <3>6 DEF BatchIsValid, Outstanding
      <3>8. BatchTotal(batch, {r}) \in Int
        BY BatchTotalType
      <3> QED BY <3>3, <3>4, <3>6, <3>7, <3>8
    <2> QED BY <2>1, <2>2 DEF Next, RequestStep, Fail, CreateScheduleRead, CreateScheduleCommit, RecordRead,
            RecordCommit, RecordEnqueue, PaymentRead, AdjustLedger, RunAccrualJob, ledgerVars
  <1>2. Init /\ [][Next]_vars => [][Within]_vars
    BY <1>1, InitIInv, NextIInv, PTL
  <1> QED BY <1>2, PTL DEF Spec, NeverOverpaid

\* The ledger only grows: what was paid is never lowered, an event never moves to
\* another schedule version, and a payment on file is never touched.
THEOREM Append_Only == Spec => LedgerIsAppendOnly
  <1> DEFINE Grows == /\ \A r \in Roots : paid'[r] >= paid[r]
                      /\ \A e \in Events : event[e] # None => event'[e] = event[e]
                      /\ \A f \in References : payment[f] # None => payment'[f] = payment[f]
  <1>1. IInv /\ [Next]_vars => [Grows]_vars
    <2> SUFFICES ASSUME IInv, Next PROVE Grows
      OBVIOUS
    <2>1. CASE UNCHANGED <<paid, event, payment>>
      BY <2>1 DEF IInv, TypeOK
    <2>2. ASSUME NEW q \in Requests, PaymentCommit(q) PROVE Grows
      <3>1. PICK batch \in Seq(Entry), f \in References :
                  /\ payment[f] = None
                  /\ \A x \in References : x # f => payment'[x] = payment[x]
                  /\ \A r \in Roots : paid'[r] = paid[r] + BatchTotal(batch, {r})
        BY <2>2, PaymentStep
      <3>2. \A r \in Roots : BatchTotal(batch, {r}) \in Nat /\ paid[r] \in Nat
        BY BatchTotalType DEF IInv, TypeOK
      <3>3. event' = event
        BY <2>2 DEF PaymentCommit
      <3>4. ASSUME NEW r \in Roots PROVE paid'[r] >= paid[r]
        <4> DEFINE n == BatchTotal(batch, {r})
        <4>1. n \in Nat /\ paid[r] \in Nat
          BY <3>2
        <4>2. paid'[r] = paid[r] + n
          BY <3>1
        <4> HIDE DEF n
        <4> QED BY <4>1, <4>2
      <3>5. \A x \in References : payment[x] # None => payment'[x] = payment[x]
        BY <3>1
      <3> QED BY <3>3, <3>4, <3>5
    <2>3. ASSUME NEW q \in Requests, RecordCommit(q) PROVE Grows
      <3>1. PICK e \in Events : e = seen[q].event
        BY <2>3 DEF RecordCommit, IInv, RequestsOK
      <3>2. event[e] = None /\ \A x \in Events : x # e => event'[x] = event[x]
        BY <2>3, <3>1 DEF RecordCommit, EventIsUnique, IInv, TypeOK
      <3>3. UNCHANGED <<paid, payment>>
        BY <2>3 DEF RecordCommit
      <3> QED BY <3>2, <3>3 DEF IInv, TypeOK
    <2> QED BY <2>1, <2>2, <2>3
      DEF Next, RequestStep, Fail, CreateScheduleRead, CreateScheduleCommit, RecordRead,
            RecordEnqueue, PaymentRead, AdjustLedger, RunAccrualJob, ledgerVars
  <1>2. Init /\ [][Next]_vars => [][Grows]_vars
    BY <1>1, InitIInv, NextIInv, PTL
  <1> QED BY <1>2, PTL DEF Spec, LedgerIsAppendOnly

-----------------------------------------------------------------------------
(* The volume breakdown of an opportunity                                   *)

\* The states of a request past its delete.
Started == {"inserting", "done", "failed"}

\* What a transaction sees, deletes and inserts are rows, and it inserts last.
SliceTypes ==
    /\ slices \subseteq Rows
    /\ stage \in [Replacements -> {"new", "transaction", "deleting", "inserting", "done", "failed"}]
    /\ snapshot \in [Replacements -> SUBSET Rows]
    /\ deleted \in [Replacements -> SUBSET Rows]
    /\ inserted \in [Replacements -> SUBSET Rows]
    /\ answer = [r \in Replacements |-> answer[r]]
    /\ \A r \in Replacements : /\ inserted[r] \subseteq ToInsert(r)
                               /\ stage[r] \notin Started => inserted[r] = {}

\* The row locks: two open transactions delete different rows, which are still there.
DeletesApart ==
    \A r \in Replacements : Open(r) =>
        /\ deleted[r] \subseteq slices
        /\ \A t \in Replacements : t # r /\ Open(t) => deleted[r] \cap deleted[t] = {}

\* The unique index: what an open transaction inserts collides with nothing that is
\* committed or that another one inserts.
CellsApart ==
    \A r \in Replacements : Open(r) =>
        \A s \in inserted[r] :
            /\ \A u \in slices \ deleted[r] : s.cell # u.cell
            /\ \A t \in Replacements : t # r /\ Open(t) => \A u \in inserted[t] : s.cell # u.cell

\* A delete sees a submission whole or not at all, and takes it so.
SeenWhole ==
    \A r, q \in Replacements :
        /\ ToInsert(q) \cap snapshot[r] # {} => ToInsert(q) \subseteq snapshot[r]
        /\ Open(r) /\ ToInsert(q) \cap deleted[r] # {} => ToInsert(q) \subseteq deleted[r]

\* The answer is the reconciliation of the body.
AnswerOfBody ==
    \A r \in Replacements : stage[r] \in {"transaction", "deleting", "inserting", "done"}
                            => answer[r] = Mismatches(Submission[r])

SlicesInv ==
    /\ SliceTypes /\ DeletesApart /\ CellsApart /\ SeenWhole /\ AnswerOfBody
    /\ NoCellTwice /\ SubmissionsAreWhole

LEMMA LeastNumber ==
    ASSUME NEW T, T \subseteq Nat, T # {}
    PROVE  Min(T) \in T /\ \A y \in T : Min(T) <= y
  <1>1. PICK x \in T : \A y \in T : ~(<<y, x>> \in OpToRel(<, Nat))
    BY NatLessThanWellFounded, WFMin
  <1>2. \A y, z : y \in Nat /\ z \in Nat /\ y < z => <<y, z>> \in OpToRel(<, Nat)
    <2>1. ASSUME NEW y \in Nat, NEW z \in Nat, y < z PROVE <<y, z>> \in {p \in Nat \X Nat : p[1] < p[2]}
      BY <2>1
    <2> QED BY <2>1, Zenon DEF OpToRel
  <1>3. \A y \in T : ~(y < x)
    BY <1>1, <1>2, Zenon
  <1>4. \A y \in T : x <= y
    BY <1>3
  <1> QED BY <1>4 DEF Min

\* What a request would insert is what its body says: no step changes it.
LEMMA BodyIsFixed == \A q \in Replacements : ToInsert(q)' = ToInsert(q)
  BY DEF ToInsert, SliceRow, First

LEMMA AnswerIsFixed ==
    \A r \in Replacements : Mismatches(Submission[r])' = Mismatches(Submission[r])
  BY DEF Mismatches, Duplicates, MapThenSumSet, MapThenFoldSet

LEMMA RowsOfARequest ==
    ASSUME VolumeSlicesAssumption, NEW r \in Replacements
    PROVE  /\ ToInsert(r) \subseteq Rows
           /\ \A s \in ToInsert(r) : s.by = r
           /\ \A s, u \in ToInsert(r) : s.cell = u.cell => s = u
  <1>1. \A s \in ToInsert(r) : s.by = r
    BY DEF ToInsert, SliceRow
  <1>2. ASSUME NEW s \in ToInsert(r), NEW u \in ToInsert(r), s.cell = u.cell
        PROVE  s = u
    <2>1. PICK i \in First(r) : s = SliceRow(r, i)
      BY DEF ToInsert
    <2>2. PICK k \in First(r) : u = SliceRow(r, k)
      BY DEF ToInsert
    <2>3. Submission[r][i].cell = Submission[r][k].cell
      BY <1>2, <2>1, <2>2 DEF SliceRow
    <2>4. i \in Nat /\ k \in Nat /\ i >= 1 /\ k >= 1
      BY DEF VolumeSlicesAssumption, First
    <2>5. ~(i < k) /\ ~(k < i)
      BY <2>3, <2>4 DEF First, Duplicates
    <2> QED BY <2>1, <2>2, <2>4, <2>5
  <1> QED BY <1>1, <1>2 DEF Rows

LEMMA NextIsOwn ==
    ASSUME VolumeSlicesAssumption, NEW r \in Replacements, ~ Finished(r)
    PROVE  NextSlice(r) \in ToInsert(r)
  <1> DEFINE T == {i \in First(r) : SliceRow(r, i) \notin inserted[r]}
  <1>1. T # {}
    BY DEF Finished, ToInsert
  <1>2. T \subseteq Nat
    BY DEF VolumeSlicesAssumption, First
  <1>3. Min(T) \in T
    <2> HIDE DEF T
    <2> QED BY <1>1, <1>2, LeastNumber
  <1>4. NextSlice(r) = SliceRow(r, Min(T))
    BY DEF NextSlice
  <1>5. Min(T) \in First(r)
    BY <1>3
  <1> HIDE DEF T
  <1> QED BY <1>4, <1>5 DEF ToInsert

\* A step of one request: what it sets, and that the others are left alone.
LEMMA StatusMoves ==
    ASSUME SliceTypes, NEW r \in Replacements,
           NEW next \in {"new", "transaction", "deleting", "inserting", "done", "failed"},
           stage' = [stage EXCEPT ![r] = next]
    PROVE  /\ stage' \in [Replacements -> {"new", "transaction", "deleting", "inserting", "done", "failed"}]
           /\ stage'[r] = next
           /\ \A t \in Replacements : t # r => stage'[t] = stage[t]
           /\ Open(r)' <=> next = "inserting"
           /\ \A t \in Replacements : t # r => (Open(t)' <=> Open(t))
  <1>1. /\ stage' \in [Replacements -> {"new", "transaction", "deleting", "inserting", "done", "failed"}]
        /\ stage'[r] = next
        /\ \A t \in Replacements : t # r => stage'[t] = stage[t]
    BY DEF SliceTypes
  <1> QED BY <1>1 DEF Open

\* A request that is not yet in its inserts, or that fails, holds no lock.
LEMMA QuietKeeps ==
    ASSUME SlicesInv, NEW r \in Replacements, NEW next \in {"transaction", "deleting", "failed"},
           stage' = [stage EXCEPT ![r] = next], stage[r] # "done",
           next # "failed" => stage[r] \notin Started,
           UNCHANGED <<slices, deleted, inserted>>
    PROVE  DeletesApart' /\ CellsApart' /\ NoCellTwice' /\ SubmissionsAreWhole'
  <1>1. /\ stage'[r] = next /\ ~ Open(r)'
        /\ \A t \in Replacements : t # r => stage'[t] = stage[t]
        /\ \A t \in Replacements : Open(t)' => Open(t)
    BY StatusMoves DEF SlicesInv
  <1>2. DeletesApart'
    BY <1>1 DEF SlicesInv, DeletesApart
  <1>3. CellsApart'
    BY <1>1 DEF SlicesInv, CellsApart
  <1>4. SubmissionsAreWhole'
    BY <1>1 DEF SlicesInv, SubmissionsAreWhole, ToInsert, SliceRow, First
  <1> QED BY <1>2, <1>3, <1>4 DEF SlicesInv, NoCellTwice

LEMMA ArriveKeeps ==
    ASSUME SlicesInv, NEW r \in Replacements, Arrive(r)
    PROVE  SlicesInv'
  <1>1. /\ stage[r] = "new" /\ stage' = [stage EXCEPT ![r] = "transaction"]
        /\ answer' = [answer EXCEPT ![r] = Mismatches(Submission[r])]
        /\ UNCHANGED <<slices, snapshot, deleted, inserted>>
    BY DEF Arrive
  <1>2. DeletesApart' /\ CellsApart' /\ NoCellTwice' /\ SubmissionsAreWhole'
    BY <1>1, QuietKeeps DEF Started
  <1>3. /\ stage' \in [Replacements -> {"new", "transaction", "deleting", "inserting", "done", "failed"}]
        /\ stage'[r] = "transaction" /\ \A t \in Replacements : t # r => stage'[t] = stage[t]
        /\ \A t \in Replacements : Open(t)' => Open(t)
    BY <1>1, StatusMoves DEF SlicesInv
  <1>4. /\ answer'[r] = Mismatches(Submission[r]) /\ answer' = [t \in Replacements |-> answer'[t]]
        /\ \A t \in Replacements : t # r => answer'[t] = answer[t]
    <2>1. answer = [t \in Replacements |-> answer[t]]
      BY DEF SlicesInv, SliceTypes
    <2> QED BY <1>1, <2>1
  <1>5. SliceTypes'
    BY <1>1, <1>3, <1>4
      DEF SlicesInv, SliceTypes, Started, ToInsert, SliceRow, First, Rows
  <1>6. SeenWhole'
    BY <1>1, <1>3 DEF SlicesInv, SeenWhole, ToInsert, SliceRow, First
  <1>7. AnswerOfBody'
    <2>1. \A t \in Replacements : stage'[t] \in {"transaction", "deleting", "inserting", "done"}
                               => answer'[t] = Mismatches(Submission[t])
      BY <1>3, <1>4 DEF SlicesInv, AnswerOfBody
    <2> QED BY <2>1
      DEF AnswerOfBody, Mismatches, Duplicates, MapThenSumSet, MapThenFoldSet
  <1> QED BY <1>2, <1>5, <1>6, <1>7 DEF SlicesInv

LEMMA FailedKeeps ==
    ASSUME SlicesInv, NEW r \in Replacements, stage[r] # "done", Rollback(r)
    PROVE  SlicesInv'
  <1>1. stage' = [stage EXCEPT ![r] = "failed"] /\ UNCHANGED <<slices, snapshot, deleted, inserted, answer>>
    BY DEF Rollback
  <1>2. DeletesApart' /\ CellsApart' /\ NoCellTwice' /\ SubmissionsAreWhole'
    BY <1>1, QuietKeeps
  <1>3. /\ stage' \in [Replacements -> {"new", "transaction", "deleting", "inserting", "done", "failed"}]
        /\ stage'[r] = "failed" /\ \A t \in Replacements : t # r => stage'[t] = stage[t]
        /\ \A t \in Replacements : Open(t)' => Open(t)
    BY <1>1, StatusMoves DEF SlicesInv
  <1>4. SliceTypes'
    BY <1>1, <1>3 DEF SlicesInv, SliceTypes, Started, ToInsert, SliceRow, First, Rows
  <1>5. SeenWhole'
    BY <1>1, <1>3 DEF SlicesInv, SeenWhole, ToInsert, SliceRow, First
  <1>6. AnswerOfBody'
    BY <1>1, <1>3, AnswerIsFixed DEF SlicesInv, AnswerOfBody
  <1> QED BY <1>2, <1>4, <1>5, <1>6 DEF SlicesInv

LEMMA StartDeleteKeeps ==
    ASSUME VolumeSlicesAssumption, SlicesInv, NEW r \in Replacements, StartDelete(r)
    PROVE  SlicesInv'
  <1>1. /\ stage[r] = "transaction" /\ stage' = [stage EXCEPT ![r] = "deleting"]
        /\ snapshot' = [snapshot EXCEPT ![r] = slices]
        /\ UNCHANGED <<slices, deleted, inserted, answer>>
    BY DEF StartDelete
  <1>2. DeletesApart' /\ CellsApart' /\ NoCellTwice' /\ SubmissionsAreWhole'
    BY <1>1, QuietKeeps DEF Started
  <1>3. /\ stage' \in [Replacements -> {"new", "transaction", "deleting", "inserting", "done", "failed"}]
        /\ stage'[r] = "deleting" /\ \A t \in Replacements : t # r => stage'[t] = stage[t]
        /\ \A t \in Replacements : Open(t)' => Open(t)
    BY <1>1, StatusMoves DEF SlicesInv
  <1>4. /\ snapshot' \in [Replacements -> SUBSET Rows] /\ snapshot'[r] = slices
        /\ \A t \in Replacements : t # r => snapshot'[t] = snapshot[t]
    BY <1>1 DEF SlicesInv, SliceTypes
  <1>5. SliceTypes'
    BY <1>1, <1>3, <1>4
      DEF SlicesInv, SliceTypes, Started, ToInsert, SliceRow, First, Rows
  <1>6. SeenWhole'
    <2>1. \A t, q \in Replacements : ToInsert(q) \cap snapshot'[t] # {}
                                     => ToInsert(q) \subseteq snapshot'[t]
      BY <1>4 DEF SlicesInv, SeenWhole, SubmissionsAreWhole
    <2>2. \A t, q \in Replacements : Open(t)' /\ ToInsert(q) \cap deleted'[t] # {}
                                     => ToInsert(q) \subseteq deleted'[t]
      BY <1>1, <1>3 DEF SlicesInv, SeenWhole
    <2> QED BY <2>1, <2>2, BodyIsFixed DEF SeenWhole
  <1>7. AnswerOfBody'
    BY <1>1, <1>3, AnswerIsFixed DEF SlicesInv, AnswerOfBody
  <1> QED BY <1>2, <1>5, <1>6, <1>7 DEF SlicesInv

\* The delete waits for whoever deletes a row it has seen, so the rows that are left
\* are its own; and it takes submissions whole, because it saw them whole.
LEMMA DeleteKeeps ==
    ASSUME VolumeSlicesAssumption, SlicesInv, NEW r \in Replacements, Delete(r)
    PROVE  SlicesInv'
  <1>1. /\ stage[r] = "deleting" /\ stage' = [stage EXCEPT ![r] = "inserting"]
        /\ deleted' = [deleted EXCEPT ![r] = Remaining(r)]
        /\ UNCHANGED <<slices, snapshot, inserted, answer>>
        /\ \A t \in Replacements : t # r /\ Open(t) => deleted[t] \cap snapshot[r] = {}
    BY DEF Delete, DeleteWaits
  <1>2. /\ stage' \in [Replacements -> {"new", "transaction", "deleting", "inserting", "done", "failed"}]
        /\ stage'[r] = "inserting" /\ \A t \in Replacements : t # r => stage'[t] = stage[t]
        /\ \A t \in Replacements : t # r => (Open(t)' <=> Open(t))
    BY <1>1, StatusMoves DEF SlicesInv
  <1>3. /\ deleted' \in [Replacements -> SUBSET Rows] /\ deleted'[r] = snapshot[r] \cap slices
        /\ \A t \in Replacements : t # r => deleted'[t] = deleted[t]
    BY <1>1 DEF SlicesInv, SliceTypes, Remaining
  <1>4. inserted[r] = {}
    BY <1>1 DEF SlicesInv, SliceTypes, Started
  <1>5. SliceTypes'
    BY <1>1, <1>2, <1>3, <1>4
      DEF SlicesInv, SliceTypes, Started, ToInsert, SliceRow, First, Rows
  <1>6. DeletesApart'
    BY <1>1, <1>2, <1>3 DEF SlicesInv, DeletesApart
  <1>7. CellsApart'
    <2> SUFFICES ASSUME NEW t \in Replacements, Open(t)', NEW s \in inserted[t]
                 PROVE  /\ \A u \in slices \ deleted'[t] : s.cell # u.cell
                        /\ \A q \in Replacements : q # t /\ Open(q)' => \A u \in inserted[q] : s.cell # u.cell
      BY <1>1 DEF CellsApart
    <2>1. t # r
      BY <1>4
    <2> QED BY <1>2, <1>3, <1>4, <2>1 DEF SlicesInv, CellsApart
  <1>8. SeenWhole'
    <2>1. ASSUME NEW t \in Replacements, NEW q \in Replacements,
                 Open(t)', ToInsert(q) \cap deleted'[t] # {}
          PROVE  ToInsert(q) \subseteq deleted'[t]
      <3>1. CASE t = r
        <4>1. ToInsert(q) \cap snapshot[r] # {} /\ ToInsert(q) \cap slices # {}
          BY <1>3, <2>1, <3>1
        <4>2. ToInsert(q) \subseteq snapshot[r] /\ ToInsert(q) \subseteq slices
          BY <4>1 DEF SlicesInv, SeenWhole, SubmissionsAreWhole
        <4> QED BY <1>3, <3>1, <4>2
      <3>2. CASE t # r
        BY <1>2, <1>3, <2>1, <3>2 DEF SlicesInv, SeenWhole
      <3> QED BY <3>1, <3>2
    <2>2. \A t, q \in Replacements : ToInsert(q) \cap snapshot'[t] # {}
                                     => ToInsert(q) \subseteq snapshot'[t]
      BY <1>1 DEF SlicesInv, SeenWhole
    <2> QED BY <2>1, <2>2, BodyIsFixed DEF SeenWhole
  <1>9. NoCellTwice' /\ SubmissionsAreWhole'
    BY <1>1, <1>2
      DEF SlicesInv, NoCellTwice, SubmissionsAreWhole, ToInsert, SliceRow, First
  <1>10. AnswerOfBody'
    BY <1>1, <1>2, AnswerIsFixed DEF SlicesInv, AnswerOfBody
  <1> QED BY <1>5, <1>6, <1>7, <1>8, <1>9, <1>10 DEF SlicesInv

\* The insert waits for whoever writes its cell, and fails on a committed row of it.
LEMMA InsertKeeps ==
    ASSUME VolumeSlicesAssumption, SlicesInv, NEW r \in Replacements, Insert(r)
    PROVE  SlicesInv'
  <1> DEFINE n == NextSlice(r)
  <1>1. /\ stage[r] = "inserting" /\ ~ Finished(r)
        /\ inserted' = [inserted EXCEPT ![r] = inserted[r] \cup {n}]
        /\ UNCHANGED <<slices, stage, snapshot, deleted, answer>>
        /\ \A u \in slices \ deleted[r] : u.cell # n.cell
        /\ \A t \in Replacements : t # r /\ Open(t) => \A u \in inserted[t] : u.cell # n.cell
    BY DEF Insert, InsertWaits, Conflicts
  <1>2. n \in ToInsert(r) /\ n \in Rows
    BY <1>1, NextIsOwn, RowsOfARequest
  <1> HIDE DEF n
  <1>3. /\ inserted' \in [Replacements -> SUBSET Rows] /\ inserted'[r] = inserted[r] \cup {n}
        /\ \A t \in Replacements : t # r => inserted'[t] = inserted[t]
    BY <1>1, <1>2 DEF SlicesInv, SliceTypes
  <1>4. \A t \in Replacements : Open(t)' <=> Open(t)
    BY <1>1 DEF Open
  <1>5. SliceTypes'
    <2>1. \A t \in Replacements : /\ inserted'[t] \subseteq ToInsert(t)
                                  /\ stage[t] \notin Started => inserted'[t] = {}
      BY <1>1, <1>2, <1>3 DEF SlicesInv, SliceTypes, Started
    <2> QED BY <1>1, <1>3, <2>1
      DEF SlicesInv, SliceTypes, Started, ToInsert, SliceRow, First, Rows
  <1>6. DeletesApart'
    BY <1>1, <1>4 DEF SlicesInv, DeletesApart
  <1>7. CellsApart'
    <2> SUFFICES ASSUME NEW t \in Replacements, Open(t), NEW s \in inserted'[t]
                 PROVE  /\ \A u \in slices \ deleted[t] : s.cell # u.cell
                        /\ \A q \in Replacements : q # t /\ Open(q) => \A u \in inserted'[q] : s.cell # u.cell
      BY <1>1, <1>4 DEF CellsApart
    <2>1. CASE t = r /\ s = n
      BY <1>1, <1>3, <2>1
    <2>2. CASE s \in inserted[t]
      <3>1. /\ \A u \in slices \ deleted[t] : s.cell # u.cell
            /\ \A q \in Replacements : q # t /\ Open(q) => \A u \in inserted[q] : s.cell # u.cell
        BY <2>2 DEF SlicesInv, CellsApart
      <3> QED BY <1>1, <1>3, <2>2, <3>1
    <2> QED BY <1>3, <2>1, <2>2
  <1>8. SeenWhole' /\ NoCellTwice' /\ SubmissionsAreWhole'
    BY <1>1, <1>4
      DEF SlicesInv, SeenWhole, NoCellTwice, SubmissionsAreWhole, ToInsert,
          SliceRow, First
  <1>9. AnswerOfBody'
    BY <1>1, AnswerIsFixed DEF SlicesInv, AnswerOfBody
  <1> QED BY <1>5, <1>6, <1>7, <1>8, <1>9 DEF SlicesInv

LEMMA CommitKeeps ==
    ASSUME VolumeSlicesAssumption, SlicesInv, NEW r \in Replacements, Commit(r)
    PROVE  SlicesInv'
  <1>1. /\ stage[r] = "inserting" /\ Finished(r) /\ stage' = [stage EXCEPT ![r] = "done"]
        /\ slices' = (slices \ deleted[r]) \cup inserted[r]
        /\ UNCHANGED <<snapshot, deleted, inserted, answer>>
    BY DEF Commit
  <1>2. /\ stage' \in [Replacements -> {"new", "transaction", "deleting", "inserting", "done", "failed"}]
        /\ stage'[r] = "done" /\ \A t \in Replacements : t # r => stage'[t] = stage[t]
        /\ ~ Open(r)' /\ \A t \in Replacements : t # r => (Open(t)' <=> Open(t))
    BY <1>1, StatusMoves DEF SlicesInv
  <1>3. Open(r) /\ inserted[r] = ToInsert(r) /\ inserted[r] \subseteq Rows
    <2>1. inserted[r] \subseteq ToInsert(r) /\ ToInsert(r) \subseteq inserted[r]
      BY <1>1 DEF SlicesInv, SliceTypes, Finished
    <2>2. ToInsert(r) \subseteq Rows
      BY RowsOfARequest
    <2> QED BY <1>1, <2>1, <2>2 DEF Open
  <1>4. SliceTypes'
    BY <1>1, <1>2, <1>3
      DEF SlicesInv, SliceTypes, Started, ToInsert, SliceRow, First, Rows
  <1>5. DeletesApart'
    BY <1>1, <1>2, <1>3 DEF SlicesInv, DeletesApart
  <1>6. CellsApart'
    <2> SUFFICES ASSUME NEW t \in Replacements, t # r, Open(t), NEW s \in inserted[t]
                 PROVE  /\ \A u \in slices' \ deleted[t] : s.cell # u.cell
                        /\ \A q \in Replacements : q # t /\ Open(q)' => \A u \in inserted[q] : s.cell # u.cell
      BY <1>1, <1>2 DEF CellsApart
    <2>1. /\ \A u \in slices \ deleted[t] : s.cell # u.cell
          /\ \A q \in Replacements : q # t /\ Open(q) => \A u \in inserted[q] : s.cell # u.cell
      BY DEF SlicesInv, CellsApart
    <2> QED BY <1>1, <1>2, <1>3, <2>1
  <1>7. NoCellTwice'
    <2>1. \A s, u \in slices : s.cell = u.cell => s = u
      BY DEF SlicesInv, NoCellTwice
    <2>2. \A s, u \in inserted[r] : s.cell = u.cell => s = u
      BY <1>3, RowsOfARequest
    <2>3. \A s \in inserted[r], u \in slices \ deleted[r] : s.cell # u.cell
      BY <1>3 DEF SlicesInv, CellsApart
    <2> QED BY <1>1, <2>1, <2>2, <2>3 DEF NoCellTwice
  <1>8. SubmissionsAreWhole'
    <2> SUFFICES ASSUME NEW q \in Replacements, ToInsert(q) \cap slices' # {}
                 PROVE  stage'[q] = "done" /\ ToInsert(q) \subseteq slices'
      BY DEF SubmissionsAreWhole, ToInsert, SliceRow, First
    <2>1. CASE q = r
      BY <1>1, <1>2, <1>3, <2>1
    <2>2. CASE q # r
      <3>1. ToInsert(q) \cap inserted[r] = {}
        BY <1>3, <2>2, RowsOfARequest
      <3>2. ToInsert(q) \cap slices # {} /\ ~(ToInsert(q) \subseteq deleted[r])
        BY <1>1, <3>1
      <3>3. ToInsert(q) \cap deleted[r] = {}
        BY <1>3, <3>2 DEF SlicesInv, SeenWhole
      <3> QED BY <1>1, <1>2, <2>2, <3>2, <3>3 DEF SlicesInv, SubmissionsAreWhole
    <2> QED BY <2>1, <2>2
  <1>9. SeenWhole'
    <2>1. \A t, q \in Replacements :
            /\ ToInsert(q) \cap snapshot'[t] # {} => ToInsert(q) \subseteq snapshot'[t]
            /\ Open(t)' /\ ToInsert(q) \cap deleted'[t] # {} => ToInsert(q) \subseteq deleted'[t]
      BY <1>1, <1>2 DEF SlicesInv, SeenWhole
    <2> QED BY <2>1, BodyIsFixed DEF SeenWhole
  <1>10. AnswerOfBody'
    BY <1>1, <1>2, AnswerIsFixed DEF SlicesInv, AnswerOfBody
  <1> QED BY <1>4, <1>5, <1>6, <1>7, <1>8, <1>9, <1>10 DEF SlicesInv

LEMMA InitSlicesInv == SliceInit => SlicesInv
  BY DEF SliceInit, SlicesInv, SliceTypes, DeletesApart, CellsApart, SeenWhole, NoCellTwice,
         SubmissionsAreWhole,
     AnswerOfBody, Open, Started

LEMMA NextSlicesInv ==
    ASSUME VolumeSlicesAssumption
    PROVE  SlicesInv /\ [SliceNext]_sliceVars => SlicesInv'
  <1> SUFFICES ASSUME SlicesInv, [SliceNext]_sliceVars PROVE SlicesInv'
    OBVIOUS
  <1>1. CASE UNCHANGED sliceVars
    <2>1. DeletesApart' /\ CellsApart' /\ NoCellTwice'
      BY <1>1 DEF sliceVars, SlicesInv, DeletesApart, CellsApart, NoCellTwice, Open
    <2>2. SeenWhole' /\ SubmissionsAreWhole'
      BY <1>1, BodyIsFixed DEF sliceVars, SlicesInv, SeenWhole, SubmissionsAreWhole, Open
    <2>3. SliceTypes'
      BY <1>1 DEF sliceVars, SlicesInv, SliceTypes, ToInsert, SliceRow, First, Rows
    <2>4. AnswerOfBody'
      BY <1>1
        DEF sliceVars, SlicesInv, AnswerOfBody, Mismatches, Duplicates,
            MapThenSumSet, MapThenFoldSet
    <2> QED BY <2>1, <2>2, <2>3, <2>4 DEF SlicesInv
  <1>2. ASSUME NEW r \in Replacements,
               Forbidden(r) \/ Duplicate(r) \/ Deadlock(r) \/ Abort(r)
        PROVE  SlicesInv'
    <2>1. stage[r] # "done" /\ Rollback(r)
      BY <1>2 DEF Forbidden, Duplicate, Deadlock, Abort, Rollback
    <2> QED BY <2>1, FailedKeeps
  <1> QED BY <1>1, <1>2, ArriveKeeps, StartDeleteKeeps, DeleteKeeps, InsertKeeps, CommitKeeps
          DEF SliceNext, Statement, Terminated

LEMMA SlicesInvImplies == SlicesInv => SlicesAreSound
  BY DEF SlicesInv, SliceTypes, DeletesApart, SlicesAreSound, SlicesTypeOK

\* replaceVolumeSlices: however replacements overlap, wait, fail or are ended by a
\* deadlock, no cell is stored twice and no submission is stored in part.
THEOREM Slices_Sound == SliceSpec => []SlicesAreSound
  <1>1. SlicesInv /\ [SliceNext]_sliceVars => SlicesInv'
    BY NextSlicesInv, VolumeSlicesAssumption
  <1> QED BY <1>1, InitSlicesInv, SlicesInvImplies, PTL DEF SliceSpec

-----------------------------------------------------------------------------
(* What is stored adds up to what was answered                              *)

\* h renames the terms of a sum, no two to the same name.
Renames(h, S, R, a, b) ==
    /\ R = {h[x] : x \in S}
    /\ \A x, y \in S : h[x] = h[y] => x = y
    /\ \A x \in S : b[x] \in Int /\ b[x] = a[h[x]]

LEMMA TotalImage ==
    ASSUME NEW S, IsFiniteSet(S), NEW h, NEW a, NEW b, NEW R, Renames(h, S, R, a, b)
    PROVE  SumOver(b, S) = SumOver(a, R)
  <1>a. /\ R = {h[x] : x \in S} /\ \A x, y \in S : h[x] = h[y] => x = y
        /\ \A x \in S : b[x] \in Int /\ b[x] = a[h[x]]
    BY DEF Renames
  <1> DEFINE Image(V) == {h[x] : x \in V}
             Good(V) == SumOver(b, V) = SumOver(a, Image(V))
             T == {V \in SUBSET S : ~Good(V)}
  <1> SUFFICES ASSUME T # {} PROVE FALSE
    <2>1. T = {} => Good(S)
      OBVIOUS
    <2>2. Good(S) <=> SumOver(b, S) = SumOver(a, R)
      BY <1>a
    <2> QED BY <2>1, <2>2
  <1>0. T \subseteq SUBSET S
    OBVIOUS
  <1>1. PICK V \in T : \A y \in T : ~(y \subseteq V /\ y # V)
    <2> HIDE DEF T
    <2> QED BY <1>0, MinimalSubset
  <1>2. IsFiniteSet(V)
    BY FS_Subset
  <1>3. V # {}
    <2>1. SumOver(a, {}) = 0 /\ SumOver(b, {}) = 0 /\ Image({}) = {}
      BY TotalOfFew
    <2>2. Good({})
      BY <2>1
    <2> QED BY <2>2
  <1>4. PICK x \in V : TRUE
    BY <1>3
  <1> DEFINE W == V \ {x}
  <1>5. IsFiniteSet(W) /\ W \subseteq S /\ x \notin W /\ V = W \cup {x} /\ x \in S
    BY <1>2, FS_RemoveElement
  <1>6. Good(W)
    BY <1>1
  <1>7. SumOver(b, V) = b[x] + SumOver(b, W)
    <2>1. \A y \in V : b[y] \in Int
      BY <1>a
    <2> QED BY <1>2, <2>1, TotalRemove
  <1>8. Image(V) = Image(W) \cup {h[x]} /\ h[x] \notin Image(W)
    BY <1>5, <1>a
  <1>9. IsFiniteSet(Image(W)) /\ \A y \in Image(W) \cup {h[x]} : a[y] \in Int
    <2>1. [y \in W |-> h[y]] \in Surjection(W, Image(W))
      BY DEF Surjection
    <2>2. IsFiniteSet(Image(W))
      <3> HIDE DEF Image, W
      <3> QED BY <1>5, <2>1, FS_Surjection
    <2> QED BY <1>5, <1>a, <2>2
  <1>10. ~Good(V)
    OBVIOUS
  <1> HIDE DEF T, W, Image
  <1>11. SumOver(a, Image(W) \cup {h[x]}) = a[h[x]] + SumOver(a, Image(W))
    BY <1>8, <1>9, TotalAdd
  <1>12. a[h[x]] = b[x]
    BY <1>5, <1>a
  <1> HIDE DEF Renames
  <1> QED BY <1>5, <1>6, <1>7, <1>8, <1>10, <1>11, <1>12

\* The sum that the reconciliation computes is a total of amounts.
LEMMA SumIsTotal ==
    ASSUME NEW body, NEW D
    PROVE  MapThenSumSet(LAMBDA i : body[i].amount, D) = SumOver([i \in D |-> body[i].amount], D)
  <1> DEFINE a == [i \in D |-> body[i].amount]
             Runs(g) == g = [s \in SUBSET D |-> IF s = {} THEN 0 ELSE body[Pick(s)].amount + g[s \ {Pick(s)}]]
  <1>1. ASSUME NEW g PROVE Runs(g) <=> IsRun(g, a, D)
    <2>1. \A s \in SUBSET D : s # {} => a[Pick(s)] = body[Pick(s)].amount
      BY Picked
    <2>2. [s \in SUBSET D |-> IF s = {} THEN 0 ELSE body[Pick(s)].amount + g[s \ {Pick(s)}]]
          = [s \in SUBSET D |-> IF s = {} THEN 0 ELSE a[Pick(s)] + g[s \ {Pick(s)}]]
      <3> HIDE DEF a
      <3> QED BY <2>1
    <2> HIDE DEF a
    <2> QED BY <2>2 DEF IsRun
  <1>2. MapThenSumSet(LAMBDA i : body[i].amount, D) = (CHOOSE g : Runs(g))[D]
    BY DEF MapThenSumSet, MapThenFoldSet, Pick
  <1>3. SumOver(a, D) = (CHOOSE g : IsRun(g, a, D))[D]
    BY TotalIs
  <1>4. (CHOOSE g : Runs(g)) = (CHOOSE g : IsRun(g, a, D))
    <2> HIDE DEF a, Runs
    <2> QED BY <1>1
  <1> QED BY <1>2, <1>3, <1>4

\* SetToSeq lists every element of a finite set once.
LEMMA SequenceOf ==
    ASSUME NEW K, IsFiniteSet(K)
    PROVE  /\ Cardinality(K) \in Nat
           /\ SetToSeq(K) \in [1 .. Cardinality(K) -> K]
           /\ \A i, k \in 1 .. Cardinality(K) : SetToSeq(K)[i] = SetToSeq(K)[k] => i = k
           /\ {SetToSeq(K)[i] : i \in 1 .. Cardinality(K)} = K
  <1> DEFINE n == Cardinality(K)
             q == SetToSeq(K)
  <1>1. n \in Nat /\ ExistsBijection(1 .. n, K)
    BY FS_CardinalityType
  <1>2. \E f \in [1 .. n -> K] : IsInjective(f)
    BY <1>1 DEF ExistsBijection, Bijection, Injection, IsInjective, IsInjective
  <1>3. q = CHOOSE f \in [1 .. n -> K] : IsInjective(f)
    BY DEF SetToSeq, Cardinality, Cardinality
  <1>4. q \in [1 .. n -> K] /\ IsInjective(q)
    <2> HIDE DEF q, n
    <2> QED BY <1>2, <1>3
  <1>5. \A i, k \in 1 .. n : q[i] = q[k] => i = k
    <2> HIDE DEF q, n
    <2> QED BY <1>4 DEF IsInjective
  <1>6. {q[i] : i \in 1 .. n} = K
    <2> HIDE DEF q
    <2> DEFINE T == {q[i] : i \in 1 .. n}
    <2>1. q \in Bijection(1 .. n, T)
      BY <1>4, <1>5 DEF Bijection, Injection, Surjection, IsInjective
    <2>2. IsFiniteSet(1 .. n) /\ Cardinality(1 .. n) = n
      BY <1>1, FS_Interval
    <2>3. Cardinality(T) = n
      <3> HIDE DEF T, n
      <3> QED BY <2>1, <2>2, FS_Bijection DEF ExistsBijection
    <2>4. T \subseteq K
      BY <1>4
    <2>5. T = K
      <3> HIDE DEF T
      <3> QED BY <2>3, <2>4, FS_Subset
    <2> QED BY <2>5
  <1> QED BY <1>1, <1>4, <1>5, <1>6

\* A body without a repeated cell or a foreign currency adds up to what is stored of it.
LEMMA StoredReconciles ==
    ASSUME VolumeSlicesAssumption, NEW r \in Replacements,
           slices = ToInsert(r), Mismatches(Submission[r]) = {}
    PROVE  Reconciled(Stored)
  <1> DEFINE body == Submission[r]
             D == DOMAIN body
             amounts == [i \in D |-> body[i].amount]
             h == [i \in D |-> [cell |-> body[i].cell, currency |-> Summary.currency, amount |-> body[i].amount]]
             K == {h[i] : i \in D}
             worth == [k \in K |-> k.amount]
             n == Cardinality(K)
             q == SetToSeq(K)
             held == [i \in 1 .. n |-> q[i].amount]
  <1>1. /\ Duplicates(body) = {}
        /\ \A i \in D : body[i].currency = Summary.currency
        /\ MapThenSumSet(LAMBDA i : body[i].amount, D) = Summary.offered
        /\ Summary.movableNow <= Summary.movable30d /\ Summary.movable30d <= Summary.movable90d
        /\ Summary.movable90d <= Summary.offered
    <2> DEFINE foreign == {i \in D : body[i].currency # Summary.currency}
               total == MapThenSumSet(LAMBDA i : body[i].amount, D \ foreign)
    <2>1. /\ Duplicates(body) = {} /\ foreign = {} /\ total = Summary.offered
          /\ Summary.movableNow <= Summary.movable30d /\ Summary.movable30d <= Summary.movable90d
          /\ Summary.movable90d <= Summary.offered
      BY DEF Mismatches
    <2>2. D \ foreign = D
      BY <2>1
    <2>3. total = MapThenSumSet(LAMBDA i : body[i].amount, D)
      BY <2>2
    <2> QED BY <2>1, <2>3
  <1>2. /\ Len(body) \in Nat /\ D = 1 .. Len(body) /\ IsFiniteSet(D)
        /\ \A i \in D : body[i].amount \in Nat
    <2>1. /\ Len(body) \in Nat /\ D = 1 .. Len(body)
          /\ \A i \in D : body[i].amount \in Nat
      BY DEF VolumeSlicesAssumption
    <2>2. IsFiniteSet(1 .. Len(body))
      BY <2>1, FS_Interval
    <2> QED BY <2>1, <2>2
  <1>3. \A i, k \in D : body[i].cell = body[k].cell => i = k
    BY <1>1, <1>2 DEF Duplicates
  <1>4. \A i \in D : h[i].cell = body[i].cell /\ h[i].amount = body[i].amount /\ h[i].currency = Summary.currency
    OBVIOUS
  <1>5. Stored = q
    <2>1. First(r) = D
      BY <1>1 DEF First
    <2>2. {[cell |-> s.cell, currency |-> Summary.currency, amount |-> s.amount] : s \in slices} = K
      <3> DEFINE Held(s) == [cell |-> s.cell, currency |-> Summary.currency, amount |-> s.amount]
      <3>1. slices = {SliceRow(r, i) : i \in D}
        BY <2>1 DEF ToInsert
      <3>2. \A i \in D : Held(SliceRow(r, i)) = h[i]
        BY DEF SliceRow
      <3>3. {Held(s) : s \in slices} = K
        <4> HIDE DEF Held, h, D
        <4> QED BY <3>1, <3>2
      <3> QED BY <3>3
    <2> QED BY <2>2 DEF Stored
  <1>6. IsFiniteSet(K)
    <2>1. h \in Surjection(D, K)
      BY DEF Surjection
    <2> HIDE DEF K, h, D
    <2> QED BY <1>2, <2>1, FS_Surjection
  <1>7. \A k \in K : /\ k.currency = Summary.currency /\ k.amount \in Nat
                     /\ \A l \in K : l.cell = k.cell => l = k
    <2> HIDE DEF h, D
    <2> QED BY <1>2, <1>3, <1>4
  <1>8. \A i, k \in D : h[i] = h[k] => i = k
    <2> HIDE DEF h, D
    <2> QED BY <1>3, <1>4
  <1>9. SumOver(amounts, D) = SumOver(worth, K)
    <2>1. \A i \in D : amounts[i] \in Int /\ amounts[i] = worth[h[i]]
      BY <1>2, <1>4, SMTT(30)
    <2>2. K = {h[i] : i \in D}
      OBVIOUS
    <2> HIDE DEF worth, amounts, h, D, K
    <2>3. Renames(h, D, K, worth, amounts)
      BY <1>8, <2>1, <2>2 DEF Renames
    <2> QED BY <1>2, <2>3, TotalImage
  <1>10. /\ n \in Nat /\ q \in [1 .. n -> K] /\ {q[i] : i \in 1 .. n} = K
         /\ \A i, k \in 1 .. n : q[i] = q[k] => i = k
    <2> HIDE DEF K
    <2> QED BY <1>6, SequenceOf
  <1>11. SumOver(held, 1 .. n) = SumOver(worth, K)
    <2>1. \A i \in 1 .. n : held[i] \in Int /\ held[i] = worth[q[i]]
      <3> HIDE DEF K, q, n
      <3>1. q \in [1 .. n -> K]
        BY <1>10
      <3>2. \A i \in 1 .. n : q[i] \in K
        BY <3>1, ZenonT(60)
      <3> QED BY <1>7, <3>2
    <2> HIDE DEF worth, held, q, K, n
    <2>2. IsFiniteSet(1 .. n)
      <3>1. n \in Int
        BY <1>10
      <3>2. 1 \in Int
        OBVIOUS
      <3> QED BY <3>1, <3>2, FS_Interval, ZenonT(60)
    <2>3. Renames(q, 1 .. n, K, worth, held)
      BY <1>10, <2>1 DEF Renames
    <2> QED BY <2>2, <2>3, TotalImage
  <1>12. MapThenSumSet(LAMBDA i : q[i].amount, DOMAIN q) = Summary.offered
    <2>1. MapThenSumSet(LAMBDA i : body[i].amount, D) = SumOver(amounts, D)
      BY SumIsTotal
    <2>2. MapThenSumSet(LAMBDA i : q[i].amount, 1 .. n) = SumOver(held, 1 .. n)
      BY SumIsTotal
    <2>3. DOMAIN q = 1 .. n
      BY <1>10
    <2> HIDE DEF q, n, K, held, amounts, worth, D, body
    <2>4. MapThenSumSet(LAMBDA i : q[i].amount, DOMAIN q)
          = MapThenSumSet(LAMBDA i : q[i].amount, 1 .. n)
      BY <2>3
    <2> QED BY <1>1, <1>9, <1>11, <2>1, <2>2, <2>4
  <1> HIDE DEF q, n, K, h
  <1>13. Duplicates(q) = {}
    BY <1>7, <1>10 DEF Duplicates
  <1>14. {i \in DOMAIN q : q[i].currency # Summary.currency} = {}
    BY <1>7, <1>10
  <1>15. DOMAIN q \ {i \in DOMAIN q : q[i].currency # Summary.currency} = DOMAIN q
    BY <1>14
  <1>16. Mismatches(q) = {}
    BY <1>1, <1>12, <1>13, <1>14, <1>15 DEF Mismatches
  <1> QED BY <1>5, <1>16 DEF Reconciled

\* replaceVolumeSlices against getVolumeSlices: when a request was told that its body
\* reconciles and its rows are what is stored, a read of them reconciles too.
THEOREM Answer_Holds == SliceSpec => []ReconciledAnswerHolds
  <1>1. SlicesInv /\ [SliceNext]_sliceVars => SlicesInv'
    BY NextSlicesInv, VolumeSlicesAssumption
  <1>2. SlicesInv => ReconciledAnswerHolds
    BY StoredReconciles, VolumeSlicesAssumption DEF SlicesInv, AnswerOfBody, ReconciledAnswerHolds
  <1> QED BY <1>1, <1>2, InitSlicesInv, PTL DEF SliceSpec

-----------------------------------------------------------------------------
(* The pure calculations: more about sums, and ranks                        *)


\* More about sums: a factor, an order, and counting.
LEMMA TotalScale ==
    ASSUME NEW S, IsFiniteSet(S), NEW k \in Int, NEW a, NEW b, \A x \in S : a[x] \in Int /\ b[x] = k * a[x]
    PROVE  SumOver(b, S) = k * SumOver(a, S)
  <1> DEFINE Good(V) == SumOver(b, V) = k * SumOver(a, V)
             T == {V \in SUBSET S : ~Good(V)}
  <1> SUFFICES ASSUME T # {} PROVE FALSE
    OBVIOUS
  <1>0. T \subseteq SUBSET S
    OBVIOUS
  <1>1. PICK V \in T : \A y \in T : ~(y \subseteq V /\ y # V)
    <2> HIDE DEF T
    <2> QED BY <1>0, MinimalSubset
  <1>2. IsFiniteSet(V) /\ \A x \in V : a[x] \in Int /\ b[x] \in Int /\ b[x] = k * a[x]
    BY FS_Subset
  <1>3. V # {}
    <2>1. SumOver(a, {}) = 0 /\ SumOver(b, {}) = 0
      BY TotalOfFew
    <2>2. Good({})
      BY <2>1
    <2> QED BY <2>2
  <1>4. PICK x \in V : TRUE
    BY <1>3
  <1> DEFINE W == V \ {x}
  <1>5. Good(W)
    BY <1>1
  <1>6. IsFiniteSet(W)
    BY <1>2, FS_Subset
  <1>7. ~Good(V)
    OBVIOUS
  <1> HIDE DEF T, W
  <1>8. SumOver(b, V) = b[x] + SumOver(b, W) /\ SumOver(a, V) = a[x] + SumOver(a, W)
    BY <1>2, TotalRemove DEF W
  <1>9. SumOver(a, W) \in Int /\ a[x] \in Int /\ b[x] = k * a[x]
    <2>1. \A y \in W : a[y] \in Int
      BY <1>2 DEF W
    <2> QED BY <1>2, <1>6, <2>1, TotalType
  <1>10. k * (a[x] + SumOver(a, W)) = k * a[x] + k * SumOver(a, W)
    BY <1>9
  <1> QED BY <1>5, <1>7, <1>8, <1>9, <1>10

LEMMA TotalLeq ==
    ASSUME NEW S, IsFiniteSet(S), NEW a, NEW b,
           \A x \in S : a[x] \in Int /\ b[x] \in Int /\ a[x] <= b[x]
    PROVE  SumOver(a, S) <= SumOver(b, S)
  <1> DEFINE d == [x \in S |-> b[x] - a[x]]
  <1>1. \A x \in S : d[x] \in Int /\ d[x] >= 0 /\ b[x] = a[x] + d[x]
    OBVIOUS
  <1> HIDE DEF d
  <1>2. SumOver(b, S) = SumOver(a, S) + SumOver(d, S)
    BY <1>1, TotalPlus
  <1>3. SumOver(d, S) \in Int /\ SumOver(d, S) >= 0 /\ SumOver(a, S) \in Int
    BY <1>1, TotalType
  <1> QED BY <1>2, <1>3

Indicator(S, T) == [x \in S |-> IF x \in T THEN 1 ELSE 0]

LEMMA TotalCount ==
    ASSUME NEW S, IsFiniteSet(S), NEW T \in SUBSET S
    PROVE  SumOver(Indicator(S, T), S) = Cardinality(T)
  <1> DEFINE a == Indicator(S, T)
             Good(V) == SumOver(a, V) = Cardinality(V)
             Bad == {V \in SUBSET T : ~Good(V)}
  <1>a. \A x \in S : a[x] \in Int /\ a[x] = IF x \in T THEN 1 ELSE 0
    BY DEF Indicator
  <1>b. IsFiniteSet(T) /\ IsFiniteSet(S \ T) /\ S = T \cup (S \ T)
    BY FS_Subset
  <1> HIDE DEF a
  <1>1. SumOver(a, T) = Cardinality(T)
    <2> SUFFICES ASSUME Bad # {} PROVE FALSE
      OBVIOUS
    <2>0. Bad \subseteq SUBSET T
      OBVIOUS
    <2>1. PICK V \in Bad : \A y \in Bad : ~(y \subseteq V /\ y # V)
      <3> HIDE DEF Bad
      <3> QED BY <1>b, <2>0, MinimalSubset
    <2>2. IsFiniteSet(V) /\ V \subseteq T
      BY <1>b, FS_Subset
    <2>3. V # {}
      <3>1. SumOver(a, {}) = 0 /\ Cardinality({}) = 0
        BY TotalOfFew, FS_EmptySet
      <3>2. Good({})
        BY <3>1
      <3> QED BY <3>2
    <2>4. PICK x \in V : TRUE
      BY <2>3
    <2> DEFINE W == V \ {x}
    <2>5. Good(W)
      BY <2>1
    <2>6. ~Good(V)
      OBVIOUS
    <2> HIDE DEF Bad
    <2>7. SumOver(a, V) = 1 + SumOver(a, W)
      BY <1>a, <2>2, TotalRemove
    <2>8. Cardinality(W) = Cardinality(V) - 1 /\ Cardinality(V) \in Nat
      BY <2>2, FS_RemoveElement, FS_CardinalityType
    <2> QED BY <2>5, <2>6, <2>7, <2>8
  <1>2. SumOver(a, S \ T) = 0
    <2> DEFINE z == [x \in S \ T |-> 0]
    <2>1. \A x \in S \ T : z[x] \in Int /\ z[x] = 0 /\ a[x] \in Int /\ a[x] = z[x] /\ z[x] = z[x] + z[x]
      BY <1>a
    <2> HIDE DEF z
    <2>2. SumOver(z, S \ T) = SumOver(z, S \ T) + SumOver(z, S \ T)
      BY <1>b, <2>1, TotalPlus
    <2>3. SumOver(z, S \ T) \in Int
      BY <1>b, <2>1, TotalType
    <2>4. SumOver(a, S \ T) = SumOver(z, S \ T)
      BY <1>b, <2>1, TotalSame
    <2>5. SumOver(z, S \ T) = 0
      BY <2>2, <2>3, TwiceIsZero
    <2> QED BY <2>4, <2>5
  <1>3. SumOver(a, T \cup (S \ T)) = SumOver(a, T) + SumOver(a, S \ T)
    <2>1. T \cap (S \ T) = {} /\ \A x \in T \cup (S \ T) : a[x] \in Int
      BY <1>a
    <2> QED BY <1>b, <2>1, TotalUnion
  <1>4. Cardinality(T) \in Nat
    BY <1>b, FS_CardinalityType
  <1>5. SumOver(a, S) = Cardinality(T)
    BY <1>b, <1>1, <1>2, <1>3, <1>4
  <1> QED BY <1>5 DEF a

Orders(before, S) ==
    /\ \A c \in S : <<c, c>> \notin before
    /\ \A c, d, e \in S : <<c, d>> \in before /\ <<d, e>> \in before => <<c, e>> \in before
    /\ \A c, d \in S : c # d => <<c, d>> \in before \/ <<d, c>> \in before
Counts(rank, before, S) == \A c \in S : rank[c] = Cardinality({d \in S : <<d, c>> \in before})

\* In a strict total order of a finite set the ranks are 0, 1, ..., each taken once.
LEMMA RankOrder ==
    ASSUME NEW S, IsFiniteSet(S), NEW before, Orders(before, S), NEW rank, Counts(rank, before, S)
    PROVE  /\ \A c \in S : rank[c] \in Nat
           /\ \A c, d \in S : <<c, d>> \in before <=> rank[c] < rank[d]
           /\ \A n \in 0 .. Cardinality(S) : Cardinality({c \in S : rank[c] < n}) = n
           /\ {rank[c] : c \in S} = 0 .. (Cardinality(S) - 1)
  <1> USE DEF Orders, Counts
  <1> DEFINE Prev(c) == {d \in S : <<d, c>> \in before}
             N == Cardinality(S)
  <1>1. \A c \in S : IsFiniteSet(Prev(c)) /\ Prev(c) \subseteq S /\ c \notin Prev(c) /\ rank[c] = Cardinality(Prev(c))
    BY FS_Subset
  <1>2. N \in Nat /\ \A c \in S : rank[c] \in Nat /\ rank[c] < N
    <2>1. N \in Nat
      BY FS_CardinalityType
    <2>2. ASSUME NEW c \in S PROVE rank[c] \in Nat /\ rank[c] < N
      <3> HIDE DEF Prev
      <3>1. Cardinality(Prev(c)) <= N /\ Cardinality(Prev(c)) # N /\ Cardinality(Prev(c)) \in Nat
        BY <1>1, FS_Subset, FS_CardinalityType
      <3> QED BY <1>1, <2>1, <3>1
    <2> QED BY <2>1, <2>2
  <1>3. ASSUME NEW c \in S, NEW d \in S, <<c, d>> \in before PROVE rank[c] < rank[d]
    <2>1. Prev(c) \subseteq Prev(d) /\ c \in Prev(d) /\ c \notin Prev(c)
      BY <1>3
    <2> HIDE DEF Prev
    <2>2. Cardinality(Prev(c)) <= Cardinality(Prev(d)) /\ Cardinality(Prev(c)) # Cardinality(Prev(d))
      BY <1>1, <2>1, FS_Subset
    <2>3. rank[c] = Cardinality(Prev(c)) /\ rank[d] = Cardinality(Prev(d))
      BY <1>1
    <2>4. rank[c] \in Nat /\ rank[d] \in Nat
      BY <1>2
    <2> QED BY <2>2, <2>3, <2>4
  <1>4. \A c, d \in S : <<c, d>> \in before <=> rank[c] < rank[d]
    <2> SUFFICES ASSUME NEW c \in S, NEW d \in S, rank[c] < rank[d] PROVE <<c, d>> \in before
      BY <1>3
    <2>1. c # d /\ ~(rank[d] < rank[c])
      BY <1>2
    <2>2. <<d, c>> \notin before
      BY <1>3, <2>1
    <2> QED BY <2>1, <2>2
  <1>5. ASSUME NEW c \in S, NEW d \in S, rank[c] = rank[d] PROVE c = d
    <2>1. ~(rank[d] < rank[c]) /\ ~(rank[c] < rank[d])
      BY <1>2, <1>5
    <2> QED BY <1>3, <2>1
  <1> DEFINE R == {rank[c] : c \in S}
             f == [c \in S |-> rank[c]]
  <1>6. R = 0 .. (N - 1)
    <2>1. f \in Bijection(S, R)
      BY <1>5 DEF Bijection, Injection, Surjection, IsInjective
    <2>2. Cardinality(R) = N
      <3> HIDE DEF R, f, N
      <3> QED BY <2>1, FS_Bijection DEF ExistsBijection, N
    <2>3. R \subseteq 0 .. (N - 1)
      BY <1>2
    <2>4. IsFiniteSet(0 .. (N - 1)) /\ Cardinality(0 .. (N - 1)) = N
      <3> HIDE DEF N
      <3> QED BY <1>2, FS_Interval
    <2> HIDE DEF R, N
    <2> QED BY <2>2, <2>3, <2>4, FS_Subset, ZenonT(60)
  <1>7. ASSUME NEW n \in 0 .. N PROVE Cardinality({c \in S : rank[c] < n}) = n
    <2> DEFINE L == {c \in S : rank[c] < n}
               g == [c \in L |-> rank[c]]
    <2>1. n \in Nat /\ n <= N
      BY <1>2
    <2>2. \A i \in 0 .. (n - 1) : \E c \in S : rank[c] = i
      <3>1. \A i \in 0 .. (N - 1) : i \in R
        BY <1>6
      <3> QED BY <1>2, <2>1, <3>1
    <2>3. g \in [L -> 0 .. (n - 1)]
      BY <1>2, <2>1
    <2>4. \A i \in 0 .. (n - 1) : \E c \in L : g[c] = i
      BY <2>1, <2>2
    <2>5. \A c, d \in L : g[c] = g[d] => c = d
      BY <1>5
    <2>6. g \in Bijection(L, 0 .. (n - 1))
      <3> HIDE DEF L, g
      <3> QED BY <2>3, <2>4, <2>5 DEF Bijection, Injection, Surjection, IsInjective
    <2>7. IsFiniteSet(L)
      BY FS_Subset
    <2>8. Cardinality(0 .. (n - 1)) = n
      BY <2>1, FS_Interval
    <2> HIDE DEF L, g
    <2>9. Cardinality(L) = n
      BY <2>6, <2>7, <2>8, FS_Bijection DEF ExistsBijection
    <2> QED BY <2>9 DEF L
  <1> QED BY <1>2, <1>4, <1>6, <1>7

-----------------------------------------------------------------------------
(* The split of a commission                                               *)

Values(in) == [c \in DOMAIN in.components |-> Value(in, c)]
Exacts(in) == [c \in Bps(in) |-> Numerator(in, c)]
Floors(in) == [c \in Bps(in) |-> FloorShare(in, c)]
Remainders(in) == [c \in Bps(in) |-> Remainder(in, c)]
Distances(in, amounts) ==
    [c \in Bps(in) |-> AbsoluteValue(amounts[c] * BpsBase - Numerator(in, c))]

LEMMA ValuesSum ==
    ASSUME NEW in, NEW D \in SUBSET DOMAIN in.components
    PROVE  MapThenSumSet(LAMBDA c : Value(in, c), D) = SumOver(Values(in), D)
  <1> DEFINE a == Values(in)
             Runs(g) == g = [s \in SUBSET D |-> IF s = {} THEN 0 ELSE Value(in, Pick(s)) + g[s \ {Pick(s)}]]
  <1>1. ASSUME NEW g PROVE Runs(g) <=> IsRun(g, a, D)
    <2>1. \A s \in SUBSET D : s # {} => a[Pick(s)] = Value(in, Pick(s))
      BY Picked DEF Values
    <2> HIDE DEF a
    <2>2. [s \in SUBSET D |-> IF s = {} THEN 0 ELSE Value(in, Pick(s)) + g[s \ {Pick(s)}]]
          = [s \in SUBSET D |-> IF s = {} THEN 0 ELSE a[Pick(s)] + g[s \ {Pick(s)}]]
      BY <2>1
    <2> QED BY <2>2 DEF IsRun
  <1>2. MapThenSumSet(LAMBDA c : Value(in, c), D) = (CHOOSE g : Runs(g))[D]
    BY DEF MapThenSumSet, MapThenFoldSet, Pick
  <1>3. SumOver(a, D) = (CHOOSE g : IsRun(g, a, D))[D]
    BY TotalIs
  <1>4. (CHOOSE g : Runs(g)) = (CHOOSE g : IsRun(g, a, D))
    <2> HIDE DEF a, Runs
    <2> QED BY <1>1
  <1> QED BY <1>2, <1>3, <1>4

LEMMA FloorsSum ==
    ASSUME NEW in
    PROVE  MapThenSumSet(LAMBDA c : FloorShare(in, c), Bps(in)) = SumOver(Floors(in), Bps(in))
  <1> DEFINE D == Bps(in)
             a == Floors(in)
             Runs(g) == g = [s \in SUBSET D |-> IF s = {} THEN 0 ELSE FloorShare(in, Pick(s)) + g[s \ {Pick(s)}]]
  <1>1. ASSUME NEW g PROVE Runs(g) <=> IsRun(g, a, D)
    <2>1. \A s \in SUBSET D : s # {} => a[Pick(s)] = FloorShare(in, Pick(s))
      BY Picked DEF Floors
    <2> HIDE DEF a, D
    <2>2. [s \in SUBSET D |-> IF s = {} THEN 0 ELSE FloorShare(in, Pick(s)) + g[s \ {Pick(s)}]]
          = [s \in SUBSET D |-> IF s = {} THEN 0 ELSE a[Pick(s)] + g[s \ {Pick(s)}]]
      BY <2>1
    <2> QED BY <2>2 DEF IsRun
  <1>2. MapThenSumSet(LAMBDA c : FloorShare(in, c), D) = (CHOOSE g : Runs(g))[D]
    BY DEF MapThenSumSet, MapThenFoldSet, Pick
  <1>3. SumOver(a, D) = (CHOOSE g : IsRun(g, a, D))[D]
    BY TotalIs
  <1>4. (CHOOSE g : Runs(g)) = (CHOOSE g : IsRun(g, a, D))
    <2> HIDE DEF a, Runs, D
    <2> QED BY <1>1
  <1> QED BY <1>2, <1>3, <1>4

LEMMA DeviationIs ==
    ASSUME NEW in, NEW amounts
    PROVE  Deviation(in, amounts) = SumOver(Distances(in, amounts), Bps(in))
  <1> DEFINE D == Bps(in)
             a == Distances(in, amounts)
             Far(c) == AbsoluteValue(amounts[c] * BpsBase - Numerator(in, c))
             Runs(g) == g = [s \in SUBSET D |-> IF s = {} THEN 0 ELSE Far(Pick(s)) + g[s \ {Pick(s)}]]
  <1>1. ASSUME NEW g PROVE Runs(g) <=> IsRun(g, a, D)
    <2>1. \A s \in SUBSET D : s # {} => a[Pick(s)] = Far(Pick(s))
      BY Picked DEF Distances
    <2> HIDE DEF a, D, Far
    <2>2. [s \in SUBSET D |-> IF s = {} THEN 0 ELSE Far(Pick(s)) + g[s \ {Pick(s)}]]
          = [s \in SUBSET D |-> IF s = {} THEN 0 ELSE a[Pick(s)] + g[s \ {Pick(s)}]]
      BY <2>1
    <2> QED BY <2>2 DEF IsRun
  <1>2. Deviation(in, amounts) = (CHOOSE g : Runs(g))[D]
    BY DEF Deviation, MapThenSumSet, MapThenFoldSet, Pick
  <1>3. SumOver(a, D) = (CHOOSE g : IsRun(g, a, D))[D]
    BY TotalIs
  <1>4. (CHOOSE g : Runs(g)) = (CHOOSE g : IsRun(g, a, D))
    <2> HIDE DEF a, Runs, D
    <2> QED BY <1>1
  <1> QED BY <1>2, <1>3, <1>4

LEMMA SumOfIs == \A e : SumOf(e) = SumOver(e, DOMAIN e)
  BY DEF SumOf, SumOver, MapThenSumSet, MapThenFoldSet

LEMMA Divided ==
    ASSUME NEW n \in Nat, NEW b \in Nat \ {0}
    PROVE  n \div b \in Nat /\ n % b \in Nat /\ n % b < b /\ n = b * (n \div b) + (n % b)
  OBVIOUS

\* What is known of an input.
LEMMA InputFacts ==
    ASSUME SplitAssumption, NEW in \in SplitInputs
    PROVE  /\ IsFiniteSet(Bps(in)) /\ IsFiniteSet(Fixed(in)) /\ in.net \in Nat
           /\ DOMAIN in.components = Bps(in) \cup Fixed(in) /\ Bps(in) \cap Fixed(in) = {}
           /\ DOMAIN in.components \subseteq Nat
           /\ \A c \in DOMAIN in.components : Value(in, c) \in Nat
  <1>0. PICK f \in UNION {[ids -> Component] : ids \in SUBSET ComponentIds}, n \in 0 .. MaxNet :
             in = [components |-> f, net |-> n]
    BY DEF SplitInputs
  <1>1. PICK ids \in SUBSET ComponentIds : f \in [ids -> Component]
    OBVIOUS
  <1>2. in.components = f /\ in.net = n /\ DOMAIN in.components = ids /\ in.net \in Nat
    BY <1>0, <1>1 DEF SplitAssumption
  <1>3. IsFiniteSet(ids) /\ ids \subseteq Nat
    <2>1. IsFiniteSet(ComponentIds)
      BY DEF SplitAssumption, IsFiniteSet, IsFiniteSet
    <2> QED BY <2>1, FS_Subset DEF SplitAssumption
  <1>4. \A c \in ids : /\ f[c].kind \in {"FIXED_AMOUNT", "PERCENTAGE_BPS"} /\ f[c].value \in Nat
    BY <1>1 DEF Component, SplitAssumption
  <1>5. Bps(in) \subseteq ids /\ Fixed(in) \subseteq ids /\ ids = Bps(in) \cup Fixed(in)
        /\ Bps(in) \cap Fixed(in) = {}
    BY <1>2, <1>4 DEF Bps, Fixed, OfKind
  <1>6. IsFiniteSet(Bps(in)) /\ IsFiniteSet(Fixed(in))
    BY <1>3, <1>5, FS_Subset
  <1> QED BY <1>2, <1>3, <1>4, <1>5, <1>6 DEF Value

\* An accepted input: the exact share of a component is its floor and a remainder.
LEMMA ShareFacts ==
    ASSUME SplitAssumption, NEW in \in SplitInputs, ~ Rejected(in)
    PROVE  /\ RemainingAfterFixed(in) \in Nat
           /\ in.net = RemainingAfterFixed(in) + SumOver(Values(in), Fixed(in))
           /\ SumOver(Values(in), Fixed(in)) \in Int
           /\ Bps(in) # {} => SumOver(Values(in), Bps(in)) = BpsBase
           /\ \A c \in Bps(in) :
                 /\ Values(in)[c] = Value(in, c) /\ Value(in, c) \in Nat
                 /\ Exacts(in)[c] \in Nat /\ Floors(in)[c] \in Nat /\ Remainders(in)[c] \in Nat
                 /\ Exacts(in)[c] = RemainingAfterFixed(in) * Values(in)[c]
                 /\ Exacts(in)[c] = BpsBase * Floors(in)[c] + Remainders(in)[c]
                 /\ Remainders(in)[c] < BpsBase
  <1> DEFINE S == Bps(in)
             F == Fixed(in)
             R == RemainingAfterFixed(in)
  <1>1. /\ IsFiniteSet(S) /\ IsFiniteSet(F) /\ in.net \in Nat
        /\ DOMAIN in.components = S \cup F
        /\ \A c \in DOMAIN in.components : Value(in, c) \in Nat
    BY InputFacts
  <1>2. \A c \in S \cup F : Values(in)[c] = Value(in, c) /\ Values(in)[c] \in Nat
    BY <1>1 DEF Values
  <1>3. FixedTotal(in) = SumOver(Values(in), F) /\ BpsTotal(in) = SumOver(Values(in), S)
    <2>1. F \in SUBSET DOMAIN in.components /\ S \in SUBSET DOMAIN in.components
      BY <1>1
    <2> HIDE DEF F, S
    <2>2. /\ MapThenSumSet(LAMBDA c : Value(in, c), F) = SumOver(Values(in), F)
          /\ MapThenSumSet(LAMBDA c : Value(in, c), S) = SumOver(Values(in), S)
      BY <2>1, ValuesSum
    <2> QED BY <2>2 DEF FixedTotal, BpsTotal, F, S
  <1>4. SumOver(Values(in), F) \in Int
    <2>1. \A c \in F : Values(in)[c] \in Int
      BY <1>2
    <2> HIDE DEF F
    <2> QED BY <1>1, <2>1, TotalType
  <1>5. R \in Nat /\ in.net = R + SumOver(Values(in), F)
    BY <1>1, <1>3, <1>4 DEF Rejected, RemainingAfterFixed
  <1>6. S # {} => SumOver(Values(in), S) = BpsBase
    BY <1>3 DEF Rejected
  <1>7. BpsBase \in Nat \ {0}
    BY DEF SplitAssumption
  <1>8. ASSUME NEW c \in S
        PROVE  /\ Exacts(in)[c] \in Nat /\ Floors(in)[c] \in Nat /\ Remainders(in)[c] \in Nat
               /\ Exacts(in)[c] = R * Values(in)[c]
               /\ Exacts(in)[c] = BpsBase * Floors(in)[c] + Remainders(in)[c]
               /\ Remainders(in)[c] < BpsBase
    <2> DEFINE n == Numerator(in, c)
    <2>1. n = R * Values(in)[c]
      BY <1>2 DEF Numerator
    <2>2. n \in Nat
      <3> HIDE DEF n, R, S
      <3>1. Values(in)[c] \in Nat
        BY <1>2
      <3> QED BY <1>5, <2>1, <3>1
    <2>3. Exacts(in)[c] = n /\ Floors(in)[c] = n \div BpsBase /\ Remainders(in)[c] = n % BpsBase
      BY DEF Exacts, Floors, Remainders, FloorShare, Remainder
    <2> HIDE DEF n, R
    <2> QED BY <1>7, <2>1, <2>2, <2>3, Divided
  <1> QED BY <1>2, <1>4, <1>5, <1>6, <1>8

\* The pool of the leftover units: what the remainders add up to, so that it is
\* never negative and never more than the shares that were rounded down.
LEMMA PoolFacts ==
    ASSUME SplitAssumption, NEW in \in SplitInputs, ~ Rejected(in), Bps(in) # {}
    PROVE  /\ LeftoverPool(in) \in Nat
           /\ RemainingAfterFixed(in) = LeftoverPool(in) + SumOver(Floors(in), Bps(in))
           /\ SumOver(Floors(in), Bps(in)) \in Int
           /\ LeftoverPool(in) <= Cardinality({c \in Bps(in) : Remainders(in)[c] > 0})
           /\ LeftoverPool(in) <= Cardinality(Bps(in))
  <1> DEFINE S == Bps(in)
             R == RemainingAfterFixed(in)
             L == LeftoverPool(in)
             v == Values(in)
             e == Exacts(in)
             f == Floors(in)
             r == Remainders(in)
             b == [c \in S |-> BpsBase * f[c]]
             P == {c \in S : r[c] > 0}
             i == Indicator(S, P)
             w == [c \in S |-> BpsBase * i[c]]
  <1>1. /\ IsFiniteSet(S) /\ R \in Nat /\ BpsBase \in Nat \ {0} /\ SumOver(v, S) = BpsBase
        /\ \A c \in S : /\ v[c] \in Nat /\ e[c] \in Nat /\ f[c] \in Nat /\ r[c] \in Nat
                        /\ e[c] = R * v[c] /\ e[c] = BpsBase * f[c] + r[c] /\ r[c] < BpsBase
    BY ShareFacts, InputFacts DEF SplitAssumption
  <1>2. L = R - SumOver(f, S)
    BY FloorsSum DEF LeftoverPool
  <1>3. \A c \in S : b[c] = BpsBase * f[c] /\ b[c] \in Int
    <2> HIDE DEF f, S
    <2> QED BY <1>1
  <1>4. \A c \in S : /\ w[c] = BpsBase * i[c] /\ i[c] \in Int /\ w[c] \in Int /\ r[c] <= w[c]
    <2>1. \A c \in S : i[c] = IF r[c] > 0 THEN 1 ELSE 0
      BY DEF Indicator
    <2> HIDE DEF f, S, r, i
    <2>2. \A c \in S : w[c] = BpsBase * i[c] /\ i[c] \in {0, 1}
      BY <2>1
    <2>3. ASSUME NEW c \in S PROVE i[c] \in Int /\ w[c] \in Int /\ r[c] <= w[c]
      <3>1. w[c] = BpsBase * i[c] /\ r[c] \in Nat /\ r[c] < BpsBase
        BY <1>1, <2>2
      <3>2. CASE r[c] > 0
        BY <1>1, <2>1, <3>1, <3>2
      <3>3. CASE r[c] = 0
        BY <1>1, <2>1, <3>1, <3>3
      <3> QED BY <3>1, <3>2, <3>3
    <2> QED BY <2>2, <2>3
  <1>5. P \in SUBSET S
    OBVIOUS
  <1> HIDE DEF S, R, L, v, e, f, r, b, P, w
  <1>6. SumOver(e, S) = R * BpsBase
    <2>1. R \in Int /\ \A c \in S : v[c] \in Int /\ e[c] = R * v[c]
      BY <1>1
    <2>2. SumOver(e, S) = R * SumOver(v, S)
      BY <1>1, <2>1, TotalScale
    <2> QED BY <1>1, <2>2
  <1>7. SumOver(e, S) = SumOver(b, S) + SumOver(r, S)
    <2>1. \A c \in S : b[c] \in Int /\ r[c] \in Int /\ e[c] = b[c] + r[c]
      BY <1>1, <1>3
    <2> QED BY <1>1, <2>1, TotalPlus
  <1>8. SumOver(b, S) = BpsBase * SumOver(f, S)
    <2>1. \A c \in S : f[c] \in Int /\ b[c] = BpsBase * f[c]
      BY <1>1, <1>3
    <2> QED BY <1>1, <2>1, TotalScale
  <1>9. SumOver(f, S) \in Int /\ SumOver(r, S) \in Int /\ SumOver(r, S) >= 0
    <2>1. \A c \in S : f[c] \in Int /\ r[c] \in Int /\ r[c] >= 0
      BY <1>1
    <2> QED BY <1>1, <2>1, TotalType
  <1>10. L \in Int /\ BpsBase * L = SumOver(r, S)
    <2>1. BpsBase * (R - SumOver(f, S)) = R * BpsBase - BpsBase * SumOver(f, S)
      BY <1>1, <1>9
    <2> QED BY <1>1, <1>2, <1>6, <1>7, <1>8, <1>9, <2>1
  <1>11. L \in Nat
    BY <1>1, <1>9, <1>10
  <1>12. SumOver(r, S) <= BpsBase * Cardinality(P)
    <2>1. \A c \in S : r[c] \in Int /\ w[c] \in Int /\ r[c] <= w[c]
      BY <1>1, <1>4
    <2>2. SumOver(r, S) <= SumOver(w, S)
      BY <1>1, <2>1, TotalLeq
    <2>3. SumOver(i, S) = Cardinality(P)
      BY <1>1, <1>5, TotalCount
    <2> HIDE DEF i
    <2>4. SumOver(w, S) = BpsBase * SumOver(i, S)
      BY <1>1, <1>4, TotalScale
    <2> QED BY <2>2, <2>3, <2>4
  <1>13. IsFiniteSet(P) /\ Cardinality(P) \in Nat /\ Cardinality(P) <= Cardinality(S) /\ Cardinality(S) \in Nat
    BY <1>1, <1>5, FS_Subset, FS_CardinalityType
  <1>14. L <= Cardinality(P)
    BY <1>1, <1>10, <1>11, <1>12, <1>13
  <1>15. L <= Cardinality(S) /\ R = L + SumOver(f, S)
    BY <1>1, <1>2, <1>9, <1>11, <1>13, <1>14
  <1> QED BY <1>9, <1>11, <1>14, <1>15 DEF S, R, L, f, r, P

\* The ranks of the sort, and how many of the shares get a unit more.
LEMMA RankFacts ==
    ASSUME SplitAssumption, NEW in \in SplitInputs, ~ Rejected(in), Bps(in) # {}
    PROVE  /\ \A c, d \in Bps(in) : RanksBefore(in, c, d) <=> Rank(in, c) < Rank(in, d)
           /\ \A c \in Bps(in) : Rank(in, c) \in Nat
           /\ Cardinality(BonusUnits(in)) = LeftoverPool(in)
  <1> DEFINE S == Bps(in)
             before == {p \in S \X S : RanksBefore(in, p[1], p[2])}
             rank == [c \in S |-> Rank(in, c)]
             L == LeftoverPool(in)
  <1>1. IsFiniteSet(S) /\ S \subseteq Nat
    BY InputFacts
  <1>2. \A c \in S : Remainder(in, c) \in Nat
    BY ShareFacts DEF Remainders
  <1>3. \A c, d \in S : <<c, d>> \in before <=> RanksBefore(in, c, d)
    OBVIOUS
  <1>4. \A c \in S : rank[c] = Cardinality({d \in S : <<d, c>> \in before})
    <2>1. \A c \in S : {d \in S : <<d, c>> \in before} = {d \in S : RanksBefore(in, d, c)}
      OBVIOUS
    <2>2. \A T : Cardinality(T) = Cardinality(T)
      BY DEF Cardinality, Cardinality, IsFiniteSet, IsFiniteSet
    <2> HIDE DEF before
    <2> QED BY <2>1, <2>2 DEF Rank
  <1> HIDE DEF before
  <1>5. /\ \A c \in S : <<c, c>> \notin before
        /\ \A c, d, x \in S : <<c, d>> \in before /\ <<d, x>> \in before => <<c, x>> \in before
        /\ \A c, d \in S : c # d => <<c, d>> \in before \/ <<d, c>> \in before
    <2> HIDE DEF S
    <2> QED BY <1>1, <1>2, <1>3 DEF RanksBefore
  <1>6. L \in 0 .. Cardinality(S)
    <2>1. Cardinality(S) \in Nat
      BY <1>1, FS_CardinalityType
    <2>2. L \in Nat /\ L <= Cardinality(S)
      BY PoolFacts
    <2> HIDE DEF L, S
    <2> QED BY <2>1, <2>2
  <1>7. \A c \in S : rank[c] = Rank(in, c)
    OBVIOUS
  <1>8. BonusUnits(in) = {c \in S : rank[c] < L}
    BY DEF BonusUnits
  <1> HIDE DEF S, rank, L
  <1>9. /\ \A c \in S : rank[c] \in Nat
        /\ \A c, d \in S : <<c, d>> \in before <=> rank[c] < rank[d]
        /\ \A n \in 0 .. Cardinality(S) : Cardinality({c \in S : rank[c] < n}) = n
    <2>1. Orders(before, S) /\ Counts(rank, before, S)
      BY <1>4, <1>5 DEF Orders, Counts
    <2> QED BY <1>1, <2>1, RankOrder
  <1>10. Cardinality(BonusUnits(in)) = L
    BY <1>6, <1>8, <1>9
  <1> QED BY <1>3, <1>7, <1>9, <1>10 DEF S, L

\* What each component is paid: a fixed amount, or the floor of its share and at
\* most a unit more, the unit only if something was rounded down.
LEMMA AmountFacts ==
    ASSUME SplitAssumption, NEW in \in SplitInputs, ~ Rejected(in)
    PROVE  /\ DOMAIN Entries(in) = DOMAIN in.components
           /\ \A c \in Fixed(in) : Entries(in)[c] = Values(in)[c]
           /\ \A c \in Bps(in) :
                 /\ Entries(in)[c] = Floors(in)[c] + (IF c \in BonusUnits(in) THEN 1 ELSE 0)
                 /\ c \in BonusUnits(in) => Remainders(in)[c] > 0
  <1> DEFINE S == Bps(in)
             P == {d \in S : Remainders(in)[d] > 0}
             Prev(c) == {d \in S : RanksBefore(in, d, c)}
  <1>1. DOMAIN in.components = S \cup Fixed(in) /\ S \cap Fixed(in) = {} /\ IsFiniteSet(S)
    BY InputFacts
  <1>2. /\ DOMAIN Entries(in) = DOMAIN in.components
        /\ \A c \in Fixed(in) : Entries(in)[c] = Values(in)[c]
        /\ \A c \in S : Entries(in)[c] = Floors(in)[c] + (IF c \in BonusUnits(in) THEN 1 ELSE 0)
    BY <1>1 DEF Entries, Amount, Values, Floors
  <1>3. ASSUME NEW c \in S, c \in BonusUnits(in), ~(Remainders(in)[c] > 0) PROVE FALSE
    <2>1. \A d \in S : Remainders(in)[d] = Remainder(in, d) /\ Remainders(in)[d] \in Nat
      BY ShareFacts DEF Remainders
    <2>2. P \subseteq Prev(c)
      BY <1>3, <2>1 DEF RanksBefore
    <2>3. Rank(in, c) = Cardinality(Prev(c))
      BY DEF Rank, Cardinality, Cardinality, IsFiniteSet, IsFiniteSet
    <2>4. Rank(in, c) < LeftoverPool(in)
      BY <1>3 DEF BonusUnits
    <2>5. LeftoverPool(in) <= Cardinality(P) /\ LeftoverPool(in) \in Nat
      BY PoolFacts
    <2>6. IsFiniteSet(Prev(c)) /\ IsFiniteSet(P)
      BY <1>1, FS_Subset
    <2> HIDE DEF P, Prev
    <2>7. Cardinality(P) <= Cardinality(Prev(c)) /\ Cardinality(P) \in Nat /\ Cardinality(Prev(c)) \in Nat
      BY <2>2, <2>6, FS_Subset, FS_CardinalityType
    <2> QED BY <2>3, <2>4, <2>5, <2>7
  <1> QED BY <1>2, <1>3

\* The shares add up to what is left after the fixed amounts, and with them to the
\* whole net amount.
LEMMA NothingLost ==
    ASSUME SplitAssumption, NEW in \in SplitInputs, ~ Rejected(in)
    PROVE  /\ SumOver(Entries(in), Bps(in)) = RemainingAfterFixed(in)
           /\ SumOf(Entries(in)) = in.net
  <1> DEFINE S == Bps(in)
             F == Fixed(in)
             R == RemainingAfterFixed(in)
             v == Values(in)
             f == Floors(in)
             a == Entries(in)
             U == BonusUnits(in)
             i == Indicator(S, U)
  <1>1. /\ IsFiniteSet(S) /\ IsFiniteSet(F) /\ DOMAIN a = S \cup F /\ S \cap F = {} /\ U \in SUBSET S
        /\ \A c \in F : v[c] \in Int
    <2>1. /\ IsFiniteSet(S) /\ IsFiniteSet(F) /\ DOMAIN in.components = S \cup F /\ S \cap F = {}
          /\ \A c \in F : v[c] \in Int
      BY InputFacts DEF Values
    <2>2. DOMAIN a = DOMAIN in.components
      BY AmountFacts
    <2> QED BY <2>1, <2>2 DEF BonusUnits
  <1>2. /\ R \in Nat /\ in.net = R + SumOver(v, F) /\ SumOver(v, F) \in Int
        /\ \A c \in S : f[c] \in Nat
    BY ShareFacts
  <1>3. /\ \A c \in F : a[c] = v[c]
        /\ \A c \in S : f[c] \in Int /\ i[c] \in Int /\ a[c] = f[c] + i[c]
    BY <1>2, AmountFacts DEF Indicator
  <1>4. SumOver(a, S) = R
    <2>1. CASE S = {}
      <3>1. R = 0
        BY <2>1 DEF Rejected
      <3> QED BY <2>1, <3>1, TotalOfFew
    <2>2. CASE S # {}
      <3>1. R = LeftoverPool(in) + SumOver(f, S) /\ SumOver(f, S) \in Int /\ LeftoverPool(in) \in Nat
        BY <2>2, PoolFacts
      <3>2. Cardinality(U) = LeftoverPool(in)
        BY <2>2, RankFacts
      <3>3. SumOver(i, S) = Cardinality(U)
        <4> HIDE DEF S, U
        <4> QED BY <1>1, TotalCount
      <3> HIDE DEF S, R, f, a, U, i
      <3>4. SumOver(a, S) = SumOver(f, S) + SumOver(i, S)
        BY <1>1, <1>3, TotalPlus
      <3> QED BY <3>1, <3>2, <3>3, <3>4
    <2> QED BY <2>1, <2>2
  <1>5. \A c \in S \cup F : a[c] \in Int
    <2> HIDE DEF S, F, f, a, i, v
    <2> QED BY <1>1, <1>3
  <1> HIDE DEF S, F, f, a, i, v, R, U
  <1>6. SumOver(a, S \cup F) = SumOver(a, S) + SumOver(a, F)
    BY <1>1, <1>5, TotalUnion
  <1>7. SumOver(a, F) = SumOver(v, F)
    <2>1. \A c \in F : a[c] \in Int /\ a[c] = v[c]
      BY <1>3, <1>5
    <2> QED BY <1>1, <2>1, TotalSame
  <1>8. SumOf(a) = SumOver(a, S \cup F)
    BY <1>1, SumOfIs
  <1>9. SumOf(a) = in.net
    BY <1>2, <1>4, <1>6, <1>7, <1>8
  <1> QED BY <1>4, <1>9 DEF a, S, R

LEMMA NoInternalError ==
    ASSUME SplitAssumption, NEW in \in SplitInputs, ~ Rejected(in)
    PROVE  ~ InternalError(in)
  <1>1. Cardinality(Bps(in)) = Cardinality(Bps(in))
    BY DEF Cardinality, Cardinality, IsFiniteSet, IsFiniteSet
  <1>2. SumOf(Entries(in)) = in.net
    BY NothingLost
  <1>3. Cardinality(Bps(in)) \in Nat
    BY InputFacts, FS_CardinalityType
  <1>4. ASSUME Bps(in) # {}
        PROVE  LeftoverPool(in) \in Nat /\ LeftoverPool(in) <= Cardinality(Bps(in))
    BY <1>4, PoolFacts
  <1> QED BY <1>1, <1>2, <1>3, <1>4 DEF InternalError

\* A larger percentage is never paid less, and no amount is a whole unit away from
\* its exact share.
LEMMA Ordered ==
    ASSUME SplitAssumption, NEW in \in SplitInputs, ~ Rejected(in), NEW c \in Bps(in)
    PROVE  /\ \A d \in Bps(in) :
                 Value(in, c) > Value(in, d) => Entries(in)[c] >= Entries(in)[d]
           /\ AbsoluteValue(Entries(in)[c] * BpsBase - Numerator(in, c)) < BpsBase
  <1> DEFINE S == Bps(in)
             R == RemainingAfterFixed(in)
             v == Values(in)
             e == Exacts(in)
             f == Floors(in)
             r == Remainders(in)
             a == Entries(in)
             U == BonusUnits(in)
  <1>1. /\ R \in Nat /\ BpsBase \in Nat \ {0}
        /\ \A x \in S : /\ v[x] = Value(in, x) /\ v[x] \in Nat
                        /\ e[x] \in Nat /\ f[x] \in Nat /\ r[x] \in Nat /\ r[x] < BpsBase
                        /\ e[x] = R * v[x] /\ e[x] = BpsBase * f[x] + r[x]
    BY ShareFacts DEF SplitAssumption
  <1>2. \A x \in S : /\ a[x] = f[x] + (IF x \in U THEN 1 ELSE 0) /\ (x \in U => r[x] > 0)
                     /\ r[x] = Remainder(in, x) /\ e[x] = Numerator(in, x)
    BY AmountFacts DEF Remainders, Exacts
  <1>3. ASSUME NEW d \in S, v[c] > v[d] PROVE a[c] >= a[d]
    <2>1. \A x, y \in S : RanksBefore(in, x, y) => (y \in U => x \in U)
      <3> SUFFICES ASSUME NEW x \in S, NEW y \in S, RanksBefore(in, x, y), y \in U PROVE x \in U
        OBVIOUS
      <3>1. Rank(in, x) < Rank(in, y) /\ Rank(in, x) \in Nat /\ Rank(in, y) \in Nat
        BY RankFacts
      <3>2. LeftoverPool(in) \in Nat
        BY PoolFacts
      <3> QED BY <3>1, <3>2 DEF BonusUnits
    <2>2. r[c] > r[d] => (d \in U => c \in U)
      BY <1>2, <2>1 DEF RanksBefore
    <2> HIDE DEF S, R, v, e, f, r, a, U
    <2>3. e[c] >= e[d] /\ (e[c] = e[d] => R = 0)
      <3>1. e[c] = R * v[c] /\ e[d] = R * v[d] /\ v[c] \in Nat /\ v[d] \in Nat
        BY <1>1 DEF S
      <3>2. e[c] = e[d] + R * (v[c] - v[d]) /\ v[c] - v[d] \in Nat /\ v[c] - v[d] >= 1
        BY <1>1, <1>3, <3>1
      <3>3. R * (v[c] - v[d]) >= R
        BY <1>1, <3>2
      <3> QED BY <1>1, <1>3, <3>1, <3>2, <3>3
    <2>4. f[c] >= f[d] /\ (f[c] = f[d] => r[c] >= r[d])
      <3>1. /\ BpsBase * f[c] + r[c] >= BpsBase * f[d] + r[d]
            /\ f[c] \in Nat /\ f[d] \in Nat /\ r[c] \in Nat /\ r[d] \in Nat /\ r[c] < BpsBase
        BY <1>1, <1>3, <2>3 DEF S
      <3>2. ASSUME f[c] < f[d] PROVE FALSE
        <4>1. BpsBase * f[d] = BpsBase * f[c] + BpsBase * (f[d] - f[c]) /\ f[d] - f[c] >= 1 /\ f[d] - f[c] \in Nat
          BY <1>1, <3>1, <3>2
        <4>2. BpsBase * (f[d] - f[c]) >= BpsBase
          BY <1>1, <4>1
        <4>3. BpsBase * f[c] \in Int
          BY <1>1, <3>1
        <4> QED BY <1>1, <3>1, <4>1, <4>2, <4>3
      <3> QED BY <1>1, <3>1, <3>2
    <2>5. CASE f[c] > f[d]
      BY <1>1, <1>2, <1>3, <2>5 DEF S
    <2>6. CASE f[c] = f[d] /\ r[c] > r[d]
      BY <1>1, <1>2, <1>3, <2>2, <2>6 DEF S
    <2>7. CASE f[c] = f[d] /\ r[c] = r[d]
      <3>1. e[c] = e[d] /\ e[d] = R * v[d] /\ e[d] = BpsBase * f[d] + r[d] /\ f[d] \in Nat /\ r[d] \in Nat /\ v[d] \in Nat
        BY <1>1, <1>3, <2>7 DEF S
      <3>2. e[d] = 0
        BY <2>3, <3>1
      <3>3. r[d] = 0
        BY <1>1, <3>1, <3>2
      <3>4. d \notin U /\ c \notin U
        BY <1>2, <1>3, <2>7, <3>3 DEF S
      <3> QED BY <1>1, <1>2, <1>3, <2>7, <3>4 DEF S
    <2>8. f[c] \in Nat /\ f[d] \in Nat /\ r[c] \in Nat /\ r[d] \in Nat
      BY <1>1, <1>3 DEF S
    <2> QED BY <2>4, <2>5, <2>6, <2>7, <2>8
  <1>4. AbsoluteValue(a[c] * BpsBase - e[c]) < BpsBase
    <2>1. /\ f[c] \in Nat /\ r[c] \in Nat /\ r[c] < BpsBase /\ e[c] = BpsBase * f[c] + r[c]
          /\ a[c] = f[c] + (IF c \in U THEN 1 ELSE 0) /\ (c \in U => r[c] > 0)
      BY <1>1, <1>2
    <2> HIDE DEF S, R, v, e, f, r, a, U
    <2>2. CASE c \in U
      <3>1. a[c] * BpsBase = BpsBase * f[c] + BpsBase /\ BpsBase * f[c] \in Int
        BY <1>1, <2>1, <2>2
      <3>2. a[c] * BpsBase - e[c] = BpsBase - r[c]
        BY <1>1, <2>1, <3>1
      <3> QED BY <1>1, <2>1, <2>2, <3>2 DEF AbsoluteValue
    <2>3. CASE c \notin U
      <3>1. a[c] * BpsBase = BpsBase * f[c] /\ BpsBase * f[c] \in Int
        BY <1>1, <2>1, <2>3
      <3>2. a[c] * BpsBase - e[c] = -r[c]
        BY <1>1, <2>1, <3>1
      <3> QED BY <1>1, <2>1, <3>2 DEF AbsoluteValue
    <2> QED BY <2>2, <2>3
  <1>5. \A d \in S : Value(in, c) > Value(in, d) => a[c] >= a[d]
    BY <1>1, <1>3
  <1>6. e[c] = Numerator(in, c)
    BY <1>2
  <1> QED BY <1>4, <1>5, <1>6

\* The price of a unit: it is worth it to round up exactly the shares that got one.
LEMMA UnitPrice ==
    ASSUME SplitAssumption, NEW in \in SplitInputs, ~ Rejected(in), Bps(in) # {}
    PROVE  \E price \in Int :
              /\ -BpsBase <= price /\ price <= BpsBase
              /\ \A c \in Bps(in) :
                    IF c \in BonusUnits(in) THEN BpsBase - 2 * Remainders(in)[c] <= price
                                                 ELSE price <= BpsBase - 2 * Remainders(in)[c]
  <1> DEFINE S == Bps(in)
             r == Remainders(in)
             U == BonusUnits(in)
             T == {r[c] : c \in U}
  <1>1. BpsBase \in Nat \ {0} /\ U \subseteq S /\ \A c \in S : r[c] \in Nat /\ r[c] < BpsBase
    BY ShareFacts DEF SplitAssumption, BonusUnits
  <1>2. CASE U = {}
    <2> HIDE DEF r, S
    <2>1. -BpsBase \in Int /\ -BpsBase <= -BpsBase /\ -BpsBase <= BpsBase
      BY <1>1
    <2>2. \A c \in S : c \notin U /\ -BpsBase <= BpsBase - 2 * r[c]
      BY <1>1, <1>2
    <2> QED BY <2>1, <2>2 DEF S, r
  <1>3. CASE U # {}
    <2>1. T \subseteq Nat /\ T # {}
      BY <1>1, <1>3
    <2>2. PICK low \in T : \A y \in T : low <= y
      <3> HIDE DEF T
      <3> QED BY <2>1, LeastNumber
    <2>3. PICK m \in U : r[m] = low
      BY <2>2
    <2>4. \A c \in U : r[m] <= r[c]
      BY <2>2, <2>3
    <2>5. \A d \in S \ U : r[d] <= r[m]
      <3> SUFFICES ASSUME NEW d \in S \ U PROVE r[d] <= r[m]
        OBVIOUS
      <3>1. m \in S /\ Rank(in, m) \in Nat /\ Rank(in, d) \in Nat /\ LeftoverPool(in) \in Nat
        BY <1>1, RankFacts, PoolFacts
      <3>2. Rank(in, m) < Rank(in, d)
        BY <3>1 DEF BonusUnits
      <3>3. RanksBefore(in, m, d)
        BY <3>1, <3>2, RankFacts
      <3>4. r[m] = Remainder(in, m) /\ r[d] = Remainder(in, d)
        BY <3>1 DEF Remainders
      <3>5. r[m] \in Nat /\ r[d] \in Nat
        BY <1>1, <3>1
      <3> HIDE DEF r
      <3> QED BY <3>3, <3>4, <3>5 DEF RanksBefore
    <2> DEFINE price == BpsBase - 2 * r[m]
    <2> HIDE DEF r, S, U
    <2>6. m \in S /\ r[m] \in Nat /\ r[m] < BpsBase
      BY <1>1
    <2>7. price \in Int /\ -BpsBase <= price /\ price <= BpsBase
      BY <1>1, <2>6
    <2>8. \A c \in S : IF c \in U THEN BpsBase - 2 * r[c] <= price ELSE price <= BpsBase - 2 * r[c]
      BY <1>1, <2>4, <2>5, <2>6
    <2> HIDE DEF price
    <2> QED BY <2>7, <2>8 DEF S, U, r
  <1> QED BY <1>2, <1>3

\* At that price no other whole number is nearer to the exact share.
LEMMA NearestNumber ==
    ASSUME NEW b \in Nat \ {0}, NEW f \in Int, NEW r \in Nat, r < b, NEW x \in Int,
           NEW price \in Int, -b <= price, price <= b, NEW u \in {0, 1},
           u = 1 => b - 2 * r <= price, u = 0 => price <= b - 2 * r
    PROVE  AbsoluteValue((f + u) * b - (b * f + r)) + price * x
           <= AbsoluteValue(x * b - (b * f + r)) + price * (f + u)
  <1> DEFINE t == x - f
  <1>1. t \in Int /\ x = f + t
    OBVIOUS
  <1> HIDE DEF t
  <1>2. /\ x * b - (b * f + r) = t * b - r
        /\ (f + u) * b - (b * f + r) = u * b - r
        /\ price * x = price * f + price * t
        /\ price * (f + u) = price * f + price * u
    BY <1>1
  <1>3. /\ price * f \in Int /\ price * t \in Int /\ t * b \in Int /\ price * u \in Int /\ u * b \in Int
        /\ u = 0 => price * u = 0 /\ u * b = 0
        /\ u = 1 => price * u = price /\ u * b = b
    BY <1>1
  <1>4. AbsoluteValue(u * b - r) = IF u = 0 THEN r ELSE b - r
    BY <1>3 DEF AbsoluteValue
  <1>5. CASE t >= 1
    <2>1. t * b - price * t = (b - price) + (t - 1) * (b - price) /\ (t - 1) * (b - price) >= 0
          /\ (t - 1) * (b - price) \in Int
      <3>1. t - 1 \in Nat /\ b - price \in Nat
        BY <1>1, <1>5
      <3>2. (t - 1) * (b - price) \in Nat
        BY <3>1
      <3>3. t * b - price * t = (b - price) + (t - 1) * (b - price)
        BY <1>1
      <3> QED BY <3>2, <3>3
    <2>2. t * b >= b
      <3>1. t * b = b + (t - 1) * b /\ t - 1 \in Nat
        BY <1>1, <1>5
      <3>2. (t - 1) * b \in Nat
        BY <3>1
      <3> QED BY <3>1, <3>2
    <2>3. AbsoluteValue(t * b - r) = t * b - r
      BY <1>3, <2>2 DEF AbsoluteValue
    <2> QED BY <1>2, <1>3, <1>4, <2>1, <2>3
  <1>6. CASE t <= 0
    <2>1. (-t) * (b + price) \in Nat /\ (-t) * b \in Nat
      <3>1. -t \in Nat /\ b + price \in Nat
        BY <1>1, <1>6
      <3> QED BY <3>1
    <2>2. t * b + price * t = -((-t) * (b + price)) /\ t * b = -((-t) * b)
      BY <1>1
    <2>3. AbsoluteValue(t * b - r) = r - t * b
      BY <1>3, <2>1, <2>2 DEF AbsoluteValue
    <2> QED BY <1>2, <1>3, <1>4, <2>1, <2>2, <2>3
  <1> QED BY <1>1, <1>5, <1>6

\* No other split of the same amount is closer to the exact shares.
LEMMA Closest ==
    ASSUME SplitAssumption, NEW in \in SplitInputs, ~ Rejected(in),
           NEW other \in [Bps(in) -> 0 .. RemainingAfterFixed(in)],
           SumOf(other) = RemainingAfterFixed(in)
    PROVE  Deviation(in, Entries(in)) <= Deviation(in, other)
  <1> DEFINE S == Bps(in)
             R == RemainingAfterFixed(in)
             f == Floors(in)
             r == Remainders(in)
             a == Entries(in)
             U == BonusUnits(in)
             near == Distances(in, a)
             far == Distances(in, other)
  <1>1. Deviation(in, a) = SumOver(near, S) /\ Deviation(in, other) = SumOver(far, S)
    BY DeviationIs
  <1>2. IsFiniteSet(S)
    BY InputFacts
  <1>3. CASE S = {}
    <2>1. SumOver(near, S) = 0 /\ SumOver(far, S) = 0
      BY <1>3, TotalOfFew
    <2> QED BY <1>1, <2>1
  <1>4. CASE S # {}
    <2>1. PICK price \in Int :
              /\ -BpsBase <= price /\ price <= BpsBase
              /\ \A c \in S : IF c \in U THEN BpsBase - 2 * r[c] <= price ELSE price <= BpsBase - 2 * r[c]
      BY <1>4, UnitPrice
    <2>2. /\ R \in Nat /\ BpsBase \in Nat \ {0}
          /\ \A c \in S : /\ f[c] \in Nat /\ r[c] \in Nat /\ r[c] < BpsBase
                          /\ Numerator(in, c) = BpsBase * f[c] + r[c]
      BY ShareFacts DEF Exacts, SplitAssumption
    <2>3. \A c \in S : a[c] = f[c] + (IF c \in U THEN 1 ELSE 0)
      BY AmountFacts
    <2>4. \A c \in S : other[c] \in Int
      BY <2>2
    <2> DEFINE pa == [c \in S |-> price * a[c]]
               po == [c \in S |-> price * other[c]]
               left == [c \in S |-> near[c] + po[c]]
               right == [c \in S |-> far[c] + pa[c]]
    <2>5. ASSUME NEW c \in S
          PROVE  /\ a[c] \in Int /\ near[c] \in Int /\ far[c] \in Int
                 /\ near[c] + price * other[c] <= far[c] + price * a[c]
      <3> DEFINE u == IF c \in U THEN 1 ELSE 0
      <3>1. near[c] = AbsoluteValue(a[c] * BpsBase - Numerator(in, c))
            /\ far[c] = AbsoluteValue(other[c] * BpsBase - Numerator(in, c))
        BY DEF Distances
      <3>2. u \in {0, 1} /\ (u = 1 => BpsBase - 2 * r[c] <= price) /\ (u = 0 => price <= BpsBase - 2 * r[c])
            /\ a[c] = f[c] + u
        BY <2>1, <2>3
      <3>3. f[c] \in Int /\ r[c] \in Nat /\ r[c] < BpsBase /\ Numerator(in, c) = BpsBase * f[c] + r[c]
            /\ other[c] \in Int /\ BpsBase \in Nat \ {0}
        BY <2>2, <2>4
      <3> HIDE DEF u, S, R, f, r, a, U, near, far
      <3>4. a[c] \in Int /\ a[c] * BpsBase \in Int /\ other[c] * BpsBase \in Int /\ BpsBase * f[c] \in Int
        BY <3>2, <3>3
      <3>5. near[c] \in Int /\ far[c] \in Int
        BY <3>1, <3>3, <3>4 DEF AbsoluteValue
      <3>6. AbsoluteValue((f[c] + u) * BpsBase - (BpsBase * f[c] + r[c])) + price * other[c]
            <= AbsoluteValue(other[c] * BpsBase - (BpsBase * f[c] + r[c])) + price * (f[c] + u)
        BY <2>1, <3>2, <3>3, NearestNumber
      <3> QED BY <3>1, <3>2, <3>3, <3>4, <3>5, <3>6
    <2>6. SumOver(a, S) = R /\ SumOver(other, S) = R
      <3>1. DOMAIN other = S
        OBVIOUS
      <3>2. SumOf(other) = SumOver(other, S)
        BY <3>1, SumOfIs
      <3> QED BY <3>2, NothingLost
    <2> HIDE DEF S, R, f, r, a, U, near, far
    <2>7. \A c \in S : /\ pa[c] = price * a[c] /\ po[c] = price * other[c]
                       /\ pa[c] \in Int /\ po[c] \in Int
                       /\ left[c] = near[c] + po[c] /\ right[c] = far[c] + pa[c]
                       /\ left[c] \in Int /\ right[c] \in Int
      BY <2>4, <2>5
    <2>8. \A c \in S : left[c] <= right[c]
      BY <2>5, <2>7
    <2> HIDE DEF pa, po, left, right
    <2>9. SumOver(pa, S) = price * R /\ SumOver(po, S) = price * R
      <3>1. \A c \in S : a[c] \in Int /\ pa[c] = price * a[c]
        BY <2>5, <2>7
      <3>2. \A c \in S : other[c] \in Int /\ po[c] = price * other[c]
        BY <2>4, <2>7
      <3>3. SumOver(pa, S) = price * SumOver(a, S)
        BY <1>2, <3>1, TotalScale
      <3>4. SumOver(po, S) = price * SumOver(other, S)
        BY <1>2, <3>2, TotalScale
      <3> QED BY <2>6, <3>3, <3>4
    <2>10. SumOver(left, S) = SumOver(near, S) + SumOver(po, S) /\ SumOver(right, S) = SumOver(far, S) + SumOver(pa, S)
      <3>1. \A c \in S : near[c] \in Int /\ po[c] \in Int /\ left[c] = near[c] + po[c]
        BY <2>5, <2>7
      <3>2. \A c \in S : far[c] \in Int /\ pa[c] \in Int /\ right[c] = far[c] + pa[c]
        BY <2>5, <2>7
      <3> QED BY <1>2, <3>1, <3>2, TotalPlus
    <2>11. SumOver(left, S) <= SumOver(right, S)
      BY <1>2, <2>7, <2>8, TotalLeq
    <2>12. SumOver(near, S) \in Int /\ SumOver(far, S) \in Int /\ price * R \in Int
      <3>1. (\A c \in S : near[c] \in Int) /\ (\A c \in S : far[c] \in Int)
        BY <2>5
      <3> QED BY <1>2, <2>2, <3>1, TotalType
    <2>13. SumOver(near, S) <= SumOver(far, S)
      BY <2>9, <2>10, <2>11, <2>12
    <2> QED BY <1>1, <2>13 DEF a
  <1> QED BY <1>3, <1>4

\* The input and the outcome of a call of the split.
SplitInv ==
    call.kind = "split" =>
        /\ call.in \in SplitInputs
        /\ result # Absent => result = [split |-> ComputeCommissionSplits(call.in)]

LEMMA InitSplitInv == CallInit => SplitInv
  <1> SUFFICES ASSUME CallInit, call.kind = "split" PROVE call \in SplitCalls /\ result = Absent
    BY DEF SplitInv, SplitCalls
  <1>1. call \notin CanCalls /\ call \notin ListCalls /\ call \notin BrowseCalls
        /\ call \notin PageCalls
    BY DEF CanCalls, ListCalls, BrowseCalls, PageCalls
  <1>2. \A f : call \notin FormCalls(f)
    BY DEF FormCalls
  <1>3. \A i : call \notin MatchCalls(i)
    BY DEF MatchCalls
  <1>4. /\ call \notin PassCalls /\ call \notin HistoryCalls /\ call \notin RankCalls
        /\ call \notin ScoreCalls /\ call \notin RankClaimsCalls
    BY DEF PassCalls, HistoryCalls, RankCalls, ScoreCalls, RankClaimsCalls
  <1>5. call \notin LedgerCalls /\ call \notin ShareCalls
    BY DEF LedgerCalls, ShareCalls
  <1> QED BY <1>1, <1>2, <1>3, <1>4, <1>5 DEF CallInit

LEMMA NextSplitInv == SplitInv /\ [CallNext]_callVars => SplitInv'
  <1> SUFFICES ASSUME SplitInv, [CallNext]_callVars, call' = call, call.kind = "split" PROVE SplitInv'
    BY DEF SplitInv, CallNext, callVars, Can, List, Browse, OpenPage, SubmitForm,
       Match, RankCandidates, Evaluate, ListMatches, ScoreOneClaim,
       RankTheClaims, Split, ReadLedger, ShareSecret, Returns
  <1> DEFINE made == ComputeCommissionSplits(call.in)
             inputs == SplitInputs
  <1>1. call.in \in inputs /\ (result # Absent => result = [split |-> made])
    BY DEF SplitInv
  <1>2. result' = result \/ result' = [split |-> made]
    BY DEF CallNext, callVars, Can, List, Browse, OpenPage, SubmitForm,
       Match, RankCandidates, Evaluate, ListMatches, ScoreOneClaim,
       RankTheClaims, Split, ReadLedger, ShareSecret, Returns
  <1>3. call'.in \in inputs /\ (result' # Absent => result' = [split |-> made])
    <2> HIDE DEF made, inputs
    <2> QED BY <1>1, <1>2
  <1> QED BY <1>3 DEF SplitInv

LEMMA SplitInvFair == SplitAssumption /\ SplitInv => SplitIsFair
  <1> SUFFICES ASSUME SplitAssumption, SplitInv, Returned("split") PROVE SplitIsFair
    BY DEF SplitIsFair, NoLeakage, ClosestSplit, SharesAreOrdered, SplitMade
  <1> DEFINE in == call.in
             made == ComputeCommissionSplits(in)
  <1>1. in \in SplitInputs /\ result.split = made
    BY DEF SplitInv, Returned
  <1>2. CASE Rejected(in)
    <2>1. made = [outcome |-> "rejected"]
      BY <1>2 DEF ComputeCommissionSplits
    <2>2. made.outcome = "rejected"
      BY <2>1
    <2> HIDE DEF made
    <2> QED BY <1>1, <2>2
      DEF SplitIsFair, NoLeakage, ClosestSplit, SharesAreOrdered, SplitMade
  <1>3. CASE ~ Rejected(in)
    <2>1. made = [outcome |-> "ok", entries |-> Entries(in)]
      BY <1>1, <1>3, NoInternalError DEF ComputeCommissionSplits
    <2>2. result.split.outcome = "ok" /\ result.split.entries = Entries(in)
      BY <1>1, <2>1
    <2> HIDE DEF made
    <2>3. NoLeakage
      BY <1>1, <1>3, <2>2, NothingLost DEF NoLeakage
    <2>4. ClosestSplit
      BY <1>1, <1>3, <2>2, Closest DEF ClosestSplit
    <2>5. SharesAreOrdered
      BY <1>1, <1>3, <2>2, Ordered DEF SharesAreOrdered
    <2> QED BY <2>3, <2>4, <2>5 DEF SplitIsFair
  <1> QED BY <1>2, <1>3

\* computeCommissionSplits, for any components, percentages and amounts: the entries
\* are the net amount to the unit, none of its "structurally unreachable" errors is
\* reached, no other way to divide the same units is closer to the agreed percentages,
\* and a larger percentage is never paid less.
THEOREM Split_Fair == CallSpec => []SplitIsFair
  <1>1. SplitInv => SplitIsFair
    BY SplitInvFair, SplitAssumption
  <1> QED BY <1>1, InitSplitInv, NextSplitInv, PTL DEF CallSpec

-----------------------------------------------------------------------------
(* The ranking of matches and of claims                                     *)

\* Places counted from one in a strict total order are a permutation that follows it.
LEMMA Places ==
    ASSUME NEW S, IsFiniteSet(S), NEW before, Orders(before, S),
           NEW place, \A c \in S : place[c] = 1 + Cardinality({d \in S : <<d, c>> \in before})
    PROVE  /\ \A c \in S : place[c] \in Nat
           /\ {place[c] : c \in S} = 1 .. Cardinality(S)
           /\ \A c, d \in S : <<c, d>> \in before <=> place[c] < place[d]
  <1> DEFINE rank == [c \in S |-> Cardinality({d \in S : <<d, c>> \in before})]
             N == Cardinality(S)
  <1>0. \A c \in S : rank[c] = Cardinality({d \in S : <<d, c>> \in before})
    OBVIOUS
  <1>1. \A c \in S : place[c] = 1 + rank[c]
    OBVIOUS
  <1> HIDE DEF rank
  <1>2. /\ \A c \in S : rank[c] \in Nat
        /\ \A c, d \in S : <<c, d>> \in before <=> rank[c] < rank[d]
        /\ {rank[c] : c \in S} = 0 .. (Cardinality(S) - 1)
    <2>1. Counts(rank, before, S)
      BY <1>0 DEF Counts
    <2> QED BY <2>1, RankOrder
  <1>3. N \in Nat
    BY FS_CardinalityType
  <1>4. {place[c] : c \in S} = 1 .. N
    <2>1. \A c \in S : rank[c] \in 0 .. (N - 1)
      BY <1>2
    <2>2. \A i \in 0 .. (N - 1) : \E c \in S : rank[c] = i
      BY <1>2
    <2> HIDE DEF N
    <2>3. \A c \in S : place[c] \in 1 .. N
      BY <1>1, <1>2, <1>3, <2>1
    <2>4. \A i \in 1 .. N : \E c \in S : place[c] = i
      <3> SUFFICES ASSUME NEW i \in 1 .. N PROVE \E c \in S : place[c] = i
        OBVIOUS
      <3>1. i - 1 \in 0 .. (N - 1) /\ i \in Int
        BY <1>3
      <3>2. PICK c \in S : rank[c] = i - 1
        BY <2>2, <3>1
      <3> QED BY <1>1, <3>1, <3>2
    <2> QED BY <2>3, <2>4
  <1>5. \A c \in S : place[c] \in Nat /\ place[c] = 1 + rank[c]
    BY <1>1, <1>2
  <1>6. \A c, d \in S : rank[c] < rank[d] <=> place[c] < place[d]
    BY <1>2, <1>5
  <1> QED BY <1>2, <1>4, <1>5, <1>6

\* rankMatches: the places of its list.
LEMMA MatchPlaces ==
    ASSUME NEW total, IsFiniteSet(DOMAIN total), DOMAIN total \subseteq Nat,
           \A c \in DOMAIN total : total[c] \in Nat,
           NEW ranked, ranked = RankMatches(total)
    PROVE  /\ DOMAIN ranked = DOMAIN total
           /\ \A a \in DOMAIN total : ranked[a].total = total[a] /\ ranked[a].rank \in Nat
           /\ {ranked[a].rank : a \in DOMAIN total} = 1 .. Cardinality(DOMAIN total)
           /\ \A a, b \in DOMAIN total : ranked[a].rank < ranked[b].rank <=> RankedBefore(total, a, b)
  <1> DEFINE S == DOMAIN total
             before == {p \in S \X S : RankedBefore(total, p[1], p[2])}
             place == [c \in S |-> ranked[c].rank]
  <1>1. \A c, d \in S : <<c, d>> \in before <=> RankedBefore(total, c, d)
    OBVIOUS
  <1>2. /\ DOMAIN ranked = S
        /\ \A a \in S : /\ ranked[a].total = total[a]
                        /\ ranked[a].rank = 1 + Cardinality({b \in S : RankedBefore(total, b, a)})
    BY DEF RankMatches
  <1>3. \A c \in S : place[c] = ranked[c].rank
    OBVIOUS
  <1>4. \A c \in S : place[c] = 1 + Cardinality({d \in S : <<d, c>> \in before})
    <2>1. \A c \in S : {d \in S : <<d, c>> \in before} = {d \in S : RankedBefore(total, d, c)}
      BY <1>1
    <2> HIDE DEF S, before, place
    <2> QED BY <1>2, <1>3, <2>1
  <1>5. Orders(before, S)
    <2>1. S \subseteq Nat /\ \A c \in S : total[c] \in Nat
      OBVIOUS
    <2> HIDE DEF S, before
    <2> QED BY <1>1, <2>1 DEF Orders, RankedBefore
  <1>6. IsFiniteSet(S)
    OBVIOUS
  <1> HIDE DEF S, before, place
  <1>7. /\ \A c \in S : place[c] \in Nat
        /\ {place[c] : c \in S} = 1 .. Cardinality(S)
        /\ \A c, d \in S : <<c, d>> \in before <=> place[c] < place[d]
    BY <1>4, <1>5, <1>6, Places
  <1>8. {ranked[a].rank : a \in S} = {place[c] : c \in S}
    BY <1>3
  <1> QED BY <1>1, <1>2, <1>3, <1>7, <1>8 DEF S

\* What a fair ranking of these totals is.
InOrder(total, ranked) ==
    LET ids == DOMAIN ranked
    IN  /\ {ranked[a].rank : a \in ids} = 1..Cardinality(ids)
        /\ \A a, b \in ids : ranked[a].rank < ranked[b].rank => ranked[a].total >= ranked[b].total
        /\ \A a, b, out \in ids : out \notin {a, b} =>
             LET without == RankMatches([c \in ids \ {out} |-> total[c]])
             IN  ranked[a].rank < ranked[b].rank <=> without[a].rank < without[b].rank

\* The places are such a ranking, with or without one of the candidates.
LEMMA RankedFairly ==
    ASSUME NEW total, IsFiniteSet(DOMAIN total), DOMAIN total \subseteq Nat,
           \A c \in DOMAIN total : total[c] \in Nat,
           NEW ranked, ranked = RankMatches(total)
    PROVE  InOrder(total, ranked)
  <1> DEFINE ids == DOMAIN total
  <1>1. /\ DOMAIN ranked = ids
        /\ \A a \in ids : ranked[a].total = total[a] /\ ranked[a].rank \in Nat
        /\ {ranked[a].rank : a \in ids} = 1 .. Cardinality(ids)
        /\ \A a, b \in ids : ranked[a].rank < ranked[b].rank <=> RankedBefore(total, a, b)
    BY MatchPlaces
  <1>2. \A a, b \in ids : ranked[a].rank < ranked[b].rank => ranked[a].total >= ranked[b].total
    <2>1. \A a, b \in ids : RankedBefore(total, a, b) => total[a] >= total[b]
      BY DEF RankedBefore
    <2> QED BY <1>1, <2>1
  <1>3. ASSUME NEW a \in ids, NEW b \in ids, NEW out \in ids, out \notin {a, b}
        PROVE  LET without == RankMatches([c \in ids \ {out} |-> total[c]])
               IN  ranked[a].rank < ranked[b].rank <=> without[a].rank < without[b].rank
    <2> DEFINE rest == [c \in ids \ {out} |-> total[c]]
               without == RankMatches(rest)
    <2>1. DOMAIN rest = ids \ {out} /\ IsFiniteSet(DOMAIN rest) /\ DOMAIN rest \subseteq Nat
          /\ \A c \in DOMAIN rest : rest[c] = total[c] /\ rest[c] \in Nat
      BY FS_Subset
    <2>2. a \in DOMAIN rest /\ b \in DOMAIN rest
      BY <1>3, <2>1
    <2> HIDE DEF rest
    <2>3. without[a].rank < without[b].rank <=> RankedBefore(rest, a, b)
      <3>1. \A c, d \in DOMAIN rest : without[c].rank < without[d].rank <=> RankedBefore(rest, c, d)
        <4> HIDE DEF without
        <4> QED BY <2>1, MatchPlaces DEF without
      <3> HIDE DEF without
      <3> QED BY <2>2, <3>1
    <2>4. RankedBefore(rest, a, b) <=> RankedBefore(total, a, b)
      BY <2>1, <2>2 DEF RankedBefore
    <2>5. ranked[a].rank < ranked[b].rank <=> without[a].rank < without[b].rank
      <3> HIDE DEF without
      <3> QED BY <1>1, <2>3, <2>4
    <2> QED BY <2>5 DEF rest
  <1> QED BY <1>1, <1>2, <1>3, ZenonT(60) DEF InOrder

\* A pass over the eligible alone gives them the same rows.
LEMMA PassAlone ==
    ASSUME Absent \notin Nat, NEW opp, NEW candidates, IsFiniteSet(DOMAIN candidates), NEW asked, NEW now,
           NEW rows, rows = EvaluatePass(opp, candidates, asked, now),
           NEW E, E = {c \in DOMAIN candidates : EligibleAt(opp, candidates[c], asked, now)}
    PROVE  /\ \A c \in DOMAIN rows : Accepted(rows[c])
           /\ Restrict(rows, E) = EvaluatePass(opp, Restrict(candidates, E), asked, now)
  <1> DEFINE total(some) == [c \in E |-> ScoreMatch(opp, CapacityInput(some[c], now),
                                                         CandidateContext(some[c], asked, now))]
             alone == Restrict(candidates, E)
             row(some, c) == [eligible |-> EligibleAt(opp, some[c], asked, now),
                              rank |-> IF c \in DOMAIN RankMatches(total(candidates))
                                       THEN RankMatches(total(candidates))[c].rank ELSE Absent,
                              evaluatedAt |-> now]
  <1>1. alone = [c \in E |-> candidates[c]] /\ DOMAIN alone = E /\ \A c \in E : alone[c] = candidates[c]
    BY DEF Restrict
  <1>2. Ranked(opp, candidates, asked, now) = E
    BY DEF Ranked
  <1>3. Ranked(opp, alone, asked, now) = E
    <2> HIDE DEF alone
    <2> QED BY <1>1 DEF Ranked
  <1>4. total(alone) = total(candidates)
    <2> HIDE DEF alone
    <2> QED BY <1>1
  <1>5. EvaluatePass(opp, candidates, asked, now) = [c \in DOMAIN candidates |-> row(candidates, c)]
    BY <1>2 DEF EvaluatePass
  <1>6. EvaluatePass(opp, alone, asked, now) = [c \in E |-> row(alone, c)]
    <2>1. DOMAIN alone = E
      BY <1>1
    <2> HIDE DEF alone
    <2> QED BY <1>3, <1>4, <2>1 DEF EvaluatePass
  <1>7. \A c \in E : row(alone, c) = row(candidates, c)
    <2> HIDE DEF alone
    <2> QED BY <1>1
  <1>8. DOMAIN RankMatches(total(candidates)) = E
    BY DEF RankMatches
  <1>9. \A c \in E : RankMatches(total(candidates))[c].rank \in Nat
    <2> DEFINE t == total(candidates)
               B(c) == {b \in E : RankedBefore(t, b, c)}
    <2>1. DOMAIN t = E
      OBVIOUS
    <2> HIDE DEF t
    <2>2. \A c \in E : RankMatches(t)[c].rank = 1 + Cardinality(B(c))
      BY <2>1 DEF RankMatches
    <2>3. \A c \in E : Cardinality(B(c)) \in Nat
      <3>1. IsFiniteSet(E)
        BY FS_Subset
      <3>2. \A c \in E : IsFiniteSet(B(c))
        BY <3>1, FS_Subset
      <3> HIDE DEF B
      <3> QED BY <3>2, FS_CardinalityType
    <2>4. \A c \in E : RankMatches(t)[c].rank \in Nat
      <3> HIDE DEF B
      <3>1. \A c \in E : Cardinality(B(c)) \in Nat
        BY <2>3
      <3> QED BY <2>2, <3>1
    <2> QED BY <2>4 DEF t
  <1>10. ASSUME NEW c \in DOMAIN rows PROVE Accepted(rows[c])
    <2>1. c \in DOMAIN candidates /\ rows[c] = row(candidates, c)
      BY <1>5, <1>10
    <2> HIDE DEF total
    <2>2. rows[c].eligible <=> c \in E
      BY <2>1
    <2>3. rows[c].rank # Absent <=> c \in E
      BY <1>8, <1>9, <2>1
    <2> QED BY <2>2, <2>3 DEF Accepted
  <1>11. Restrict(rows, E) = [c \in E |-> row(candidates, c)]
    <2> HIDE DEF row
    <2> QED BY <1>5 DEF Restrict
  <1>12. Restrict(rows, E) = EvaluatePass(opp, alone, asked, now)
    <2> HIDE DEF row, alone
    <2> QED BY <1>6, <1>7, <1>11
  <1> QED BY <1>10, <1>12

\* A ranking or a pass returns what the code computes of its input.
RankInv ==
    /\ call.kind = "rank" =>
         /\ call.total \in RankInputs
         /\ result # Absent => result = [ranked |-> RankMatches(call.total)]
    /\ call.kind = "pass" =>
         /\ call.in \in PassInputs
         /\ result # Absent =>
              result = [rows |-> EvaluatePass(call.in.opp, call.in.candidates, call.in.asked, call.in.now)]

LEMMA InitRankInv == CallInit => RankInv
  <1> SUFFICES ASSUME CallInit, call.kind \in {"rank", "pass"}
               PROVE  /\ result = Absent
                      /\ call.kind = "rank" => call.total \in RankInputs
                      /\ call.kind = "pass" => call.in \in PassInputs
    BY DEF RankInv
  <1>1. call \notin CanCalls /\ call \notin ListCalls /\ call \notin BrowseCalls
        /\ call \notin PageCalls
    BY DEF CanCalls, ListCalls, BrowseCalls, PageCalls
  <1>2. \A f : call \notin FormCalls(f)
    BY DEF FormCalls
  <1>3. \A i : call \notin MatchCalls(i)
    BY DEF MatchCalls
  <1>4. call \notin HistoryCalls /\ call \notin ScoreCalls /\ call \notin RankClaimsCalls
    BY DEF HistoryCalls, ScoreCalls, RankClaimsCalls
  <1>5. call \notin SplitCalls /\ call \notin LedgerCalls /\ call \notin ShareCalls
    BY DEF SplitCalls, LedgerCalls, ShareCalls
  <1>6. call \in PassCalls \/ call \in RankCalls
    BY <1>1, <1>2, <1>3, <1>4, <1>5 DEF CallInit
  <1> QED BY <1>6 DEF PassCalls, RankCalls, CallInit

LEMMA NextRankInv == RankInv /\ [CallNext]_callVars => RankInv'
  <1> SUFFICES ASSUME RankInv, [CallNext]_callVars, call' = call, call.kind \in {"rank", "pass"}
               PROVE  RankInv'
    BY DEF RankInv, CallNext, callVars, Can, List, Browse, OpenPage, SubmitForm,
       Match, RankCandidates, Evaluate, ListMatches, ScoreOneClaim,
       RankTheClaims, Split, ReadLedger, ShareSecret, Returns
  <1> DEFINE ranked == RankMatches(call.total)
             rows == EvaluatePass(call.in.opp, call.in.candidates, call.in.asked, call.in.now)
  <1>1. \/ result' = result
        \/ call.kind = "rank" /\ result' = [ranked |-> ranked]
        \/ call.kind = "pass" /\ result' = [rows |-> rows]
    BY DEF CallNext, callVars, Can, List, Browse, OpenPage, SubmitForm,
       Match, RankCandidates, Evaluate, ListMatches, ScoreOneClaim,
       RankTheClaims, Split, ReadLedger, ShareSecret, Returns
  <1>2. /\ call.kind = "rank" => call.total \in RankInputs /\ (result # Absent => result = [ranked |-> ranked])
        /\ call.kind = "pass" => call.in \in PassInputs /\ (result # Absent => result = [rows |-> rows])
    BY DEF RankInv
  <1> HIDE DEF ranked, rows
  <1>3. /\ call'.kind = "rank" => call'.total \in RankInputs /\ (result' # Absent => result' = [ranked |-> ranked])
        /\ call'.kind = "pass" => call'.in \in PassInputs /\ (result' # Absent => result' = [rows |-> rows])
    BY <1>1, <1>2
  <1> QED BY <1>3 DEF RankInv, ranked, rows

LEMMA RankInvFair == RankAssumption /\ RankInv => RankingIsFair
  <1> SUFFICES ASSUME RankAssumption, RankInv
               PROVE  RanksAreAPermutation /\ IneligibleChangesNoRank
    BY DEF RankingIsFair
  <1>1. ASSUME Returned("rank") PROVE RanksAreAPermutation
    <2> DEFINE total == call.total
               ranked == result.ranked
    <2>1. total \in RankInputs /\ ranked = RankMatches(total)
      BY <1>1 DEF RankInv, Returned
    <2>2. IsFiniteSet(DOMAIN total) /\ DOMAIN total \subseteq Nat /\ \A c \in DOMAIN total : total[c] \in Nat
      <3>1. IsFiniteSet(DOMAIN total) /\ DOMAIN total \subseteq Nat
            /\ \A c \in DOMAIN total : total[c] \in Nat
        BY <2>1 DEF RankAssumption
      <3> QED BY <3>1
    <2> HIDE DEF total, ranked
    <2>3. InOrder(total, ranked)
      BY <2>1, <2>2, RankedFairly
    <2> QED BY <2>3 DEF InOrder, RanksAreAPermutation, total, ranked
  <1>2. ASSUME Returned("pass") PROVE IneligibleChangesNoRank
    <2> DEFINE opp == call.in.opp
               candidates == call.in.candidates
               asked == call.in.asked
               now == call.in.now
               rows == result.rows
               E == {c \in DOMAIN candidates : EligibleAt(opp, candidates[c], asked, now)}
    <2>1. call.in \in PassInputs /\ rows = EvaluatePass(opp, candidates, asked, now)
      BY <1>2 DEF RankInv, Returned
    <2>2. Absent \notin Nat /\ IsFiniteSet(DOMAIN candidates)
      <3>1. Absent \notin Nat /\ IsFiniteSet(DOMAIN candidates)
        BY <2>1 DEF RankAssumption
      <3> QED BY <3>1
    <2> HIDE DEF opp, candidates, asked, now, rows
    <2>3. /\ \A c \in DOMAIN rows : Accepted(rows[c])
          /\ Restrict(rows, E) = EvaluatePass(opp, Restrict(candidates, E), asked, now)
      BY <2>1, <2>2, PassAlone
    <2> QED BY <2>3 DEF IneligibleChangesNoRank, opp, candidates, asked, now, rows
  <1> QED BY <1>1, <1>2 DEF RanksAreAPermutation, IneligibleChangesNoRank

\* rankMatches and evaluate, for any number of candidates: the places are 1..n, each
\* taken once and in the order of the totals, one candidate more or less changes the
\* order of no other two, and nobody ineligible is ranked or moves a rank.
THEOREM Ranking_Fair == CallSpec => []RankingIsFair
  <1>1. RankInv => RankingIsFair
    BY RankInvFair, RankAssumption
  <1> QED BY <1>1, InitRankInv, NextRankInv, PTL DEF CallSpec

\* rankClaims: the places of its list.
LEMMA ClaimPlaces ==
    ASSUME NEW claims, IsFiniteSet(DOMAIN claims), DOMAIN claims \subseteq Nat,
           \A c \in DOMAIN claims : claims[c].total \in Nat /\ claims[c].submittedAt \in Nat,
           NEW ranked, ranked = RankClaims(claims)
    PROVE  /\ DOMAIN ranked = DOMAIN claims
           /\ {ranked[c].rank : c \in DOMAIN ranked} = 1 .. Cardinality(DOMAIN ranked)
           /\ \A c, d \in DOMAIN ranked : ranked[c].rank < ranked[d].rank <=> ClaimBefore(claims, c, d)
  <1> DEFINE S == DOMAIN claims
             before == {p \in S \X S : ClaimBefore(claims, p[1], p[2])}
             place == [c \in S |-> ranked[c].rank]
  <1>1. \A c, d \in S : <<c, d>> \in before <=> ClaimBefore(claims, c, d)
    OBVIOUS
  <1>2. /\ DOMAIN ranked = S
        /\ \A c \in S : ranked[c].rank = 1 + Cardinality({d \in S : ClaimBefore(claims, d, c)})
    BY DEF RankClaims
  <1>3. \A c \in S : place[c] = ranked[c].rank
    OBVIOUS
  <1>4. \A c \in S : place[c] = 1 + Cardinality({d \in S : <<d, c>> \in before})
    <2>1. \A c \in S : {d \in S : <<d, c>> \in before} = {d \in S : ClaimBefore(claims, d, c)}
      BY <1>1
    <2> HIDE DEF S, before, place
    <2> QED BY <1>2, <1>3, <2>1
  <1>5. Orders(before, S)
    <2> DEFINE total == [c \in S |-> claims[c].total]
               time == [c \in S |-> claims[c].submittedAt]
    <2>1. S \subseteq Nat /\ \A c \in S : total[c] \in Nat /\ time[c] \in Nat
      OBVIOUS
    <2>2. \A c, d \in S : <<c, d>> \in before <=>
             \/ total[c] > total[d]
             \/ total[c] = total[d] /\ (time[c] < time[d] \/ (time[c] = time[d] /\ c < d))
      BY <1>1 DEF ClaimBefore
    <2> HIDE DEF S, before, total, time
    <2>3. \A c \in S : <<c, c>> \notin before
      BY <2>1, <2>2
    <2>4. \A c, d, e \in S : <<c, d>> \in before /\ <<d, e>> \in before => <<c, e>> \in before
      BY <2>1, <2>2
    <2>5. \A c, d \in S : c # d => <<c, d>> \in before \/ <<d, c>> \in before
      BY <2>1, <2>2
    <2> QED BY <2>3, <2>4, <2>5 DEF Orders
  <1>6. IsFiniteSet(S)
    OBVIOUS
  <1> HIDE DEF S, before, place
  <1>7. /\ \A c \in S : place[c] \in Nat
        /\ {place[c] : c \in S} = 1 .. Cardinality(S)
        /\ \A c, d \in S : <<c, d>> \in before <=> place[c] < place[d]
    BY <1>4, <1>5, <1>6, Places
  <1>8. {ranked[a].rank : a \in S} = {place[c] : c \in S}
    BY <1>3
  <1>9. {ranked[c].rank : c \in S} = 1 .. Cardinality(S)
    BY <1>7, <1>8
  <1>10. \A c, d \in S : ranked[c].rank < ranked[d].rank <=> ClaimBefore(claims, c, d)
    BY <1>1, <1>3, <1>7
  <1> QED BY <1>2, <1>9, <1>10 DEF S

\* What an item of evidence is worth.
Points(item) == BasePoints(item.evidenceType) * Multiplier(item.verificationState)
Worth(items) == [i \in DOMAIN items |-> Points(items[i])]

\* It is worth something, or nothing.
LEMMA PointsType == \A item \in EvidenceItems : Points(item) \in Nat
  BY DEF Points, EvidenceItems, BasePoints, Multiplier

\* The score of the evidence is the total of what it is worth, up to its ceiling,
LEMMA EvidenceIs ==
    ASSUME NEW items
    PROVE  ScoreEvidence(items) = AtMost(SumOver(Worth(items), DOMAIN items), 1000)
  <1> DEFINE D == DOMAIN items
             a == Worth(items)
             Far(i) == BasePoints(items[i].evidenceType) * Multiplier(items[i].verificationState)
             Runs(g) == g = [s \in SUBSET D |-> IF s = {} THEN 0 ELSE Far(Pick(s)) + g[s \ {Pick(s)}]]
  <1>1. ASSUME NEW g PROVE Runs(g) <=> IsRun(g, a, D)
    <2>1. \A s \in SUBSET D : s # {} => a[Pick(s)] = Far(Pick(s))
      BY Picked DEF Worth, Points
    <2> HIDE DEF a, D, Far
    <2>2. [s \in SUBSET D |-> IF s = {} THEN 0 ELSE Far(Pick(s)) + g[s \ {Pick(s)}]]
          = [s \in SUBSET D |-> IF s = {} THEN 0 ELSE a[Pick(s)] + g[s \ {Pick(s)}]]
      BY <2>1
    <2> QED BY <2>2 DEF IsRun
  <1>2. ScoreEvidence(items) = AtMost((CHOOSE g : Runs(g))[D], 1000)
    BY DEF ScoreEvidence, MapThenSumSet, MapThenFoldSet, Pick
  <1>3. SumOver(a, D) = (CHOOSE g : IsRun(g, a, D))[D]
    BY TotalIs
  <1>4. (CHOOSE g : Runs(g)) = (CHOOSE g : IsRun(g, a, D))
    <2> HIDE DEF a, Runs, D
    <2> QED BY <1>1
  <1> HIDE DEF Runs, a, D
  <1>5. ScoreEvidence(items) = AtMost(SumOver(a, D), 1000)
    BY <1>2, <1>3, <1>4, ZenonT(60)
  <1> QED BY <1>5 DEF a, D

\* which is a number of tenths within 0..1000.
Tenths == 0..1000

LEMMA WorthType ==
    ASSUME NEW items \in Seq(EvidenceItems)
    PROVE  /\ IsFiniteSet(DOMAIN items) /\ \A i \in DOMAIN items : Worth(items)[i] \in Nat
           /\ SumOver(Worth(items), DOMAIN items) \in Nat
           /\ ScoreEvidence(items) \in Tenths
  <1>1. Len(items) \in Nat /\ DOMAIN items = 1..Len(items) /\ \A i \in DOMAIN items : items[i] \in EvidenceItems
    OBVIOUS
  <1>2. IsFiniteSet(DOMAIN items)
    BY <1>1, FS_Interval
  <1>3. \A i \in DOMAIN items : Worth(items)[i] \in Nat
    BY <1>1, PointsType DEF Worth
  <1>4. SumOver(Worth(items), DOMAIN items) \in Nat
    <2> DEFINE a == Worth(items)
               D == DOMAIN items
    <2>1. \A i \in D : a[i] \in Int /\ a[i] >= 0
      BY <1>3
    <2> HIDE DEF a, D
    <2>2. SumOver(a, D) \in Int /\ SumOver(a, D) >= 0
      BY <1>2, <2>1, TotalType DEF D
    <2> QED BY <2>2 DEF a, D
  <1>5. ScoreEvidence(items) \in Tenths
    <2> DEFINE t == SumOver(Worth(items), DOMAIN items)
    <2>1. ScoreEvidence(items) = AtMost(t, 1000) /\ t \in Nat
      BY <1>4, EvidenceIs
    <2> HIDE DEF t
    <2> QED BY <2>1 DEF AtMost, Tenths
  <1> QED BY <1>2, <1>3, <1>4, <1>5

\* What each item is worth, and the score, by themselves.
LEMMA ItemWorth == \A items \in Seq(EvidenceItems) : \A i \in DOMAIN items : Worth(items)[i] \in Nat
  BY WorthType

LEMMA EvidenceType == \A items \in Seq(EvidenceItems) : ScoreEvidence(items) \in Tenths
  BY WorthType

\* One more item never lowers the evidence.
LEMMA MoreEvidence ==
    ASSUME NEW items \in Seq(EvidenceItems), NEW item \in EvidenceItems
    PROVE  ScoreEvidence(items) <= ScoreEvidence(Append(items, item))
  <1> DEFINE more == Append(items, item)
             n == Len(items)
             a == Worth(items)
             b == Worth(more)
  <1>1. n \in Nat /\ DOMAIN items = 1..n
    OBVIOUS
  <1>2. more \in Seq(EvidenceItems) /\ DOMAIN more = 1..(n + 1) /\ \A i \in 1..n : more[i] = items[i]
    OBVIOUS
  <1> HIDE DEF more, n
  <1>3. \A i \in 1..n : a[i] = b[i] /\ a[i] \in Int
    <2>1. \A i \in 1..n : i \in DOMAIN more
      BY <1>1, <1>2
    <2>2. \A i \in 1..n : a[i] = Points(items[i]) /\ b[i] = Points(more[i])
      BY <1>1, <2>1 DEF Worth
    <2>3. \A i \in 1..n : a[i] \in Nat
      BY <1>1, ItemWorth
    <2> QED BY <1>2, <2>2, <2>3
  <1>4. \A i \in 1..(n + 1) : b[i] \in Int /\ b[i] >= 0
    <2>1. \A i \in 1..(n + 1) : b[i] \in Nat
      BY <1>2, ItemWorth
    <2> QED BY <2>1
  <1>5. (1..n) \cup {n + 1} = 1..(n + 1) /\ n + 1 \notin 1..n /\ IsFiniteSet(1..n)
    <2>1. (1..n) \cup {n + 1} = 1..(n + 1) /\ n + 1 \notin 1..n
      BY <1>1
    <2>2. IsFiniteSet(1..n)
      BY <1>1, FS_Interval
    <2> QED BY <2>1, <2>2
  <1> HIDE DEF a, b
  <1>6. SumOver(b, 1..(n + 1)) = b[n + 1] + SumOver(b, 1..n)
    <2>1. \A y \in (1..n) \cup {n + 1} : b[y] \in Int
      BY <1>4, <1>5
    <2>2. SumOver(b, (1..n) \cup {n + 1}) = b[n + 1] + SumOver(b, 1..n)
      BY <1>5, <2>1, TotalAdd
    <2> QED BY <1>5, <2>2
  <1>7. SumOver(a, 1..n) = SumOver(b, 1..n)
    BY <1>3, <1>5, TotalSame
  <1>8. SumOver(a, 1..n) \in Nat /\ SumOver(b, 1..(n + 1)) \in Nat
    BY <1>1, <1>2, WorthType DEF a, b
  <1>9. b[n + 1] \in Int /\ b[n + 1] >= 0
    BY <1>1, <1>4
  <1>10. SumOver(a, 1..n) <= SumOver(b, 1..(n + 1))
    <2> DEFINE x == SumOver(a, 1..n)
               y == SumOver(b, 1..(n + 1))
               z == b[n + 1]
    <2>1. y = z + x /\ x \in Nat /\ z \in Int /\ z >= 0
      BY <1>6, <1>7, <1>8, <1>9
    <2> HIDE DEF x, y, z
    <2>2. x <= y
      BY <2>1
    <2> QED BY <2>2 DEF x, y
  <1>11. ScoreEvidence(items) = AtMost(SumOver(a, 1..n), 1000)
         /\ ScoreEvidence(more) = AtMost(SumOver(b, 1..(n + 1)), 1000)
    BY <1>1, <1>2, EvidenceIs DEF a, b
  <1>12. ScoreEvidence(items) <= ScoreEvidence(more)
    BY <1>8, <1>10, <1>11, SMTT(30) DEF AtMost
  <1> QED BY <1>12 DEF more

\* The weighted sum, in its four factors.
Sum4(h, p, e, l) == (2 * (2000 * h + 540 * p + 36 * e + 300 * (60 - l)) + 180) \div 360

\* The rounded sum stays within 0..1000,
LEMMA Sum4Type ==
    ASSUME NEW h, NEW p, NEW e, NEW l, h \in 0..36 /\ p \in 0..100 /\ e \in Tenths /\ l \in 0..60
    PROVE  Sum4(h, p, e, l) \in Tenths
  <1> DEFINE n == 2 * (2000 * h + 540 * p + 36 * e + 300 * (60 - l)) + 180
  <1>1. n \in Int /\ 0 <= n /\ n <= 360 * 1000 + 180
    BY SMTT(30) DEF Tenths
  <1>2. Sum4(h, p, e, l) = n \div 360
    BY DEF Sum4
  <1> HIDE DEF n
  <1>3. n \div 360 \in 0..1000
    BY <1>1, SMTT(30)
  <1> QED BY <1>2, <1>3 DEF Tenths

\* and rounding once keeps the order of the factors.
LEMMA Sum4Grows ==
    ASSUME NEW h, NEW p, NEW e, NEW l, h \in 0..36 /\ p \in 0..100 /\ e \in Tenths /\ l \in 0..60,
           NEW g, NEW f, NEW k, g \in 0..36 /\ h <= g /\ f \in Tenths /\ e <= f /\ k \in 0..60 /\ k <= l
    PROVE  /\ Sum4(h, p, e, l) <= Sum4(g, p, e, l)
           /\ Sum4(h, p, e, l) <= Sum4(h, p, f, l)
           /\ Sum4(h, p, e, l) <= Sum4(h, p, e, k)
  BY DEF Sum4, Tenths

\* The score of a claim is that sum.
LEMMA WeightedIs ==
    ASSUME NEW claim
    PROVE  Weighted(claim) = Sum4(AtMost(claim.historyMonths, 36),
                                       ProximityScore(claim.directnessTier),
                                       ScoreEvidence(claim.evidenceItems),
                                       AtMost(claim.submissionLagDays, 60))
  <1>1. 2 * 180 = 360
    OBVIOUS
  <1> QED BY <1>1 DEF Weighted, Rounded, Sum4

LEMMA ProximityType == \A tier \in DirectnessTiers : ProximityScore(tier) \in 0..100
  BY DEF DirectnessTiers, ProximityScore

ClaimRecords ==
    [historyMonths: Nat, directnessTier: DirectnessTiers, submissionLagDays: Nat,
     evidenceItems: Seq(EvidenceItems)]

\* The four factors of a claim are within their bounds.
LEMMA ClaimFacts ==
    ASSUME NEW claim \in ClaimRecords
    PROVE  /\ AtMost(claim.historyMonths, 36) \in 0..36
           /\ AtMost(claim.historyMonths, 36) <= AtMost(claim.historyMonths + 1, 36)
           /\ AtMost(claim.historyMonths + 1, 36) \in 0..36
           /\ ProximityScore(claim.directnessTier) \in 0..100
           /\ ScoreEvidence(claim.evidenceItems) \in Tenths
           /\ AtMost(claim.submissionLagDays, 60) \in 0..60
  <1>1. claim.historyMonths \in Nat /\ claim.submissionLagDays \in Nat
        /\ claim.directnessTier \in DirectnessTiers /\ claim.evidenceItems \in Seq(EvidenceItems)
    BY DEF ClaimRecords
  <1>2. \A n \in Nat : /\ AtMost(n, 36) \in 0..36 /\ AtMost(n + 1, 36) \in 0..36
                       /\ AtMost(n, 36) <= AtMost(n + 1, 36) /\ AtMost(n, 60) \in 0..60
    BY DEF AtMost
  <1>3. ProximityScore(claim.directnessTier) \in 0..100 /\ ScoreEvidence(claim.evidenceItems) \in Tenths
    BY <1>1, ProximityType, EvidenceType
  <1>4. claim.historyMonths \in Nat => /\ AtMost(claim.historyMonths, 36) \in 0..36
                                       /\ AtMost(claim.historyMonths + 1, 36) \in 0..36
                                       /\ AtMost(claim.historyMonths, 36) <= AtMost(claim.historyMonths + 1, 36)
    BY <1>2, ZenonT(60)
  <1>5. claim.submissionLagDays \in Nat => AtMost(claim.submissionLagDays, 60) \in 0..60
    BY <1>2, ZenonT(60)
  <1> QED BY <1>1, <1>3, <1>4, <1>5, ZenonT(60)

\* A stronger claim never scores less.
LEMMA ScoredFairly ==
    ASSUME NEW claim \in ClaimRecords
    PROVE  /\ ScoreClaim(claim) \in Tenths
           /\ claim.directnessTier = "D0" => ScoreClaim(claim) = 0
           /\ ScoreClaim([claim EXCEPT !.historyMonths = @ + 1]) >= ScoreClaim(claim)
           /\ ScoreClaim([claim EXCEPT !.evidenceItems =
                  Append(@, [evidenceType |-> "OTHER", verificationState |-> "SELF_REPORTED"])])
              >= ScoreClaim(claim)
           /\ ScoreClaim([claim EXCEPT !.submissionLagDays = IF @ = 0 THEN 0 ELSE @ - 1])
              >= ScoreClaim(claim)
  <1> DEFINE h == AtMost(claim.historyMonths, 36)
             g == AtMost(claim.historyMonths + 1, 36)
             p == ProximityScore(claim.directnessTier)
             e == ScoreEvidence(claim.evidenceItems)
             item == [evidenceType |-> "OTHER", verificationState |-> "SELF_REPORTED"]
             f == ScoreEvidence(Append(claim.evidenceItems, item))
             l == AtMost(claim.submissionLagDays, 60)
             days == IF claim.submissionLagDays = 0 THEN 0 ELSE claim.submissionLagDays - 1
             k == AtMost(days, 60)
             longer == [claim EXCEPT !.historyMonths = @ + 1]
             proven == [claim EXCEPT !.evidenceItems = Append(@, item)]
             sooner == [claim EXCEPT !.submissionLagDays = IF @ = 0 THEN 0 ELSE @ - 1]
             zero == claim.directnessTier = "D0"
  <1>1. claim.historyMonths \in Nat /\ claim.submissionLagDays \in Nat
        /\ claim.directnessTier \in DirectnessTiers /\ claim.evidenceItems \in Seq(EvidenceItems)
    BY DEF ClaimRecords
  <1>2. h \in 0..36 /\ g \in 0..36 /\ h <= g /\ p \in 0..100 /\ e \in Tenths /\ l \in 0..60
    BY ClaimFacts
  <1>3. f \in Tenths /\ e <= f
    <2>1. item \in EvidenceItems
      BY DEF EvidenceItems
    <2> HIDE DEF item
    <2>2. Append(claim.evidenceItems, item) \in Seq(EvidenceItems)
      BY <1>1, <2>1
    <2>3. f \in Tenths
      BY <2>2, EvidenceType
    <2>4. e <= f
      BY <1>1, <2>1, MoreEvidence
    <2> QED BY <2>3, <2>4
  <1>4. k \in 0..60 /\ k <= l
    <2> DEFINE lag == claim.submissionLagDays
    <2>1. lag \in Nat /\ l = AtMost(lag, 60) /\ k = AtMost(IF lag = 0 THEN 0 ELSE lag - 1, 60)
      BY <1>1
    <2> HIDE DEF lag, l, k
    <2> QED BY <2>1 DEF AtMost
  <1>5. ScoreClaim(claim) = IF zero THEN 0 ELSE Sum4(h, p, e, l)
    BY WeightedIs DEF ScoreClaim
  <1>6. ScoreClaim(longer) = IF zero THEN 0 ELSE Sum4(g, p, e, l)
    <2>1. /\ longer.historyMonths = claim.historyMonths + 1 /\ longer.directnessTier = claim.directnessTier
          /\ longer.evidenceItems = claim.evidenceItems /\ longer.submissionLagDays = claim.submissionLagDays
      BY DEF ClaimRecords
    <2> HIDE DEF longer
    <2> QED BY <2>1, WeightedIs DEF ScoreClaim
  <1>7. ScoreClaim(proven) = IF zero THEN 0 ELSE Sum4(h, p, f, l)
    <2>1. /\ proven.historyMonths = claim.historyMonths /\ proven.directnessTier = claim.directnessTier
          /\ proven.evidenceItems = Append(claim.evidenceItems, item)
          /\ proven.submissionLagDays = claim.submissionLagDays
      <3> HIDE DEF item
      <3> QED BY DEF ClaimRecords
    <2> HIDE DEF proven, item
    <2> QED BY <2>1, WeightedIs DEF ScoreClaim
  <1>8. ScoreClaim(sooner) = IF zero THEN 0 ELSE Sum4(h, p, e, k)
    <2>1. /\ sooner.historyMonths = claim.historyMonths /\ sooner.directnessTier = claim.directnessTier
          /\ sooner.evidenceItems = claim.evidenceItems /\ sooner.submissionLagDays = days
      BY DEF ClaimRecords
    <2> HIDE DEF sooner, days
    <2> QED BY <2>1, WeightedIs DEF ScoreClaim
  <1> HIDE DEF h, g, p, e, f, l, k, longer, proven, sooner
  <1>9. /\ Sum4(h, p, e, l) \in Tenths /\ Sum4(h, p, e, l) <= Sum4(g, p, e, l)
        /\ Sum4(h, p, e, l) <= Sum4(h, p, f, l) /\ Sum4(h, p, e, l) <= Sum4(h, p, e, k)
    <2>1. Sum4(h, p, e, l) \in Tenths
      BY <1>2, Sum4Type
    <2>2. h \in 0..36 /\ p \in 0..100 /\ e \in Tenths /\ l \in 0..60
      BY <1>2
    <2>3. g \in 0..36 /\ h <= g /\ f \in Tenths /\ e <= f /\ k \in 0..60 /\ k <= l
      BY <1>2, <1>3, <1>4
    <2>4. /\ Sum4(h, p, e, l) <= Sum4(g, p, e, l) /\ Sum4(h, p, e, l) <= Sum4(h, p, f, l)
          /\ Sum4(h, p, e, l) <= Sum4(h, p, e, k)
      BY <2>2, <2>3, Sum4Grows, ZenonT(60)
    <2> QED BY <2>1, <2>4
  <1>10. /\ Sum4(g, p, e, l) \in Tenths /\ Sum4(h, p, f, l) \in Tenths /\ Sum4(h, p, e, k) \in Tenths
    <2>1. Sum4(g, p, e, l) \in Tenths
      BY <1>2, Sum4Type
    <2>2. Sum4(h, p, f, l) \in Tenths
      BY <1>2, <1>3, Sum4Type
    <2>3. Sum4(h, p, e, k) \in Tenths
      BY <1>2, <1>4, Sum4Type, SMTT(30)
    <2> QED BY <2>1, <2>2, <2>3
  <1>11. /\ ScoreClaim(claim) \in Tenths /\ (zero => ScoreClaim(claim) = 0)
         /\ ScoreClaim(longer) >= ScoreClaim(claim)
         /\ ScoreClaim(proven) >= ScoreClaim(claim)
         /\ ScoreClaim(sooner) >= ScoreClaim(claim)
    BY <1>5, <1>6, <1>7, <1>8, <1>9, <1>10, SMTT(30) DEF Tenths
  <1> QED BY <1>11 DEF longer, proven, sooner

\* A claim scored or ranked gets what the code computes of its input.
ClaimInv ==
    /\ call.kind = "score" =>
         /\ call.claim \in ClaimInputs
         /\ result # Absent => result = [total |-> ScoreClaim(call.claim)]
    /\ call.kind = "rankClaims" =>
         /\ call.claims \in RankedClaims
         /\ result # Absent => result = [ranked |-> RankClaims(call.claims)]

LEMMA InitClaimInv == CallInit => ClaimInv
  <1> SUFFICES ASSUME CallInit, call.kind \in {"score", "rankClaims"}
               PROVE  /\ result = Absent
                      /\ call.kind = "score" => call.claim \in ClaimInputs
                      /\ call.kind = "rankClaims" => call.claims \in RankedClaims
    BY DEF ClaimInv
  <1>1. call \notin CanCalls /\ call \notin ListCalls /\ call \notin BrowseCalls
        /\ call \notin PageCalls
    BY DEF CanCalls, ListCalls, BrowseCalls, PageCalls
  <1>2. \A f : call \notin FormCalls(f)
    BY DEF FormCalls
  <1>3. \A i : call \notin MatchCalls(i)
    BY DEF MatchCalls
  <1>4. call \notin HistoryCalls /\ call \notin PassCalls /\ call \notin RankCalls
    BY DEF HistoryCalls, PassCalls, RankCalls
  <1>5. call \notin SplitCalls /\ call \notin LedgerCalls /\ call \notin ShareCalls
    BY DEF SplitCalls, LedgerCalls, ShareCalls
  <1>6. call \in ScoreCalls \/ call \in RankClaimsCalls
    BY <1>1, <1>2, <1>3, <1>4, <1>5 DEF CallInit
  <1> QED BY <1>6 DEF ScoreCalls, RankClaimsCalls, CallInit

LEMMA NextClaimInv == ClaimInv /\ [CallNext]_callVars => ClaimInv'
  <1> SUFFICES ASSUME ClaimInv, [CallNext]_callVars, call' = call, call.kind \in {"score", "rankClaims"}
               PROVE  ClaimInv'
    BY DEF ClaimInv, CallNext, callVars, Can, List, Browse, OpenPage, SubmitForm,
       Match, RankCandidates, Evaluate, ListMatches, ScoreOneClaim,
       RankTheClaims, Split, ReadLedger, ShareSecret, Returns
  <1> DEFINE ranked == RankClaims(call.claims)
             total == ScoreClaim(call.claim)
  <1>1. \/ result' = result
        \/ call.kind = "score" /\ result' = [total |-> total]
        \/ call.kind = "rankClaims" /\ result' = [ranked |-> ranked]
    BY DEF CallNext, callVars, Can, List, Browse, OpenPage, SubmitForm,
       Match, RankCandidates, Evaluate, ListMatches, ScoreOneClaim,
       RankTheClaims, Split, ReadLedger, ShareSecret, Returns
  <1>2. /\ call.kind = "score" => call.claim \in ClaimInputs /\ (result # Absent => result = [total |-> total])
        /\ call.kind = "rankClaims" =>
             call.claims \in RankedClaims /\ (result # Absent => result = [ranked |-> ranked])
    BY DEF ClaimInv
  <1> HIDE DEF ranked, total
  <1>3. /\ call'.kind = "score" => call'.claim \in ClaimInputs /\ (result' # Absent => result' = [total |-> total])
        /\ call'.kind = "rankClaims" =>
             call'.claims \in RankedClaims /\ (result' # Absent => result' = [ranked |-> ranked])
    BY <1>1, <1>2, SMTT(30)
  <1> QED BY <1>3 DEF ClaimInv, ranked, total

LEMMA ClaimInvFair == RankAssumption /\ ClaimAssumption /\ ClaimInv => ClaimRankingIsFair
  <1> SUFFICES ASSUME RankAssumption, ClaimAssumption, ClaimInv
               PROVE  ClaimScoreIsFair /\ EarlierClaimIsFirst
    BY SMTT(30) DEF ClaimRankingIsFair
  <1>1. ASSUME Returned("score") PROVE ClaimScoreIsFair
    <2> DEFINE claim == call.claim
    <2>1. claim \in ClaimRecords /\ result.total = ScoreClaim(claim)
      BY <1>1 DEF ClaimInv, Returned, ClaimAssumption, ClaimRecords
    <2> HIDE DEF claim
    <2>2. /\ ScoreClaim(claim) \in Tenths
          /\ claim.directnessTier = "D0" => ScoreClaim(claim) = 0
          /\ ScoreClaim([claim EXCEPT !.historyMonths = @ + 1]) >= ScoreClaim(claim)
          /\ ScoreClaim([claim EXCEPT !.evidenceItems =
                 Append(@, [evidenceType |-> "OTHER", verificationState |-> "SELF_REPORTED"])])
             >= ScoreClaim(claim)
          /\ ScoreClaim([claim EXCEPT !.submissionLagDays = IF @ = 0 THEN 0 ELSE @ - 1])
             >= ScoreClaim(claim)
      BY <2>1, ScoredFairly, ZenonT(60)
    <2>3. /\ result.total \in Tenths
          /\ claim.directnessTier = "D0" => result.total = 0
          /\ ScoreClaim([claim EXCEPT !.historyMonths = @ + 1]) >= result.total
          /\ ScoreClaim([claim EXCEPT !.evidenceItems =
                 Append(@, [evidenceType |-> "OTHER", verificationState |-> "SELF_REPORTED"])])
             >= result.total
          /\ ScoreClaim([claim EXCEPT !.submissionLagDays = IF @ = 0 THEN 0 ELSE @ - 1])
             >= result.total
      BY <2>1, <2>2, SMTT(30)
    <2> QED BY <2>3, ZenonT(60) DEF ClaimScoreIsFair, claim, Tenths
  <1>2. ASSUME Returned("rankClaims") PROVE EarlierClaimIsFirst
    <2> DEFINE claims == call.claims
               ranked == result.ranked
    <2>1. claims \in RankedClaims /\ ranked = RankClaims(claims)
      BY <1>2 DEF ClaimInv, Returned
    <2>2. /\ IsFiniteSet(DOMAIN claims) /\ DOMAIN claims \subseteq Nat
          /\ \A c \in DOMAIN claims : claims[c].total \in Nat /\ claims[c].submittedAt \in Nat
      <3>1. /\ IsFiniteSet(DOMAIN claims) /\ DOMAIN claims \subseteq Nat
            /\ \A c \in DOMAIN claims : claims[c] \in [total: Nat, submittedAt: Nat]
        BY <2>1 DEF RankAssumption
      <3> QED BY <3>1
    <2> HIDE DEF claims, ranked
    <2>3. /\ DOMAIN ranked = DOMAIN claims
          /\ {ranked[c].rank : c \in DOMAIN ranked} = 1 .. Cardinality(DOMAIN ranked)
          /\ \A c, d \in DOMAIN ranked : ranked[c].rank < ranked[d].rank <=> ClaimBefore(claims, c, d)
      BY <2>1, <2>2, ClaimPlaces
    <2>4. \A c, d \in DOMAIN ranked : ClaimBefore(claims, c, d) =>
             \/ claims[c].total > claims[d].total
             \/ claims[c].total = claims[d].total /\ claims[c].submittedAt <= claims[d].submittedAt
      BY <2>2, <2>3 DEF ClaimBefore
    <2>5. \A c, d \in DOMAIN ranked : c \in ranked[d].tiedWith <=> d \in ranked[c].tiedWith
      BY <2>1, <2>3 DEF RankClaims
    <2> QED BY <2>3, <2>4, <2>5 DEF EarlierClaimIsFirst, claims, ranked
  <1> QED BY <1>1, <1>2 DEF ClaimScoreIsFair, EarlierClaimIsFirst

\* scoreClaim and rankClaims, for any claims with any amount of evidence: a score is
\* within 0..100 points, longer history, one more item of evidence and an earlier
\* submission never lower it, and of equal scores the earlier claim is ranked first.
THEOREM Claims_RankedFairly == CallSpec => []ClaimRankingIsFair
  <1>1. ClaimInv => ClaimRankingIsFair
    BY ClaimInvFair, RankAssumption, ClaimAssumption
  <1> QED BY <1>1, InitClaimInv, NextClaimInv, PTL DEF CallSpec

-----------------------------------------------------------------------------
(* The ledger of a period                                                   *)

\* The image of a finite set under a function.
LEMMA FiniteImage ==
    ASSUME NEW S, IsFiniteSet(S), NEW h
    PROVE  IsFiniteSet({h[x] : x \in S})
  <1> DEFINE R == {h[x] : x \in S}
  <1>1. [x \in S |-> h[x]] \in Surjection(S, R)
    BY DEF Surjection
  <1> HIDE DEF R
  <1>2. IsFiniteSet(R)
    BY <1>1, FS_Surjection
  <1> QED BY <1>2 DEF R

\* A family of finite sets of which no two meet.
Parts(K, part, a) ==
    /\ \A k \in K : IsFiniteSet(part[k]) /\ \A x \in part[k] : a[x] \in Int
    /\ \A k, l \in K : k # l => part[k] \cap part[l] = {}

\* A total may be taken part by part.
LEMMA TotalParts ==
    ASSUME NEW K, IsFiniteSet(K), NEW part, NEW a, NEW s, Parts(K, part, a),
           \A k \in K : s[k] = SumOver(a, part[k])
    PROVE  SumOver(a, UNION {part[k] : k \in K}) = SumOver(s, K)
  <1>a. /\ \A k \in K : IsFiniteSet(part[k]) /\ \A x \in part[k] : a[x] \in Int
        /\ \A k, l \in K : k # l => part[k] \cap part[l] = {}
    BY DEF Parts
  <1> DEFINE All(V) == UNION {part[k] : k \in V}
             Good(V) == IsFiniteSet(All(V)) /\ SumOver(a, All(V)) = SumOver(s, V)
             T == {V \in SUBSET K : ~Good(V)}
  <1> SUFFICES ASSUME T # {} PROVE FALSE
    <2>1. T = {} => Good(K)
      OBVIOUS
    <2> QED BY <2>1
  <1>0. T \subseteq SUBSET K
    OBVIOUS
  <1>1. PICK V \in T : \A y \in T : ~(y \subseteq V /\ y # V)
    <2> HIDE DEF T
    <2> QED BY <1>0, MinimalSubset
  <1>2. IsFiniteSet(V) /\ V \subseteq K
    BY FS_Subset
  <1>3. V # {}
    <2>1. SumOver(a, {}) = 0 /\ SumOver(s, {}) = 0 /\ All({}) = {} /\ IsFiniteSet({})
      BY TotalOfFew, FS_EmptySet
    <2>2. Good({})
      BY <2>1
    <2> QED BY <2>2
  <1>4. PICK k \in V : TRUE
    BY <1>3
  <1> DEFINE W == V \ {k}
  <1>5. IsFiniteSet(W) /\ W \subseteq K /\ k \in K
    BY <1>2, FS_RemoveElement
  <1>6. Good(W)
    <2>1. W \subseteq V /\ W # V /\ W \in SUBSET K
      BY <1>4, <1>5
    <2>2. W \notin T
      <3> HIDE DEF T, W
      <3> QED BY <1>1, <2>1
    <2> HIDE DEF Good, W
    <2> QED BY <2>1, <2>2
  <1>7. All(V) = All(W) \cup part[k]
    OBVIOUS
  <1>8. All(W) \cap part[k] = {}
    <2> SUFFICES ASSUME NEW x \in All(W) \cap part[k] PROVE FALSE
      OBVIOUS
    <2>1. PICK l \in W : x \in part[l]
      OBVIOUS
    <2>2. l \in K /\ l # k
      BY <1>5
    <2> HIDE DEF All, T, W
    <2> QED BY <1>5, <1>a, <2>1, <2>2
  <1>9. \A x \in All(W) \cup part[k] : a[x] \in Int
    BY <1>5, <1>a
  <1>10. ~Good(V)
    OBVIOUS
  <1>11. \A l \in V : s[l] \in Int
    <2> SUFFICES ASSUME NEW l \in V PROVE s[l] \in Int
      OBVIOUS
    <2>1. IsFiniteSet(part[l]) /\ \A x \in part[l] : a[x] \in Int
      BY <1>2, <1>a
    <2>2. SumOver(a, part[l]) \in Int
      BY <2>1, TotalType
    <2> QED BY <1>2, <2>2
  <1>12. SumOver(s, V) = s[k] + SumOver(s, W)
    BY <1>2, <1>11, TotalRemove
  <1>13. IsFiniteSet(part[k]) /\ s[k] = SumOver(a, part[k])
    BY <1>5, <1>a
  <1> HIDE DEF All, T, W
  <1>14. SumOver(a, All(W) \cup part[k]) = SumOver(a, All(W)) + SumOver(a, part[k])
    BY <1>6, <1>8, <1>9, <1>13, TotalUnion
  <1>15. IsFiniteSet(All(V))
    <2>1. IsFiniteSet(All(W))
      BY <1>6
    <2>2. IsFiniteSet(All(W) \cup part[k])
      <3> HIDE DEF Good
      <3> QED BY <1>13, <2>1, FS_Union
    <2> QED BY <1>7, <2>2
  <1>16. SumOver(s, W) \in Int /\ s[k] \in Int
    <2>1. \A l \in W : s[l] \in Int
      BY <1>11 DEF W
    <2> QED BY <1>5, <1>11, <2>1, TotalType
  <1>17. SumOver(a, All(V)) = SumOver(s, V)
    BY <1>6, <1>7, <1>12, <1>13, <1>14, <1>16
  <1> QED BY <1>10, <1>15, <1>17

\* What Total, and the sums over events and over chains, compute.
RowAmounts(R) == [r \in R |-> r.amount]

LEMMA TotalOfRows == \A R : Total(R) = SumOver(RowAmounts(R), R)
  <1> SUFFICES ASSUME NEW R PROVE Total(R) = SumOver(RowAmounts(R), R)
    OBVIOUS
  <1> DEFINE a == RowAmounts(R)
             Runs(g) == g = [s \in SUBSET R |-> IF s = {} THEN 0 ELSE Pick(s).amount + g[s \ {Pick(s)}]]
  <1>1. ASSUME NEW g PROVE Runs(g) <=> IsRun(g, a, R)
    <2>1. \A s \in SUBSET R : s # {} => a[Pick(s)] = Pick(s).amount
      BY Picked DEF RowAmounts
    <2> HIDE DEF a
    <2>2. [s \in SUBSET R |-> IF s = {} THEN 0 ELSE Pick(s).amount + g[s \ {Pick(s)}]]
          = [s \in SUBSET R |-> IF s = {} THEN 0 ELSE a[Pick(s)] + g[s \ {Pick(s)}]]
      BY <2>1
    <2> QED BY <2>2 DEF IsRun
  <1>2. Total(R) = (CHOOSE g : Runs(g))[R]
    BY DEF Total, MapThenSumSet, MapThenFoldSet, Pick
  <1>3. SumOver(a, R) = (CHOOSE g : IsRun(g, a, R))[R]
    BY TotalIs
  <1>4. (CHOOSE g : Runs(g)) = (CHOOSE g : IsRun(g, a, R))
    <2> HIDE DEF a, Runs
    <2> QED BY <1>1
  <1> QED BY <1>2, <1>3, <1>4

LEMMA TotalOfNets ==
    ASSUME NEW events, NEW D
    PROVE  MapThenSumSet(LAMBDA i : Net(events[i]), D) = SumOver([i \in D |-> Net(events[i])], D)
  <1> DEFINE a == [i \in D |-> Net(events[i])]
             Runs(g) == g = [s \in SUBSET D |-> IF s = {} THEN 0 ELSE Net(events[Pick(s)]) + g[s \ {Pick(s)}]]
  <1>1. ASSUME NEW g PROVE Runs(g) <=> IsRun(g, a, D)
    <2>1. \A s \in SUBSET D : s # {} => a[Pick(s)] = Net(events[Pick(s)])
      BY Picked
    <2> HIDE DEF a
    <2>2. [s \in SUBSET D |-> IF s = {} THEN 0 ELSE Net(events[Pick(s)]) + g[s \ {Pick(s)}]]
          = [s \in SUBSET D |-> IF s = {} THEN 0 ELSE a[Pick(s)] + g[s \ {Pick(s)}]]
      BY <2>1
    <2> QED BY <2>2 DEF IsRun
  <1>2. MapThenSumSet(LAMBDA i : Net(events[i]), D) = (CHOOSE g : Runs(g))[D]
    BY DEF MapThenSumSet, MapThenFoldSet, Pick
  <1>3. SumOver(a, D) = (CHOOSE g : IsRun(g, a, D))[D]
    BY TotalIs
  <1>4. (CHOOSE g : Runs(g)) = (CHOOSE g : IsRun(g, a, D))
    <2> HIDE DEF a, Runs
    <2> QED BY <1>1
  <1> QED BY <1>2, <1>3, <1>4

LEMMA TotalOfChains ==
    ASSUME NEW C
    PROVE  MapThenSumSet(OutstandingOf, C) = SumOver([c \in C |-> OutstandingOf(c)], C)
  <1> DEFINE a == [c \in C |-> OutstandingOf(c)]
             Runs(g) == g = [s \in SUBSET C |-> IF s = {} THEN 0 ELSE OutstandingOf(Pick(s)) + g[s \ {Pick(s)}]]
  <1>1. ASSUME NEW g PROVE Runs(g) <=> IsRun(g, a, C)
    <2>1. \A s \in SUBSET C : s # {} => a[Pick(s)] = OutstandingOf(Pick(s))
      BY Picked
    <2> HIDE DEF a
    <2>2. [s \in SUBSET C |-> IF s = {} THEN 0 ELSE OutstandingOf(Pick(s)) + g[s \ {Pick(s)}]]
          = [s \in SUBSET C |-> IF s = {} THEN 0 ELSE a[Pick(s)] + g[s \ {Pick(s)}]]
      BY <2>1
    <2> QED BY <2>2 DEF IsRun
  <1>2. MapThenSumSet(OutstandingOf, C) = (CHOOSE g : Runs(g))[C]
    BY DEF MapThenSumSet, MapThenFoldSet, Pick
  <1>3. SumOver(a, C) = (CHOOSE g : IsRun(g, a, C))[C]
    BY TotalIs
  <1>4. (CHOOSE g : Runs(g)) = (CHOOSE g : IsRun(g, a, C))
    <2> HIDE DEF a, Runs
    <2> QED BY <1>1
  <1> QED BY <1>2, <1>3, <1>4

\* A set in two parts.
Joins(S, A, B, a) ==
    /\ S = A \cup B /\ A \cap B = {} /\ IsFiniteSet(A) /\ IsFiniteSet(B)
    /\ \A x \in S : a[x] \in Int

LEMMA JoinTotals ==
    ASSUME NEW S, NEW A, NEW B, NEW a, Joins(S, A, B, a)
    PROVE  IsFiniteSet(S) /\ SumOver(a, S) = SumOver(a, A) + SumOver(a, B)
  <1>1. IsFiniteSet(A \cup B)
    BY FS_Union DEF Joins
  <1>2. SumOver(a, A \cup B) = SumOver(a, A) + SumOver(a, B)
    BY TotalUnion DEF Joins
  <1> QED BY <1>1, <1>2 DEF Joins

\* The rows of a ledger, and what each adds to what is owed.
TypedRows(R) ==
    /\ IsFiniteSet(R)
    /\ \A r \in R : /\ r.amount \in Nat /\ r.direction \in {"CREDIT", "DEBIT"}
                    /\ r.entryType \in {"ACCRUAL", "ADJUSTMENT", "PAYMENT", "REVERSAL"}

Adds(r) == r.entryType = "ACCRUAL" \/ (r.entryType = "ADJUSTMENT" /\ r.direction = "CREDIT")
Owed(R) == [r \in R |-> IF Adds(r) THEN r.amount ELSE -r.amount]

LEMMA SomeRows ==
    ASSUME NEW A, TypedRows(A), NEW R, R \subseteq A
    PROVE  /\ IsFiniteSet(R) /\ Total(R) \in Int /\ Total(R) = SumOver(RowAmounts(A), R)
           /\ (\A r \in R : Adds(r)) => SumOver(Owed(A), R) = Total(R)
           /\ (\A r \in R : ~Adds(r)) => SumOver(Owed(A), R) = -Total(R)
  <1> DEFINE a == RowAmounts(R)
             b == RowAmounts(A)
             o == Owed(A)
  <1>1. IsFiniteSet(R)
    BY FS_Subset DEF TypedRows
  <1>2. \A r \in R : a[r] \in Int /\ a[r] = b[r] /\ o[r] = IF Adds(r) THEN a[r] ELSE -a[r]
    BY DEF TypedRows, RowAmounts, Owed
  <1>3. Total(R) = SumOver(a, R)
    BY TotalOfRows
  <1> HIDE DEF a, b, o
  <1>4. SumOver(a, R) \in Int
    BY <1>1, <1>2, TotalType
  <1>5. SumOver(a, R) = SumOver(b, R)
    BY <1>1, <1>2, TotalSame
  <1>6. ASSUME \A r \in R : Adds(r) PROVE SumOver(o, R) = SumOver(a, R)
    <2>1. \A r \in R : a[r] \in Int /\ a[r] = o[r]
      BY <1>2, <1>6
    <2> QED BY <1>1, <2>1, TotalSame
  <1>7. ASSUME \A r \in R : ~Adds(r) PROVE SumOver(o, R) = -SumOver(a, R)
    <2>1. \A r \in R : a[r] \in Int /\ o[r] = (-1) * a[r]
      BY <1>2, <1>7
    <2>2. -1 \in Int
      OBVIOUS
    <2>3. SumOver(o, R) = (-1) * SumOver(a, R)
      BY <1>1, <2>1, <2>2, TotalScale
    <2> QED BY <1>4, <2>3
  <1> QED BY <1>1, <1>3, <1>4, <1>5, <1>6, <1>7 DEF b, o

\* What is owed: the accruals, the adjustments with their signs, without what was
\* paid or reversed.
LEMMA OwedIs ==
    ASSUME NEW A, TypedRows(A), NEW R, R \subseteq A
    PROVE  /\ SumOver(Owed(A), R) = Total(OfType(R, "ACCRUAL")) + Signed(OfType(R, "ADJUSTMENT"))
                                    - Total(OfType(R, "PAYMENT")) - Total(OfType(R, "REVERSAL"))
           /\ Total(OfType(R, "ACCRUAL")) \in Int /\ Signed(OfType(R, "ADJUSTMENT")) \in Int
           /\ Total(OfType(R, "PAYMENT")) \in Int /\ Total(OfType(R, "REVERSAL")) \in Int
  <1> DEFINE X == OfType(R, "ACCRUAL")
             C == {r \in OfType(R, "ADJUSTMENT") : r.direction = "CREDIT"}
             D == {r \in OfType(R, "ADJUSTMENT") : r.direction = "DEBIT"}
             P == OfType(R, "PAYMENT")
             V == OfType(R, "REVERSAL")
             o == Owed(A)
  <1>1. /\ X \subseteq A /\ C \subseteq A /\ D \subseteq A /\ P \subseteq A /\ V \subseteq A
        /\ \A r \in X \cup C : Adds(r)
        /\ \A r \in D \cup P \cup V : ~Adds(r)
    BY DEF OfType, Adds
  <1>2. /\ R = (((X \cup C) \cup D) \cup P) \cup V
        /\ X \cap C = {} /\ (X \cup C) \cap D = {} /\ ((X \cup C) \cup D) \cap P = {}
        /\ (((X \cup C) \cup D) \cup P) \cap V = {}
    <2>1. \A r \in R : r.direction \in {"CREDIT", "DEBIT"} /\ r.entryType \in {"ACCRUAL", "ADJUSTMENT", "PAYMENT", "REVERSAL"}
      BY DEF TypedRows
    <2>2. R = (((X \cup C) \cup D) \cup P) \cup V
      BY <2>1 DEF OfType
    <2>3. X \cap C = {} /\ (X \cup C) \cap D = {} /\ ((X \cup C) \cup D) \cap P = {}
      BY DEF OfType
    <2>4. (((X \cup C) \cup D) \cup P) \cap V = {}
      BY DEF OfType
    <2> QED BY <2>2, <2>3, <2>4
  <1>3. \A r \in A : o[r] \in Int
    BY DEF TypedRows, Owed
  <1>4. Signed(OfType(R, "ADJUSTMENT")) = Total(C) - Total(D)
    BY DEF Signed
  <1> HIDE DEF X, C, D, P, V, o
  <1>5. /\ IsFiniteSet(X) /\ IsFiniteSet(C) /\ IsFiniteSet(D) /\ IsFiniteSet(P) /\ IsFiniteSet(V)
        /\ Total(X) \in Int /\ Total(C) \in Int /\ Total(D) \in Int /\ Total(P) \in Int /\ Total(V) \in Int
    BY <1>1, SomeRows
  <1>6. /\ SumOver(o, X) = Total(X) /\ SumOver(o, C) = Total(C) /\ SumOver(o, D) = -Total(D)
        /\ SumOver(o, P) = -Total(P) /\ SumOver(o, V) = -Total(V)
    BY <1>1, SomeRows DEF o
  <1> DEFINE XC == X \cup C
             XCD == XC \cup D
             XCDP == XCD \cup P
  <1>7. \A r \in R : o[r] \in Int
    BY <1>3
  <1>8. /\ Joins(XC, X, C, o) /\ XC \cap D = {} /\ XC \subseteq R
        /\ XCD \cap P = {} /\ XCD \subseteq R
        /\ R = XCDP \cup V /\ XCDP \cap V = {} /\ XCDP \subseteq R
    BY <1>2, <1>5, <1>7 DEF Joins
  <1>9. /\ D \subseteq R /\ P \subseteq R /\ V \subseteq R
        /\ XCD = XC \cup D /\ XCDP = XCD \cup P
    BY <1>2
  <1> HIDE DEF XC, XCD, XCDP
  <1>10. IsFiniteSet(XC) /\ SumOver(o, XC) = Total(X) + Total(C)
    BY <1>6, <1>8, JoinTotals
  <1>11. IsFiniteSet(XCD) /\ SumOver(o, XCD) = SumOver(o, XC) + (-Total(D))
    <2>1. Joins(XCD, XC, D, o)
      BY <1>5, <1>7, <1>8, <1>9, <1>10 DEF Joins
    <2> QED BY <1>6, <2>1, JoinTotals
  <1>12. IsFiniteSet(XCDP) /\ SumOver(o, XCDP) = SumOver(o, XCD) + (-Total(P))
    <2>1. Joins(XCDP, XCD, P, o)
      BY <1>5, <1>7, <1>8, <1>9, <1>11 DEF Joins
    <2> QED BY <1>6, <2>1, JoinTotals
  <1>13. SumOver(o, R) = SumOver(o, XCDP) + (-Total(V))
    <2>1. Joins(R, XCDP, V, o)
      BY <1>5, <1>7, <1>8, <1>9, <1>12 DEF Joins
    <2> QED BY <1>6, <2>1, JoinTotals
  <1>14. SumOver(o, R) = (((Total(X) + Total(C)) + (-Total(D))) + (-Total(P))) + (-Total(V))
    BY <1>10, <1>11, <1>12, <1>13
  <1>15. SumOver(o, R) = Total(X) + (Total(C) - Total(D)) - Total(P) - Total(V) /\ Total(C) - Total(D) \in Int
    BY <1>5, <1>14
  <1> QED BY <1>4, <1>5, <1>15 DEF X, P, V, o

\* What recordRevenueEvent makes of an event, the events it accepts, and the row of
\* each component.
Made(in, i) == RecordEvent(in.schedules, in.events[i])
Recorded(in) == {i \in DOMAIN in.events : Made(in, i).outcome = "ok"}
Accrual(in, i, c) ==
    [id |-> 0, event |-> i, schedule |-> Made(in, i).schedule, component |-> c,
     entryType |-> "ACCRUAL", direction |-> "CREDIT", amount |-> Made(in, i).entries[c]]

LEMMA Within ==
    ASSUME NEW g \in Nat, NEW d \in Nat, NEW m \in Nat, NEW n, n = g - d, ~(n < 0), n <= m
    PROVE  n \in 0..m
  OBVIOUS

LEMMA RestrictType ==
    ASSUME NEW C, NEW D, NEW f \in [D -> C], NEW S, S \subseteq D
    PROVE  Restrict(f, S) \in [S -> C] /\ DOMAIN Restrict(f, S) = S
  BY DEF Restrict

LEMMA SelectedInput ==
    ASSUME NEW n \in 0..MaxNet, NEW D, D \subseteq ComponentIds, NEW f \in [D -> Component], NEW S, S \subseteq D
    PROVE  LET x == [net |-> n, components |-> Restrict(f, S)]
           IN  x \in SplitInputs /\ DOMAIN x.components = S /\ x.net = n
  <1> DEFINE g == Restrict(f, S)
             x == [net |-> n, components |-> g]
  <1>1. g \in [S -> Component] /\ DOMAIN g = S
    BY RestrictType
  <1> HIDE DEF g
  <1>2. g \in UNION {[ids -> Component] : ids \in SUBSET ComponentIds}
    BY <1>1
  <1>3. x = [components |-> g, net |-> n]
    OBVIOUS
  <1>4. x \in SplitInputs
    BY <1>2, <1>3 DEF SplitInputs
  <1> QED BY <1>1, <1>4 DEF g

\* An event that is accepted is split, over components of its own basis, to the unit.
LEMMA MadeFacts ==
    ASSUME SplitAssumption, LedgerAssumption, NEW in \in LedgerInputs, NEW i \in Recorded(in)
    PROVE  LET m == Made(in, i)
               s == in.schedules[m.schedule]
           IN  /\ m.schedule \in DOMAIN in.schedules
               /\ DOMAIN m.entries = SelectComponentsForBasis(s, in.events[i].basis)
               /\ IsFiniteSet(DOMAIN m.entries) /\ DOMAIN m.entries # {}
               /\ \A c \in DOMAIN m.entries : m.entries[c] \in Nat
               /\ SumOver(m.entries, DOMAIN m.entries) = Net(in.events[i])
  <1> DEFINE e == in.events[i]
             covering == {k \in DOMAIN in.schedules : in.schedules[k].basis = e.basis}
             k == Min(covering)
             s == in.schedules[k]
             S == SelectComponentsForBasis(s, e.basis)
             x == [net |-> Net(e), components |-> Restrict(s.components, S)]
             split == ComputeCommissionSplits(x)
             m == Made(in, i)
  <1>1. i \in DOMAIN in.events /\ m.outcome = "ok"
    BY DEF Recorded
  <1>2. m = IF covering = {} \/ Net(e) < 0 THEN [outcome |-> "rejected"]
            ELSE IF split.outcome # "ok" THEN [outcome |-> "rejected"]
            ELSE [outcome |-> "ok", schedule |-> k, entries |-> split.entries]
    BY DEF Made, RecordEvent
  <1>3. covering # {} /\ ~(Net(e) < 0) /\ split.outcome = "ok" /\ m.schedule = k /\ m.entries = split.entries
    <2> HIDE DEF m, covering, split, k, e, s, S, x
    <2> QED BY <1>1, <1>2
  <1>4. k \in covering
    <2>1. covering \subseteq Nat
      BY DEF LedgerAssumption
    <2> HIDE DEF covering
    <2> QED BY <1>3, <2>1, LeastNumber
  <1>5. k \in DOMAIN in.schedules
    <2> HIDE DEF k, e
    <2> QED BY <1>4
  <1>6. /\ DOMAIN s.components \subseteq ComponentIds /\ s.components \in [DOMAIN s.components -> Component]
        /\ e.gross \in Nat /\ e.deductions \in Nat /\ Net(e) <= MaxNet
    BY <1>1, <1>5 DEF LedgerAssumption
  <1>7. Net(e) \in 0..MaxNet
    <2> HIDE DEF m, covering, split, k, s, S, x, e
    <2>1. MaxNet \in Nat
      BY DEF SplitAssumption
    <2>2. Net(e) = e.gross - e.deductions
      BY DEF Net
    <2>3. ~(Net(e) < 0)
      BY <1>3
    <2> QED BY <1>6, <2>1, <2>2, <2>3, Within
  <1>8. S \subseteq DOMAIN s.components
    <2> HIDE DEF s, e
    <2> QED BY DEF SelectComponentsForBasis
  <1>9. x \in SplitInputs /\ DOMAIN x.components = S /\ x.net = Net(e)
    <2> HIDE DEF m, covering, split, k, s, S, e
    <2> QED BY <1>6, <1>7, <1>8, SelectedInput
  <1> HIDE DEF x
  <1>10. ~Rejected(x) /\ split.entries = Entries(x)
    <2>1. ~Rejected(x)
      BY <1>3 DEF ComputeCommissionSplits
    <2> QED BY <1>9, <2>1, NoInternalError DEF ComputeCommissionSplits
  <1>11. DOMAIN m.entries = S /\ S # {}
    <2>1. DOMAIN Entries(x) = S
      BY <1>9, <1>10, AmountFacts
    <2>2. S # {}
      BY <1>9, <1>10 DEF Rejected
    <2> QED BY <1>3, <1>10, <2>1, <2>2
  <1>12. IsFiniteSet(S)
    <2>1. IsFiniteSet(Bps(x)) /\ IsFiniteSet(Fixed(x)) /\ S = Bps(x) \cup Fixed(x)
      BY <1>9, InputFacts
    <2> HIDE DEF S
    <2> QED BY <2>1, FS_Union
  <1>13. \A c \in S : m.entries[c] \in Nat
    <2>1. S = Bps(x) \cup Fixed(x) /\ \A c \in Fixed(x) : Values(x)[c] \in Nat
      BY <1>9, InputFacts DEF Values
    <2>2. \A c \in Bps(x) : Floors(x)[c] \in Nat
      BY <1>9, <1>10, ShareFacts
    <2>3. /\ \A c \in Fixed(x) : Entries(x)[c] = Values(x)[c]
          /\ \A c \in Bps(x) : Entries(x)[c] = Floors(x)[c] + (IF c \in BonusUnits(x) THEN 1 ELSE 0)
      BY <1>9, <1>10, AmountFacts
    <2>4. m.entries = Entries(x)
      BY <1>3, <1>10
    <2> HIDE DEF S, m
    <2> QED BY <2>1, <2>2, <2>3, <2>4
  <1>14. SumOver(m.entries, DOMAIN m.entries) = Net(e)
    <2>1. SumOf(Entries(x)) = Net(e)
      BY <1>9, <1>10, NothingLost
    <2> QED BY <1>3, <1>10, <2>1, SumOfIs
  <1>15. m.schedule = k
    BY <1>3
  <1> HIDE DEF m, k
  <1> QED BY <1>5, <1>11, <1>12, <1>13, <1>14, <1>15 DEF m

\* The rows of the ledger: each belongs to an accepted event and one of its
\* components, whose accrual is there, and is that accrual or entered later.
LedgerShape(in, rows) ==
    /\ TypedRows(rows)
    /\ \A i \in Recorded(in) : \A c \in DOMAIN Made(in, i).entries : Accrual(in, i, c) \in rows
    /\ \A r \in rows :
          /\ r.event \in Recorded(in) /\ r.component \in DOMAIN Made(in, r.event).entries
          /\ r.schedule = Made(in, r.event).schedule
          /\ r.entryType = "ACCRUAL" => r = Accrual(in, r.event, r.component)

LEMMA LedgerRows ==
    ASSUME SplitAssumption, LedgerAssumption, NEW in \in LedgerInputs
    PROVE  LedgerShape(in, Ledger(in.schedules, in.events, in.later))
  <1> DEFINE Of(i) == {Accrual(in, i, c) : c \in DOMAIN Made(in, i).entries}
             accruals == UNION {Of(i) : i \in Recorded(in)}
             Target(j) == {a \in accruals : a.event = in.later[j].event /\ a.component = in.later[j].component}
             Later(a, j) == [a EXCEPT !.id = j, !.entryType = in.later[j].entryType,
                                      !.direction = in.later[j].direction, !.amount = in.later[j].amount]
             Entered(j) == {Later(a, j) : a \in IF EntryIsValid(in.later[j]) THEN Target(j) ELSE {}}
             later == UNION {Entered(j) : j \in DOMAIN in.later}
             rows == Ledger(in.schedules, in.events, in.later)
  <1>1. rows = accruals \cup later
    <2>1. accruals = UNION {LET made == RecordEvent(in.schedules, in.events[i])
                            IN  IF made.outcome # "ok" THEN {}
                                ELSE {[id |-> 0, event |-> i, schedule |-> made.schedule, component |-> c,
                                       entryType |-> "ACCRUAL", direction |-> "CREDIT", amount |-> made.entries[c]] :
                                         c \in DOMAIN made.entries} : i \in DOMAIN in.events}
      BY DEF Recorded, Made, Accrual
    <2> HIDE DEF accruals
    <2> QED BY <2>1 DEF Ledger
  <1> HIDE DEF rows
  <1>2. \A i \in Recorded(in) : \A c \in DOMAIN Made(in, i).entries : Accrual(in, i, c) \in accruals
    OBVIOUS
  <1>3. \A a \in accruals :
          \E i \in Recorded(in) : \E c \in DOMAIN Made(in, i).entries : a = Accrual(in, i, c)
    OBVIOUS
  <1>4. \A r \in later : \E a \in accruals : \E j \in DOMAIN in.later : r = Later(a, j)
    <2>1. \A j \in DOMAIN in.later : Target(j) \subseteq accruals
      OBVIOUS
    <2> HIDE DEF accruals, Target, Later
    <2> QED BY <2>1
  <1>5. IsFiniteSet(accruals)
    <2>1. IsFiniteSet(Recorded(in))
      BY FS_Subset DEF Recorded, LedgerAssumption
    <2>2. ASSUME NEW i \in Recorded(in) PROVE IsFiniteSet(Of(i))
      <3> DEFINE h == [c \in DOMAIN Made(in, i).entries |-> Accrual(in, i, c)]
                 D == DOMAIN Made(in, i).entries
      <3>1. IsFiniteSet(D)
        BY MadeFacts
      <3>2. Of(i) = {h[c] : c \in D}
        OBVIOUS
      <3> HIDE DEF h, D, Of
      <3> QED BY <3>1, <3>2, FiniteImage
    <2> DEFINE g == [i \in Recorded(in) |-> Of(i)]
               G == {Of(i) : i \in Recorded(in)}
    <2>3. G = {g[i] : i \in Recorded(in)} /\ accruals = UNION G
      OBVIOUS
    <2>4. \A B \in G : IsFiniteSet(B)
      BY <2>2
    <2> HIDE DEF Of, g, G, accruals
    <2>5. IsFiniteSet(G)
      BY <2>1, <2>3, FiniteImage
    <2> QED BY <2>3, <2>4, <2>5, FS_UNION
  <1>6. IsFiniteSet(later)
    <2>1. IsFiniteSet(DOMAIN in.later)
      BY DEF LedgerAssumption
    <2>2. ASSUME NEW j \in DOMAIN in.later PROVE IsFiniteSet(Entered(j))
      <3> DEFINE D == IF EntryIsValid(in.later[j]) THEN Target(j) ELSE {}
                 h == [a \in D |-> Later(a, j)]
      <3> HIDE DEF accruals
      <3>1. Target(j) \subseteq accruals
        OBVIOUS
      <3> HIDE DEF Target, Later
      <3>2. D \subseteq accruals
        BY <3>1
      <3>3. Entered(j) = {h[a] : a \in D}
        OBVIOUS
      <3> HIDE DEF h, D, Entered
      <3>4. IsFiniteSet(D)
        BY <1>5, <3>2, FS_Subset
      <3> QED BY <3>3, <3>4, FiniteImage
    <2> DEFINE g == [j \in DOMAIN in.later |-> Entered(j)]
               G == {Entered(j) : j \in DOMAIN in.later}
    <2> HIDE DEF Entered
    <2>3. G = {g[j] : j \in DOMAIN in.later} /\ later = UNION G
      OBVIOUS
    <2>4. \A B \in G : IsFiniteSet(B)
      BY <2>2
    <2> HIDE DEF g, G, later
    <2>5. IsFiniteSet(G)
      BY <2>1, <2>3, FiniteImage
    <2> QED BY <2>3, <2>4, <2>5, FS_UNION
  <1> HIDE DEF accruals, later
  <1>7. IsFiniteSet(rows)
    BY <1>1, <1>5, <1>6, FS_Union
  <1> DEFINE Belongs(r) == /\ r.event \in Recorded(in) /\ r.component \in DOMAIN Made(in, r.event).entries
                           /\ r.schedule = Made(in, r.event).schedule
             Typed(r) == /\ r.amount \in Nat /\ r.direction \in {"CREDIT", "DEBIT"}
                         /\ r.entryType \in {"ACCRUAL", "ADJUSTMENT", "PAYMENT", "REVERSAL"}
  <1>8. ASSUME NEW a \in accruals
        PROVE  Belongs(a) /\ Typed(a) /\ a = Accrual(in, a.event, a.component)
    <2>1. PICK i \in Recorded(in) : \E c \in DOMAIN Made(in, i).entries : a = Accrual(in, i, c)
      BY <1>3
    <2>2. PICK c \in DOMAIN Made(in, i).entries : a = Accrual(in, i, c)
      BY <2>1
    <2>3. /\ a.event = i /\ a.component = c /\ a.schedule = Made(in, i).schedule
          /\ a.direction = "CREDIT" /\ a.entryType = "ACCRUAL" /\ a.amount = Made(in, i).entries[c]
      BY <2>2 DEF Accrual
    <2>4. Made(in, i).entries[c] \in Nat
      BY MadeFacts
    <2> QED BY <2>2, <2>3, <2>4
  <1>9. ASSUME NEW r \in later
        PROVE  Belongs(r) /\ Typed(r) /\ r.entryType # "ACCRUAL"
    <2>1. PICK a \in accruals, j \in DOMAIN in.later : r = Later(a, j)
      BY <1>4
    <2>2. PICK i \in Recorded(in) : \E c \in DOMAIN Made(in, i).entries : a = Accrual(in, i, c)
      BY <1>3
    <2>3. PICK c \in DOMAIN Made(in, i).entries : a = Accrual(in, i, c)
      BY <2>2
    <2>4. /\ r.event = i /\ r.component = c /\ r.schedule = Made(in, i).schedule
          /\ r.direction = in.later[j].direction /\ r.entryType = in.later[j].entryType
          /\ r.amount = in.later[j].amount
      BY <2>1, <2>3 DEF Accrual
    <2>5. /\ in.later[j].entryType \in {"ADJUSTMENT", "PAYMENT", "REVERSAL"}
          /\ in.later[j].direction \in {"CREDIT", "DEBIT"} /\ in.later[j].amount \in Nat
      BY DEF LedgerAssumption
    <2>6. Typed(r) /\ r.entryType # "ACCRUAL"
      BY <2>4, <2>5
    <2>7. Belongs(r)
      BY <2>4
    <2> HIDE DEF Typed, Belongs
    <2> QED BY <2>6, <2>7
  <1>10. TypedRows(rows)
    BY <1>1, <1>7, <1>8, <1>9 DEF TypedRows
  <1> HIDE DEF Belongs, Typed
  <1>11. \A r \in rows : Belongs(r) /\ (r.entryType = "ACCRUAL" => r = Accrual(in, r.event, r.component))
    BY <1>1, <1>8, <1>9
  <1> QED BY <1>1, <1>2, <1>10, <1>11 DEF LedgerShape, rows, Belongs

\* The accruals of an accepted event are its net amount.
LEMMA PeriodTotal ==
    ASSUME SplitAssumption, LedgerAssumption, NEW in \in LedgerInputs, NEW rows, LedgerShape(in, rows),
           NEW i \in Recorded(in)
    PROVE  Distributed({r \in rows : r.event = i}) = Net(in.events[i])
  <1> DEFINE e == Made(in, i).entries
             D == DOMAIN e
             R == OfType({r \in rows : r.event = i}, "ACCRUAL")
             h == [c \in D |-> Accrual(in, i, c)]
             a == RowAmounts(R)
             net == Net(in.events[i])
  <1>1. IsFiniteSet(D) /\ (\A c \in D : e[c] \in Nat) /\ SumOver(e, D) = net
    BY MadeFacts
  <1>2. /\ \A r \in rows : r.event = i /\ r.entryType = "ACCRUAL" => r.component \in D /\ r = Accrual(in, i, r.component)
        /\ \A c \in D : Accrual(in, i, c) \in rows
    BY DEF LedgerShape
  <1>3. \A c : /\ Accrual(in, i, c).event = i /\ Accrual(in, i, c).component = c
               /\ Accrual(in, i, c).entryType = "ACCRUAL" /\ Accrual(in, i, c).amount = e[c]
    BY DEF Accrual
  <1> HIDE DEF e, D
  <1>4. R = {h[c] : c \in D}
    BY <1>2, <1>3 DEF OfType
  <1>5. \A c \in D : h[c] \in R /\ a[h[c]] = e[c] /\ e[c] \in Int
    BY <1>1, <1>3, <1>4 DEF RowAmounts
  <1>6. \A c, d \in D : h[c] = h[d] => c = d
    BY <1>3
  <1>7. Renames(h, D, R, a, e)
    <2> HIDE DEF R, h, a
    <2> QED BY <1>4, <1>5, <1>6 DEF Renames
  <1>8. Distributed({r \in rows : r.event = i}) = Total(R)
    BY DEF Distributed
  <1>9. Total(R) = SumOver(a, R)
    BY TotalOfRows
  <1> HIDE DEF R, h, a, net
  <1>10. SumOver(e, D) = SumOver(a, R)
    BY <1>1, <1>7, TotalImage
  <1>11. Distributed({r \in rows : r.event = i}) = net
    BY <1>1, <1>8, <1>9, <1>10
  <1> QED BY <1>11 DEF net

\* The accruals under a schedule are the net amounts of the events under it.
UnderSchedule(in, rows, k) == {i \in Recorded(in) : \E r \in rows : r.event = i /\ r.schedule = k}
NetsOf(in, U) == MapThenSumSet(LAMBDA i : Net(in.events[i]), U)

LEMMA ScheduleTotal ==
    ASSUME SplitAssumption, LedgerAssumption, NEW in \in LedgerInputs, NEW rows, LedgerShape(in, rows), NEW k
    PROVE  /\ Distributed({r \in rows : r.schedule = k}) = NetsOf(in, UnderSchedule(in, rows, k))
           /\ Distributed({r \in rows : r.schedule = k}) \in Int
  <1> DEFINE R == OfType({r \in rows : r.schedule = k}, "ACCRUAL")
             Of(i) == OfType({r \in rows : r.event = i}, "ACCRUAL")
             U == UnderSchedule(in, rows, k)
             part == [i \in U |-> Of(i)]
             a == RowAmounts(rows)
             s == [i \in U |-> Net(in.events[i])]
             A == UNION {part[i] : i \in U}
  <1>1. TypedRows(rows) /\ \A r \in rows : r.event \in Recorded(in) /\ r.schedule = Made(in, r.event).schedule
    BY DEF LedgerShape
  <1>2. \A i \in U : i \in Recorded(in) /\ Made(in, i).schedule = k
    BY <1>1 DEF UnderSchedule
  <1>3. IsFiniteSet(U)
    BY FS_Subset DEF Recorded, LedgerAssumption, UnderSchedule
  <1>4. \A i : Of(i) \subseteq rows /\ \A r \in Of(i) : r.event = i
    BY DEF OfType
  <1>5. R \subseteq rows /\ \A r \in R : r.event \in U /\ r \in Of(r.event)
    BY <1>1 DEF OfType, UnderSchedule
  <1>6. ASSUME NEW i \in U PROVE Of(i) \subseteq R
    <2>1. i \in Recorded(in) /\ Made(in, i).schedule = k
      BY <1>2
    <2> QED BY <1>1, <2>1 DEF OfType
  <1>7. \A r \in rows : a[r] \in Int
    BY <1>1 DEF RowAmounts, TypedRows
  <1>8. \A i \in U : part[i] = Of(i) /\ s[i] = Net(in.events[i])
    OBVIOUS
  <1>9. \A i \in U : Total(Of(i)) = Net(in.events[i])
    BY <1>2, PeriodTotal DEF Distributed
  <1>10. Distributed({r \in rows : r.schedule = k}) = Total(R)
    BY DEF Distributed
  <1> HIDE DEF Of, R, U
  <1>11. A = R
    BY <1>5, <1>6
  <1> HIDE DEF part, s, a
  <1>12. \A i \in U : IsFiniteSet(Of(i)) /\ Total(Of(i)) = SumOver(a, Of(i))
    BY <1>1, <1>4, SomeRows DEF a
  <1>13. Parts(U, part, a)
    <2>1. \A i \in U : IsFiniteSet(part[i]) /\ \A r \in part[i] : a[r] \in Int
      BY <1>4, <1>7, <1>8, <1>12
    <2>2. \A i, j \in U : i # j => part[i] \cap part[j] = {}
      BY <1>4, <1>8
    <2> QED BY <2>1, <2>2 DEF Parts
  <1>14. \A i \in U : s[i] = SumOver(a, part[i])
    BY <1>8, <1>9, <1>12
  <1>15. SumOver(a, A) = SumOver(s, U)
    BY <1>3, <1>13, <1>14, TotalParts
  <1>16. Total(R) = SumOver(a, R) /\ Total(R) \in Int
    BY <1>1, <1>5, SomeRows DEF a
  <1>17. NetsOf(in, U) = SumOver(s, U)
    BY TotalOfNets DEF s, NetsOf
  <1> HIDE DEF A
  <1> QED BY <1>10, <1>11, <1>15, <1>16, <1>17 DEF U

\* What was reversed of an accrual is what was left to pay.
SettledChain(chain) ==
    OfType(chain, "REVERSAL") # {} =>
        Total(OfType(chain, "REVERSAL")) = OutstandingOf(chain \ OfType(chain, "REVERSAL"))

\* What is owed on one accrual is what its rows add, if what was reversed is what was left.
LEMMA ChainOwed ==
    ASSUME NEW rows, TypedRows(rows), NEW chain, chain \subseteq rows, SettledChain(chain)
    PROVE  OutstandingOf(chain) = SumOver(Owed(rows), chain)
  <1> DEFINE V == OfType(chain, "REVERSAL")
             x == Total(OfType(chain, "ACCRUAL"))
             y == Signed(OfType(chain, "ADJUSTMENT"))
             z == Total(OfType(chain, "PAYMENT"))
             v == Total(V)
             o == SumOver(Owed(rows), chain)
  <1>1. o = x + y - z - v /\ x \in Int /\ y \in Int /\ z \in Int /\ v \in Int
    BY OwedIs
  <1>2. OutstandingOf(chain) = IF V # {} THEN 0 ELSE x + y - z
    BY DEF OutstandingOf
  <1>3. OutstandingOf(chain \ V) = x + y - z
    <2>1. /\ OfType(chain \ V, "ACCRUAL") = OfType(chain, "ACCRUAL")
          /\ OfType(chain \ V, "ADJUSTMENT") = OfType(chain, "ADJUSTMENT")
          /\ OfType(chain \ V, "PAYMENT") = OfType(chain, "PAYMENT")
          /\ OfType(chain \ V, "REVERSAL") = {}
      BY DEF OfType
    <2> QED BY <2>1 DEF OutstandingOf
  <1>4. V = {} => v = 0
    BY TotalOfRows, TotalOfFew
  <1> HIDE DEF V, x, y, z, v, o
  <1>5. OutstandingOf(chain) = o
    <2>1. CASE V = {}
      BY <1>1, <1>2, <1>4, <2>1
    <2>2. CASE V # {}
      <3>1. v = x + y - z
        BY <1>3, <2>2 DEF V, v, SettledChain
      <3> QED BY <1>1, <1>2, <2>2, <3>1
    <2> QED BY <2>1, <2>2
  <1> QED BY <1>5 DEF o

\* The accruals of a period share its rows out among them.
PeriodRows(rows, i) == {r \in rows : r.event = i}
OwedOn(chains) == MapThenSumSet(OutstandingOf, chains)

LEMMA ChainsTotal ==
    ASSUME NEW in, NEW rows, LedgerShape(in, rows), NEW i,
           \A chain \in Chains(PeriodRows(rows, i)) : SettledChain(chain)
    PROVE  SumOver(Owed(rows), PeriodRows(rows, i)) = OwedOn(Chains(PeriodRows(rows, i)))
  <1> DEFINE R == {r \in rows : r.event = i}
             C == Chains(R)
             Of(c) == {r \in R : r.component = c}
             X == OfType(R, "ACCRUAL")
             g == [a \in X |-> Of(a.component)]
             part == [chain \in C |-> chain]
             o == Owed(rows)
             s == [chain \in C |-> OutstandingOf(chain)]
             A == UNION {part[chain] : chain \in C}
  <1>1. TypedRows(rows)
    BY DEF LedgerShape
  <1>2. C = {g[a] : a \in X}
    <2> DEFINE Chain(a) == {r \in R : r.event = a.event /\ r.component = a.component}
    <2>1. \A a \in X : Chain(a) = g[a]
      BY DEF OfType
    <2>2. C = {Chain(a) : a \in X}
      BY DEF Chains
    <2> HIDE DEF X, R, g, C, Chain
    <2> QED BY <2>1, <2>2
  <1>3. \A r \in R : \E a \in X : r \in g[a]
    <2> SUFFICES ASSUME NEW r \in R PROVE \E a \in X : r \in g[a]
      OBVIOUS
    <2> DEFINE a == Accrual(in, i, r.component)
    <2>1. a \in rows
      BY DEF LedgerShape
    <2>2. a.event = i /\ a.entryType = "ACCRUAL" /\ a.component = r.component
      BY DEF Accrual
    <2>3. a \in X
      BY <2>1, <2>2 DEF OfType
    <2> HIDE DEF a, X
    <2> QED BY <2>2, <2>3
  <1>4. \A a \in X : g[a] \subseteq R
    OBVIOUS
  <1>5. \A a, b \in X : \A r : r \in g[a] /\ r \in g[b] => g[a] = g[b]
    OBVIOUS
  <1>6. IsFiniteSet(X) /\ R \subseteq rows
    <2>1. X \subseteq rows
      BY DEF OfType
    <2> HIDE DEF X
    <2> QED BY <1>1, <2>1, FS_Subset DEF TypedRows
  <1>a. R = PeriodRows(rows, i) /\ \A chain \in C : SettledChain(chain)
    BY DEF PeriodRows
  <1> HIDE DEF X, g, R, C
  <1>7. IsFiniteSet(C)
    BY <1>2, <1>6, FiniteImage
  <1>8. /\ \A chain \in C : chain \subseteq R
        /\ \A r \in R : \E chain \in C : r \in chain
        /\ \A c, d \in C : c # d => c \cap d = {}
    BY <1>2, <1>3, <1>4, <1>5
  <1>9. A = R
    BY <1>8
  <1>10. \A chain \in C : part[chain] = chain /\ s[chain] = OutstandingOf(chain)
    OBVIOUS
  <1>11. \A chain \in C : chain \subseteq rows /\ OutstandingOf(chain) = SumOver(o, chain)
    BY <1>1, <1>6, <1>8, <1>a, ChainOwed
  <1>12. \A r \in rows : o[r] \in Int
    BY <1>1 DEF TypedRows, Owed
  <1>13. \A chain \in C : IsFiniteSet(chain)
    BY <1>1, <1>11, SomeRows
  <1>14. OwedOn(C) = SumOver(s, C)
    BY TotalOfChains DEF OwedOn
  <1> HIDE DEF part, o, s
  <1>15. Parts(C, part, o)
    <2>1. \A c \in C : IsFiniteSet(part[c]) /\ \A r \in part[c] : o[r] \in Int
      BY <1>10, <1>11, <1>12, <1>13
    <2>2. \A c, d \in C : c # d => part[c] \cap part[d] = {}
      BY <1>8, <1>10
    <2> QED BY <2>1, <2>2 DEF Parts
  <1>16. \A c \in C : s[c] = SumOver(o, part[c])
    BY <1>10, <1>11
  <1>17. SumOver(o, A) = SumOver(s, C)
    BY <1>7, <1>15, <1>16, TotalParts
  <1> HIDE DEF A
  <1> QED BY <1>9, <1>14, <1>17, <1>a DEF o, C

\* The input and the outcome of a reading of the ledger.
RowsOfCall == Ledger(call.in.schedules, call.in.events, call.in.later)
PeriodsOf(in, rows) ==
    [i \in {r.event : r \in rows} |-> ReconcileRevenueEvent(in.events[i], {r \in rows : r.event = i})]
LimitsOf(in, rows) ==
    [k \in DOMAIN in.schedules |-> ToCapFloorStatus(in.schedules[k], Distributed({r \in rows : r.schedule = k}))]
LedgerInv ==
    call.kind = "ledger" =>
        /\ call.in \in LedgerInputs
        /\ result # Absent =>
              result = [rows |-> RowsOfCall, periods |-> PeriodsOf(call.in, RowsOfCall),
                        limits |-> LimitsOf(call.in, RowsOfCall)]

LEMMA InitLedgerInv == CallInit => LedgerInv
  <1> SUFFICES ASSUME CallInit, call.kind = "ledger" PROVE call \in LedgerCalls /\ result = Absent
    BY DEF LedgerInv, LedgerCalls
  <1>1. call \notin CanCalls /\ call \notin ListCalls /\ call \notin BrowseCalls
        /\ call \notin PageCalls
    BY DEF CanCalls, ListCalls, BrowseCalls, PageCalls
  <1>2. \A f : call \notin FormCalls(f)
    BY DEF FormCalls
  <1>3. \A i : call \notin MatchCalls(i)
    BY DEF MatchCalls
  <1>4. /\ call \notin PassCalls /\ call \notin HistoryCalls /\ call \notin RankCalls
        /\ call \notin ScoreCalls /\ call \notin RankClaimsCalls
    BY DEF PassCalls, HistoryCalls, RankCalls, ScoreCalls, RankClaimsCalls
  <1>5. call \notin SplitCalls /\ call \notin ShareCalls
    BY DEF SplitCalls, ShareCalls
  <1> QED BY <1>1, <1>2, <1>3, <1>4, <1>5 DEF CallInit

LEMMA NextLedgerInv == LedgerInv /\ [CallNext]_callVars => LedgerInv'
  <1> SUFFICES ASSUME LedgerInv, [CallNext]_callVars, call' = call, call.kind = "ledger" PROVE LedgerInv'
    BY DEF LedgerInv, CallNext, callVars, Can, List, Browse, OpenPage, SubmitForm,
       Match, RankCandidates, Evaluate, ListMatches, ScoreOneClaim,
       RankTheClaims, Split, ReadLedger, ShareSecret, Returns
  <1> DEFINE read == [rows |-> RowsOfCall, periods |-> PeriodsOf(call.in, RowsOfCall),
                      limits |-> LimitsOf(call.in, RowsOfCall)]
  <1>0. call.in \in LedgerInputs
    BY DEF LedgerInv
  <1>1. result # Absent => result = read
    BY DEF LedgerInv
  <1>2. result' = read \/ result' = result
    <2>1. CASE ReadLedger
      BY <2>1 DEF ReadLedger, RowsOfCall, PeriodsOf, LimitsOf
    <2>2. CASE ~ReadLedger
      BY <2>2 DEF CallNext, callVars, Can, List, Browse, OpenPage, SubmitForm,
         Match, RankCandidates, Evaluate, ListMatches, ScoreOneClaim,
         RankTheClaims, Split, ShareSecret, Returns
    <2> QED BY <2>1, <2>2
  <1>3. read = [rows |-> RowsOfCall, periods |-> PeriodsOf(call.in, RowsOfCall),
                limits |-> LimitsOf(call.in, RowsOfCall)]'
    <2>1. RowsOfCall' = RowsOfCall
      BY DEF RowsOfCall
    <2>2. PeriodsOf(call.in, RowsOfCall)' = PeriodsOf(call.in, RowsOfCall)
      BY <2>1
    <2>3. LimitsOf(call.in, RowsOfCall)' = LimitsOf(call.in, RowsOfCall)
      BY <2>1
    <2> QED BY <2>1, <2>2, <2>3
  <1>4. result' # Absent => result' = read
    <2> HIDE DEF read
    <2> QED BY ONLY <1>1, <1>2
  <1> QED BY <1>0, <1>3, <1>4 DEF LedgerInv

LEMMA LedgerReconciles ==
    ASSUME SplitAssumption, LedgerAssumption, LedgerInv PROVE PeriodsReconcile
  <1> SUFFICES ASSUME Returned("ledger") PROVE PeriodsReconcile
    BY DEF PeriodsReconcile
  <1> DEFINE in == call.in
             rows == RowsOfCall
             periods == PeriodsOf(in, rows)
             limits == LimitsOf(in, rows)
             Under(k) == {i \in DOMAIN result.periods : \E r \in result.rows : r.event = i /\ r.schedule = k}
             Revenue(k) == MapThenSumSet(LAMBDA i : Net(call.in.events[i]), Under(k))
  <1>1. in \in LedgerInputs /\ result = [rows |-> rows, periods |-> periods, limits |-> limits]
    BY DEF LedgerInv, Returned
  <1>2. result.rows = rows /\ result.periods = periods /\ result.limits = limits
    BY <1>1
  <1>3. LedgerShape(in, rows)
    BY <1>1, LedgerRows DEF RowsOfCall
  <1>4. /\ DOMAIN periods = {r.event : r \in rows} /\ DOMAIN limits = DOMAIN in.schedules
        /\ \A i \in DOMAIN periods :
              periods[i].reconciled = (Distributed({r \in rows : r.event = i}) = Net(in.events[i]))
        /\ \A k \in DOMAIN limits :
              limits[k] = ToCapFloorStatus(in.schedules[k], Distributed({r \in rows : r.schedule = k}))
    BY DEF PeriodsOf, LimitsOf, ReconcileRevenueEvent
  <1>5. \A r \in rows : /\ r.event \in Recorded(in) /\ r.component \in DOMAIN Made(in, r.event).entries
                         /\ r.schedule = Made(in, r.event).schedule
    BY <1>3 DEF LedgerShape
  <1> HIDE DEF in, rows, periods, limits
  <1>6. ASSUME NEW i \in DOMAIN periods PROVE periods[i].reconciled
    <2>1. i \in Recorded(in)
      BY <1>4, <1>5
    <2>2. Distributed({r \in rows : r.event = i}) = Net(in.events[i])
      BY <1>1, <1>3, <2>1, PeriodTotal
    <2> QED BY <1>4, <2>2
  <1>7. ASSUME NEW r \in rows
        PROVE  in.schedules[r.schedule].basisOf[r.component] \in {Null, in.events[r.event].basis}
    <2>1. DOMAIN Made(in, r.event).entries
          = SelectComponentsForBasis(in.schedules[r.schedule], in.events[r.event].basis)
      BY <1>1, <1>5, MadeFacts
    <2> QED BY <1>5, <2>1 DEF SelectComponentsForBasis
  <1>8. ASSUME NEW k \in DOMAIN limits, limits[k] # Null
        PROVE  /\ limits[k].capExceededBy # Null <=> in.schedules[k].cap # Null /\ Revenue(k) > in.schedules[k].cap
               /\ limits[k].floorShortfall # Null <=> in.schedules[k].floor # Null /\ Revenue(k) < in.schedules[k].floor
    <2> DEFINE U == Under(k)
               d == Distributed({r \in rows : r.schedule = k})
               n == NetsOf(in, U)
    <2>1. U = UnderSchedule(in, rows, k)
      BY <1>2, <1>4, <1>5 DEF UnderSchedule
    <2>2. Revenue(k) = n
      BY DEF in, NetsOf
    <2> HIDE DEF U
    <2>3. d = n /\ d \in Int
      BY <1>1, <1>3, <2>1, ScheduleTotal
    <2>4. limits[k] = ToCapFloorStatus(in.schedules[k], d)
      BY <1>4
    <2>5. in.schedules[k].cap \in Nat \cup {Null} /\ in.schedules[k].floor \in Nat \cup {Null} /\ Null \notin Int
      BY <1>1, <1>4 DEF LedgerAssumption
    <2> HIDE DEF d, n, Revenue
    <2>6. limits[k] = EvaluateScheduleCapFloor(in.schedules[k], d)
      BY <1>8, <2>4 DEF ToCapFloorStatus
    <2> DEFINE cap == in.schedules[k].cap
               floor == in.schedules[k].floor
    <2>7. /\ limits[k].capExceededBy = IF cap # Null /\ d > cap THEN d - cap ELSE Null
          /\ limits[k].floorShortfall = IF floor # Null /\ d < floor THEN floor - d ELSE Null
      BY <2>6 DEF EvaluateScheduleCapFloor
    <2> HIDE DEF cap, floor
    <2>8. (cap # Null => d - cap \in Int) /\ (floor # Null => floor - d \in Int)
      BY <2>3, <2>5 DEF cap, floor
    <2>9. /\ limits[k].capExceededBy # Null <=> cap # Null /\ d > cap
          /\ limits[k].floorShortfall # Null <=> floor # Null /\ d < floor
      BY <2>5, <2>7, <2>8
    <2> QED BY <2>2, <2>3, <2>9 DEF cap, floor
  <1> QED BY <1>2, <1>6, <1>7, <1>8 DEF PeriodsReconcile, in

LEMMA LedgerAddsUp ==
    ASSUME SplitAssumption, LedgerAssumption, LedgerInv PROVE BalancesAddUp
  <1> SUFFICES ASSUME Returned("ledger") PROVE BalancesAddUp
    BY DEF BalancesAddUp
  <1> DEFINE in == call.in
             rows == RowsOfCall
             periods == PeriodsOf(in, rows)
             limits == LimitsOf(in, rows)
  <1>1. in \in LedgerInputs /\ result = [rows |-> rows, periods |-> periods, limits |-> limits]
    BY DEF LedgerInv, Returned
  <1>2. result.rows = rows /\ result.periods = periods
    BY <1>1
  <1>3. LedgerShape(in, rows)
    BY <1>1, LedgerRows DEF RowsOfCall
  <1>4. \A i \in DOMAIN periods :
           LET R == {r \in rows : r.event = i}
           IN  periods[i].outstanding = Total(OfType(R, "ACCRUAL")) + Signed(OfType(R, "ADJUSTMENT"))
                                        - Total(OfType(R, "PAYMENT")) - Total(OfType(R, "REVERSAL"))
    BY DEF PeriodsOf, ReconcileRevenueEvent, Distributed
  <1> HIDE DEF in, rows, periods, limits
  <1>5. ASSUME NEW chain
        PROVE  ComputeAccrualBalance(chain).status \in {"PAID", "REVERSED"} <=> OutstandingOf(chain) <= 0
    <2>1. CASE OfType(chain, "REVERSAL") # {}
      BY <2>1 DEF ComputeAccrualBalance, OutstandingOf
    <2>2. CASE OfType(chain, "REVERSAL") = {}
      BY <2>2 DEF ComputeAccrualBalance
    <2> QED BY <2>1, <2>2
  <1>6. ASSUME NEW i \in DOMAIN periods, \A chain \in Chains(PeriodRows(rows, i)) : SettledChain(chain)
        PROVE  periods[i].outstanding = OwedOn(Chains(PeriodRows(rows, i)))
    <2> DEFINE R == PeriodRows(rows, i)
    <2>1. TypedRows(rows) /\ R \subseteq rows
      BY <1>3 DEF LedgerShape, PeriodRows
    <2>2. SumOver(Owed(rows), R) = OwedOn(Chains(R))
      BY <1>3, <1>6, ChainsTotal
    <2>3. periods[i].outstanding = Total(OfType(R, "ACCRUAL")) + Signed(OfType(R, "ADJUSTMENT"))
                                   - Total(OfType(R, "PAYMENT")) - Total(OfType(R, "REVERSAL"))
      BY <1>4 DEF PeriodRows
    <2> HIDE DEF R
    <2>4. SumOver(Owed(rows), R) = Total(OfType(R, "ACCRUAL")) + Signed(OfType(R, "ADJUSTMENT"))
                                   - Total(OfType(R, "PAYMENT")) - Total(OfType(R, "REVERSAL"))
      BY <2>1, OwedIs
    <2>5. periods[i].outstanding = OwedOn(Chains(R))
      BY <2>2, <2>3, <2>4
    <2> QED BY <2>5 DEF R
  <1> QED BY <1>2, <1>5, <1>6 DEF BalancesAddUp, SettledChain, PeriodRows, OwedOn

\* recordRevenueEvent, reconcileRevenueEvent, computeAccrualBalance and
\* evaluateScheduleCapFloor, for any schedules, events and later entries: an accepted
\* period reconciles and stays so, a cap or a floor is reported exactly when the
\* accepted revenue passed or missed it, and what is owed per accrual adds up to what
\* is owed per period.
THEOREM Books_Balance == CallSpec => []BooksBalance
  <1>1. LedgerInv => BooksBalance
    BY LedgerReconciles, LedgerAddsUp, SplitAssumption, LedgerAssumption DEF BooksBalance
  <1> QED BY <1>1, InitLedgerInv, NextLedgerInv, PTL DEF CallSpec
-----------------------------------------------------------------------------
(* The list of the latest matches                                           *)

\* A strict total order of a finite set has a first element.
LEMMA FirstOne ==
    ASSUME NEW S, IsFiniteSet(S), S # {}, NEW before, Orders(before, S)
    PROVE  \E a \in S : \A b \in S : b # a => <<a, b>> \in before
  <1> DEFINE place == [c \in S |-> 1 + Cardinality({d \in S : <<d, c>> \in before})]
             N == Cardinality(S)
  <1>1. \A c \in S : place[c] = 1 + Cardinality({d \in S : <<d, c>> \in before})
    OBVIOUS
  <1> HIDE DEF place
  <1>2. /\ {place[c] : c \in S} = 1 .. N
        /\ \A c, d \in S : <<c, d>> \in before <=> place[c] < place[d]
    BY <1>1, Places
  <1>3. N \in Nat /\ N # 0
    BY FS_CardinalityType, FS_EmptySet
  <1> HIDE DEF N
  <1>4. 1 \in 1 .. N
    BY <1>3
  <1>5. PICK a \in S : place[a] = 1
    BY <1>2, <1>4
  <1>6. ASSUME NEW b \in S, b # a PROVE <<a, b>> \in before
    <2>1. <<a, b>> \in before \/ <<b, a>> \in before
      BY <1>6 DEF Orders
    <2>2. place[b] \in 1 .. N
      BY <1>2
    <2>3. ~(place[b] < place[a])
      BY <1>3, <1>5, <2>2
    <2> QED BY <1>2, <2>1, <2>3
  <1> QED BY <1>6

\* The rows of some passes: typed, finitely many, and told apart by their ids.
HistoryRow(r) ==
    /\ r.id \in Nat /\ r.capacity \in Nat /\ r.evaluatedAt \in Nat
    /\ r.eligible \in BOOLEAN /\ (r.eligible => r.rank \in Nat)
HistoryRows(rows) ==
    /\ IsFiniteSet(rows) /\ \A r \in rows : HistoryRow(r)
    /\ \A a, b \in rows : a.id = b.id => a = b

NewerIn(S) == {p \in S \X S : Newer(p[1], p[2])}
ShownIn(S) == {p \in S \X S : ShownBefore(p[1], p[2])}

\* Newer is a strict total order of them.
LEMMA NewerFacts ==
    ASSUME NEW rows, HistoryRows(rows)
    PROVE  /\ \A a \in rows : ~Newer(a, a)
           /\ \A a, b, c \in rows : Newer(a, b) /\ Newer(b, c) => Newer(a, c)
           /\ \A a, b \in rows : a # b => Newer(a, b) \/ Newer(b, a)
           /\ \A a, b \in rows : Newer(a, b) => a.evaluatedAt >= b.evaluatedAt
  <1>1. \A r \in rows : r.id \in Nat /\ r.evaluatedAt \in Nat
    BY DEF HistoryRows, HistoryRow
  <1>2. \A a, b \in rows : a.id = b.id => a = b
    BY DEF HistoryRows
  <1>3. \A a \in rows : ~Newer(a, a)
    BY <1>1 DEF Newer
  <1>4. \A a, b, c \in rows : Newer(a, b) /\ Newer(b, c) => Newer(a, c)
    BY <1>1 DEF Newer
  <1>5. \A a, b \in rows : a # b => Newer(a, b) \/ Newer(b, a)
    BY <1>1, <1>2 DEF Newer
  <1>6. \A a, b \in rows : Newer(a, b) => a.evaluatedAt >= b.evaluatedAt
    BY <1>1 DEF Newer
  <1> QED BY <1>3, <1>4, <1>5, <1>6

\* Every capacity has one latest row, and no row of it is newer.
LEMMA LatestFacts ==
    ASSUME NEW rows, HistoryRows(rows)
    PROVE  /\ \A r \in rows : \E a \in LatestOf(rows) : a.capacity = r.capacity /\ a.evaluatedAt >= r.evaluatedAt
           /\ \A a, b \in LatestOf(rows) : a.capacity = b.capacity => a = b
           /\ LatestOf(rows) \subseteq rows
  <1>1. LatestOf(rows) \subseteq rows
    BY DEF LatestOf
  <1>2. \A a, b \in LatestOf(rows) : a.capacity = b.capacity => a = b
    <2> SUFFICES ASSUME NEW a \in LatestOf(rows), NEW b \in LatestOf(rows), a.capacity = b.capacity, a # b
                 PROVE  FALSE
      OBVIOUS
    <2>1. Newer(a, b) /\ Newer(b, a) /\ a \in rows /\ b \in rows
      BY DEF LatestOf
    <2> QED BY <2>1, NewerFacts
  <1>3. ASSUME NEW r \in rows
        PROVE  \E a \in LatestOf(rows) : a.capacity = r.capacity /\ a.evaluatedAt >= r.evaluatedAt
    <2> DEFINE T == {s \in rows : s.capacity = r.capacity}
    <2>1. IsFiniteSet(T) /\ T # {} /\ T \subseteq rows
      BY FS_Subset DEF HistoryRows
    <2>2. Orders(NewerIn(T), T)
      <3>1. /\ \A a \in T : ~Newer(a, a)
            /\ \A a, b, c \in T : Newer(a, b) /\ Newer(b, c) => Newer(a, c)
            /\ \A a, b \in T : a # b => Newer(a, b) \/ Newer(b, a)
        BY <2>1, NewerFacts
      <3>2. \A a, b \in T : <<a, b>> \in NewerIn(T) <=> Newer(a, b)
        BY DEF NewerIn
      <3> HIDE DEF T
      <3> QED BY <3>1, <3>2 DEF Orders
    <2>3. PICK a \in T : \A b \in T : b # a => <<a, b>> \in NewerIn(T)
      <3> HIDE DEF T
      <3> QED BY <2>1, <2>2, FirstOne
    <2>4. \A b \in T : b # a => Newer(a, b)
      BY <2>3 DEF NewerIn
    <2>5. a \in LatestOf(rows)
      BY <2>4 DEF LatestOf
    <2>6. a.evaluatedAt >= r.evaluatedAt
      <3>1. r \in T /\ r.evaluatedAt \in Nat
        BY DEF HistoryRows, HistoryRow
      <3>2. CASE a = r
        BY <3>1, <3>2
      <3>3. CASE a # r
        <4>1. Newer(a, r)
          BY <2>4, <3>1, <3>3
        <4> QED BY <2>1, <4>1, NewerFacts
      <3> QED BY <3>2, <3>3
    <2> QED BY <2>5, <2>6
  <1> QED BY <1>1, <1>2, <1>3

\* So is the comparison of the sort, among the latest rows.
LEMMA ShownOrder ==
    ASSUME NEW rows, HistoryRows(rows), NEW L, L = LatestOf(rows)
    PROVE  Orders(ShownIn(L), L)
  <1>1. L \subseteq rows /\ \A a, b \in L : a.capacity = b.capacity => a = b
    BY LatestFacts
  <1>2. \A r \in L : r.capacity \in Nat /\ (r.eligible => r.rank \in Nat)
    BY <1>1 DEF HistoryRows, HistoryRow
  <1>3. /\ \A a \in L : ~Newer(a, a)
        /\ \A a, b, c \in L : Newer(a, b) /\ Newer(b, c) => Newer(a, c)
        /\ \A a, b \in L : a # b => Newer(a, b) \/ Newer(b, a)
    BY <1>1, NewerFacts
  <1> DEFINE Ahead(a, b) == a.rank < b.rank \/ (a.rank = b.rank /\ a.capacity < b.capacity)
             E == {r \in L : r.eligible}
  <1>4. /\ \A a \in E : ~Ahead(a, a)
        /\ \A a, b, c \in E : Ahead(a, b) /\ Ahead(b, c) => Ahead(a, c)
        /\ \A a, b \in E : a # b => Ahead(a, b) \/ Ahead(b, a)
    <2>1. \A r \in E : r.capacity \in Nat /\ r.rank \in Nat /\ r \in L
      BY <1>2
    <2> HIDE DEF E
    <2> QED BY <1>1, <2>1
  <1>5. \A a, b \in L : <<a, b>> \in ShownIn(L) <=>
            \/ a \in E /\ b \notin E
            \/ a \in E /\ b \in E /\ Ahead(a, b)
            \/ a \notin E /\ b \notin E /\ Newer(a, b)
    BY DEF ShownIn, ShownBefore
  <1> HIDE DEF E, Ahead
  <1>6. \A a \in L : <<a, a>> \notin ShownIn(L)
    BY <1>3, <1>4, <1>5
  <1>7. \A a, b, c \in L : <<a, b>> \in ShownIn(L) /\ <<b, c>> \in ShownIn(L) => <<a, c>> \in ShownIn(L)
    BY <1>3, <1>4, <1>5
  <1>8. \A a, b \in L : a # b => <<a, b>> \in ShownIn(L) \/ <<b, a>> \in ShownIn(L)
    BY <1>3, <1>4, <1>5
  <1> QED BY <1>6, <1>7, <1>8 DEF Orders

\* The list has every latest row once, in that order.
LEMMA ListFacts ==
    ASSUME NEW rows, HistoryRows(rows), NEW L, L = LatestOf(rows), NEW shown, shown = ListLatest(rows)
    PROVE  /\ DOMAIN shown \subseteq Nat /\ \A i \in DOMAIN shown : shown[i] \in L
           /\ \A i, j \in DOMAIN shown : i < j => shown[i] # shown[j] /\ ShownBefore(shown[i], shown[j])
           /\ \A a \in L : \E i \in DOMAIN shown : shown[i] = a
  <1> DEFINE N == Cardinality(L)
             place == [a \in L |-> PlaceAmong(L, a)]
             before == ShownIn(L)
  <1>1. IsFiniteSet(L) /\ Orders(before, L)
    <2>1. L \subseteq rows
      BY LatestFacts
    <2> QED BY <2>1, ShownOrder, FS_Subset DEF HistoryRows
  <1>2. \A a \in L : place[a] = 1 + Cardinality({d \in L : <<d, a>> \in before})
    <2> SUFFICES ASSUME NEW a \in L PROVE place[a] = 1 + Cardinality({d \in L : <<d, a>> \in before})
      OBVIOUS
    <2>1. {d \in L : <<d, a>> \in before} = {b \in L : ShownBefore(b, a)}
      BY DEF ShownIn
    <2> QED BY <2>1 DEF PlaceAmong
  <1>3. shown = [i \in 1 .. N |-> CHOOSE a \in L : PlaceAmong(L, a) = i]
    BY DEF ListLatest
  <1>4. \A a \in L : place[a] = PlaceAmong(L, a)
    OBVIOUS
  <1>5. \A a, b \in L : <<a, b>> \in before <=> ShownBefore(a, b)
    BY DEF ShownIn
  <1> HIDE DEF place, before
  <1>6. /\ \A a \in L : place[a] \in Nat
        /\ {place[a] : a \in L} = 1 .. N
        /\ \A a, b \in L : <<a, b>> \in before <=> place[a] < place[b]
    BY <1>1, <1>2, Places
  <1>7. N \in Nat
    BY <1>1, FS_CardinalityType
  <1> HIDE DEF N
  <1>8. \A i \in 1 .. N : shown[i] \in L /\ place[shown[i]] = i
    <2> SUFFICES ASSUME NEW i \in 1 .. N PROVE shown[i] \in L /\ place[shown[i]] = i
      OBVIOUS
    <2>1. \E a \in L : PlaceAmong(L, a) = i
      BY <1>4, <1>6
    <2>2. shown[i] = CHOOSE a \in L : PlaceAmong(L, a) = i
      BY <1>3
    <2>3. shown[i] \in L /\ PlaceAmong(L, shown[i]) = i
      BY <2>1, <2>2
    <2> QED BY <1>4, <2>3
  <1>9. DOMAIN shown = 1 .. N
    BY <1>3
  <1>10. ASSUME NEW i \in 1 .. N, NEW j \in 1 .. N, i < j
         PROVE  shown[i] # shown[j] /\ ShownBefore(shown[i], shown[j])
    <2>1. shown[i] \in L /\ shown[j] \in L /\ place[shown[i]] = i /\ place[shown[j]] = j
      BY <1>8
    <2>2. i # j
      BY <1>7, <1>10
    <2>3. <<shown[i], shown[j]>> \in before
      BY <1>6, <1>10, <2>1
    <2> QED BY <1>5, <2>1, <2>2, <2>3
  <1>11. ASSUME NEW a \in L PROVE \E i \in 1 .. N : shown[i] = a
    <2>1. place[a] \in 1 .. N
      BY <1>6
    <2>2. shown[place[a]] \in L /\ place[shown[place[a]]] = place[a]
      BY <1>8, <2>1
    <2>3. ~(place[a] < place[shown[place[a]]]) /\ ~(place[shown[place[a]]] < place[a])
      BY <1>6, <2>2
    <2>4. shown[place[a]] = a
      BY <1>1, <1>6, <2>2, <2>3 DEF Orders
    <2> QED BY <2>1, <2>4
  <1> QED BY <1>7, <1>8, <1>9, <1>10, <1>11

\* Ids of different passes, and of different capacities in one, are different.
LEMMA IdsApart ==
    ASSUME NEW k \in Nat, NEW i \in Nat, NEW j \in Nat, NEW c \in 0 .. (k - 1), NEW d \in 0 .. (k - 1),
           k * i + c = k * j + d
    PROVE  i = j /\ c = d
  <1>1. ASSUME NEW m \in Nat, NEW n \in Nat, m < n PROVE k * m + k <= k * n
    <2>1. n - m \in Nat /\ n - m >= 1 /\ n = m + (n - m)
      BY <1>1
    <2> DEFINE e == n - m
    <2>2. k * n = k * m + k * e
      BY <2>1
    <2> HIDE DEF e
    <2>3. e \in Nat /\ e >= 1
      BY <2>1 DEF e
    <2>4. k * e >= k
      <3>1. e - 1 \in Nat /\ e = (e - 1) + 1
        BY <2>3
      <3>2. k * (e - 1) \in Nat
        BY <3>1
      <3>3. k * e = k * (e - 1) + k
        BY <3>1
      <3> QED BY <3>2, <3>3
    <2>5. k * m \in Int /\ k * e \in Int
      BY <2>3
    <2> QED BY <2>2, <2>4, <2>5
  <1>2. k * i \in Int /\ k * j \in Int
    OBVIOUS
  <1>3. ~(i < j)
    <2>1. i < j => k * i + k <= k * j
      BY <1>1
    <2> QED BY <1>2, <2>1
  <1>4. ~(j < i)
    <2>1. j < i => k * j + k <= k * i
      BY <1>1
    <2> QED BY <1>2, <2>1
  <1>5. i = j
    BY <1>3, <1>4
  <1> QED BY <1>2, <1>5

RowAt(passes, i, c) ==
    [id |-> IdsPerPass * i + c, capacity |-> c, eligible |-> passes[i][c].eligible,
     rank |-> passes[i][c].rank, evaluatedAt |-> passes[i][c].evaluatedAt]

LEMMA RowsAreTyped ==
    ASSUME HistoryAssumption, NEW passes \in Histories, NEW n \in 1 .. Len(passes)
    PROVE  HistoryRows(RowsOf(passes, n))
  <1> DEFINE Of(i) == {RowAt(passes, i, c) : c \in DOMAIN passes[i]}
             rows == UNION {Of(i) : i \in 1 .. n}
             k == IdsPerPass
  <1>1. RowsOf(passes, n) = rows
    BY DEF RowsOf, RowAt
  <1>2. k \in Nat /\ Len(passes) \in Nat /\ DOMAIN passes = 1 .. Len(passes)
    BY DEF HistoryAssumption
  <1>3. n \in Nat /\ 1 .. n \subseteq DOMAIN passes
    BY <1>2
  <1>4. \A i \in 1 .. n : \A c \in DOMAIN passes[i] :
           /\ c \in 0 .. (k - 1) /\ passes[i][c].evaluatedAt \in Nat
           /\ passes[i][c].eligible \in BOOLEAN /\ (passes[i][c].eligible => passes[i][c].rank \in Nat)
    BY <1>3 DEF HistoryAssumption
  <1>5. \A i, c : LET r == RowAt(passes, i, c)
                  IN  /\ r.id = k * i + c /\ r.capacity = c /\ r.eligible = passes[i][c].eligible
                      /\ r.rank = passes[i][c].rank /\ r.evaluatedAt = passes[i][c].evaluatedAt
    BY DEF RowAt
  <1> HIDE DEF k
  <1>6. ASSUME NEW i \in 1 .. n PROVE IsFiniteSet(Of(i))
    <2> DEFINE D == DOMAIN passes[i]
               h == [c \in D |-> RowAt(passes, i, c)]
    <2>1. D \subseteq 0 .. (k - 1)
      BY <1>4
    <2>2. 0 \in Int /\ k - 1 \in Int
      BY <1>2
    <2>3. IsFiniteSet(0 .. (k - 1))
      BY <2>2, FS_Interval
    <2>4. Of(i) = {h[c] : c \in D}
      OBVIOUS
    <2> HIDE DEF Of, D, h
    <2>5. IsFiniteSet(D)
      BY <2>1, <2>3, FS_Subset
    <2> QED BY <2>4, <2>5, FiniteImage
  <1>7. IsFiniteSet(rows)
    <2> DEFINE g == [i \in 1 .. n |-> Of(i)]
               G == {Of(i) : i \in 1 .. n}
    <2>1. G = {g[i] : i \in 1 .. n} /\ rows = UNION G
      OBVIOUS
    <2>2. \A B \in G : IsFiniteSet(B)
      BY <1>6
    <2>3. 1 \in Int /\ n \in Int
      BY <1>3
    <2>4. IsFiniteSet(1 .. n)
      BY <2>3, FS_Interval
    <2> HIDE DEF Of, g, G, rows
    <2>5. IsFiniteSet(G)
      BY <2>1, <2>4, FiniteImage
    <2> QED BY <2>1, <2>2, <2>5, FS_UNION
  <1>8. ASSUME NEW r \in rows
        PROVE  \E i \in 1 .. n : \E c \in DOMAIN passes[i] : r = RowAt(passes, i, c)
    OBVIOUS
  <1>9. ASSUME NEW i \in 1 .. n, NEW c \in DOMAIN passes[i] PROVE k * i + c \in Nat /\ c \in Nat /\ i \in Nat
    <2>1. c \in Nat /\ i \in Nat
      BY <1>2, <1>3, <1>4
    <2>2. k * i \in Nat
      BY <1>2, <2>1
    <2> QED BY <2>1, <2>2
  <1> HIDE DEF rows
  <1>10. \A r \in rows : HistoryRow(r)
    <2> SUFFICES ASSUME NEW r \in rows PROVE HistoryRow(r)
      OBVIOUS
    <2>1. PICK i \in 1 .. n : \E c \in DOMAIN passes[i] : r = RowAt(passes, i, c)
      BY <1>8
    <2>2. PICK c \in DOMAIN passes[i] : r = RowAt(passes, i, c)
      BY <2>1
    <2>3. /\ r.id = k * i + c /\ r.capacity = c /\ r.eligible = passes[i][c].eligible
          /\ r.rank = passes[i][c].rank /\ r.evaluatedAt = passes[i][c].evaluatedAt
      BY <1>5, <2>2
    <2>4. k * i + c \in Nat /\ c \in Nat
      BY <1>9
    <2>5. /\ passes[i][c].evaluatedAt \in Nat /\ passes[i][c].eligible \in BOOLEAN
          /\ (passes[i][c].eligible => passes[i][c].rank \in Nat)
      BY <1>4
    <2> QED BY <2>3, <2>4, <2>5 DEF HistoryRow
  <1>11. \A a, b \in rows : a.id = b.id => a = b
    <2> SUFFICES ASSUME NEW a \in rows, NEW b \in rows, a.id = b.id PROVE a = b
      OBVIOUS
    <2>1. PICK i \in 1 .. n : \E c \in DOMAIN passes[i] : a = RowAt(passes, i, c)
      BY <1>8
    <2>2. PICK c \in DOMAIN passes[i] : a = RowAt(passes, i, c)
      BY <2>1
    <2>3. PICK j \in 1 .. n : \E d \in DOMAIN passes[j] : b = RowAt(passes, j, d)
      BY <1>8
    <2>4. PICK d \in DOMAIN passes[j] : b = RowAt(passes, j, d)
      BY <2>3
    <2>5. k * i + c = k * j + d
      BY <1>5, <2>2, <2>4
    <2>6. i \in Nat /\ j \in Nat /\ c \in 0 .. (k - 1) /\ d \in 0 .. (k - 1)
      BY <1>4, <1>9
    <2>7. k \in Nat
      BY <1>2
    <2>8. i = j /\ c = d
      BY ONLY <2>5, <2>6, <2>7, IdsApart, ZenonT(30)
    <2> QED BY <2>2, <2>4, <2>8
  <1> QED BY <1>1, <1>7, <1>10, <1>11 DEF HistoryRows

\* Later passes only add rows.
LEMMA RowsGrow ==
    ASSUME NEW passes, NEW m \in Nat, NEW n \in Nat, m <= n
    PROVE  RowsOf(passes, m) \subseteq RowsOf(passes, n)
  <1>1. 1 .. m \subseteq 1 .. n
    OBVIOUS
  <1> QED BY <1>1 DEF RowsOf

\* The input and the outcome of a call of the list.
ShownOf(passes) == [n \in 1 .. Len(passes) |-> ListLatest(RowsOf(passes, n))]
ListInv ==
    call.kind = "matches" =>
        /\ call.passes \in Histories
        /\ result # Absent => result = [shown |-> ShownOf(call.passes)]

LEMMA InitListInv == CallInit => ListInv
  <1> SUFFICES ASSUME CallInit, call.kind = "matches" PROVE call \in HistoryCalls /\ result = Absent
    BY DEF ListInv, HistoryCalls
  <1>1. call \notin CanCalls /\ call \notin ListCalls /\ call \notin BrowseCalls
        /\ call \notin PageCalls
    BY DEF CanCalls, ListCalls, BrowseCalls, PageCalls
  <1>2. \A f : call \notin FormCalls(f)
    BY DEF FormCalls
  <1>3. \A i : call \notin MatchCalls(i)
    BY DEF MatchCalls
  <1>4. /\ call \notin PassCalls /\ call \notin RankCalls
        /\ call \notin ScoreCalls /\ call \notin RankClaimsCalls
    BY DEF PassCalls, RankCalls, ScoreCalls, RankClaimsCalls
  <1>5. call \notin SplitCalls /\ call \notin LedgerCalls /\ call \notin ShareCalls
    BY DEF SplitCalls, LedgerCalls, ShareCalls
  <1> QED BY <1>1, <1>2, <1>3, <1>4, <1>5 DEF CallInit

LEMMA NextListInv == ListInv /\ [CallNext]_callVars => ListInv'
  <1> SUFFICES ASSUME ListInv, [CallNext]_callVars, call' = call, call.kind = "matches" PROVE ListInv'
    BY DEF ListInv, CallNext, callVars, Can, List, Browse, OpenPage, SubmitForm,
       Match, RankCandidates, Evaluate, ListMatches, ScoreOneClaim,
       RankTheClaims, Split, ReadLedger, ShareSecret, Returns
  <1> DEFINE read == [shown |-> ShownOf(call.passes)]
  <1>0. call.passes \in Histories
    BY DEF ListInv
  <1>1. result # Absent => result = read
    BY DEF ListInv
  <1>2. result' = read \/ result' = result
    <2>1. CASE ListMatches
      BY <2>1 DEF ListMatches, ShownOf
    <2>2. CASE ~ListMatches
      BY <2>2 DEF CallNext, callVars, Can, List, Browse, OpenPage, SubmitForm,
         Match, RankCandidates, Evaluate, ReadLedger, ScoreOneClaim,
         RankTheClaims, Split, ShareSecret, Returns
    <2> QED BY <2>1, <2>2
  <1>3. result' # Absent => result' = read
    <2> HIDE DEF read
    <2> QED BY ONLY <1>1, <1>2
  <1> QED BY <1>0, <1>3 DEF ListInv

LEMMA ListInvHolds == HistoryAssumption /\ ListInv => ListNeverGoesBack
  <1> SUFFICES ASSUME HistoryAssumption, ListInv, Returned("matches"), NEW n \in DOMAIN result.shown
               PROVE  LET shown == result.shown[n]
                          rows == RowsOf(call.passes, n)
                      IN  /\ {shown[i].capacity : i \in DOMAIN shown} = {r.capacity : r \in rows}
                          /\ \A i, j \in DOMAIN shown : i < j =>
                                /\ shown[i].capacity # shown[j].capacity
                                /\ shown[j].eligible => shown[i].eligible
                                /\ shown[j].eligible /\ shown[i].evaluatedAt = shown[j].evaluatedAt
                                      => shown[i].rank <= shown[j].rank
                          /\ n > 1 =>
                               \A i \in DOMAIN result.shown[n - 1] : \E j \in DOMAIN shown :
                                  /\ shown[j].capacity = result.shown[n - 1][i].capacity
                                  /\ shown[j].evaluatedAt >= result.shown[n - 1][i].evaluatedAt
    BY DEF ListNeverGoesBack
  <1> DEFINE passes == call.passes
             RowsAfter(k) == RowsOf(passes, k)
             L(k) == LatestOf(RowsAfter(k))
             shown == result.shown[n]
             rows == RowsAfter(n)
  <1>1. passes \in Histories /\ result.shown = ShownOf(passes)
    BY DEF ListInv, Returned
  <1>2. Len(passes) \in Nat /\ DOMAIN result.shown = 1 .. Len(passes) /\ n \in 1 .. Len(passes)
    BY <1>1 DEF HistoryAssumption, ShownOf
  <1>3. \A k \in 1 .. Len(passes) : result.shown[k] = ListLatest(RowsAfter(k)) /\ HistoryRows(RowsAfter(k))
    BY <1>1, RowsAreTyped DEF ShownOf
  <1> HIDE DEF passes
  <1>4. ASSUME NEW k \in 1 .. Len(passes)
        PROVE  LET list == result.shown[k]
               IN  /\ DOMAIN list \subseteq Nat /\ \A i \in DOMAIN list : list[i] \in L(k)
                   /\ \A i, j \in DOMAIN list : i < j => list[i] # list[j] /\ ShownBefore(list[i], list[j])
                   /\ \A a \in L(k) : \E i \in DOMAIN list : list[i] = a
    <2> HIDE DEF RowsAfter
    <2> QED BY <1>3, ListFacts
  <1>5. ASSUME NEW k \in 1 .. Len(passes)
        PROVE  /\ \A r \in RowsAfter(k) : \E a \in L(k) : a.capacity = r.capacity /\ a.evaluatedAt >= r.evaluatedAt
               /\ \A a, b \in L(k) : a.capacity = b.capacity => a = b
               /\ L(k) \subseteq RowsAfter(k)
    <2> HIDE DEF RowsAfter
    <2> QED BY <1>3, LatestFacts
  <1> HIDE DEF RowsAfter, L, shown
  <1>a. /\ DOMAIN shown \subseteq Nat /\ \A i \in DOMAIN shown : shown[i] \in L(n)
        /\ \A i, j \in DOMAIN shown : i < j => shown[i] # shown[j] /\ ShownBefore(shown[i], shown[j])
        /\ \A a \in L(n) : \E i \in DOMAIN shown : shown[i] = a
    BY <1>2, <1>4 DEF shown
  <1>6. {shown[i].capacity : i \in DOMAIN shown} = {r.capacity : r \in rows}
    <2>1. \A i \in DOMAIN shown : shown[i] \in rows
      BY <1>2, <1>5, <1>a
    <2>2. \A r \in rows : \E i \in DOMAIN shown : shown[i].capacity = r.capacity
      BY <1>2, <1>5, <1>a
    <2> QED BY <2>1, <2>2
  <1>7. ASSUME NEW i \in DOMAIN shown, NEW j \in DOMAIN shown, i < j
        PROVE  /\ shown[i].capacity # shown[j].capacity
               /\ shown[j].eligible => shown[i].eligible
               /\ shown[j].eligible /\ shown[i].evaluatedAt = shown[j].evaluatedAt
                     => shown[i].rank <= shown[j].rank
    <2>1. /\ shown[i] \in L(n) /\ shown[j] \in L(n) /\ shown[i] # shown[j]
          /\ ShownBefore(shown[i], shown[j])
      BY <1>7, <1>a
    <2>2. shown[i].capacity # shown[j].capacity
      BY <1>2, <1>5, <2>1
    <2>3. HistoryRow(shown[i]) /\ HistoryRow(shown[j])
      BY <1>2, <1>3, <1>5, <2>1 DEF HistoryRows
    <2>4. shown[j].eligible => shown[i].eligible
      BY <2>1 DEF ShownBefore
    <2>5. shown[j].eligible => shown[i].rank <= shown[j].rank
      <3> SUFFICES ASSUME shown[j].eligible PROVE shown[i].rank <= shown[j].rank
        OBVIOUS
      <3>1. shown[i].rank \in Nat /\ shown[j].rank \in Nat
        BY <2>3, <2>4 DEF HistoryRow
      <3>2. shown[i].rank < shown[j].rank \/ shown[i].rank = shown[j].rank
        BY <2>1 DEF ShownBefore
      <3> QED BY <3>1, <3>2
    <2> QED BY <2>2, <2>4, <2>5
  <1>8. ASSUME n > 1, NEW i \in DOMAIN result.shown[n - 1]
        PROVE  \E j \in DOMAIN shown :
                  /\ shown[j].capacity = result.shown[n - 1][i].capacity
                  /\ shown[j].evaluatedAt >= result.shown[n - 1][i].evaluatedAt
    <2> DEFINE m == n - 1
               r == result.shown[m][i]
    <2>1. m \in 1 .. Len(passes) /\ m \in Nat /\ n \in Nat /\ m <= n
      BY <1>2, <1>8
    <2> HIDE DEF m
    <2>2. r \in L(m)
      BY <1>4, <1>8, <2>1 DEF m
    <2>3. r \in RowsAfter(m)
      BY <1>5, <2>1, <2>2
    <2>4. r \in RowsAfter(n)
      BY <2>1, <2>3, RowsGrow DEF RowsAfter
    <2>5. PICK a \in L(n) : a.capacity = r.capacity /\ a.evaluatedAt >= r.evaluatedAt
      BY <1>2, <1>5, <2>4
    <2> QED BY <1>a, <2>5 DEF m
  <1> QED BY <1>6, <1>7, <1>8 DEF shown, rows, RowsAfter, passes

\* listLatestByOpportunity, for any number of passes that commit in any order over any
\* candidates: each capacity ever evaluated is shown once, never replaced by an older
\* evaluation, the eligible first, and of one pass by rank.
THEOREM List_NeverGoesBack == CallSpec => []ListNeverGoesBack
  <1>1. ListInv => ListNeverGoesBack
    BY ListInvHolds, HistoryAssumption
  <1> QED BY <1>1, InitListInv, NextListInv, PTL DEF CallSpec
=============================================================================
