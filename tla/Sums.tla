-------------------------------- MODULE Sums --------------------------------
(* Sums over finite sets, for the proofs: what the library's recursive sums *)
(* come to, and how they change with what is summed.                        *)
EXTENDS FiniteSetsExt, TLAPS, FiniteSetTheorems, NaturalsInduction, WellFoundedInduction

Pick(s) == CHOOSE x \in s : TRUE
Rest(s) == s \ {Pick(s)}

\* A function that sums f over every subset of W, in the library's order.
Adds(g, f, W) ==
    \A s \in SUBSET W : g[s] = IF s = {} THEN 0 ELSE f[Pick(s)] + g[Rest(s)]

Totals(f, W) == CHOOSE g \in [SUBSET W -> Nat] : Adds(g, f, W)

\* Taking one element out of a finite set.
LEMMA PickSmaller ==
    ASSUME NEW W, IsFiniteSet(W), NEW s \in SUBSET W, s # {}
    PROVE  /\ Pick(s) \in s /\ Rest(s) \in SUBSET W /\ Rest(s) # s /\ Rest(s) \subseteq s
           /\ IsFiniteSet(s) /\ IsFiniteSet(Rest(s))
           /\ Cardinality(s) \in Nat /\ Cardinality(Rest(s)) = Cardinality(s) - 1
<1>1. Pick(s) \in s
    BY DEF Pick
<1>2. IsFiniteSet(s)
    BY FS_Subset
<1>3. IsFiniteSet(Rest(s)) /\ Cardinality(Rest(s)) = Cardinality(s) - 1
    BY <1>1, <1>2, FS_RemoveElement DEF Rest
<1> QED
    BY <1>1, <1>2, <1>3, FS_CardinalityType DEF Rest

\* Induction over the subsets of a finite set, which the provers take only in this form.
LEMMA LeastSubset ==
    ASSUME NEW W, IsFiniteSet(W), NEW T \in SUBSET (SUBSET W), T # {}
    PROVE  \E s \in T : \A t \in T : t \subseteq s => t = s
<1>1. IsWellFoundedOn(StrictSubsetOrdering(W), SUBSET W)
    BY FS_StrictSubsetOrderingWellFounded, FS_FiniteSubsetsOfFinite
<1>2. PICK s \in T : \A t \in T : ~(<<t, s>> \in StrictSubsetOrdering(W))
    BY <1>1, WFMin
<1> QED
    BY <1>2 DEF StrictSubsetOrdering

\* The sums up to a size exist, and so all of them.
AddsTo(g, f, W, n) ==
    \A s \in SUBSET W :
        Cardinality(s) <= n => g[s] = IF s = {} THEN 0 ELSE f[Pick(s)] + g[Rest(s)]

LEMMA SumsExist ==
    ASSUME NEW W, IsFiniteSet(W), NEW f \in [W -> Nat]
    PROVE  \A n \in Nat : \E g \in [SUBSET W -> Nat] : AddsTo(g, f, W, n)
<1> DEFINE P(n) == \E g \in [SUBSET W -> Nat] : AddsTo(g, f, W, n)
           T == {n \in Nat : ~P(n)}
<1>1. P(0)
    <2>1. \A s \in SUBSET W : Cardinality(s) <= 0 => s = {}
        BY FS_Subset, FS_EmptySet, FS_CardinalityType
    <2> DEFINE g == [s \in SUBSET W |-> 0]
    <2>2. g \in [SUBSET W -> Nat] /\ AddsTo(g, f, W, 0)
        BY <2>1 DEF AddsTo
    <2> QED BY <2>2
<1>2. ASSUME NEW n \in Nat, P(n) PROVE P(n + 1)
    <2>1. PICK g \in [SUBSET W -> Nat] : AddsTo(g, f, W, n)
        BY <1>2
    <2> DEFINE h == [s \in SUBSET W |-> IF s = {} THEN 0 ELSE f[Pick(s)] + g[Rest(s)]]
    <2>2. h \in [SUBSET W -> Nat]
        <3> SUFFICES ASSUME NEW s \in SUBSET W, s # {} PROVE f[Pick(s)] + g[Rest(s)] \in Nat
            OBVIOUS
        <3> QED BY PickSmaller
    <2>3. AddsTo(h, f, W, n + 1)
        <3> SUFFICES ASSUME NEW s \in SUBSET W, Cardinality(s) <= n + 1, s # {}
                     PROVE  h[Rest(s)] = g[Rest(s)]
            BY DEF AddsTo
        <3>1. Rest(s) \in SUBSET W /\ Cardinality(Rest(s)) <= n
            BY PickSmaller
        <3> QED BY <2>1, <3>1 DEF AddsTo
    <2> HIDE DEF h
    <2> QED BY <2>2, <2>3
<1> HIDE DEF P
<1>3. ASSUME T # {} PROVE FALSE
    <2>1. PICK n \in T : \A m \in T : ~(<<m, n>> \in OpToRel(<, Nat))
        BY <1>3, NatLessThanWellFounded, WFMin
    <2>2. n \in Nat /\ n # 0 /\ ~P(n)
        BY <1>1, <2>1
    <2>3. n - 1 \in Nat /\ n - 1 < n
        BY <2>2
    <2>4. <<n - 1, n>> \in OpToRel(<, Nat)
        BY <2>2, <2>3 DEF OpToRel
    <2>5. P(n - 1)
        BY <2>1, <2>3, <2>4
    <2>6. P((n - 1) + 1)
        BY <1>2, <2>3, <2>5
    <2> QED BY <2>2, <2>6
<1> QED BY <1>3 DEF P

LEMMA TotalsAdd ==
    ASSUME NEW W, IsFiniteSet(W), NEW f \in [W -> Nat]
    PROVE  Totals(f, W) \in [SUBSET W -> Nat] /\ Adds(Totals(f, W), f, W)
<1>1. PICK g \in [SUBSET W -> Nat] : AddsTo(g, f, W, Cardinality(W))
    BY SumsExist, FS_CardinalityType
<1>2. \A s \in SUBSET W : Cardinality(s) <= Cardinality(W)
    BY FS_Subset
<1>3. Adds(g, f, W)
    BY <1>1, <1>2 DEF Adds, AddsTo
<1> QED
    BY <1>3 DEF Totals

\* The order does not matter.
LEMMA TakeOut ==
    ASSUME NEW W, IsFiniteSet(W), NEW f \in [W -> Nat], NEW s \in SUBSET W, NEW w \in s
    PROVE  Totals(f, W)[s] = f[w] + Totals(f, W)[s \ {w}]
<1>1. PICK g \in [SUBSET W -> Nat] : g = Totals(f, W) /\ Adds(g, f, W)
    BY TotalsAdd
<1> DEFINE T == {t \in SUBSET W : \E v \in t : g[t] # f[v] + g[t \ {v}]}
<1>2. ASSUME T # {} PROVE FALSE
    <2>0. T \in SUBSET (SUBSET W)
        OBVIOUS
    <2>1. PICK t \in T : \A u \in T : u \subseteq t => u = t
        <3> HIDE DEF T
        <3> QED BY <1>2, <2>0, LeastSubset
    <2>2. PICK v \in t : g[t] # f[v] + g[t \ {v}]
        BY <2>1
    <2>3. PICK p \in t : p = Pick(t) /\ Rest(t) = t \ {p}
        BY <2>2 DEF Pick, Rest
    <2>4. g[t] = f[p] + g[t \ {p}]
        BY <1>1, <2>1, <2>2, <2>3 DEF Adds
    <2>5. p # v
        BY <2>2, <2>4
    <2>6. \A u \in SUBSET W : u \subseteq t /\ u # t => \A x \in u : g[u] = f[x] + g[u \ {x}]
        BY <2>1
    <2>7. g[t \ {p}] = f[v] + g[(t \ {p}) \ {v}]
        BY <2>1, <2>5, <2>6
    <2>8. g[t \ {v}] = f[p] + g[(t \ {v}) \ {p}]
        BY <2>1, <2>5, <2>6
    <2>9. (t \ {p}) \ {v} = (t \ {v}) \ {p}
        OBVIOUS
    <2>10. PICK z \in Nat : z = g[(t \ {p}) \ {v}]
        BY <2>1
    <2>11. f[p] \in Nat /\ f[v] \in Nat
        BY <2>1
    <2>12. g[t] = f[p] + (f[v] + z) /\ g[t \ {v}] = f[p] + z
        BY <2>4, <2>7, <2>8, <2>9, <2>10
    <2> QED
        BY <2>2, <2>11, <2>12
<1> QED
    BY <1>1, <1>2

LEMMA TotalsAre ==
    ASSUME NEW W, IsFiniteSet(W), NEW f \in [W -> Nat]
    PROVE  /\ \A s \in SUBSET W : Totals(f, W)[s] \in Nat
           /\ Totals(f, W)[{}] = 0
           /\ \A s \in SUBSET W : \A w \in s : Totals(f, W)[s] = f[w] + Totals(f, W)[s \ {w}]
<1>1. Totals(f, W) \in [SUBSET W -> Nat] /\ Adds(Totals(f, W), f, W)
    BY TotalsAdd
<1>2. \A s \in SUBSET W : Totals(f, W)[s] \in Nat
    BY <1>1
<1>3. Totals(f, W)[{}] = 0
    BY <1>1 DEF Adds
<1>4. ASSUME NEW s \in SUBSET W, NEW w \in s
      PROVE  Totals(f, W)[s] = f[w] + Totals(f, W)[s \ {w}]
    BY TakeOut
<1> QED
    BY <1>2, <1>3, <1>4

\* What the library's recursion, over the subsets of S, comes to.
Folds(it, f, S) == it = [s \in SUBSET S |-> IF s = {} THEN 0 ELSE f[Pick(s)] + it[Rest(s)]]

LEMMA FoldIsTotal ==
    ASSUME NEW W, IsFiniteSet(W), NEW f \in [W -> Nat], NEW S \in SUBSET W, NEW it, Folds(it, f, S)
    PROVE  it[S] = Totals(f, W)[S]
<1>1. PICK g \in [SUBSET W -> Nat] : g = Totals(f, W) /\ Adds(g, f, W)
    BY TotalsAdd
<1> DEFINE T == {s \in SUBSET S : it[s] # g[s]}
<1>2. ASSUME T # {} PROVE FALSE
    <2>0. T \in SUBSET (SUBSET W)
        OBVIOUS
    <2>1. PICK s \in T : \A t \in T : t \subseteq s => t = s
        <3> HIDE DEF T
        <3> QED BY <1>2, <2>0, LeastSubset
    <2>2. g[s] = IF s = {} THEN 0 ELSE f[Pick(s)] + g[Rest(s)]
        BY <1>1, <2>1 DEF Adds
    <2>3. s # {}
        BY <2>1, <2>2 DEF Folds
    <2>4. Rest(s) \in SUBSET S /\ Rest(s) # s /\ Rest(s) \subseteq s
        BY <2>1, <2>3, PickSmaller
    <2>5. it[Rest(s)] = g[Rest(s)]
        BY <2>1, <2>4
    <2>6. it[s] = f[Pick(s)] + it[Rest(s)]
        BY <2>1, <2>3 DEF Folds
    <2> QED
        BY <2>1, <2>2, <2>3, <2>5, <2>6
<1> QED
    BY <1>1, <1>2

LEMMA FoldExists ==
    ASSUME NEW W, IsFiniteSet(W), NEW f \in [W -> Nat], NEW S \in SUBSET W
    PROVE  \E it : Folds(it, f, S)
<1>1. PICK g \in [SUBSET W -> Nat] : Adds(g, f, W)
    BY TotalsAdd
<1> DEFINE h == [s \in SUBSET S |-> g[s]]
<1>2. Folds(h, f, S)
    <2> SUFFICES ASSUME NEW s \in SUBSET S
                 PROVE  g[s] = IF s = {} THEN 0 ELSE f[Pick(s)] + h[Rest(s)]
        BY DEF Folds
    <2>1. s # {} => Rest(s) \in SUBSET S
        BY DEF Rest
    <2> QED
        BY <1>1, <2>1 DEF Adds
<1> QED
    BY <1>2

----------------------------------------------------------------------------
(* How sums compare *)

\* Summing no less over the same set gives no less.
LEMMA TotalsMonotone ==
    ASSUME NEW W, IsFiniteSet(W), NEW f \in [W -> Nat], NEW h \in [W -> Nat],
           NEW S \in SUBSET W, \A w \in S : f[w] <= h[w]
    PROVE  Totals(f, W)[S] <= Totals(h, W)[S]
<1>1. PICK F \in [SUBSET W -> Nat] : F = Totals(f, W)
    BY TotalsAdd
<1>2. PICK H \in [SUBSET W -> Nat] : H = Totals(h, W)
    BY TotalsAdd
<1> DEFINE T == {s \in SUBSET S : ~(F[s] <= H[s])}
<1>3. ASSUME T # {} PROVE FALSE
    <2>0. T \in SUBSET (SUBSET W)
        OBVIOUS
    <2>1. PICK s \in T : \A t \in T : t \subseteq s => t = s
        <3> HIDE DEF T
        <3> QED BY <1>3, <2>0, LeastSubset
    <2>2. s # {}
        <3>1. F[{}] = 0 /\ H[{}] = 0 /\ 0 <= 0
            BY <1>1, <1>2, TotalsAre
        <3>2. ~(F[s] <= H[s])
            BY <2>1
        <3> QED
            BY <3>1, <3>2
    <2>3. PICK w \in s : TRUE
        BY <2>2
    <2>4. F[s \ {w}] <= H[s \ {w}]
        BY <2>1
    <2>5. F[s] = f[w] + F[s \ {w}] /\ H[s] = h[w] + H[s \ {w}]
        BY <1>1, <1>2, <2>1, TotalsAre
    <2>6. /\ f[w] \in Nat /\ h[w] \in Nat /\ F[s \ {w}] \in Nat /\ H[s \ {w}] \in Nat
          /\ f[w] <= h[w]
        BY <2>1
    <2>7. ~(F[s] <= H[s])
        BY <2>1
    <2> QED
        BY <2>4, <2>5, <2>6, <2>7
<1> QED
    BY <1>1, <1>2, <1>3

LEMMA TotalsAgree ==
    ASSUME NEW W, IsFiniteSet(W), NEW f \in [W -> Nat], NEW h \in [W -> Nat],
           NEW S \in SUBSET W, \A w \in S : f[w] = h[w]
    PROVE  Totals(f, W)[S] = Totals(h, W)[S]
<1>1. Totals(f, W)[S] <= Totals(h, W)[S] /\ Totals(h, W)[S] <= Totals(f, W)[S]
    BY TotalsMonotone
<1>2. Totals(f, W)[S] \in Nat /\ Totals(h, W)[S] \in Nat
    BY TotalsAre
<1> QED
    BY <1>1, <1>2

\* Two sets apart from each other add up.
LEMMA TotalsJoin ==
    ASSUME NEW W, IsFiniteSet(W), NEW f \in [W -> Nat], NEW S \in SUBSET W, NEW R \in SUBSET W,
           S \cap R = {}
    PROVE  Totals(f, W)[S \cup R] = Totals(f, W)[S] + Totals(f, W)[R]
<1>1. PICK F \in [SUBSET W -> Nat] : F = Totals(f, W)
    BY TotalsAdd
<1> DEFINE T == {s \in SUBSET S : F[s \cup R] # F[s] + F[R]}
<1>2. ASSUME T # {} PROVE FALSE
    <2>0. T \in SUBSET (SUBSET W)
        OBVIOUS
    <2>1. PICK s \in T : \A t \in T : t \subseteq s => t = s
        <3> HIDE DEF T
        <3> QED BY <1>2, <2>0, LeastSubset
    <2>2. s # {}
        <3>1. F[{}] = 0
            BY <1>1, TotalsAre
        <3>2. F[s \cup R] # F[s] + F[R]
            BY <2>1
        <3>3. PICK n \in Nat : n = F[R]
            OBVIOUS
        <3>4. CASE s = {}
            <4>1. s \cup R = R /\ F[s] = 0
                BY <3>1, <3>4
            <4>2. n # 0 + n
                BY <3>2, <3>3, <4>1
            <4> QED
                BY <4>2
        <3> QED
            BY <3>4
    <2>3. PICK w \in s : TRUE
        BY <2>2
    <2>4. F[(s \ {w}) \cup R] = F[s \ {w}] + F[R]
        BY <2>1
    <2>5. (s \cup R) \ {w} = (s \ {w}) \cup R /\ w \in s \cup R /\ s \cup R \in SUBSET W
        BY <2>1
    <2>6. F[s] = f[w] + F[s \ {w}] /\ F[s \cup R] = f[w] + F[(s \ {w}) \cup R]
        <3>1. ASSUME NEW t \in SUBSET W, w \in t PROVE F[t] = f[w] + F[t \ {w}]
            BY <1>1, <3>1, TotalsAre
        <3> QED
            BY <2>1, <2>5, <3>1
    <2>7. f[w] \in Nat /\ F[s \ {w}] \in Nat /\ F[R] \in Nat
        BY <2>1
    <2>8. F[s \cup R] # F[s] + F[R]
        BY <2>1
    <2> QED
        BY <2>4, <2>6, <2>7, <2>8
<1>3. S \in SUBSET S
    OBVIOUS
<1>4. F[S \cup R] = F[S] + F[R]
    BY <1>2, <1>3
<1> QED
    BY <1>1, <1>4

\* Summing over less gives no more.
LEMMA TotalsLess ==
    ASSUME NEW W, IsFiniteSet(W), NEW f \in [W -> Nat], NEW S \in SUBSET W, NEW R \in SUBSET S
    PROVE  Totals(f, W)[R] <= Totals(f, W)[S]
<1>1. PICK D \in SUBSET W : D \cup R = S /\ D \cap R = {} /\ R \in SUBSET W
    <2>1. (S \ R) \cup R = S /\ (S \ R) \cap R = {} /\ S \ R \in SUBSET W
        OBVIOUS
    <2> QED
        BY <2>1
<1>2. Totals(f, W)[D \cup R] = Totals(f, W)[D] + Totals(f, W)[R]
    BY <1>1, TotalsJoin
<1>3. Totals(f, W)[D] \in Nat /\ Totals(f, W)[R] \in Nat
    BY <1>1, TotalsAre
<1>4. Totals(f, W)[S] = Totals(f, W)[D] + Totals(f, W)[R]
    BY <1>1, <1>2
<1> QED
    BY <1>3, <1>4

\* One summand is replaced.
LEMMA TotalsChange ==
    ASSUME NEW W, IsFiniteSet(W), NEW f \in [W -> Nat], NEW h \in [W -> Nat],
           NEW S \in SUBSET W, NEW w \in S, \A v \in S \ {w} : f[v] = h[v]
    PROVE  Totals(h, W)[S] = Totals(f, W)[S] - f[w] + h[w]
<1>1. Totals(f, W)[S] = f[w] + Totals(f, W)[S \ {w}]
    BY TotalsAre
<1>2. Totals(h, W)[S] = h[w] + Totals(h, W)[S \ {w}]
    BY TotalsAre
<1>3. Totals(f, W)[S \ {w}] = Totals(h, W)[S \ {w}]
    BY TotalsAgree
<1>4. Totals(f, W)[S \ {w}] \in Nat /\ f[w] \in Nat /\ h[w] \in Nat
    BY TotalsAre
<1> QED
    BY <1>1, <1>2, <1>3, <1>4
\* Nothing adds up to nothing.
LEMMA TotalsZero ==
    ASSUME NEW W, IsFiniteSet(W), NEW f \in [W -> Nat], NEW S \in SUBSET W, \A w \in S : f[w] = 0
    PROVE  Totals(f, W)[S] = 0
<1>1. PICK F \in [SUBSET W -> Nat] : F = Totals(f, W)
    BY TotalsAdd
<1> DEFINE T == {s \in SUBSET S : F[s] # 0}
<1>2. ASSUME T # {} PROVE FALSE
    <2>0. T \in SUBSET (SUBSET W)
        OBVIOUS
    <2>1. PICK s \in T : \A t \in T : t \subseteq s => t = s
        <3> HIDE DEF T
        <3> QED BY <1>2, <2>0, LeastSubset
    <2>2. PICK w \in s : TRUE
        BY <1>1, <2>1, TotalsAre
    <2>3. F[s \ {w}] = 0 /\ f[w] = 0
        BY <2>1
    <2>4. F[s] = f[w] + F[s \ {w}]
        BY <1>1, <2>1, TotalsAre
    <2> QED
        BY <2>1, <2>3, <2>4
<1> QED
    BY <1>1, <1>2

=============================================================================
