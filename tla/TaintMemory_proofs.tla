------------------------- MODULE TaintMemory_proofs -------------------------
(***************************************************************************)
(* Theorems about TaintMemory, for any tokens, costs and results, any key  *)
(* and any budgets: what the store costs, what making room never takes,    *)
(* and how long a short result and a lone destination are checked.         *)
(***************************************************************************)
EXTENDS TaintMemory, FiniteSetTheorems, SequenceTheorems, WellFoundedInduction,
        TLAPS

-----------------------------------------------------------------------------
(* Induction, over sets of numbers.                                        *)

\* Every non-empty set of naturals has a least element.
LEMMA NatMin ==
    ASSUME NEW T \in SUBSET Nat, T # {}
    PROVE  \E m \in T : \A n \in T : m <= n
<1>1. \E m \in T : \A n \in T : ~(<<n, m>> \in OpToRel(<, Nat))
  BY NatLessThanWellFounded, WFMin, Zenon
<1>2. \A m, n \in Nat : n < m => <<n, m>> \in OpToRel(<, Nat)
  BY Zenon DEF OpToRel
<1>3. PICK m \in T : \A n \in T : ~(<<n, m>> \in OpToRel(<, Nat))
  BY <1>1
<1>4. \A n \in T : ~(n < m)
  BY <1>2, <1>3
<1> QED
  BY <1>4

\* What holds of 0 and is passed on holds of every natural.
LEMMA AllNat ==
    ASSUME NEW T \in SUBSET Nat, 0 \in T, \A n \in T : n + 1 \in T
    PROVE  T = Nat
<1> DEFINE Rest == Nat \ T
<1> SUFFICES ASSUME Rest # {} PROVE FALSE
  OBVIOUS
<1>1. PICK m \in Rest : \A n \in Rest : m <= n
  BY NatMin, Rest \in SUBSET Nat
<1>2. m \in Nat /\ m \notin T /\ m # 0
  BY <1>1
<1>3. m - 1 \in Nat /\ ~(m <= m - 1) /\ (m - 1) + 1 = m
  BY <1>2
<1>4. m - 1 \in T
  BY <1>1, <1>3
<1> QED
  BY <1>2, <1>3, <1>4

LEMMA UpTo ==
    ASSUME NEW N \in Nat, NEW T, 0 \in T,
           \A n \in 1..N : n - 1 \in T => n \in T
    PROVE  0..N \subseteq T
<1> DEFINE U == {n \in Nat : n <= N => n \in T}
<1>1. ASSUME NEW n \in U PROVE n + 1 \in U
  <2>1. n \in Nat /\ n + 1 \in Nat /\ (n + 1) - 1 = n
    OBVIOUS
  <2>2. n + 1 <= N => n \in T /\ n + 1 \in 1..N
    BY <2>1
  <2> QED
    BY <2>1, <2>2
<1>2. 0 \in U
  OBVIOUS
<1>3. U = Nat
  <2>1. U \in SUBSET Nat
    OBVIOUS
  <2> HIDE DEF U
  <2> QED
    BY <1>1, <1>2, <2>1, AllNat
<1> QED
  BY <1>3

LEMMA DownFrom ==
    ASSUME NEW N \in Nat, NEW T, N + 1 \in T,
           \A n \in 1..N : n + 1 \in T => n \in T
    PROVE  1..(N + 1) \subseteq T
<1> DEFINE U == {k \in 0..N : N + 1 - k \in T}
<1>1. \A k \in 1..N : k - 1 \in U => k \in U
  <2> SUFFICES ASSUME NEW k \in 1..N, k - 1 \in U PROVE k \in U
    OBVIOUS
  <2>1. N + 1 - k \in 1..N /\ (N + 1 - k) + 1 = N + 1 - (k - 1)
    OBVIOUS
  <2>2. N + 1 - (k - 1) \in T
    OBVIOUS
  <2> QED
    BY <2>1, <2>2
<1>2. 0 \in U
  OBVIOUS
<1>3. 0..N \subseteq U
  <2> HIDE DEF U
  <2> QED
    BY <1>1, <1>2, UpTo
<1> SUFFICES ASSUME NEW n \in 1..(N + 1) PROVE n \in T
  OBVIOUS
<1>4. N + 1 - n \in 0..N /\ N + 1 - (N + 1 - n) = n
  OBVIOUS
<1> QED
  BY <1>3, <1>4

\* A function given by its first value and how each follows from the one
\* before exists.
StepsOf(N, X, base, step) ==
    {f \in [0..N -> X] :
        f[0] = base /\ \A i \in 1..N : f[i] = step[<<f[i - 1], i>>]}

IsStep(N, X, step) == step \in [X \X (1..N) -> X]

LEMMA Stepwise ==
    ASSUME NEW N \in Nat, NEW X, NEW base \in X, NEW step, IsStep(N, X, step)
    PROVE  StepsOf(N, X, base, step) # {}
<1> DEFINE Is(f, m) == f[0] = base /\ \A i \in 1..m : f[i] = step[<<f[i - 1], i>>]
           T == {m \in 0..N : \E f \in [0..m -> X] : Is(f, m)}
<1> USE DEF IsStep
<1>1. 0 \in T
  <2>1. [i \in 0..0 |-> base] \in [0..0 -> X]
    OBVIOUS
  <2>2. Is([i \in 0..0 |-> base], 0)
    OBVIOUS
  <2> HIDE DEF Is
  <2>3. \E f \in [0..0 -> X] : Is(f, 0)
    BY <2>1, <2>2
  <2> QED
    BY <2>3
<1>2. ASSUME NEW m \in 1..N, m - 1 \in T PROVE m \in T
  <2>1. PICK f \in [0..(m - 1) -> X] : Is(f, m - 1)
    BY <1>2
  <2>2. m - 1 \in 0..(m - 1) /\ 0 \in 0..(m - 1) /\ 0 # m
    OBVIOUS
  <2> DEFINE g == [i \in 0..m |-> IF i = m THEN step[<<f[m - 1], m>>] ELSE f[i]]
  <2>3. step[<<f[m - 1], m>>] \in X
    BY <2>1, <2>2
  <2>4. g \in [0..m -> X]
    <3> SUFFICES ASSUME NEW i \in 0..m, i # m PROVE f[i] \in X
      BY <2>3
    <3>1. i \in 0..(m - 1)
      OBVIOUS
    <3> QED
      BY <2>1, <3>1
  <2>5. \A i \in 1..m : g[i] = step[<<g[i - 1], i>>]
    <3> SUFFICES ASSUME NEW i \in 1..m PROVE g[i] = step[<<g[i - 1], i>>]
      OBVIOUS
    <3>1. i - 1 \in 0..m /\ i - 1 # m /\ i \in 0..m
      OBVIOUS
    <3>2. g[i - 1] = f[i - 1]
      BY <3>1
    <3>3. i # m => i \in 1..(m - 1)
      OBVIOUS
    <3> QED
      BY <2>1, <3>1, <3>2, <3>3
  <2>6. g[0] = base
    BY <2>1, <2>2
  <2> HIDE DEF g
  <2>7. Is(g, m)
    BY <2>5, <2>6
  <2> QED
    BY <2>4, <2>7
<1>3. 0..N \subseteq T
  <2> HIDE DEF T
  <2> QED
    BY <1>1, <1>2, UpTo
<1>4. N \in T
  <2> HIDE DEF T
  <2> QED
    BY <1>3
<1> QED
  BY <1>4 DEF StepsOf

-----------------------------------------------------------------------------
(* Sums over finite sets.                                                  *)

Chosen(S) == CHOOSE x \in S : TRUE

\* The function that SumFunctionOnSet(f, S) reads at S.
IsTotal(it, f, S) ==
    it = [s \in SUBSET S |-> IF s = {} THEN 0
                             ELSE f[Chosen(s)] + it[s \ {Chosen(s)}]]

Total(f, S) == CHOOSE it : IsTotal(it, f, S)

LEMMA SumIsTotal ==
    ASSUME NEW f, NEW S
    PROVE  SumFunctionOnSet(f, S) = Total(f, S)[S]
BY DEF SumFunctionOnSet, FoldFunctionOnSet, MapThenFoldSet, Total, IsTotal, Chosen

LEMMA TotalExists ==
    ASSUME NEW D, NEW f \in [D -> Nat], NEW S \in SUBSET D, IsFiniteSet(S)
    PROVE  /\ IsTotal(Total(f, S), f, S)
           /\ Total(f, S) \in [SUBSET S -> Nat]
<1> DEFINE N == Cardinality(S)
           X == [SUBSET S -> Nat]
           base == [s \in SUBSET S |-> 0]
           Next1(h) == [s \in SUBSET S |-> IF s = {} THEN 0
                                           ELSE f[Chosen(s)] + h[s \ {Chosen(s)}]]
           step == [p \in X \X (1..N) |-> Next1(p[1])]
<1>1. N \in Nat
  BY FS_CardinalityType
<1>2. \A s \in SUBSET S : s # {} => /\ Chosen(s) \in s
                                    /\ s \ {Chosen(s)} \in SUBSET S
                                    /\ f[Chosen(s)] \in Nat
  BY DEF Chosen
<1>3. \A h \in X : Next1(h) \in X
  <2> SUFFICES ASSUME NEW h \in X, NEW s \in SUBSET S, s # {}
               PROVE  f[Chosen(s)] + h[s \ {Chosen(s)}] \in Nat
    OBVIOUS
  <2>1. h[s \ {Chosen(s)}] \in Nat /\ f[Chosen(s)] \in Nat
    BY <1>2
  <2> QED
    BY <2>1
<1>4. step \in [X \X (1..N) -> X]
  <2> HIDE DEF X, Next1
  <2> QED
    BY <1>3
<1>5. base \in X
  OBVIOUS
<1>6. PICK g \in [0..N -> X] :
          g[0] = base /\ \A i \in 1..N : g[i] = step[<<g[i - 1], i>>]
  <2> HIDE DEF X, step, base, N, Next1
  <2>1. IsStep(N, X, step)
    BY <1>4 DEF IsStep
  <2>2. StepsOf(N, X, base, step) # {}
    BY <1>1, <1>5, <2>1, Stepwise
  <2> QED
    BY <2>2 DEF StepsOf
<1>7. \A i \in 1..N : g[i - 1] \in X /\ g[i] = Next1(g[i - 1])
  <2> SUFFICES ASSUME NEW i \in 1..N
               PROVE  g[i - 1] \in X /\ g[i] = Next1(g[i - 1])
    OBVIOUS
  <2>1. i - 1 \in 0..N
    BY <1>1
  <2>2. g[i - 1] \in X
    BY <1>6, <2>1
  <2> HIDE DEF X, Next1
  <2> QED
    BY <1>6, <2>2
<1>8. \A s \in SUBSET S : IsFiniteSet(s) /\ Cardinality(s) \in 0..N
  <2> SUFFICES ASSUME NEW s \in SUBSET S
               PROVE  IsFiniteSet(s) /\ Cardinality(s) \in 0..N
    OBVIOUS
  <2>1. IsFiniteSet(s) /\ Cardinality(s) <= N
    BY FS_Subset
  <2>2. Cardinality(s) \in Nat
    BY <2>1, FS_CardinalityType
  <2> QED
    BY <1>1, <2>1, <2>2
<1> DEFINE it == [s \in SUBSET S |-> g[Cardinality(s)][s]]
<1>9. it \in [SUBSET S -> Nat]
  BY <1>6, <1>8
<1>10. \A s \in SUBSET S : it[s] = IF s = {} THEN 0
                                   ELSE f[Chosen(s)] + it[s \ {Chosen(s)}]
  <2> SUFFICES ASSUME NEW s \in SUBSET S
               PROVE  it[s] = IF s = {} THEN 0
                              ELSE f[Chosen(s)] + it[s \ {Chosen(s)}]
    OBVIOUS
  <2>1. CASE s = {}
    BY <1>6, <2>1, FS_EmptySet
  <2>2. CASE s # {}
    <3>1. Chosen(s) \in s /\ s \ {Chosen(s)} \in SUBSET S
      BY <1>2, <2>2
    <3>2. Cardinality(s \ {Chosen(s)}) = Cardinality(s) - 1
      BY <1>8, <3>1, FS_RemoveElement
    <3>3. Cardinality(s) \in 1..N
      <4>1. Cardinality(s) # 0
        BY <1>8, <2>2, FS_EmptySet
      <4> QED
        BY <1>8, <4>1
    <3>4. it[s] = g[Cardinality(s)][s]
      OBVIOUS
    <3>5. it[s \ {Chosen(s)}] = g[Cardinality(s) - 1][s \ {Chosen(s)}]
      BY <3>1, <3>2
    <3>6. g[Cardinality(s)] = Next1(g[Cardinality(s) - 1])
      <4> HIDE DEF Next1, X
      <4> QED
        BY <1>7, <3>3
    <3>7. g[Cardinality(s)][s] = f[Chosen(s)] + g[Cardinality(s) - 1][s \ {Chosen(s)}]
      BY <2>2, <3>6
    <3> HIDE DEF it
    <3> QED
      BY <2>2, <3>4, <3>5, <3>7
  <2> QED
    BY <2>1, <2>2
<1>11. \E i : IsTotal(i, f, S)
  <2>1. it = [s \in SUBSET S |-> it[s]]
    OBVIOUS
  <2> HIDE DEF it
  <2>2. IsTotal(it, f, S)
    BY <1>10, <2>1 DEF IsTotal
  <2> QED
    BY <2>2
<1>12. IsTotal(Total(f, S), f, S)
  BY <1>11 DEF Total
<1> DEFINE to == Total(f, S)
<1> HIDE DEF to
<1>13. /\ DOMAIN to = SUBSET S
       /\ \A s \in SUBSET S : to[s] = IF s = {} THEN 0
                                      ELSE f[Chosen(s)] + to[s \ {Chosen(s)}]
  BY <1>12 DEF IsTotal, to
<1>14. to = [s \in SUBSET S |-> to[s]]
  BY <1>12 DEF IsTotal, to
<1> DEFINE T == {n \in 0..N : \A s \in SUBSET S : Cardinality(s) = n => to[s] \in Nat}
<1>15. 0 \in T
  <2>1. \A s \in SUBSET S : Cardinality(s) = 0 => s = {}
    BY <1>8, FS_EmptySet
  <2>2. \A s \in SUBSET S : Cardinality(s) = 0 => to[s] \in Nat
    <3> SUFFICES ASSUME NEW s \in SUBSET S, Cardinality(s) = 0 PROVE to[s] \in Nat
      OBVIOUS
    <3>1. s = {}
      BY <2>1
    <3>2. to[s] = 0
      BY <1>13, <3>1
    <3> QED
      BY <3>2
  <2>3. 0 \in 0..N
    BY <1>1
  <2> QED
    BY <2>2, <2>3
<1>16. ASSUME NEW n \in 1..N, n - 1 \in T PROVE n \in T
  <2> SUFFICES ASSUME NEW s \in SUBSET S, Cardinality(s) = n PROVE to[s] \in Nat
    OBVIOUS
  <2>1. s # {}
    <3>1. Cardinality({}) = 0 /\ n # 0
      BY <1>1, FS_EmptySet
    <3> QED
      BY <3>1
  <2>2. Chosen(s) \in s /\ s \ {Chosen(s)} \in SUBSET S /\ f[Chosen(s)] \in Nat
    BY <1>2, <2>1
  <2>3. Cardinality(s \ {Chosen(s)}) = n - 1
    BY <1>8, <2>2, FS_RemoveElement
  <2>4. to[s \ {Chosen(s)}] \in Nat
    BY <1>16, <2>2, <2>3
  <2> QED
    BY <1>13, <2>1, <2>2, <2>4
<1>17. 0..N \subseteq T
  <2> HIDE DEF T
  <2> QED
    BY <1>1, <1>15, <1>16, UpTo
<1>18. \A s \in SUBSET S : to[s] \in Nat
  <2> SUFFICES ASSUME NEW s \in SUBSET S PROVE to[s] \in Nat
    OBVIOUS
  <2>1. Cardinality(s) \in T
    <3> HIDE DEF T
    <3> QED
      BY <1>8, <1>17
  <2> QED
    BY <2>1
<1>19. to \in [SUBSET S -> Nat]
  BY <1>14, <1>18
<1> QED
  BY <1>12, <1>19 DEF to

\* A subset's total is the same in every set it is a subset of.
LEMMA TotalsAgree ==
    ASSUME NEW D, NEW f \in [D -> Nat], NEW S \in SUBSET D, IsFiniteSet(S),
           NEW R \in SUBSET S
    PROVE  Total(f, S)[R] = Total(f, R)[R]
<1> DEFINE N == Cardinality(S)
           Agree(U, s) == Total(f, U)[s] = Total(f, s)[s]
           T == {n \in 0..N : \A U \in SUBSET S : \A s \in SUBSET U :
                                  Cardinality(s) = n => Agree(U, s)}
<1>1. N \in Nat
  BY FS_CardinalityType
<1>2. \A s \in SUBSET S : IsFiniteSet(s) /\ Cardinality(s) \in 0..N
  <2> SUFFICES ASSUME NEW s \in SUBSET S
               PROVE  IsFiniteSet(s) /\ Cardinality(s) \in 0..N
    OBVIOUS
  <2>1. IsFiniteSet(s) /\ Cardinality(s) <= N
    BY FS_Subset
  <2>2. Cardinality(s) \in Nat
    BY <2>1, FS_CardinalityType
  <2> QED
    BY <1>1, <2>1, <2>2
<1>3. ASSUME NEW U \in SUBSET S, NEW s \in SUBSET U
      PROVE  Total(f, U)[s] = IF s = {} THEN 0
                              ELSE f[Chosen(s)] + Total(f, U)[s \ {Chosen(s)}]
  <2>1. U \in SUBSET D /\ IsFiniteSet(U)
    BY <1>2
  <2>2. IsTotal(Total(f, U), f, U)
    BY <2>1, TotalExists
  <2> DEFINE to == Total(f, U)
  <2> HIDE DEF to
  <2>3. to = [t \in SUBSET U |-> IF t = {} THEN 0
                                 ELSE f[Chosen(t)] + to[t \ {Chosen(t)}]]
    BY <2>2 DEF IsTotal, to
  <2>4. to[s] = IF s = {} THEN 0 ELSE f[Chosen(s)] + to[s \ {Chosen(s)}]
    BY <2>3
  <2> QED
    BY <2>4 DEF to
<1>4. ASSUME NEW n \in 0..N, n # 0 => n - 1 \in T PROVE n \in T
  <2> SUFFICES ASSUME NEW U \in SUBSET S, NEW s \in SUBSET U, Cardinality(s) = n
               PROVE  Total(f, U)[s] = Total(f, s)[s]
    OBVIOUS
  <2>1. s \in SUBSET S /\ s \in SUBSET s
    OBVIOUS
  <2>2. CASE s = {}
    <3>1. Total(f, U)[s] = 0
      BY <1>3, <2>2
    <3>2. Total(f, s)[s] = 0
      BY <1>3, <2>1, <2>2
    <3> QED
      BY <3>1, <3>2
  <2>3. CASE s # {}
    <3> DEFINE r == s \ {Chosen(s)}
    <3>1. Chosen(s) \in s
      BY <2>3 DEF Chosen
    <3>2. Cardinality(r) = n - 1 /\ n # 0
      <4>1. IsFiniteSet(s) /\ Cardinality(s) # 0
        BY <1>2, <2>1, <2>3, FS_EmptySet
      <4>2. Cardinality(s \ {Chosen(s)}) = Cardinality(s) - 1
        BY <3>1, <4>1, FS_RemoveElement
      <4> QED
        BY <4>1, <4>2
    <3>3. r \in SUBSET U /\ r \in SUBSET s
      OBVIOUS
    <3>4. Total(f, U)[s] = f[Chosen(s)] + Total(f, U)[r]
      BY <1>3, <2>3
    <3>5. Total(f, s)[s] = f[Chosen(s)] + Total(f, s)[r]
      BY <1>3, <2>1, <2>3
    <3> HIDE DEF r
    <3>6. n - 1 \in T
      BY <1>4, <3>2
    <3>7. Total(f, U)[r] = Total(f, r)[r]
      BY <3>2, <3>3, <3>6
    <3>8. Total(f, s)[r] = Total(f, r)[r]
      BY <2>1, <3>2, <3>3, <3>6
    <3> QED
      BY <3>4, <3>5, <3>7, <3>8
  <2> QED
    BY <2>2, <2>3
<1>5. 0..N \subseteq T
  <2> HIDE DEF T
  <2>1. 0 \in T
    BY <1>1, <1>4
  <2>2. \A n \in 1..N : n - 1 \in T => n \in T
    BY <1>1, <1>4
  <2> QED
    BY <1>1, <2>1, <2>2, UpTo
<1>6. Cardinality(R) \in T
  <2> HIDE DEF T
  <2> QED
    BY <1>2, <1>5
<1> QED
  BY <1>6

LEMMA SumIsNat ==
    ASSUME NEW D, NEW f \in [D -> Nat], NEW S \in SUBSET D, IsFiniteSet(S)
    PROVE  SumFunctionOnSet(f, S) \in Nat
<1>1. Total(f, S) \in [SUBSET S -> Nat]
  BY TotalExists
<1>2. Total(f, S)[S] \in Nat
  BY <1>1
<1> QED
  BY <1>2, SumIsTotal

LEMMA SumOfNone ==
    ASSUME NEW D, NEW f \in [D -> Nat]
    PROVE  SumFunctionOnSet(f, {}) = 0
<1> DEFINE to == Total(f, {})
<1>1. IsTotal(to, f, {})
  BY TotalExists, FS_EmptySet
<1> HIDE DEF to
<1>2. to[{}] = 0
  BY <1>1 DEF IsTotal
<1> QED
  BY <1>2, SumIsTotal DEF to

\* The sum of a set is the sum of the rest of it and of any element of it.
LEMMA SumChosen ==
    ASSUME NEW D, NEW f \in [D -> Nat], NEW S \in SUBSET D, IsFiniteSet(S), S # {}
    PROVE  SumFunctionOnSet(f, S) =
               f[Chosen(S)] + SumFunctionOnSet(f, S \ {Chosen(S)})
<1> DEFINE to == Total(f, S)
           R == S \ {Chosen(S)}
<1>1. IsTotal(to, f, S)
  BY TotalExists
<1>2. to[R] = Total(f, R)[R]
  BY TotalsAgree, R \in SUBSET S
<1> HIDE DEF to
<1>3. to[S] = f[Chosen(S)] + to[R]
  BY <1>1 DEF IsTotal
<1> QED
  BY <1>2, <1>3, SumIsTotal DEF to

LEMMA SumRemoves ==
    ASSUME NEW D, NEW f \in [D -> Nat], NEW S \in SUBSET D, IsFiniteSet(S),
           NEW e \in S
    PROVE  SumFunctionOnSet(f, S) = f[e] + SumFunctionOnSet(f, S \ {e})
<1> DEFINE N == Cardinality(S)
           Sum(s) == SumFunctionOnSet(f, s)
           T == {n \in 0..N : \A s \in SUBSET S :
                     Cardinality(s) = n => \A x \in s : Sum(s) = f[x] + Sum(s \ {x})}
<1>1. N \in Nat
  BY FS_CardinalityType
<1>2. \A s \in SUBSET S : /\ s \in SUBSET D /\ IsFiniteSet(s)
                          /\ Cardinality(s) \in 0..N
                          /\ Sum(s) \in Nat
  <2> SUFFICES ASSUME NEW s \in SUBSET S
               PROVE  /\ s \in SUBSET D /\ IsFiniteSet(s)
                      /\ Cardinality(s) \in 0..N
                      /\ Sum(s) \in Nat
    OBVIOUS
  <2>1. s \in SUBSET D /\ IsFiniteSet(s) /\ Cardinality(s) <= N
    BY FS_Subset
  <2>2. Cardinality(s) \in Nat
    BY <2>1, FS_CardinalityType
  <2>3. Sum(s) \in Nat
    BY <2>1, SumIsNat
  <2> QED
    BY <1>1, <2>1, <2>2, <2>3
<1>3. \A s \in SUBSET S : s # {} => /\ Chosen(s) \in s
                                    /\ Sum(s) = f[Chosen(s)] + Sum(s \ {Chosen(s)})
  BY <1>2, SumChosen DEF Chosen
<1> HIDE DEF Sum
<1>4. 0 \in T
  <2> SUFFICES ASSUME NEW s \in SUBSET S, Cardinality(s) = 0 PROVE s = {}
    BY <1>1
  <2> QED
    BY <1>2, FS_EmptySet
<1>5. ASSUME NEW n \in 1..N, n - 1 \in T PROVE n \in T
  <2> SUFFICES ASSUME NEW s \in SUBSET S, Cardinality(s) = n, NEW x \in s
               PROVE  Sum(s) = f[x] + Sum(s \ {x})
    OBVIOUS
  <2> DEFINE c == Chosen(s)
  <2>1. c \in s /\ Sum(s) = f[c] + Sum(s \ {c})
    BY <1>3
  <2> HIDE DEF c
  <2>2. CASE c = x
    BY <2>1, <2>2
  <2>3. CASE c # x
    <3>1. Cardinality(s \ {c}) = n - 1 /\ Cardinality(s \ {x}) = n - 1
      BY <1>2, <2>1, FS_RemoveElement
    <3>2. s \ {c} \in SUBSET S /\ s \ {x} \in SUBSET S
          /\ x \in s \ {c} /\ c \in s \ {x}
      BY <2>1, <2>3
    <3>3. Sum(s \ {c}) = f[x] + Sum((s \ {c}) \ {x})
      BY <1>5, <3>1, <3>2
    <3>4. Sum(s \ {x}) = f[c] + Sum((s \ {x}) \ {c})
      BY <1>5, <3>1, <3>2
    <3>5. (s \ {c}) \ {x} = (s \ {x}) \ {c} /\ (s \ {c}) \ {x} \in SUBSET S
      OBVIOUS
    <3>6. Sum((s \ {c}) \ {x}) \in Nat
      BY <1>2, <3>5
    <3>7. f[x] \in Nat /\ f[c] \in Nat
      BY <2>1
    <3> DEFINE both == Sum((s \ {c}) \ {x})
    <3>8. Sum(s \ {x}) = f[c] + both /\ Sum(s \ {c}) = f[x] + both
      BY <3>3, <3>4, <3>5
    <3> HIDE DEF both
    <3>9. both \in Nat
      BY <3>6 DEF both
    <3>10. Sum(s) = f[c] + (f[x] + both)
      BY <2>1, <3>8
    <3>11. f[c] + (f[x] + both) = f[x] + (f[c] + both)
      BY <3>7, <3>9
    <3> QED
      BY <3>8, <3>10, <3>11
  <2> QED
    BY <2>2, <2>3
<1>6. 0..N \subseteq T
  <2> HIDE DEF T
  <2> QED
    BY <1>1, <1>4, <1>5, UpTo
<1>7. N \in T
  <2> HIDE DEF T
  <2> QED
    BY <1>1, <1>6
<1> QED
  BY <1>7 DEF Sum

\* Disjoint sets add up.
LEMMA SumOfDisjoint ==
    ASSUME NEW D, NEW f \in [D -> Nat],
           NEW S \in SUBSET D, IsFiniteSet(S), NEW R \in SUBSET D, IsFiniteSet(R),
           S \cap R = {}
    PROVE  SumFunctionOnSet(f, R \cup S) = SumFunctionOnSet(f, R) + SumFunctionOnSet(f, S)
<1> DEFINE N == Cardinality(S)
           Sum(s) == SumFunctionOnSet(f, s)
           T == {n \in 0..N : \A s \in SUBSET S :
                     Cardinality(s) = n => Sum(R \cup s) = Sum(R) + Sum(s)}
<1>1. N \in Nat
  BY FS_CardinalityType
<1>2. \A s \in SUBSET S : /\ s \in SUBSET D /\ IsFiniteSet(s)
                          /\ R \cup s \in SUBSET D /\ IsFiniteSet(R \cup s)
                          /\ Cardinality(s) \in 0..N
                          /\ Sum(s) \in Nat
  <2> SUFFICES ASSUME NEW s \in SUBSET S
               PROVE  /\ s \in SUBSET D /\ IsFiniteSet(s)
                      /\ R \cup s \in SUBSET D /\ IsFiniteSet(R \cup s)
                      /\ Cardinality(s) \in 0..N
                      /\ Sum(s) \in Nat
    OBVIOUS
  <2>1. s \in SUBSET D /\ R \cup s \in SUBSET D
    OBVIOUS
  <2>2. IsFiniteSet(s) /\ Cardinality(s) <= N
    BY FS_Subset
  <2>3. Cardinality(s) \in Nat
    BY <2>2, FS_CardinalityType
  <2>4. Sum(s) \in Nat
    BY <2>1, <2>2, SumIsNat
  <2>5. IsFiniteSet(R \cup s)
    BY <2>2, FS_Union
  <2> QED
    BY <1>1, <2>1, <2>2, <2>3, <2>4, <2>5
<1>3. Sum(R) \in Nat /\ Sum({}) = 0
  BY SumIsNat, SumOfNone
<1>4. ASSUME NEW s \in SUBSET S, NEW x \in s
      PROVE  /\ Sum(s) = f[x] + Sum(s \ {x})
             /\ Sum(R \cup s) = f[x] + Sum(R \cup (s \ {x}))
  <2>1. x \in R \cup s /\ (R \cup s) \ {x} = R \cup (s \ {x})
    OBVIOUS
  <2>2. /\ s \in SUBSET D /\ IsFiniteSet(s)
        /\ R \cup s \in SUBSET D /\ IsFiniteSet(R \cup s)
    BY <1>2
  <2>3. SumFunctionOnSet(f, R \cup s) =
            f[x] + SumFunctionOnSet(f, (R \cup s) \ {x})
    BY <2>1, <2>2, SumRemoves
  <2>4. SumFunctionOnSet(f, s) = f[x] + SumFunctionOnSet(f, s \ {x})
    BY <2>2, SumRemoves
  <2> QED
    BY <2>1, <2>3, <2>4
<1> HIDE DEF Sum
<1>5. 0 \in T
  <2> SUFFICES ASSUME NEW s \in SUBSET S, Cardinality(s) = 0
               PROVE  Sum(R \cup s) = Sum(R) + Sum(s)
    BY <1>1
  <2>1. s = {}
    BY <1>2, FS_EmptySet
  <2>2. R \cup s = R
    BY <2>1
  <2> QED
    BY <1>3, <2>1, <2>2
<1>6. ASSUME NEW n \in 1..N, n - 1 \in T PROVE n \in T
  <2> SUFFICES ASSUME NEW s \in SUBSET S, Cardinality(s) = n
               PROVE  Sum(R \cup s) = Sum(R) + Sum(s)
    OBVIOUS
  <2>1. s # {}
    <3>1. Cardinality({}) = 0 /\ n # 0
      BY <1>1, FS_EmptySet
    <3> QED
      BY <3>1
  <2>2. PICK x \in s : TRUE
    BY <2>1
  <2> DEFINE r == s \ {x}
  <2>3. Cardinality(r) = n - 1 /\ r \in SUBSET S
    BY <1>2, FS_RemoveElement
  <2>4. Sum(s) = f[x] + Sum(r) /\ Sum(R \cup s) = f[x] + Sum(R \cup r)
    BY <1>4
  <2> HIDE DEF r
  <2>5. Sum(R \cup r) = Sum(R) + Sum(r)
    BY <1>6, <2>3
  <2>6. f[x] \in Nat /\ Sum(r) \in Nat
    BY <1>2, <2>3
  <2> QED
    BY <1>3, <2>4, <2>5, <2>6
<1>7. 0..N \subseteq T
  <2> HIDE DEF T
  <2> QED
    BY <1>1, <1>5, <1>6, UpTo
<1>8. N \in T
  <2> HIDE DEF T
  <2> QED
    BY <1>1, <1>7
<1> QED
  BY <1>8 DEF Sum

LEMMA SumGrows ==
    ASSUME NEW D, NEW f \in [D -> Nat], NEW R \in SUBSET D, IsFiniteSet(R),
           NEW S \in SUBSET R
    PROVE  /\ SumFunctionOnSet(f, S) \in Nat
           /\ SumFunctionOnSet(f, S) <= SumFunctionOnSet(f, R)
<1> DEFINE Q == R \ S
<1>1. IsFiniteSet(S) /\ IsFiniteSet(Q)
  BY FS_Subset, Q \in SUBSET R
<1>2. S \in SUBSET D /\ Q \in SUBSET D /\ Q \cap S = {} /\ S \cup Q = R
  OBVIOUS
<1> HIDE DEF Q
<1>3. SumFunctionOnSet(f, S \cup Q) = SumFunctionOnSet(f, S) + SumFunctionOnSet(f, Q)
  BY <1>1, <1>2, SumOfDisjoint
<1>4. SumFunctionOnSet(f, S) \in Nat /\ SumFunctionOnSet(f, Q) \in Nat
  BY <1>1, <1>2, SumIsNat
<1>5. SumFunctionOnSet(f, R) = SumFunctionOnSet(f, S) + SumFunctionOnSet(f, Q)
  BY <1>2, <1>3
<1> QED
  BY <1>4, <1>5

LEMMA SumOfUnion ==
    ASSUME NEW D, NEW f \in [D -> Nat],
           NEW S \in SUBSET D, IsFiniteSet(S), NEW R \in SUBSET D, IsFiniteSet(R)
    PROVE  SumFunctionOnSet(f, R \cup S) <= SumFunctionOnSet(f, R) + SumFunctionOnSet(f, S)
<1> DEFINE Q == S \ R
<1>1. IsFiniteSet(Q) /\ Q \in SUBSET S
  BY FS_Subset, Q \in SUBSET S
<1>2. Q \in SUBSET D /\ Q \cap R = {} /\ R \cup Q = R \cup S
  OBVIOUS
<1> HIDE DEF Q
<1>3. SumFunctionOnSet(f, R \cup Q) = SumFunctionOnSet(f, R) + SumFunctionOnSet(f, Q)
  BY <1>1, <1>2, SumOfDisjoint
<1>4. /\ SumFunctionOnSet(f, R) \in Nat /\ SumFunctionOnSet(f, S) \in Nat
      /\ SumFunctionOnSet(f, Q) \in Nat
      /\ SumFunctionOnSet(f, Q) <= SumFunctionOnSet(f, S)
  BY <1>1, <1>2, SumIsNat, SumGrows
<1>5. SumFunctionOnSet(f, R \cup S) = SumFunctionOnSet(f, R) + SumFunctionOnSet(f, Q)
  BY <1>2, <1>3
<1> QED
  BY <1>4, <1>5

\* The costs from a result on, one by one.
LEMMA SumFromNext ==
    ASSUME NEW n \in Nat, NEW C \in [1..n -> Nat]
    PROVE  /\ SumFrom(C, n + 1) = 0
           /\ \A r \in 1..n : SumFrom(C, r) = C[r] + SumFrom(C, r + 1)
           /\ \A r \in 1..(n + 1) : SumFrom(C, r) \in Nat
<1>1. C \in Seq(Nat) /\ Len(C) = n
  OBVIOUS
<1>2. \A r \in 1..(n + 1) : IsFiniteSet(r..n) /\ r..n \in SUBSET (1..n)
  BY FS_Interval
<1>3. (n + 1)..n = {}
  OBVIOUS
<1>4. ASSUME NEW r \in 1..n PROVE SumFrom(C, r) = C[r] + SumFrom(C, r + 1)
  <2>1. r \in r..n /\ (r..n) \ {r} = (r + 1)..n
    OBVIOUS
  <2>2. IsFiniteSet(r..n) /\ r..n \in SUBSET (1..n)
    BY <1>2
  <2>3. SumFunctionOnSet(C, r..n) = C[r] + SumFunctionOnSet(C, (r..n) \ {r})
    BY <2>1, <2>2, SumRemoves
  <2> QED
    BY <1>1, <2>1, <2>3 DEF SumFrom
<1>5. \A r \in 1..(n + 1) : SumFrom(C, r) \in Nat
  BY <1>1, <1>2, SumIsNat DEF SumFrom
<1>6. SumFrom(C, n + 1) = 0
  BY <1>1, <1>3, SumOfNone DEF SumFrom
<1> QED
  BY <1>4, <1>5, <1>6

-----------------------------------------------------------------------------
(* The slots.                                                              *)

LEMMA RangeAppends ==
    ASSUME NEW X, NEW s \in Seq(X), NEW e \in X
    PROVE  /\ Append(s, e) \in Seq(X)
           /\ Range(Append(s, e)) = Range(s) \cup {e}
           /\ IsInjective(s) /\ e \notin Range(s) => IsInjective(Append(s, e))
<1> DEFINE a == Append(s, e)
<1>1. /\ a \in Seq(X) /\ Len(s) \in Nat
      /\ DOMAIN a = 1..(Len(s) + 1) /\ DOMAIN s = 1..Len(s)
      /\ a[Len(s) + 1] = e /\ \A i \in 1..Len(s) : a[i] = s[i]
  BY AppendProperties
<1> HIDE DEF a
<1>2. \A i : i \in DOMAIN a <=> i \in DOMAIN s \/ i = Len(s) + 1
  BY <1>1
<1>3. Len(s) + 1 \notin DOMAIN s
  BY <1>1
<1>4. Range(a) = Range(s) \cup {e}
  BY <1>1, <1>2 DEF Range
<1>5. ASSUME IsInjective(s), e \notin Range(s) PROVE IsInjective(a)
  <2> SUFFICES ASSUME NEW i \in DOMAIN a, NEW j \in DOMAIN a, a[i] = a[j] PROVE i = j
    BY DEF IsInjective
  <2>1. \A k \in DOMAIN s : s[k] # e
    BY <1>5 DEF Range
  <2>2. CASE i \in DOMAIN s /\ j \in DOMAIN s
    BY <1>1, <1>5, <2>2 DEF IsInjective
  <2>3. CASE i \notin DOMAIN s \/ j \notin DOMAIN s
    BY <1>1, <1>2, <2>1, <2>3
  <2> QED
    BY <2>2, <2>3
<1> QED
  BY <1>1, <1>4, <1>5 DEF a

LEMMA RangeConcats ==
    ASSUME NEW X, NEW s \in Seq(X), NEW u \in Seq(X)
    PROVE  /\ s \o u \in Seq(X)
           /\ Range(s \o u) = Range(s) \cup Range(u)
           /\ IsInjective(s) /\ IsInjective(u) /\ Range(s) \cap Range(u) = {}
                  => IsInjective(s \o u)
<1> DEFINE c == s \o u
<1>1. /\ c \in Seq(X) /\ Len(s) \in Nat /\ Len(u) \in Nat
      /\ DOMAIN c = 1..(Len(s) + Len(u))
      /\ DOMAIN s = 1..Len(s) /\ DOMAIN u = 1..Len(u)
      /\ \A i \in 1..(Len(s) + Len(u)) :
             c[i] = IF i <= Len(s) THEN s[i] ELSE u[i - Len(s)]
  BY ConcatProperties
<1> HIDE DEF c
<1>2. \A i \in DOMAIN s : i \in DOMAIN c /\ c[i] = s[i]
  BY <1>1
<1>3. \A i \in DOMAIN u : i + Len(s) \in DOMAIN c /\ c[i + Len(s)] = u[i]
  BY <1>1
<1>4. \A i \in DOMAIN c : \/ i \in DOMAIN s /\ c[i] = s[i]
                          \/ i - Len(s) \in DOMAIN u /\ c[i] = u[i - Len(s)]
  BY <1>1
<1>5. Range(c) = Range(s) \cup Range(u)
  <2>1. Range(c) \subseteq Range(s) \cup Range(u)
    BY <1>4 DEF Range
  <2>2. Range(s) \subseteq Range(c)
    BY <1>2 DEF Range
  <2>3. Range(u) \subseteq Range(c)
    BY <1>3 DEF Range
  <2> QED
    BY <2>1, <2>2, <2>3
<1>6. ASSUME IsInjective(s), IsInjective(u), Range(s) \cap Range(u) = {}
      PROVE  IsInjective(c)
  <2> SUFFICES ASSUME NEW i \in DOMAIN c, NEW j \in DOMAIN c, c[i] = c[j] PROVE i = j
    BY DEF IsInjective
  <2>1. \A k \in DOMAIN s, l \in DOMAIN u : s[k] # u[l]
    BY <1>6 DEF Range
  <2>2. i \in Int /\ j \in Int /\ Len(s) \in Int
    BY <1>1
  <2>3. CASE i \in DOMAIN s /\ c[i] = s[i]
    BY <1>4, <1>6, <2>1, <2>3 DEF IsInjective
  <2>4. CASE i - Len(s) \in DOMAIN u /\ c[i] = u[i - Len(s)]
    <3>1. j - Len(s) \in DOMAIN u /\ c[j] = u[j - Len(s)]
      BY <1>4, <2>1, <2>4
    <3>2. i - Len(s) = j - Len(s)
      BY <1>6, <2>4, <3>1 DEF IsInjective
    <3> QED
      BY <2>2, <3>2
  <2> QED
    BY <1>4, <2>3, <2>4
<1> QED
  BY <1>1, <1>5, <1>6 DEF c

\* Only keeps the tokens of S and nothing else, and repeats none.
LEMMA OnlyKeeps ==
    ASSUME NEW s \in Seq(Tokens), NEW S
    PROVE  /\ Only(s, S) \in Seq(Tokens)
           /\ Range(Only(s, S)) = Range(s) \cap S
           /\ IsInjective(s) => IsInjective(Only(s, S))
<1> DEFINE N == Len(s)
           X == Seq(Tokens)
           Value(f, i) == IF i = 0 THEN <<>>
                          ELSE IF s[i] \in S THEN Append(f[i - 1], s[i])
                          ELSE f[i - 1]
           step == [p \in X \X (1..N) |-> IF s[p[2]] \in S THEN Append(p[1], s[p[2]])
                                          ELSE p[1]]
           kept == CHOOSE f : f = [i \in 0..N |-> Value(f, i)]
<1>1. Only(s, S) = kept[N]
  BY DEF Only
<1>2. N \in Nat /\ DOMAIN s = 1..N /\ \A i \in 1..N : s[i] \in Tokens
  OBVIOUS
<1>3. \E f : f = [i \in 0..N |-> Value(f, i)]
  <2>1. \A q \in X, i \in 1..N : (IF s[i] \in S THEN Append(q, s[i]) ELSE q) \in X
    BY <1>2, AppendProperties
  <2>2. IsStep(N, X, step)
    <3> HIDE DEF X, N
    <3>1. \A p \in X \X (1..N) : p[1] \in X /\ p[2] \in 1..N
      OBVIOUS
    <3> QED
      BY <2>1, <3>1 DEF IsStep
  <2>3. <<>> \in X
    OBVIOUS
  <2>4. StepsOf(N, X, <<>>, step) # {}
    <3> HIDE DEF X, N, step
    <3> QED
      BY <1>2, <2>2, <2>3, Stepwise
  <2> HIDE DEF X, N
  <2>5. PICK f \in [0..N -> X] :
            f[0] = <<>> /\ \A i \in 1..N : f[i] = step[<<f[i - 1], i>>]
    BY <2>4 DEF StepsOf
  <2>6. \A i \in 0..N : f[i] = Value(f, i)
    <3> SUFFICES ASSUME NEW i \in 0..N PROVE f[i] = Value(f, i)
      OBVIOUS
    <3>1. CASE i = 0
      BY <2>5, <3>1
    <3>2. CASE i # 0
      <4>1. i \in 1..N /\ i - 1 \in 0..N
        BY <1>2, <3>2
      <4>2. f[i - 1] \in X
        BY <2>5, <4>1
      <4> QED
        BY <2>5, <3>2, <4>1, <4>2
    <3> QED
      BY <3>1, <3>2
  <2>7. f = [i \in 0..N |-> f[i]]
    BY <2>5
  <2> HIDE DEF Value
  <2>8. f = [i \in 0..N |-> Value(f, i)]
    BY <2>6, <2>7
  <2> QED
    BY <2>8
<1>4. kept = [i \in 0..N |-> Value(kept, i)]
  <2> HIDE DEF Value, N
  <2> QED
    BY <1>3
<1> HIDE DEF kept, N
<1>5. \A i \in 0..N : kept[i] = Value(kept, i)
  <2> HIDE DEF Value
  <2> QED
    BY <1>4
<1>6. kept[0] = <<>>
  BY <1>2, <1>5
<1> DEFINE Good(m) == /\ kept[m] \in Seq(Tokens)
                      /\ Range(kept[m]) = {s[i] : i \in 1..m} \cap S
                      /\ IsInjective(s) => IsInjective(kept[m])
           T == {m \in 0..N : Good(m)}
<1>7. 0 \in T
  <2>1. 0 \in 0..N /\ 1..0 = {}
    BY <1>2
  <2>2. <<>> \in Seq(Tokens) /\ Range(<<>>) = {} /\ IsInjective(<<>>)
    BY DEF Range, IsInjective
  <2> QED
    BY <1>6, <2>1, <2>2
<1>8. ASSUME NEW m \in 1..N, m - 1 \in T PROVE m \in T
  <2> DEFINE b == kept[m - 1]
  <2>1. /\ b \in Seq(Tokens)
        /\ Range(b) = {s[i] : i \in 1..(m - 1)} \cap S
        /\ IsInjective(s) => IsInjective(b)
    BY <1>8
  <2>2. kept[m] = IF s[m] \in S THEN Append(b, s[m]) ELSE b
    BY <1>2, <1>5
  <2> HIDE DEF b
  <2>3. {s[i] : i \in 1..m} = {s[i] : i \in 1..(m - 1)} \cup {s[m]}
    <3>1. \A i : i \in 1..m <=> i \in 1..(m - 1) \/ i = m
      OBVIOUS
    <3> QED
      BY <3>1
  <2>4. s[m] \in Tokens
    BY <1>2
  <2>5. CASE s[m] \in S
    <3>1. IsInjective(s) => s[m] \notin Range(b)
      <4> SUFFICES ASSUME IsInjective(s), NEW i \in 1..(m - 1), s[i] = s[m]
                   PROVE  FALSE
        BY <2>1
      <4>1. i \in 1..N /\ i # m
        BY <1>2
      <4> QED
        BY <1>2, <4>1 DEF IsInjective
    <3>2. /\ kept[m] \in Seq(Tokens)
          /\ Range(kept[m]) = Range(b) \cup {s[m]}
          /\ IsInjective(s) => IsInjective(kept[m])
      <4>1. kept[m] = Append(b, s[m])
        BY <2>2, <2>5
      <4>2. /\ Append(b, s[m]) \in Seq(Tokens)
            /\ Range(Append(b, s[m])) = Range(b) \cup {s[m]}
            /\ IsInjective(b) /\ s[m] \notin Range(b) => IsInjective(Append(b, s[m]))
        BY <2>1, <2>4, RangeAppends
      <4> QED
        BY <2>1, <3>1, <4>1, <4>2
    <3> QED
      BY <2>1, <2>3, <2>5, <3>2
  <2>6. CASE s[m] \notin S
    BY <2>1, <2>2, <2>3, <2>6
  <2> QED
    BY <2>5, <2>6
<1>9. 0..N \subseteq T
  <2> HIDE DEF T
  <2> QED
    BY <1>2, <1>7, <1>8, UpTo
<1>10. N \in T
  <2> HIDE DEF T
  <2> QED
    BY <1>2, <1>9
<1>11. Range(s) = {s[i] : i \in 1..N}
  BY <1>2 DEF Range
<1> QED
  BY <1>1, <1>10, <1>11

-----------------------------------------------------------------------------
(* The sample of a result.                                                 *)

LEMMA CostsAreNat ==
    /\ Cost \in [Tokens -> Nat]
    /\ \A t \in Tokens : Cost[t] \in Nat /\ CostOf({t}) = Cost[t]
    /\ CostOf({}) = 0
<1>1. Cost \in [Tokens -> Nat]
  BY TaintAssumption
<1>2. CostOf({}) = 0
  BY <1>1, SumOfNone DEF CostOf
<1>3. ASSUME NEW t \in Tokens PROVE Cost[t] \in Nat /\ CostOf({t}) = Cost[t]
  <2>1. {t} \in SUBSET Tokens /\ t \in {t} /\ {t} \ {t} = {}
    OBVIOUS
  <2>2. IsFiniteSet({t})
    BY FS_Singleton
  <2>3. SumFunctionOnSet(Cost, {t}) = Cost[t] + SumFunctionOnSet(Cost, {t} \ {t})
    BY <1>1, <2>1, <2>2, SumRemoves
  <2>4. Cost[t] \in Nat
    BY <1>1
  <2> QED
    BY <1>2, <2>1, <2>3, <2>4 DEF CostOf
<1> QED
  BY <1>1, <1>2, <1>3

\* The only destination of a result that fits its part of a share.
IsLone(d, S) ==
    /\ d \in Destinations /\ Cost[d] <= DestinationShare
    /\ S \cap Destinations = {d}

\* A sample is of what the result holds, costs a share at most, and has the
\* result's destination if it is the only one.
LEMMA SampleKeeps ==
    ASSUME NEW S \in SUBSET Tokens, NEW key \in Seq(Tokens)
    PROVE  /\ Sample(S, key) \subseteq S
           /\ CostOf(Sample(S, key)) <= Share
           /\ \A d \in Range(key) : IsLone(d, S) => d \in Sample(S, key)
<1> DEFINE draw == key \o key
           N == Len(draw)
           Fits(some, t) ==
               /\ CostOf(some \cup {t}) <= Share
               /\ t \in Destinations =>
                      CostOf((some \cap Destinations) \cup {t}) <= DestinationShare
           Takes(some, i) == /\ draw[i] \in S
                             /\ draw[i] \in Destinations <=> i <= Len(key)
                             /\ Fits(some, draw[i])
           Value(f, i) == IF i = 0 THEN {}
                          ELSE IF Takes(f[i - 1], i) THEN f[i - 1] \cup {draw[i]}
                          ELSE f[i - 1]
           X == SUBSET S
           step == [p \in X \X (1..N) |-> IF Takes(p[1], p[2]) THEN p[1] \cup {draw[p[2]]}
                                          ELSE p[1]]
           taken == CHOOSE f : f = [i \in 0..N |-> Value(f, i)]
<1>1. Sample(S, key) = taken[N]
  BY DEF Sample
<1>2. /\ N \in Nat /\ Len(key) \in 0..N
      /\ \A i \in 1..Len(key) : draw[i] = key[i]
      /\ DOMAIN key = 1..Len(key)
  BY ConcatProperties
<1> HIDE DEF draw, N
<1>3. \E f : f = [i \in 0..N |-> Value(f, i)]
  <2>1. IsStep(N, X, step)
    <3> HIDE DEF Fits
    <3> QED
      BY DEF IsStep
  <2>2. {} \in X
    OBVIOUS
  <2>3. StepsOf(N, X, {}, step) # {}
    <3> HIDE DEF X, step
    <3> QED
      BY <1>2, <2>1, <2>2, Stepwise
  <2> HIDE DEF X, Takes
  <2>4. PICK f \in [0..N -> X] :
            f[0] = {} /\ \A i \in 1..N : f[i] = step[<<f[i - 1], i>>]
    BY <2>3 DEF StepsOf
  <2>5. \A i \in 0..N : f[i] = Value(f, i)
    <3> SUFFICES ASSUME NEW i \in 0..N PROVE f[i] = Value(f, i)
      OBVIOUS
    <3>1. CASE i = 0
      BY <2>4, <3>1
    <3>2. CASE i # 0
      <4>1. i \in 1..N /\ i - 1 \in 0..N
        BY <1>2, <3>2
      <4>2. f[i - 1] \in X
        BY <2>4, <4>1
      <4> QED
        BY <2>4, <3>2, <4>1, <4>2
    <3> QED
      BY <3>1, <3>2
  <2>6. f = [i \in 0..N |-> f[i]]
    BY <2>4
  <2> HIDE DEF Value
  <2>7. f = [i \in 0..N |-> Value(f, i)]
    BY <2>5, <2>6
  <2> QED
    BY <2>7
<1>4. taken = [i \in 0..N |-> Value(taken, i)]
  <2> HIDE DEF Value
  <2> QED
    BY <1>3
<1> HIDE DEF taken
<1>5. \A i \in 0..N : taken[i] = Value(taken, i)
  <2> HIDE DEF Value
  <2> QED
    BY <1>4
<1>6. /\ taken[0] = {}
      /\ \A m \in 1..N : taken[m] = IF Takes(taken[m - 1], m)
                                    THEN taken[m - 1] \cup {draw[m]} ELSE taken[m - 1]
  <2> HIDE DEF Takes
  <2>1. 0 \in 0..N /\ \A m \in 1..N : m \in 0..N /\ m # 0
    BY <1>2
  <2>2. taken[0] = {}
    BY <1>5, <2>1
  <2>3. ASSUME NEW m \in 1..N
        PROVE  taken[m] = IF Takes(taken[m - 1], m)
                          THEN taken[m - 1] \cup {draw[m]} ELSE taken[m - 1]
    BY <1>5, <2>1
  <2> QED
    BY <2>2, <2>3
<1> DEFINE Good(m) ==
               /\ taken[m] \subseteq S /\ CostOf(taken[m]) <= Share
               /\ \A d \in Tokens : IsLone(d, S) =>
                      /\ m <= Len(key) => taken[m] \subseteq {d}
                      /\ \A i \in 1..Len(key) :
                             i <= m /\ key[i] = d => d \in taken[m]
           T == {m \in 0..N : Good(m)}
<1>7. 0 \in T
  <2>1. CostOf(taken[0]) <= Share
    BY <1>6, CostsAreNat, TaintAssumption
  <2>2. 0 \in 0..N /\ \A i \in 1..Len(key) : ~(i <= 0)
    BY <1>2
  <2> QED
    BY <1>6, <2>1, <2>2
<1>8. ASSUME NEW m \in 1..N, m - 1 \in T PROVE m \in T
  <2> DEFINE b == taken[m - 1]
             t == draw[m]
  <2>1. Good(m - 1)
    BY <1>8
  <2>2. taken[m] = IF Takes(b, m) THEN b \cup {t} ELSE b
    <3> HIDE DEF Takes
    <3> QED
      BY <1>6
  <2>3. Takes(b, m) => /\ t \in S /\ CostOf(b \cup {t}) <= Share
                       /\ m <= Len(key) => t \in Destinations
    OBVIOUS
  <2>4. taken[m] \subseteq S /\ CostOf(taken[m]) <= Share
    <3> HIDE DEF Takes, t
    <3> QED
      BY <2>1, <2>2, <2>3
  <2>5. ASSUME NEW d \in Tokens, IsLone(d, S)
        PROVE  /\ m <= Len(key) => taken[m] \subseteq {d}
               /\ \A i \in 1..Len(key) : i <= m /\ key[i] = d => d \in taken[m]
    <3>1. m <= Len(key) => b \subseteq {d}
      BY <1>2, <2>1, <2>5
    <3>2. m <= Len(key) /\ Takes(b, m) => t = d
      <4> HIDE DEF Takes, t
      <4> QED
        BY <2>3, <2>5 DEF IsLone
    <3>3. m <= Len(key) => taken[m] \subseteq {d}
      <4> HIDE DEF Takes, t, b
      <4> QED
        BY <2>2, <3>1, <3>2
    <3>4. ASSUME NEW i \in 1..Len(key), i <= m, key[i] = d PROVE d \in taken[m]
      <4>1. CASE i = m
        <5>1. t = d /\ m <= Len(key)
          BY <1>2, <3>4, <4>1
        <5>2. b \cup {d} = {d} /\ (b \cap Destinations) \cup {d} = {d}
          <6> HIDE DEF b
          <6> QED
            BY <3>1, <5>1
        <5>3. d \in S /\ d \in Destinations
          BY <2>5 DEF IsLone
        <5>4. CostOf({d}) <= Share /\ CostOf({d}) <= DestinationShare
          <6>1. CostOf({d}) = Cost[d] /\ Cost[d] \in Nat /\ Cost[d] <= DestinationShare
            BY <2>5, CostsAreNat DEF IsLone
          <6>2. DestinationShare \in Nat /\ Share \in Nat /\ DestinationShare <= Share
            BY TaintAssumption
          <6> QED
            BY <6>1, <6>2
        <5>5. Takes(b, m)
          <6> HIDE DEF b
          <6> QED
            BY <5>1, <5>2, <5>3, <5>4
        <5> HIDE DEF Takes
        <5> QED
          BY <2>2, <5>1, <5>5
      <4>2. CASE i # m
        <5>1. i <= m - 1 /\ m - 1 \in Nat
          BY <3>4, <4>2
        <5>2. d \in b
          BY <2>1, <2>5, <3>4, <5>1
        <5> HIDE DEF Takes, b
        <5> QED
          BY <2>2, <5>2
      <4> QED
        BY <4>1, <4>2
    <3> QED
      BY <3>3, <3>4
  <2> QED
    BY <2>4, <2>5
<1>9. 0..N \subseteq T
  <2> HIDE DEF T
  <2> QED
    BY <1>2, <1>7, <1>8, UpTo
<1>10. Good(N)
  <2>1. N \in T
    <3> HIDE DEF T
    <3> QED
      BY <1>2, <1>9
  <2> QED
    BY <2>1
<1>11. ASSUME NEW d \in Range(key), IsLone(d, S) PROVE d \in taken[N]
  <2>1. PICK i \in 1..Len(key) : key[i] = d
    BY <1>2 DEF Range
  <2>2. d \in Tokens /\ i <= N
    BY <1>2, <2>1
  <2> QED
    BY <1>10, <1>11, <2>1, <2>2
<1> QED
  BY <1>1, <1>10, <1>11

-----------------------------------------------------------------------------
(* Making room: which results are kept, and what they cost.                *)

\* Costs are kept from the newest on while they fit a limit: what is kept fits.
LEMMA SuffixFits ==
    ASSUME NEW n \in Nat, NEW C \in [1..n -> Nat], NEW limit \in Nat,
           NEW A \in [1..n -> Nat],
           \A r \in 1..n : A[r] = IF SumFrom(C, r) <= limit THEN C[r] ELSE 0
    PROVE  SumFrom(A, 1) <= limit
<1> DEFINE P(r) == /\ SumFrom(A, r) <= limit
                   /\ SumFrom(C, r) <= limit => SumFrom(A, r) = SumFrom(C, r)
           T == {r \in 1..(n + 1) : P(r)}
<1>1. /\ SumFrom(A, n + 1) = 0 /\ SumFrom(C, n + 1) = 0
      /\ \A r \in 1..n : /\ SumFrom(A, r) = A[r] + SumFrom(A, r + 1)
                         /\ SumFrom(C, r) = C[r] + SumFrom(C, r + 1)
                         /\ SumFrom(A, r + 1) \in Nat /\ SumFrom(C, r + 1) \in Nat
  <2>1. \A r \in 1..n : r + 1 \in 1..(n + 1)
    OBVIOUS
  <2> QED
    BY <2>1, SumFromNext
<1>2. n + 1 \in T
  BY <1>1
<1>3. ASSUME NEW r \in 1..n, r + 1 \in T PROVE r \in T
  <2> DEFINE a == SumFrom(A, r + 1)
             c == SumFrom(C, r + 1)
  <2>1. /\ a \in Nat /\ c \in Nat /\ C[r] \in Nat /\ A[r] \in Nat
        /\ SumFrom(A, r) = A[r] + a /\ SumFrom(C, r) = C[r] + c
    BY <1>1
  <2>2. a <= limit /\ (c <= limit => a = c)
    BY <1>3
  <2>3. A[r] = IF SumFrom(C, r) <= limit THEN C[r] ELSE 0
    OBVIOUS
  <2> HIDE DEF a, c
  <2>4. CASE SumFrom(C, r) <= limit
    <3>1. c <= limit
      BY <2>1, <2>4
    <3>2. A[r] = C[r] /\ a = c
      BY <2>2, <2>3, <2>4, <3>1
    <3>3. SumFrom(A, r) = SumFrom(C, r)
      BY <2>1, <3>2
    <3> QED
      BY <2>4, <3>3
  <2>5. CASE ~(SumFrom(C, r) <= limit)
    <3>1. A[r] = 0
      BY <2>3, <2>5
    <3>2. SumFrom(A, r) = a
      BY <2>1, <3>1
    <3> QED
      BY <2>2, <2>5, <3>2
  <2> QED
    BY <2>4, <2>5
<1>4. 1..(n + 1) \subseteq T
  <2> HIDE DEF T
  <2> QED
    BY <1>2, <1>3, DownFrom
<1>5. 1 \in T
  <2> HIDE DEF T
  <2> QED
    BY <1>4
<1> QED
  BY <1>5

\* The share each result is charged in the older part of the store.
SharesOf(C) == [r \in DOMAIN C |-> IF r \in RecentResults(C) THEN 0
                                   ELSE IF C[r] < Share THEN C[r] ELSE Share]

LEMMA SharesAre ==
    ASSUME NEW n \in Nat, NEW C \in [1..n -> Nat]
    PROVE  /\ SharesOf(C) \in [1..n -> Nat]
           /\ RecentResults(C) = {r \in 1..n : SumFrom(C, r) <= Recent}
           /\ OlderResults(C) = {r \in 1..n \ RecentResults(C) :
                                     SumFrom(SharesOf(C), r) <= Older}
           /\ \A r \in 1..n : SharesOf(C)[r] <= Share
<1>1. DOMAIN C = 1..n /\ \A r \in 1..n : C[r] \in Nat
  OBVIOUS
<1>2. Share \in Nat
  BY TaintAssumption
<1>3. RecentResults(C) = {r \in 1..n : SumFrom(C, r) <= Recent}
  BY <1>1 DEF RecentResults
<1>4. OlderResults(C) = {r \in 1..n \ RecentResults(C) :
                             SumFrom(SharesOf(C), r) <= Older}
  BY <1>1 DEF OlderResults, SharesOf
<1>5. SharesOf(C) \in [1..n -> Nat] /\ \A r \in 1..n : SharesOf(C)[r] <= Share
  BY <1>1, <1>2 DEF SharesOf
<1> QED
  BY <1>3, <1>4, <1>5

\* The newest result is kept whole if it fits at all, and so a result within
\* the flood before it is kept, whole or as a sample.
LEMMA FloodIsOutlasted ==
    ASSUME NEW n \in Nat, NEW C \in [1..n -> Nat], n > 0, C[n] <= Recent
    PROVE  /\ n \in RecentResults(C)
           /\ \A r \in 1..n : n - r <= Flood => r \in RecentResults(C) \cup OlderResults(C)
<1> DEFINE S == SharesOf(C)
<1>1. /\ S \in [1..n -> Nat]
      /\ RecentResults(C) = {r \in 1..n : SumFrom(C, r) <= Recent}
      /\ OlderResults(C) = {r \in 1..n \ RecentResults(C) : SumFrom(S, r) <= Older}
      /\ \A r \in 1..n : S[r] <= Share
  BY SharesAre
<1>2. Share \in Nat \ {0} /\ Older \in Nat
  BY TaintAssumption
<1>3. n \in RecentResults(C)
  <2>1. SumFrom(C, n) = C[n] + 0
    BY SumFromNext, n \in 1..n
  <2> QED
    BY <1>1, <2>1
<1>4. S[n] = 0
  BY <1>3 DEF SharesOf
<1> HIDE DEF S
<1>5. /\ SumFrom(S, n + 1) = 0
      /\ \A r \in 1..n : SumFrom(S, r) = S[r] + SumFrom(S, r + 1)
      /\ \A r \in 1..(n + 1) : SumFrom(S, r) \in Nat
  BY <1>1, SumFromNext
<1> DEFINE T == {r \in 1..(n + 1) : r <= n => SumFrom(S, r) <= Share * (n - r)}
<1>6. n + 1 \in T
  OBVIOUS
<1>7. ASSUME NEW r \in 1..n, r + 1 \in T PROVE r \in T
  <2>1. SumFrom(S, r) = S[r] + SumFrom(S, r + 1) /\ SumFrom(S, r + 1) \in Nat
    BY <1>5, r + 1 \in 1..(n + 1)
  <2>2. CASE r = n
    <3>1. SumFrom(S, r) = 0 /\ Share * (n - r) = 0
      BY <1>2, <1>4, <1>5, <2>1, <2>2
    <3> QED
      BY <3>1
  <2>3. CASE r # n
    <3>1. SumFrom(S, r + 1) <= Share * (n - (r + 1))
      BY <1>7, <2>3
    <3>2. S[r] \in Nat /\ S[r] <= Share
      BY <1>1
    <3>3. \A a, b \in Nat : a * (b + 1) = a * b + a
      OBVIOUS
    <3>4. n - (r + 1) \in Nat /\ n - r = (n - (r + 1)) + 1
      BY <2>3
    <3>5. Share * (n - r) = Share * (n - (r + 1)) + Share
      BY <1>2, <3>3, <3>4
    <3>6. Share * (n - (r + 1)) \in Nat
      BY <1>2, <3>4
    <3> DEFINE e == Share * (n - (r + 1))
               s == SumFrom(S, r + 1)
    <3>7. s <= e /\ e \in Nat /\ s \in Nat /\ Share * (n - r) = e + Share
          /\ SumFrom(S, r) = S[r] + s
      BY <2>1, <3>1, <3>5, <3>6
    <3> HIDE DEF e, s
    <3>8. S[r] + s <= e + Share
      BY <1>2, <3>2, <3>7
    <3> QED
      BY <3>7, <3>8
  <2> QED
    BY <2>2, <2>3
<1>8. 1..(n + 1) \subseteq T
  <2> HIDE DEF T
  <2> QED
    BY <1>6, <1>7, DownFrom
<1>9. ASSUME NEW r \in 1..n, n - r <= Flood
      PROVE  r \in RecentResults(C) \cup OlderResults(C)
  <2>1. r \in T
    <3> HIDE DEF T
    <3> QED
      BY <1>8
  <2>2. SumFrom(S, r) <= Share * (n - r)
    BY <2>1
  <2>3. Share * (n - r) <= Older
    <3>1. \A a \in Nat, s \in Nat \ {0}, k \in Nat : k <= a \div s => s * k <= a
      OBVIOUS
    <3> QED
      BY <1>2, <1>9, <3>1, n - r \in Nat DEF Flood
  <2>4. SumFrom(S, r) <= Older
    <3>1. SumFrom(S, r) \in Nat /\ Share * (n - r) \in Nat
      BY <1>2, <1>5, n - r \in Nat
    <3> QED
      BY <1>2, <2>2, <2>3, <3>1
  <2> QED
    BY <1>1, <2>4
<1> QED
  BY <1>3, <1>9

\* What the results hold, and cost, when the tokens are held as h says.
HeldBy(h, r) == {t \in Tokens : h[t] = r}
CostsUpTo(h, n) == [r \in 1..n |-> CostOf(HeldBy(h, r))]

LEMMA CostsAreTyped ==
    ASSUME IsFiniteSet(Tokens), NEW n \in Nat, NEW h
    PROVE  /\ CostsUpTo(h, n) \in [1..n -> Nat]
           /\ \A S \in SUBSET Tokens :
                  /\ IsFiniteSet(S) /\ CostOf(S) \in Nat
                  /\ \A R \in SUBSET S : CostOf(R) <= CostOf(S)
<1>1. \A S \in SUBSET Tokens :
          /\ IsFiniteSet(S) /\ CostOf(S) \in Nat
          /\ \A R \in SUBSET S : CostOf(R) <= CostOf(S)
  <2> SUFFICES ASSUME NEW S \in SUBSET Tokens
               PROVE  /\ IsFiniteSet(S) /\ CostOf(S) \in Nat
                      /\ \A R \in SUBSET S : CostOf(R) <= CostOf(S)
    OBVIOUS
  <2>1. IsFiniteSet(S)
    BY FS_Subset
  <2> QED
    BY <2>1, CostsAreNat, SumGrows DEF CostOf
<1>2. \A r \in 1..n : HeldBy(h, r) \in SUBSET Tokens
  BY DEF HeldBy
<1> QED
  BY <1>1, <1>2 DEF CostsUpTo

\* The tokens a make_room keeps, by the result that holds them.
LEMMA MakeRoomIs ==
    ASSUME NEW n \in Nat, NEW h \in [Tokens -> 0..n], NEW key \in Seq(Tokens)
    PROVE  LET C == CostsUpTo(h, n) IN
           \A t \in Tokens :
              t \in MakeRoom(h, n, key) <=>
                  \/ h[t] \in RecentResults(C)
                  \/ h[t] \in OlderResults(C) /\ C[h[t]] <= Share
                  \/ /\ h[t] \in OlderResults(C) /\ ~(C[h[t]] <= Share)
                     /\ t \in Sample(HeldBy(h, h[t]), key)
<1> DEFINE C == CostsUpTo(h, n)
           whole == RecentResults(C) \cup {r \in OlderResults(C) : C[r] <= Share}
<1>1. MakeRoom(h, n, key) =
          {t \in Tokens : h[t] \in whole}
              \cup UNION {Sample(HeldBy(h, r), key) : r \in OlderResults(C) \ whole}
  BY DEF MakeRoom, CostsUpTo, HeldBy
<1>2. OlderResults(C) \cap RecentResults(C) = {}
  BY DEF OlderResults
<1>3. \A r : \A t \in Sample(HeldBy(h, r), key) : t \in Tokens /\ h[t] = r
  <2> SUFFICES ASSUME NEW r
               PROVE  Sample(HeldBy(h, r), key) \subseteq HeldBy(h, r)
    BY DEF HeldBy
  <2>1. HeldBy(h, r) \in SUBSET Tokens
    BY DEF HeldBy
  <2> QED
    BY <2>1, SampleKeeps
<1>4. ASSUME NEW t \in Tokens
      PROVE  t \in MakeRoom(h, n, key) <=>
                  \/ h[t] \in whole
                  \/ /\ h[t] \in OlderResults(C) \ whole
                     /\ t \in Sample(HeldBy(h, h[t]), key)
  <2> HIDE DEF C, whole
  <2>1. t \in UNION {Sample(HeldBy(h, r), key) : r \in OlderResults(C) \ whole} <=>
            \E r \in OlderResults(C) \ whole : t \in Sample(HeldBy(h, r), key)
    OBVIOUS
  <2>2. \A r : t \in Sample(HeldBy(h, r), key) => h[t] = r
    BY <1>3
  <2> QED
    BY <1>1, <2>1, <2>2
<1> QED
  BY <1>2, <1>4

\* What make_room keeps is held by results, and fits the two budgets.
LEMMA RoomFits ==
    ASSUME IsFiniteSet(Tokens), NEW n \in Nat, NEW h \in [Tokens -> 0..n],
           NEW key \in Seq(Tokens)
    PROVE  /\ \A t \in MakeRoom(h, n, key) : t \in Tokens /\ h[t] \in 1..n
           /\ CostOf(MakeRoom(h, n, key)) <= Recent + Older
<1> DEFINE C == CostsUpTo(h, n)
           S == SharesOf(C)
           A == [r \in 1..n |-> IF SumFrom(C, r) <= Recent THEN C[r] ELSE 0]
           B == [r \in 1..n |-> IF SumFrom(S, r) <= Older THEN S[r] ELSE 0]
           keep == MakeRoom(h, n, key)
           Part(r) == {t \in keep : h[t] = r}
           Later(r) == {t \in keep : h[t] \in r..n}
<1>1. /\ C \in [1..n -> Nat]
      /\ \A Q \in SUBSET Tokens :
                  /\ IsFiniteSet(Q) /\ CostOf(Q) \in Nat
                  /\ \A R \in SUBSET Q : CostOf(R) <= CostOf(Q)
  BY CostsAreTyped
<1>2. /\ S \in [1..n -> Nat]
      /\ RecentResults(C) = {r \in 1..n : SumFrom(C, r) <= Recent}
      /\ OlderResults(C) = {r \in 1..n \ RecentResults(C) : SumFrom(S, r) <= Older}
  <2> HIDE DEF C
  <2> QED
    BY <1>1, SharesAre
<1>3. Recent \in Nat /\ Older \in Nat /\ Share \in Nat
  BY TaintAssumption
<1>4. A \in [1..n -> Nat] /\ SumFrom(A, 1) <= Recent
  <2> HIDE DEF C, S
  <2>1. A \in [1..n -> Nat]
    BY <1>1
  <2>2. \A r \in 1..n : A[r] = IF SumFrom(C, r) <= Recent THEN C[r] ELSE 0
    OBVIOUS
  <2> HIDE DEF A
  <2> QED
    BY <1>1, <1>3, <2>1, <2>2, SuffixFits
<1>5. B \in [1..n -> Nat] /\ SumFrom(B, 1) <= Older
  <2> HIDE DEF C, S
  <2>1. B \in [1..n -> Nat]
    BY <1>2
  <2>2. \A r \in 1..n : B[r] = IF SumFrom(S, r) <= Older THEN S[r] ELSE 0
    OBVIOUS
  <2> HIDE DEF B
  <2> QED
    BY <1>2, <1>3, <2>1, <2>2, SuffixFits
<1>6. keep \subseteq Tokens
  <2>1. \A r : Sample(HeldBy(h, r), key) \subseteq Tokens
    <3> SUFFICES ASSUME NEW r PROVE Sample(HeldBy(h, r), key) \subseteq Tokens
      OBVIOUS
    <3>1. HeldBy(h, r) \in SUBSET Tokens
      BY DEF HeldBy
    <3>2. Sample(HeldBy(h, r), key) \subseteq HeldBy(h, r)
      BY <3>1, SampleKeeps
    <3> QED
      BY <3>1, <3>2
  <2> DEFINE whole == RecentResults(C) \cup {r \in OlderResults(C) : C[r] <= Share}
  <2>2. keep = {t \in Tokens : h[t] \in whole}
            \cup UNION {Sample(HeldBy(h, r), key) : r \in OlderResults(C) \ whole}
    BY DEF MakeRoom, CostsUpTo, HeldBy
  <2> HIDE DEF keep, whole, C
  <2> QED
    BY <2>1, <2>2
<1>7. \A t \in Tokens :
          t \in keep <=>
              \/ h[t] \in RecentResults(C)
              \/ h[t] \in OlderResults(C) /\ C[h[t]] <= Share
              \/ /\ h[t] \in OlderResults(C) /\ ~(C[h[t]] <= Share)
                 /\ t \in Sample(HeldBy(h, h[t]), key)
  BY MakeRoomIs
<1> HIDE DEF keep
<1>8. \A t \in keep : t \in Tokens /\ h[t] \in 1..n
  <2> HIDE DEF C, S
  <2> QED
    BY <1>2, <1>6, <1>7
<1>9. ASSUME NEW r \in 1..n PROVE CostOf(Part(r)) <= A[r] + B[r]
  <2>1. C[r] = CostOf(HeldBy(h, r)) /\ C[r] \in Nat
    BY <1>1 DEF CostsUpTo
  <2>2. HeldBy(h, r) \in SUBSET Tokens /\ Part(r) \in SUBSET HeldBy(h, r)
    BY <1>6 DEF HeldBy
  <2>3. CostOf(Part(r)) \in Nat /\ CostOf(Part(r)) <= C[r]
    <3> HIDE DEF Part, C
    <3>1. Part(r) \in SUBSET Tokens
      BY <2>2
    <3> QED
      BY <1>1, <2>1, <2>2, <3>1
  <2>4. A[r] \in Nat /\ B[r] \in Nat
    <3> HIDE DEF A, B
    <3> QED
      BY <1>4, <1>5
  <2>5. /\ A[r] = IF SumFrom(C, r) <= Recent THEN C[r] ELSE 0
        /\ B[r] = IF SumFrom(S, r) <= Older THEN S[r] ELSE 0
    OBVIOUS
  <2>6. r \notin RecentResults(C) => S[r] = IF C[r] < Share THEN C[r] ELSE Share
    <3>1. r \in DOMAIN C
      BY <1>1
    <3> QED
      BY <3>1 DEF SharesOf
  <2> HIDE DEF A, B, C, S, Part
  <2>7. CASE r \in RecentResults(C)
    <3>1. A[r] = C[r]
      BY <1>2, <2>5, <2>7
    <3> QED
      BY <2>1, <2>3, <2>4, <3>1
  <2>8. CASE r \in OlderResults(C) /\ C[r] <= Share
    <3>1. r \notin RecentResults(C) /\ B[r] = S[r]
      BY <1>2, <2>5, <2>8
    <3>2. B[r] = C[r]
      BY <1>3, <2>1, <2>6, <2>8, <3>1
    <3> QED
      BY <2>1, <2>3, <2>4, <3>2
  <2>9. CASE r \in OlderResults(C) /\ ~(C[r] <= Share)
    <3>1. r \notin RecentResults(C) /\ B[r] = S[r]
      BY <1>2, <2>5, <2>9
    <3>2. B[r] = Share
      BY <1>3, <2>1, <2>6, <2>9, <3>1
    <3>3. Part(r) \subseteq Sample(HeldBy(h, r), key)
      <4> SUFFICES ASSUME NEW t \in keep, h[t] = r
                   PROVE  t \in Sample(HeldBy(h, r), key)
        BY DEF Part
      <4> QED
        BY <1>6, <1>7, <2>9, <3>1
    <3>4. /\ Sample(HeldBy(h, r), key) \in SUBSET Tokens
          /\ CostOf(Sample(HeldBy(h, r), key)) <= Share
      BY <2>2, SampleKeeps
    <3>5. CostOf(Part(r)) <= CostOf(Sample(HeldBy(h, r), key))
          /\ CostOf(Sample(HeldBy(h, r), key)) \in Nat
      BY <1>1, <3>3, <3>4
    <3> QED
      BY <1>3, <2>3, <2>4, <3>2, <3>4, <3>5
  <2>10. CASE r \notin RecentResults(C) /\ r \notin OlderResults(C)
    <3>1. Part(r) = {}
      BY <1>6, <1>7, <2>10 DEF Part
    <3>2. CostOf(Part(r)) = 0
      BY <3>1, CostsAreNat
    <3> QED
      BY <2>4, <3>2
  <2> QED
    BY <2>7, <2>8, <2>9, <2>10
<1> HIDE DEF A, B, C, S
<1>10. /\ SumFrom(A, n + 1) = 0 /\ SumFrom(B, n + 1) = 0
       /\ \A r \in 1..n : /\ SumFrom(A, r) = A[r] + SumFrom(A, r + 1)
                          /\ SumFrom(B, r) = B[r] + SumFrom(B, r + 1)
       /\ \A r \in 1..(n + 1) : SumFrom(A, r) \in Nat /\ SumFrom(B, r) \in Nat
  BY <1>4, <1>5, SumFromNext
<1> DEFINE T == {r \in 1..(n + 1) : CostOf(Later(r)) <= SumFrom(A, r) + SumFrom(B, r)}
<1>11. n + 1 \in T
  <2>1. Later(n + 1) = {}
    <3> SUFFICES ASSUME NEW t \in keep, h[t] \in (n + 1)..n PROVE FALSE
      OBVIOUS
    <3> QED
      OBVIOUS
  <2>2. CostOf(Later(n + 1)) = 0
    BY <2>1, CostsAreNat
  <2> HIDE DEF Later
  <2> QED
    BY <1>10, <2>2
<1>12. ASSUME NEW r \in 1..n, r + 1 \in T PROVE r \in T
  <2>1. Later(r) = Later(r + 1) \cup Part(r)
    <3>1. \A i : i \in r..n <=> i \in (r + 1)..n \/ i = r
      OBVIOUS
    <3> QED
      BY <3>1
  <2>2. Later(r + 1) \in SUBSET Tokens /\ Part(r) \in SUBSET Tokens
    BY <1>6
  <2> HIDE DEF Later, Part
  <2>3. CostOf(Later(r)) <= CostOf(Later(r + 1)) + CostOf(Part(r))
    <3>1. IsFiniteSet(Later(r + 1)) /\ IsFiniteSet(Part(r))
      BY <1>1, <2>2
    <3> QED
      BY <2>1, <2>2, <3>1, CostsAreNat, SumOfUnion DEF CostOf
  <2>4. CostOf(Later(r + 1)) <= SumFrom(A, r + 1) + SumFrom(B, r + 1)
    BY <1>12
  <2>5. CostOf(Later(r)) \in Nat /\ CostOf(Later(r + 1)) \in Nat /\ CostOf(Part(r)) \in Nat
    BY <1>1, <2>1, <2>2
  <2>6. /\ SumFrom(A, r + 1) \in Nat /\ SumFrom(B, r + 1) \in Nat
        /\ SumFrom(A, r) = A[r] + SumFrom(A, r + 1)
        /\ SumFrom(B, r) = B[r] + SumFrom(B, r + 1)
        /\ A[r] \in Nat /\ B[r] \in Nat
    BY <1>4, <1>5, <1>10, r + 1 \in 1..(n + 1)
  <2>7. CostOf(Later(r)) <= SumFrom(A, r) + SumFrom(B, r)
    BY <1>9, <2>3, <2>4, <2>5, <2>6
  <2> QED
    BY <2>7
<1>13. 1..(n + 1) \subseteq T
  <2> HIDE DEF T
  <2> QED
    BY <1>11, <1>12, DownFrom
<1>14. CostOf(Later(1)) <= SumFrom(A, 1) + SumFrom(B, 1)
  <2>1. 1 \in T
    <3> HIDE DEF T
    <3> QED
      BY <1>13
  <2> QED
    BY <2>1
<1>15. Later(1) = keep
  BY <1>8
<1>16. CostOf(keep) <= Recent + Older
  <2>1. CostOf(keep) \in Nat /\ SumFrom(A, 1) \in Nat /\ SumFrom(B, 1) \in Nat
    BY <1>1, <1>6, <1>10, 1 \in 1..(n + 1)
  <2>2. CostOf(keep) <= SumFrom(A, 1) + SumFrom(B, 1)
    BY <1>14, <1>15
  <2> QED
    BY <1>3, <1>4, <1>5, <2>1, <2>2
<1> QED
  BY <1>8, <1>16 DEF keep

-----------------------------------------------------------------------------
(* The inductive invariant.                                                *)

IsShort(i) == CostOf(Said(said[i])) <= Share

\* A kept token is one its holder carried.
Carried == \A t \in Kept : t \in Said(said[holder[t]])

Checked(t, i) == t \in Kept /\ (said[i].content => t \in content)

\* A short result's tokens are held by short results, no older than itself.
ShortHeld ==
    \A i \in 1..results :
        IsShort(i) /\ results - i <= Flood =>
            \A t \in Said(said[i]) :
                Checked(t, i) /\ holder[t] >= i /\ IsShort(holder[t])

\* i was the first to carry the destination t, and no other destination is
\* beside it.
FirstLone(t, i) ==
    /\ t \in Destinations /\ Cost[t] <= DestinationShare
    /\ t \in Said(said[i])
    /\ \A j \in 1..results : t \in Said(said[j]) =>
           i <= j /\ Said(said[j]) \cap Destinations = {t}

LoneHeld ==
    \A t \in Tokens, i \in 1..results :
        FirstLone(t, i) /\ results - i <= Flood => Checked(t, i)

Inv == TypeOK /\ WithinBudget /\ Carried /\ ShortHeld /\ LoneHeld

LEMMA StoreTypes ==
    ASSUME TypeOK, NEW x \in Results
    PROVE  /\ IsFiniteSet(Tokens) /\ results \in Nat
           /\ slots \in Seq(Tokens) /\ Kept \subseteq Tokens
           /\ x.tokens \in Seq(Tokens) /\ IsInjective(x.tokens)
           /\ Said(x) \subseteq Tokens
           /\ CostOf(Said(x)) \in Nat /\ CostOf(Said(x)) <= Recent
           /\ sampleKey \in Seq(Tokens) /\ Range(sampleKey) = Tokens
           /\ Append(said, x) \in Seq(Results)
           /\ Append(said, x)[results + 1] = x
           /\ \A i \in 1..results : Append(said, x)[i] = said[i] /\ said[i] \in Results
<1>1. \A s \in Seq(Tokens) : Range(s) \subseteq Tokens
  BY DEF Range
<1>2. /\ sampleKey \in Seq(Tokens) /\ IsInjective(sampleKey)
      /\ Range(sampleKey) = Tokens
  BY TaintAssumption DEF TypeOK
<1>3. IsFiniteSet(Tokens)
  <2>1. DOMAIN sampleKey = 1..Len(sampleKey) /\ Len(sampleKey) \in Nat
    BY <1>2
  <2>2. IsFiniteSet(1..Len(sampleKey))
    BY <2>1, FS_Interval
  <2>3. sampleKey \in Surjection(1..Len(sampleKey), Tokens)
    BY <1>2, <2>1 DEF Surjection, Range
  <2> QED
    BY <2>2, <2>3, FS_Surjection
<1>4. x.tokens \in Seq(Tokens) /\ IsInjective(x.tokens) /\ CostOf(Said(x)) <= Recent
  BY TaintAssumption
<1>5. Said(x) \subseteq Tokens /\ CostOf(Said(x)) \in Nat
  <2>1. Said(x) \in SUBSET Tokens
    BY <1>1, <1>4 DEF Said
  <2> QED
    BY <1>3, <2>1, CostsAreTyped, 0 \in Nat
<1>6. /\ said \in Seq(Results) /\ Len(said) = results /\ results \in Nat
      /\ slots \in Seq(Tokens)
  BY TaintAssumption DEF TypeOK
<1>7. /\ Append(said, x) \in Seq(Results)
      /\ Append(said, x)[results + 1] = x
      /\ \A i \in 1..results : Append(said, x)[i] = said[i] /\ said[i] \in Results
  BY <1>6, AppendProperties
<1> QED
  BY <1>1, <1>2, <1>3, <1>4, <1>5, <1>6, <1>7 DEF Kept

\* Who holds what once x is recorded: new tokens are the newest's, and so are
\* all of a short result's; a token of a short result is never handed to a
\* long one.
LEMMA HolderAfterIs ==
    ASSUME TypeOK, Carried, NEW x \in Results
    PROVE  LET n == results + 1
               h == HolderAfter(x, n)
           IN /\ h \in [Tokens -> 0..n]
              /\ \A t \in Tokens :
                    /\ h[t] # 0 <=> t \in Kept \cup Said(x)
                    /\ h[t] # 0 => t \in Said(Append(said, x)[h[t]])
                    /\ h[t] = n \/ h[t] = holder[t]
                    /\ t \in Said(x) \ Kept => h[t] = n
                    /\ t \in Said(x) /\ CostOf(Said(x)) <= Share => h[t] = n
                    /\ t \in Kept /\ IsShort(holder[t]) /\ ~(CostOf(Said(x)) <= Share)
                          => h[t] = holder[t]
<1> DEFINE n == results + 1
           h == HolderAfter(x, n)
           again == Said(x) \cap Kept
           handed == {t \in again : HandsOver(t, again, CostOf(Said(x)))}
<1>1. h = [t \in Tokens |-> IF t \in handed \cup (Said(x) \ Kept) THEN n ELSE holder[t]]
  BY DEF HolderAfter
<1>2. /\ IsFiniteSet(Tokens) /\ results \in Nat
      /\ Kept \subseteq Tokens /\ Said(x) \subseteq Tokens
      /\ Append(said, x)[n] = x
      /\ \A i \in 1..results : Append(said, x)[i] = said[i]
  BY StoreTypes
<1>3. /\ holder \in [Tokens -> 0..results]
      /\ \A t \in Tokens : holder[t] # 0 <=> t \in Kept
  BY DEF TypeOK
<1>4. ASSUME NEW t \in Tokens, t \in handed PROVE t \in Said(x) /\ t \in Kept
  BY <1>4
<1>5. ASSUME NEW t \in Tokens, t \in Said(x), t \in Kept, CostOf(Said(x)) <= Share
      PROVE  t \in handed
  BY <1>5 DEF HandsOver
<1>6. ASSUME NEW t \in Tokens, t \in Kept, IsShort(holder[t]), ~(CostOf(Said(x)) <= Share)
      PROVE  t \notin handed
  <2> SUFFICES ASSUME HandsOver(t, again, CostOf(Said(x))) PROVE FALSE
    OBVIOUS
  <2> DEFINE mine == {u \in Kept : holder[u] = holder[t]}
             earlier == {u \in mine \cap again : \E i, j \in DOMAIN slots :
                             i < j /\ slots[i] = u /\ slots[j] = t}
  <2>1. CostOf(mine \ earlier) > Share
    BY <1>6 DEF HandsOver
  <2>2. mine \ earlier \subseteq Said(said[holder[t]])
    <3> SUFFICES ASSUME NEW u \in Kept, holder[u] = holder[t]
                 PROVE  u \in Said(said[holder[t]])
      OBVIOUS
    <3> QED
      BY DEF Carried
  <2>3. Said(said[holder[t]]) \in SUBSET Tokens
    <3>1. holder[t] \in 1..results
      BY <1>2, <1>3, <1>6
    <3>2. said[holder[t]] \in Results
      BY <3>1, StoreTypes
    <3> QED
      BY <3>2, StoreTypes
  <2> HIDE DEF mine, earlier
  <2>4. CostOf(mine \ earlier) \in Nat
        /\ CostOf(mine \ earlier) <= CostOf(Said(said[holder[t]]))
        /\ CostOf(Said(said[holder[t]])) \in Nat
    <3>1. mine \ earlier \in SUBSET Tokens
      BY <2>2, <2>3
    <3> QED
      BY <1>2, <2>2, <2>3, <3>1, CostsAreTyped, 0 \in Nat
  <2>5. Share \in Nat
    BY TaintAssumption
  <2> QED
    BY <1>6, <2>1, <2>4, <2>5 DEF IsShort
<1> HIDE DEF h, handed
<1>7. h \in [Tokens -> 0..n]
  <2>1. n \in 0..n /\ \A i \in 0..results : i \in 0..n
    BY <1>2
  <2> HIDE DEF n
  <2> QED
    BY <1>1, <1>3, <2>1
<1>8. ASSUME NEW t \in Tokens
      PROVE  /\ h[t] # 0 <=> t \in Kept \cup Said(x)
             /\ h[t] # 0 => t \in Said(Append(said, x)[h[t]])
             /\ h[t] = n \/ h[t] = holder[t]
             /\ t \in Said(x) \ Kept => h[t] = n
             /\ t \in Said(x) /\ CostOf(Said(x)) <= Share => h[t] = n
             /\ t \in Kept /\ IsShort(holder[t]) /\ ~(CostOf(Said(x)) <= Share)
                   => h[t] = holder[t]
  <2>1. n # 0 /\ holder[t] \in 0..results
    BY <1>2, <1>3
  <2>2. Append(said, x)[n] = x
    BY <1>2
  <2> HIDE DEF n
  <2>3. CASE t \in handed \cup (Said(x) \ Kept)
    <3>1. h[t] = n /\ t \in Said(x)
      BY <1>1, <1>4, <2>3
    <3>2. t \in Said(Append(said, x)[n])
      BY <2>2, <3>1
    <3> QED
      BY <1>6, <2>1, <2>3, <3>1, <3>2
  <2>4. CASE t \notin handed \cup (Said(x) \ Kept)
    <3>1. h[t] = holder[t]
      BY <1>1, <2>4
    <3>2. t \in Kept => /\ holder[t] \in 1..results
                        /\ t \in Said(Append(said, x)[holder[t]])
      <4> SUFFICES ASSUME t \in Kept
                   PROVE  /\ holder[t] \in 1..results
                          /\ t \in Said(Append(said, x)[holder[t]])
        OBVIOUS
      <4>1. holder[t] \in 1..results
        BY <1>2, <1>3, <2>1
      <4>2. Append(said, x)[holder[t]] = said[holder[t]]
        BY <1>2, <4>1
      <4>3. t \in Said(said[holder[t]])
        BY DEF Carried
      <4> QED
        BY <4>1, <4>2, <4>3
    <3> QED
      BY <1>3, <1>5, <2>4, <3>1, <3>2
  <2> QED
    BY <2>3, <2>4
<1> QED
  BY <1>7, <1>8 DEF h

\* The tokens kept once x is recorded.
KeptAfter(x) ==
    IF CostOf(Kept \cup Said(x)) <= Recent + Older THEN Kept \cup Said(x)
    ELSE MakeRoom(HolderAfter(x, results + 1), results + 1, sampleKey)

\* They fit the budget; among them is all that x brings, and what a result
\* within the flood holds, if it is within a share, and its destination, if it
\* has one and its part of a share is enough.
LEMMA KeptAfterIs ==
    ASSUME TypeOK, Carried, NEW x \in Results
    PROVE  LET n == results + 1
               h == HolderAfter(x, n)
           IN /\ KeptAfter(x) \subseteq Kept \cup Said(x)
              /\ CostOf(KeptAfter(x)) <= Recent + Older
              /\ Said(x) \ Kept \subseteq KeptAfter(x)
              /\ \A t \in Kept \cup Said(x) :
                    /\ n - h[t] <= Flood
                    /\ \/ CostOf(HeldBy(h, h[t])) <= Share
                       \/ IsLone(t, HeldBy(h, h[t]))
                    => t \in KeptAfter(x)
<1> DEFINE n == results + 1
           h == HolderAfter(x, n)
           C == CostsUpTo(h, n)
           K == KeptAfter(x)
<1>1. CASE CostOf(Kept \cup Said(x)) <= Recent + Older
  <2>1. K = Kept \cup Said(x)
    BY <1>1 DEF KeptAfter
  <2> QED
    BY <1>1, <2>1
<1>2. CASE ~(CostOf(Kept \cup Said(x)) <= Recent + Older)
  <2>1. K = MakeRoom(h, n, sampleKey)
    BY <1>2 DEF KeptAfter
  <2>2. /\ IsFiniteSet(Tokens) /\ results \in Nat /\ n \in Nat /\ n > 0 /\ n - n = 0
        /\ Kept \subseteq Tokens /\ Said(x) \subseteq Tokens
        /\ CostOf(Said(x)) \in Nat /\ CostOf(Said(x)) <= Recent
        /\ sampleKey \in Seq(Tokens) /\ Range(sampleKey) = Tokens
        /\ Append(said, x)[n] = x
    <3>1. results \in Nat
      BY StoreTypes
    <3>2. n \in Nat /\ n > 0 /\ n - n = 0
      BY <3>1
    <3> QED
      BY <3>2, StoreTypes
  <2>3. /\ h \in [Tokens -> 0..n]
        /\ \A t \in Tokens :
              /\ h[t] # 0 <=> t \in Kept \cup Said(x)
              /\ h[t] # 0 => t \in Said(Append(said, x)[h[t]])
              /\ t \in Said(x) \ Kept => h[t] = n
    BY HolderAfterIs
  <2>4. Recent \in Nat /\ Older \in Nat /\ Share \in Nat \ {0}
    BY TaintAssumption
  <2> HIDE DEF n, h, K
  <2>5. /\ \A t \in K : t \in Tokens /\ h[t] \in 1..n
        /\ CostOf(K) <= Recent + Older
    BY <2>1, <2>2, <2>3, RoomFits
  <2>6. /\ C \in [1..n -> Nat]
        /\ \A S \in SUBSET Tokens :
               /\ CostOf(S) \in Nat
               /\ \A R \in SUBSET S : CostOf(R) <= CostOf(S)
    BY <2>2, CostsAreTyped
  <2>7. \A r \in 1..n : C[r] = CostOf(HeldBy(h, r))
    BY DEF CostsUpTo
  <2>8. \A t \in Tokens :
          t \in K <=>
              \/ h[t] \in RecentResults(C)
              \/ h[t] \in OlderResults(C) /\ C[h[t]] <= Share
              \/ /\ h[t] \in OlderResults(C) /\ ~(C[h[t]] <= Share)
                 /\ t \in Sample(HeldBy(h, h[t]), sampleKey)
    BY <2>1, <2>2, <2>3, MakeRoomIs
  <2>9. C[n] <= Recent
    <3>1. HeldBy(h, n) \in SUBSET Said(x)
      <4> SUFFICES ASSUME NEW t \in Tokens, h[t] = n PROVE t \in Said(x)
        BY DEF HeldBy
      <4>1. h[t] # 0
        BY <2>2
      <4>2. t \in Said(Append(said, x)[h[t]])
        BY <2>3, <4>1
      <4> QED
        BY <2>2, <4>2
    <3>2. CostOf(HeldBy(h, n)) <= CostOf(Said(x)) /\ CostOf(HeldBy(h, n)) \in Nat
      BY <2>2, <2>6, <3>1
    <3>3. C[n] = CostOf(HeldBy(h, n))
      BY <2>2, <2>7
    <3> QED
      BY <2>2, <2>4, <3>2, <3>3
  <2> HIDE DEF C
  <2>10. /\ n \in RecentResults(C)
         /\ \A r \in 1..n : n - r <= Flood => r \in RecentResults(C) \cup OlderResults(C)
    BY <2>2, <2>6, <2>9, FloodIsOutlasted
  <2>11. K \subseteq Kept \cup Said(x)
    BY <2>2, <2>3, <2>5
  <2>12. Said(x) \ Kept \subseteq K
    BY <2>2, <2>3, <2>8, <2>10
  <2>13. ASSUME NEW t \in Kept \cup Said(x), n - h[t] <= Flood,
                \/ CostOf(HeldBy(h, h[t])) <= Share
                \/ IsLone(t, HeldBy(h, h[t]))
         PROVE  t \in K
    <3>1. t \in Tokens /\ h[t] \in 1..n
      BY <2>2, <2>3
    <3>2. h[t] \in RecentResults(C) \cup OlderResults(C)
      BY <2>10, <2>13, <3>1
    <3>3. CASE CostOf(HeldBy(h, h[t])) <= Share
      BY <2>7, <2>8, <3>1, <3>2, <3>3
    <3>4. CASE IsLone(t, HeldBy(h, h[t]))
      <4>1. HeldBy(h, h[t]) \in SUBSET Tokens /\ t \in Range(sampleKey)
        BY <2>2, <3>1 DEF HeldBy
      <4>2. t \in Sample(HeldBy(h, h[t]), sampleKey)
        BY <2>2, <3>4, <4>1, SampleKeeps
      <4> QED
        BY <2>8, <3>1, <3>2, <4>2
    <3> QED
      BY <2>13, <3>3, <3>4
  <2> QED
    BY <2>5, <2>11, <2>12, <2>13 DEF n, h, K
<1> QED
  BY <1>1, <1>2

\* What recording x does to the store.
LEMMA RecordEffects ==
    ASSUME TypeOK, Carried, NEW x \in Results, record_result(x)
    PROVE  LET n == results + 1
               h == HolderAfter(x, n)
           IN /\ results' = n /\ n \in 1..MaxResults
              /\ said' = Append(said, x) /\ UNCHANGED sampleKey
              /\ slots' \in Seq(Tokens) /\ IsInjective(slots')
              /\ Kept' = KeptAfter(x)
              /\ holder' = [t \in Tokens |-> IF t \in KeptAfter(x) THEN h[t] ELSE 0]
              /\ content' = KeptAfter(x) \cap
                                (content \cup IF x.content THEN Said(x) ELSE {})
<1> DEFINE n == results + 1
           h == HolderAfter(x, n)
           K == KeptAfter(x)
<1>1. /\ results' = n /\ results < MaxResults
      /\ said' = Append(said, x) /\ UNCHANGED sampleKey
      /\ slots' = Only(slots, K) \o Only(x.tokens, K \ Kept)
      /\ holder' = [t \in Tokens |-> IF t \in K THEN h[t] ELSE 0]
      /\ content' = K \cap (content \cup IF x.content THEN Said(x) ELSE {})
  BY DEF record_result, KeptAfter
<1>2. /\ slots \in Seq(Tokens) /\ IsInjective(slots)
      /\ x.tokens \in Seq(Tokens) /\ IsInjective(x.tokens) /\ results \in Nat
  BY StoreTypes DEF TypeOK
<1>3. K \subseteq Kept \cup Said(x)
  BY KeptAfterIs
<1> HIDE DEF n, h, K
<1>4. /\ Only(slots, K) \in Seq(Tokens) /\ IsInjective(Only(slots, K))
      /\ Range(Only(slots, K)) = Kept \cap K
  BY <1>2, OnlyKeeps DEF Kept
<1>5. /\ Only(x.tokens, K \ Kept) \in Seq(Tokens) /\ IsInjective(Only(x.tokens, K \ Kept))
      /\ Range(Only(x.tokens, K \ Kept)) = Said(x) \cap (K \ Kept)
  BY <1>2, OnlyKeeps DEF Said
<1>6. /\ slots' \in Seq(Tokens) /\ IsInjective(slots')
      /\ Range(slots') = (Kept \cap K) \cup (Said(x) \cap (K \ Kept))
  <2>1. Range(Only(slots, K)) \cap Range(Only(x.tokens, K \ Kept)) = {}
    BY <1>4, <1>5
  <2> DEFINE a == Only(slots, K)
             b == Only(x.tokens, K \ Kept)
  <2>2. /\ a \in Seq(Tokens) /\ IsInjective(a) /\ b \in Seq(Tokens) /\ IsInjective(b)
        /\ Range(a) \cap Range(b) = {}
    BY <1>4, <1>5, <2>1
  <2>3. slots' = a \o b
    BY <1>1
  <2>4. Range(a) = Kept \cap K /\ Range(b) = Said(x) \cap (K \ Kept)
    BY <1>4, <1>5
  <2> HIDE DEF a, b
  <2>5. /\ a \o b \in Seq(Tokens)
        /\ Range(a \o b) = Range(a) \cup Range(b)
        /\ IsInjective(a \o b)
    BY <2>2, RangeConcats
  <2> QED
    BY <2>3, <2>4, <2>5
<1>7. Kept' = K
  BY <1>3, <1>6 DEF Kept
<1>8. n \in 1..MaxResults
  BY <1>1, <1>2, TaintAssumption DEF n
<1> QED
  BY <1>1, <1>6, <1>7, <1>8 DEF n, h, K

LEMMA InvInit == Init => Inv
<1> SUFFICES ASSUME Init PROVE Inv
  OBVIOUS
<1>1. /\ slots = <<>> /\ holder = [t \in Tokens |-> 0] /\ content = {}
      /\ results = 0 /\ sampleKey \in Keys /\ said = <<>>
  BY DEF Init
<1>2. Kept = {} /\ IsInjective(slots)
  BY <1>1 DEF Kept, Range, IsInjective
<1>3. TypeOK
  <2>1. 0 \in 0..MaxResults
    BY TaintAssumption
  <2> QED
    BY <1>1, <1>2, <2>1 DEF TypeOK
<1>4. WithinBudget
  BY <1>2, CostsAreNat, TaintAssumption DEF WithinBudget
<1>5. 1..results = {}
  BY <1>1
<1> QED
  BY <1>2, <1>3, <1>4, <1>5 DEF Inv, Carried, ShortHeld, LoneHeld

LEMMA InvStep == Inv /\ [Next]_vars => Inv'
<1> SUFFICES ASSUME Inv, [Next]_vars PROVE Inv'
  OBVIOUS
<1>1. CASE UNCHANGED vars
  BY <1>1 DEF vars, Inv, TypeOK, WithinBudget, Carried, ShortHeld, LoneHeld, Checked,
              IsShort, FirstLone, Kept
<1>2. ASSUME NEW x \in Results, record_result(x) PROVE Inv'
  <2> DEFINE n == results + 1
             h == HolderAfter(x, n)
             K == KeptAfter(x)
             q == Append(said, x)
  <2>1. TypeOK /\ Carried /\ ShortHeld /\ LoneHeld
    BY DEF Inv
  <2>2. /\ results' = n /\ n \in 1..MaxResults
        /\ said' = q /\ sampleKey' = sampleKey
        /\ slots' \in Seq(Tokens) /\ IsInjective(slots')
        /\ Kept' = K
        /\ holder' = [t \in Tokens |-> IF t \in K THEN h[t] ELSE 0]
        /\ content' = K \cap (content \cup IF x.content THEN Said(x) ELSE {})
    BY <1>2, <2>1, RecordEffects
  <2>3. /\ h \in [Tokens -> 0..n]
        /\ \A t \in Tokens :
              /\ h[t] # 0 <=> t \in Kept \cup Said(x)
              /\ h[t] # 0 => t \in Said(q[h[t]])
              /\ h[t] = n \/ h[t] = holder[t]
              /\ t \in Said(x) \ Kept => h[t] = n
              /\ t \in Said(x) /\ CostOf(Said(x)) <= Share => h[t] = n
              /\ t \in Kept /\ IsShort(holder[t]) /\ ~(CostOf(Said(x)) <= Share)
                    => h[t] = holder[t]
    BY <2>1, HolderAfterIs
  <2>4. /\ K \subseteq Kept \cup Said(x)
        /\ CostOf(K) <= Recent + Older
        /\ Said(x) \ Kept \subseteq K
        /\ \A t \in Kept \cup Said(x) :
              /\ n - h[t] <= Flood
              /\ \/ CostOf(HeldBy(h, h[t])) <= Share
                 \/ IsLone(t, HeldBy(h, h[t]))
              => t \in K
    BY <2>1, KeptAfterIs
  <2>5. /\ results \in Nat /\ n \in Nat /\ Flood \in Nat
        /\ Kept \subseteq Tokens /\ Said(x) \subseteq Tokens
        /\ IsFiniteSet(Tokens)
        /\ q \in Seq(Results) /\ q[n] = x
        /\ \A i \in 1..results : q[i] = said[i]
        /\ Share \in Nat
    <3>1. Flood \in Nat /\ Share \in Nat
      BY TaintAssumption DEF Flood
    <3>2. results \in Nat /\ n \in Nat
      BY <2>1, StoreTypes
    <3> QED
      BY <2>1, <3>1, <3>2, StoreTypes
  <2>6. /\ holder \in [Tokens -> 0..results]
        /\ said \in Seq(Results) /\ Len(said) = results
        /\ \A t \in Tokens : holder[t] # 0 <=> t \in Kept
        /\ sampleKey \in Keys
    BY <2>1 DEF TypeOK
  <2>7. Len(q) = n
    BY <2>6, AppendProperties
  <2>8. \A i \in 1..n : i \in 1..results \/ i = n
    BY <2>5
  <2>9. \A t \in K : t \in Tokens /\ holder'[t] = h[t] /\ h[t] \in 1..n
    BY <2>2, <2>3, <2>4, <2>5
  \* What a result holds afterwards, it carried.
  <2>10. \A r \in 1..n : /\ q[r] \in Results /\ HeldBy(h, r) \subseteq Said(q[r])
                         /\ CostOf(Said(q[r])) <= Share => CostOf(HeldBy(h, r)) <= Share
    <3> SUFFICES ASSUME NEW r \in 1..n
                 PROVE  /\ q[r] \in Results /\ HeldBy(h, r) \subseteq Said(q[r])
                        /\ CostOf(Said(q[r])) <= Share => CostOf(HeldBy(h, r)) <= Share
      OBVIOUS
    <3>1. q[r] \in Results
      <4> HIDE DEF q, n
      <4> QED
        BY <2>5, <2>7
    <3>2. HeldBy(h, r) \subseteq Said(q[r])
      <4> SUFFICES ASSUME NEW u \in Tokens, h[u] = r PROVE u \in Said(q[r])
        BY DEF HeldBy
      <4>1. h[u] # 0
        OBVIOUS
      <4> HIDE DEF h, q, n
      <4> QED
        BY <2>3, <4>1
    <3>3. Said(q[r]) \in SUBSET Tokens
      <4> HIDE DEF q
      <4> QED
        BY <2>1, <3>1, StoreTypes
    <3> HIDE DEF h, q, n
    <3>4. /\ CostOf(HeldBy(h, r)) <= CostOf(Said(q[r]))
          /\ CostOf(HeldBy(h, r)) \in Nat /\ CostOf(Said(q[r])) \in Nat
      <4>1. HeldBy(h, r) \in SUBSET Tokens
        BY DEF HeldBy
      <4> QED
        BY <2>5, <3>2, <3>3, <4>1, CostsAreTyped, 0 \in Nat
    <3> QED
      BY <2>5, <3>1, <3>2, <3>4
  <2> HIDE DEF n, h, K, q
  <2>11. TypeOK'
    <3>1. results' \in 0..MaxResults
      BY <2>2
    <3>2. holder' \in [Tokens -> 0..results']
      <4>1. \A t \in Tokens : h[t] \in 0..n /\ 0 \in 0..n
        BY <2>3, <2>5
      <4> QED
        BY <2>2, <4>1
    <3>3. \A t \in Tokens : holder'[t] # 0 <=> t \in Kept'
      BY <2>2, <2>9
    <3>4. content' \subseteq Kept'
      BY <2>2
    <3>5. said' \in Seq(Results) /\ Len(said') = results'
      BY <2>2, <2>5, <2>7
    <3> QED
      BY <2>2, <2>6, <3>1, <3>2, <3>3, <3>4, <3>5 DEF TypeOK
  <2>12. WithinBudget'
    BY <2>2, <2>4 DEF WithinBudget, CostOf
  <2>13. Carried'
    <3> SUFFICES ASSUME NEW t \in Kept' PROVE t \in Said(said'[holder'[t]])
      BY DEF Carried
    <3>1. t \in K
      BY <2>2
    <3>2. holder'[t] = h[t] /\ h[t] # 0 /\ t \in Tokens
      BY <2>9, <3>1
    <3> QED
      BY <2>2, <2>3, <3>2
  <2>14. ShortHeld'
    <3> SUFFICES ASSUME NEW i \in 1..n, CostOf(Said(q[i])) <= Share, n - i <= Flood,
                        NEW t \in Said(q[i])
                 PROVE  /\ t \in K /\ (q[i].content => t \in content')
                        /\ h[t] >= i /\ CostOf(Said(q[h[t]])) <= Share
      <4>1. \A i \in 1..n : \A t \in Said(q[i]) :
                CostOf(Said(q[i])) <= Share /\ n - i <= Flood
                    => /\ t \in K /\ (q[i].content => t \in content')
                       /\ h[t] >= i /\ CostOf(Said(q[h[t]])) <= Share
        OBVIOUS
      <4>2. \A i \in 1..n : \A t \in Said(q[i]) :
                CostOf(Said(q[i])) <= Share /\ n - i <= Flood
                    => /\ t \in K /\ (q[i].content => t \in content')
                       /\ holder'[t] >= i /\ CostOf(Said(q[holder'[t]])) <= Share
        BY <2>9, <4>1
      <4> QED
        BY <2>2, <4>2 DEF ShortHeld, IsShort, Checked, CostOf
    <3>1. q[i] \in Results /\ t \in Tokens
      <4>1. q[i] \in Results
        BY <2>10
      <4> QED
        BY <2>1, <4>1, StoreTypes
    <3>2. /\ h[t] \in 1..n /\ h[t] >= i /\ CostOf(Said(q[h[t]])) <= Share
          /\ t \in Kept \cup Said(x)
          /\ q[i].content => \/ t \in content
                             \/ x.content /\ t \in Said(x)
      <4>1. CASE i = n
        <5>1. t \in Said(x) /\ CostOf(Said(x)) <= Share
          BY <2>5, <4>1
        <5>2. h[t] = n
          BY <2>3, <3>1, <5>1
        <5> QED
          BY <2>2, <2>5, <4>1, <5>1, <5>2
      <4>2. CASE i # n
        <5>1. i \in 1..results /\ q[i] = said[i] /\ results - i <= Flood
          <6>1. i \in 1..results
            BY <2>8, <4>2
          <6> QED
            BY <2>5, <6>1 DEF n
        <5>2. Checked(t, i) /\ holder[t] >= i /\ IsShort(holder[t])
          BY <2>1, <5>1 DEF ShortHeld, IsShort
        <5>3. t \in Kept /\ holder[t] \in 1..results
          BY <2>5, <2>6, <3>1, <5>2 DEF Checked
        <5>4. CASE h[t] = n
          <6>1. holder[t] # n
            BY <2>5, <5>3 DEF n
          <6>2. CostOf(Said(x)) <= Share
            BY <2>3, <3>1, <5>2, <5>3, <5>4, <6>1
          <6> QED
            BY <2>2, <2>5, <5>1, <5>2, <5>3, <5>4, <6>2 DEF Checked
        <5>5. CASE h[t] = holder[t]
          <6>1. h[t] \in 1..n
            BY <2>5, <5>3, <5>5 DEF n
          <6>2. q[h[t]] = said[holder[t]]
            BY <2>5, <5>3, <5>5
          <6> QED
            BY <5>1, <5>2, <5>3, <5>5, <6>1, <6>2 DEF Checked, IsShort
        <5> QED
          BY <2>3, <3>1, <5>4, <5>5
      <4> QED
        BY <4>1, <4>2
    <3>3. t \in K
      <4>1. CostOf(HeldBy(h, h[t])) <= Share
        BY <2>10, <3>2
      <4>2. n - h[t] <= Flood
        BY <2>5, <3>2
      <4> QED
        BY <2>4, <3>2, <4>1, <4>2
    <3> QED
      BY <2>2, <3>2, <3>3
  <2>15. LoneHeld'
    <3> SUFFICES ASSUME NEW t \in Tokens, NEW i \in 1..n, n - i <= Flood,
                        t \in Destinations, Cost[t] <= DestinationShare,
                        t \in Said(q[i]),
                        \A j \in 1..n : t \in Said(q[j]) =>
                            i <= j /\ Said(q[j]) \cap Destinations = {t}
                 PROVE  t \in K /\ (q[i].content => t \in content')
      BY <2>2 DEF LoneHeld, FirstLone, Checked
    <3>1. /\ t \in Kept \cup Said(x)
          /\ t \in Kept => holder[t] \in 1..results /\ t \in Said(q[holder[t]])
      <4>1. t \in Kept => holder[t] \in 1..results /\ t \in Said(said[holder[t]])
        BY <2>1, <2>5, <2>6 DEF Carried
      <4>2. t \in Kept => t \in Said(q[holder[t]])
        BY <2>5, <4>1
      <4>3. CASE i = n
        BY <2>5, <4>1, <4>2, <4>3
      <4>4. CASE i # n
        <5>1. i \in 1..results /\ q[i] = said[i] /\ results - i <= Flood
          <6>1. i \in 1..results
            BY <2>8, <4>4
          <6> QED
            BY <2>5, <6>1 DEF n
        <5>2. FirstLone(t, i)
          <6>1. \A j \in 1..results : j \in 1..n /\ q[j] = said[j]
            BY <2>5 DEF n
          <6> QED
            BY <5>1, <6>1 DEF FirstLone
        <5>3. Checked(t, i)
          BY <2>1, <5>1, <5>2 DEF LoneHeld
        <5> QED
          BY <4>1, <4>2, <5>3 DEF Checked
      <4> QED
        BY <4>3, <4>4
    <3>2. CASE i = n
      <4>1. t \notin Kept
        <5> SUFFICES ASSUME t \in Kept PROVE FALSE
          OBVIOUS
        <5>1. holder[t] \in 1..n /\ ~(i <= holder[t])
          BY <2>5, <3>1, <3>2 DEF n
        <5> QED
          BY <3>1, <5>1
      <4>2. t \in Said(x) /\ t \in K /\ q[i] = x
        BY <2>4, <2>5, <3>1, <3>2, <4>1
      <4> QED
        BY <2>2, <4>2
    <3>3. CASE i # n
      <4>1. i \in 1..results /\ q[i] = said[i] /\ results - i <= Flood
        <5>1. i \in 1..results
          BY <2>8, <3>3
        <5> QED
          BY <2>5, <5>1 DEF n
      <4>2. FirstLone(t, i)
        <5>1. \A j \in 1..results : j \in 1..n /\ q[j] = said[j]
          BY <2>5 DEF n
        <5> QED
          BY <4>1, <5>1 DEF FirstLone
      <4>3. Checked(t, i)
        BY <2>1, <4>1, <4>2 DEF LoneHeld
      <4>4. h[t] \in 1..n /\ t \in Said(q[h[t]])
        <5>1. h[t] # 0 /\ h[t] \in 0..n
          BY <2>3, <3>1
        <5> QED
          BY <2>3, <2>5, <5>1
      <4>5. i <= h[t] /\ Said(q[h[t]]) \cap Destinations = {t}
        BY <4>4
      <4>6. IsLone(t, HeldBy(h, h[t]))
        <5>1. t \in HeldBy(h, h[t]) /\ HeldBy(h, h[t]) \subseteq Said(q[h[t]])
          BY <2>10, <4>4 DEF HeldBy
        <5> QED
          BY <4>5, <5>1 DEF IsLone
      <4>7. n - h[t] <= Flood
        BY <2>5, <4>4, <4>5
      <4>8. t \in K
        BY <2>4, <3>1, <4>6, <4>7
      <4> QED
        BY <2>2, <4>1, <4>3, <4>8 DEF Checked
    <3> QED
      BY <3>2, <3>3
  <2> QED
    BY <2>11, <2>12, <2>13, <2>14, <2>15 DEF Inv
<1> QED
  BY <1>1, <1>2 DEF Next

THEOREM Invariant == Spec => []Inv
BY InvInit, InvStep, PTL DEF Spec

\* Every kept token is held by a result that was recorded, and no slot repeats
\* another.
THEOREM TypeCorrect == Spec => []TypeOK
<1>1. Inv => TypeOK
  BY DEF Inv
<1> QED
  BY <1>1, Invariant, PTL

\* The store never costs more than its two budgets, whatever the results
\* repeat of each other and whichever sample the key draws (make_room).
THEOREM StoreStaysWithinBudget == Spec => []WithinBudget
<1>1. Inv => WithinBudget
  BY DEF Inv
<1> QED
  BY <1>1, Invariant, PTL

\* A short result is checked in full until the newest result and a whole flood
\* of others were recorded after it, long ones that repeat it among them.
THEOREM ShortResultsOutlastAFlood == Spec => []FloodIsLong
<1>1. Inv => FloodIsLong
  <2> SUFFICES ASSUME Inv, NEW i \in 1..results, CostOf(Said(said[i])) <= Share,
                      results - i <= Flood, NEW t \in Said(said[i])
               PROVE  Refused({t}, said[i].content)
    BY DEF FloodIsLong
  <2>1. Checked(t, i)
    BY DEF Inv, ShortHeld, IsShort
  <2> QED
    BY <2>1 DEF Checked, Refused
<1> QED
  BY <1>1, Invariant, PTL

\* The one destination of a page is checked for as long, whatever the page is
\* padded with and whatever sample is drawn.
THEOREM LoneDestinationsOutlastAFlood == Spec => []LoneDestinationStays
<1>1. Inv => LoneDestinationStays
  <2> SUFFICES ASSUME Inv, NEW t \in Destinations, Cost[t] <= DestinationShare,
                      NEW i \in Carriers(t), i = Min(Carriers(t)),
                      \A j \in Carriers(t) : Said(said[j]) \cap Destinations = {t},
                      results - i <= Flood
               PROVE  Refused({t}, said[i].content)
    BY DEF LoneDestinationStays
  <2>1. Carriers(t) \in SUBSET Nat /\ Carriers(t) # {}
    BY DEF Carriers, Inv, TypeOK
  <2>2. \A j \in Carriers(t) : i <= j
    <3>1. \E m \in Carriers(t) : \A j \in Carriers(t) : m <= j
      BY <2>1, NatMin
    <3> QED
      BY <3>1 DEF Min
  <2>3. FirstLone(t, i) /\ i \in 1..results
    BY <2>2 DEF FirstLone, Carriers
  <2>4. Checked(t, i)
    BY <2>3, TaintAssumption DEF Inv, LoneHeld
  <2> QED
    BY <2>4 DEF Checked, Refused
<1> QED
  BY <1>1, Invariant, PTL

\* Making room for a result never starts with what that result brought.
THEOREM NewTokensAreChecked == Spec => NewIsChecked
<1>1. Inv /\ [Next]_vars =>
          [LET x == Last(said')
           IN  Said(x) \ Kept \subseteq IF x.content THEN content' ELSE Kept']_vars
  <2> SUFFICES ASSUME Inv, NEW x \in Results, record_result(x)
               PROVE  /\ Last(said') = x
                      /\ Said(x) \ Kept \subseteq IF x.content THEN content' ELSE Kept'
    BY DEF Next
  <2>1. /\ said' = Append(said, x) /\ Kept' = KeptAfter(x)
        /\ content' = KeptAfter(x) \cap
                          (content \cup IF x.content THEN Said(x) ELSE {})
    BY RecordEffects DEF Inv
  <2>2. Said(x) \ Kept \subseteq KeptAfter(x)
    BY KeptAfterIs DEF Inv
  <2>3. Last(said') = x
    BY <2>1, AppendProperties DEF Last, Inv, TypeOK
  <2> QED
    BY <2>1, <2>2, <2>3
<1> QED
  BY <1>1, Invariant, PTL DEF Spec, NewIsChecked
=============================================================================
