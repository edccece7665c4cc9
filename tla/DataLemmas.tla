----------------------------- MODULE DataLemmas -----------------------------
(***************************************************************************)
(* Facts about natural numbers, finite sets, sums and sequences that the   *)
(* proofs of the components need.  The induction theorems of the library   *)
(* take a predicate; here induction is over the set of the numbers that    *)
(* have the property, which is a formula of first order.                   *)
(***************************************************************************)
EXTENDS Integers, FiniteSetsExt, SequencesExt, FiniteSetTheorems, SequenceTheorems,
        WellFoundedInduction, TLAPS

\* A set with 0 and with the successor of each of its numbers has them all.
LEMMA SetInduction ==
  ASSUME NEW S, 0 \in S, \A n \in Nat : n \in S => n + 1 \in S
  PROVE  Nat \subseteq S
<1>1. SUFFICES ASSUME Nat \ S # {} PROVE FALSE
  OBVIOUS
<1>. DEFINE R == OpToRel(<, Nat)
            B == Nat \ S
<1>2. IsWellFoundedOn(R, Nat)
  BY NatLessThanWellFounded
<1>3. \E m \in B : \A n \in B : ~(<<n, m>> \in R)
  <2>. HIDE DEF R
  <2>1. B \subseteq Nat /\ B # {}
    BY <1>1
  <2>. HIDE DEF B
  <2>. QED BY <1>2, <2>1, WFMin
<1>4. PICK m \in Nat \ S : \A n \in Nat \ S : m <= n
  <2>1. PICK m \in B : \A n \in B : ~(<<n, m>> \in R)
    BY <1>3
  <2>2. \A n \in B : ~(n < m)
    BY <2>1 DEF OpToRel
  <2>. QED BY <2>2
<1>5. m # 0 /\ m - 1 \in Nat
  BY <1>4
<1>6. m - 1 \in S
  BY <1>4, <1>5
<1>. QED BY <1>4, <1>5, <1>6

LEMMA ProductGrows ==
  ASSUME NEW a \in Nat, NEW b \in Nat, a <= b, NEW m \in Nat
  PROVE  a * m \in Nat /\ b * m \in Nat /\ a * m <= b * m
<1>1. b - a \in Nat
  OBVIOUS
<1>2. (b - a) * m \in Nat /\ a * m \in Nat /\ b * m \in Nat
  BY <1>1
<1>3. b * m = a * m + (b - a) * m
  OBVIOUS
<1>. QED  BY <1>2, <1>3

\* The largest element of a finite set of numbers.
LEMMA MaxOfFinite ==
  ASSUME NEW S \in SUBSET Int, IsFiniteSet(S), S # {}
  PROVE  Max(S) \in S /\ \A y \in S : y <= Max(S)
<1>. DEFINE Q == {n \in Nat : \A T \in SUBSET S :
                    Cardinality(T) = n /\ T # {} => \E m \in T : \A y \in T : y <= m}
<1>1. 0 \in Q
  BY FS_EmptySet, FS_Subset
<1>2. ASSUME NEW n \in Nat, n \in Q PROVE n + 1 \in Q
  <2>1. SUFFICES ASSUME NEW T \in SUBSET S, Cardinality(T) = n + 1, T # {}
                 PROVE  \E m \in T : \A y \in T : y <= m
    OBVIOUS
  <2>2. PICK x \in T : TRUE
    BY <2>1
  <2>3. IsFiniteSet(T) /\ Cardinality(T \ {x}) = n /\ T \ {x} \in SUBSET S
    <3>1. IsFiniteSet(T) /\ T \ {x} \in SUBSET S
      BY FS_Subset
    <3>2. IsFiniteSet(T \ {x}) /\ Cardinality(T \ {x}) = Cardinality(T) - 1
      BY <3>1, FS_RemoveElement, Zenon
    <3>. QED  BY <2>1, <3>1, <3>2
  <2>4. CASE T \ {x} = {}
    BY <2>4
  <2>5. CASE T \ {x} # {}
    <3>1. PICK m \in T \ {x} : \A y \in T \ {x} : y <= m
      BY <1>2, <2>3, <2>5
    <3>2. CASE m <= x  BY <3>1, <3>2
    <3>3. CASE x <= m  BY <3>1, <3>3
    <3>. QED  BY <3>2, <3>3
  <2>. QED  BY <2>4, <2>5
<1>. HIDE DEF Q
<1>3. Nat \subseteq Q
  BY <1>1, <1>2, SetInduction
<1>4. Cardinality(S) \in Q
  BY <1>3, FS_CardinalityType
<1>5. \E m \in S : \A y \in S : m >= y
  BY <1>4 DEF Q
<1>. QED  BY <1>5 DEF Max

\* Folding the values of f over the subsets of S is possible, whichever
\* element is taken first.
SumOver(g, S, f, ch) ==
  g = [s \in SUBSET S |-> IF s = {} THEN 0 ELSE f[ch[s]] + g[s \ {ch[s]}]]

LEMMA SumExists ==
  ASSUME NEW S, IsFiniteSet(S), NEW f \in [S -> Nat],
         NEW ch, \A s \in SUBSET S : s # {} => ch[s] \in s
  PROVE  \E g \in [SUBSET S -> Nat] : SumOver(g, S, f, ch)
<1>. DEFINE Small(n) == {s \in SUBSET S : Cardinality(s) <= n}
            Sum(g, n) == \A s \in Small(n) :
                           g[s] = IF s = {} THEN 0 ELSE f[ch[s]] + g[s \ {ch[s]}]
            Q == {n \in Nat : \E g \in [Small(n) -> Nat] : Sum(g, n)}
<1>0. \A s \in SUBSET S : IsFiniteSet(s) /\ Cardinality(s) \in Nat
                          /\ Cardinality(s) <= Cardinality(S)
  BY FS_Subset, FS_CardinalityType
<1>1. 0 \in Q
  <2>1. \A s \in Small(0) : s = {}
    BY <1>0, FS_EmptySet
  <2>2. [s \in Small(0) |-> 0] \in [Small(0) -> Nat] /\ Sum([s \in Small(0) |-> 0], 0)
    BY <2>1
  <2>. QED  BY <2>2
<1>2. ASSUME NEW n \in Nat, n \in Q PROVE n + 1 \in Q
  <2>1. PICK g \in [Small(n) -> Nat] : Sum(g, n)
    BY <1>2
  <2>2. ASSUME NEW s \in Small(n + 1), s # {} PROVE s \ {ch[s]} \in Small(n) /\ ch[s] \in S
    <3>1. s \in SUBSET S /\ IsFiniteSet(s) /\ Cardinality(s) <= n + 1 /\ ch[s] \in s
      BY <1>0, <2>2
    <3>2. Cardinality(s \ {ch[s]}) = Cardinality(s) - 1
      BY <3>1, FS_RemoveElement
    <3>. QED  BY <1>0, <3>1, <3>2
  <2>. DEFINE h == [s \in Small(n + 1) |->
                      IF s = {} THEN 0 ELSE f[ch[s]] + g[s \ {ch[s]}]]
  <2>3. h \in [Small(n + 1) -> Nat]
    <3>. HIDE DEF Small
    <3>. QED  BY <2>1, <2>2
  <2>4. \A s \in Small(n) : s \in Small(n + 1) /\ h[s] = g[s]
    <3>1. \A s \in Small(n) : s \in Small(n + 1)
      BY <1>0
    <3>. HIDE DEF Small
    <3>. QED  BY <2>1, <3>1
  <2>5. Sum(h, n + 1)
    <3>. HIDE DEF Small
    <3>. QED  BY <2>2, <2>4
  <2>. HIDE DEF Small, Sum, h
  <2>. QED  BY <2>3, <2>5
<1>. HIDE DEF Q
<1>3. Nat \subseteq Q
  BY <1>1, <1>2, SetInduction
<1>4. PICK g \in [Small(Cardinality(S)) -> Nat] : Sum(g, Cardinality(S))
  BY <1>0, <1>3, FS_CardinalityType DEF Q
<1>5. Small(Cardinality(S)) = SUBSET S
  BY <1>0
<1>6. g \in [SUBSET S -> Nat] /\ \A s \in SUBSET S :
         g[s] = IF s = {} THEN 0 ELSE f[ch[s]] + g[s \ {ch[s]}]
  BY <1>4, <1>5
<1>7. g = [s \in SUBSET S |-> g[s]]
  BY <1>6
<1>8. [s \in SUBSET S |-> g[s]]
        = [s \in SUBSET S |-> IF s = {} THEN 0 ELSE f[ch[s]] + g[s \ {ch[s]}]]
  BY <1>6, Zenon
<1>9. SumOver(g, S, f, ch)
  BY <1>7, <1>8, Zenon DEF SumOver
<1>. QED  BY <1>6, <1>9

\* ... and determines the sum.
LEMMA SumUnique ==
  ASSUME NEW S, IsFiniteSet(S), NEW f \in [S -> Nat],
         NEW ch, \A s \in SUBSET S : s # {} => ch[s] \in s,
         NEW g, SumOver(g, S, f, ch), NEW h, SumOver(h, S, f, ch)
  PROVE  g = h
<1>. DEFINE Q == {n \in Nat : \A s \in SUBSET S : Cardinality(s) <= n => g[s] = h[s]}
<1>1. \A s \in SUBSET S : IsFiniteSet(s) /\ Cardinality(s) \in Nat
                          /\ Cardinality(s) <= Cardinality(S)
  BY FS_Subset, FS_CardinalityType
<1>2. /\ \A s \in SUBSET S : g[s] = IF s = {} THEN 0 ELSE f[ch[s]] + g[s \ {ch[s]}]
      /\ \A s \in SUBSET S : h[s] = IF s = {} THEN 0 ELSE f[ch[s]] + h[s \ {ch[s]}]
  BY Zenon DEF SumOver
<1>3. 0 \in Q
  BY <1>1, <1>2, FS_EmptySet
<1>4. ASSUME NEW n \in Nat, n \in Q PROVE n + 1 \in Q
  <2>1. SUFFICES ASSUME NEW s \in SUBSET S, Cardinality(s) <= n + 1, s # {}
                 PROVE  g[s] = h[s]
    BY <1>2
  <2>2. ch[s] \in s /\ s \ {ch[s]} \in SUBSET S
    BY <2>1
  <2>3. Cardinality(s \ {ch[s]}) = Cardinality(s) - 1
    BY <1>1, <2>2, FS_RemoveElement
  <2>4. Cardinality(s \ {ch[s]}) <= n
    BY <1>1, <2>1, <2>3
  <2>. QED  BY <1>2, <1>4, <2>1, <2>2, <2>4
<1>. HIDE DEF Q
<1>5. Nat \subseteq Q
  BY <1>3, <1>4, SetInduction
<1>6. Cardinality(S) \in Q
  BY <1>5, FS_CardinalityType
<1>7. \A s \in SUBSET S : g[s] = h[s]
  BY <1>1, <1>6 DEF Q
<1>. QED  BY <1>7, Zenon DEF SumOver

\* The sum of numbers over a finite set is a number.
LEMMA SumIsNatural ==
  ASSUME NEW S, IsFiniteSet(S), NEW f \in [S -> Nat]
  PROVE  MapThenSumSet(LAMBDA e : f[e], S) \in Nat
<1>. DEFINE ch == [s \in SUBSET S |-> CHOOSE x \in s : TRUE]
            Iter(h) == h = [s \in SUBSET S |->
                              IF s = {} THEN 0
                              ELSE f[CHOOSE x \in s : TRUE] + h[s \ {CHOOSE x \in s : TRUE}]]
<1>1. \A s \in SUBSET S : ch[s] = CHOOSE x \in s : TRUE
  OBVIOUS
<1>2. \A s \in SUBSET S : s # {} => ch[s] \in s
  BY <1>1
<1>3. PICK g \in [SUBSET S -> Nat] : SumOver(g, S, f, ch)
  BY <1>2, SumExists
<1>. HIDE DEF ch
<1>4. \A h : Iter(h) <=> SumOver(h, S, f, ch)
  BY <1>1, Zenon DEF SumOver
<1>5. \A h : Iter(h) => h = g
  BY <1>2, <1>3, <1>4, SumUnique, Zenon
<1>6. (CHOOSE h : Iter(h)) = g
  <2>1. Iter(g)
    BY <1>3, <1>4
  <2>. HIDE DEF Iter
  <2>2. Iter(CHOOSE h : Iter(h))
    BY <2>1, Zenon
  <2>. QED  BY <1>5, <2>2
<1>7. (CHOOSE h : Iter(h))[S] \in Nat
  <2>. HIDE DEF Iter
  <2>. QED  BY <1>6
<1>8. MapThenSumSet(LAMBDA e : f[e], S) = (CHOOSE h : Iter(h))[S]
  BY DEF MapThenSumSet, MapThenFoldSet
<1>. QED  BY <1>7, <1>8

Picks(S) == [s \in SUBSET S |-> CHOOSE x \in s : TRUE]

\* SumFunctionOnSet is such a fold.
LEMMA SumFolds ==
  ASSUME NEW S, IsFiniteSet(S), NEW f, \A x \in S : f[x] \in Nat
  PROVE  \E g \in [SUBSET S -> Nat] :
            SumOver(g, S, [x \in S |-> f[x]], Picks(S)) /\ SumFunctionOnSet(f, S) = g[S]
<1>. DEFINE pick(s) == CHOOSE x \in s : TRUE
            w == [x \in S |-> f[x]]
            Iter(h) == h = [s \in SUBSET S |->
                              IF s = {} THEN 0 ELSE f[pick(s)] + h[s \ {pick(s)}]]
<1>1. \A s \in SUBSET S : s # {} => pick(s) \in s
  OBVIOUS
<1>2. \A s \in SUBSET S : Picks(S)[s] = pick(s)
  BY DEF Picks
<1>3. SumFunctionOnSet(f, S) = (CHOOSE h : Iter(h))[S]
  BY DEF SumFunctionOnSet, FoldFunctionOnSet, MapThenFoldSet
<1>4. w \in [S -> Nat] /\ \A x \in S : w[x] = f[x]
  OBVIOUS
<1>. HIDE DEF pick, w
<1>5. PICK g \in [SUBSET S -> Nat] : SumOver(g, S, w, Picks(S))
  <2>1. PICK ch : ch = Picks(S)
    OBVIOUS
  <2>2. \A s \in SUBSET S : s # {} => ch[s] \in s
    BY <1>1, <1>2, <2>1
  <2>3. \E g \in [SUBSET S -> Nat] : SumOver(g, S, w, ch)
    BY <1>4, <2>2, SumExists
  <2>. QED  BY <2>1, <2>3
<1>6. \A h : Iter(h) <=> SumOver(h, S, w, Picks(S))
  <2>. SUFFICES ASSUME NEW h PROVE Iter(h) <=> SumOver(h, S, w, Picks(S))
    OBVIOUS
  <2>1. \A s \in SUBSET S :
          (IF s = {} THEN 0 ELSE f[pick(s)] + h[s \ {pick(s)}])
          = (IF s = {} THEN 0 ELSE w[Picks(S)[s]] + h[s \ {Picks(S)[s]}])
    BY <1>1, <1>2, <1>4
  <2>. QED  BY <2>1, Zenon DEF SumOver
<1>7. \A h : Iter(h) => h = g
  <2>. \A s \in SUBSET S : s # {} => Picks(S)[s] \in s
    BY <1>1, <1>2
  <2>. QED  BY <1>4, <1>5, <1>6, SumUnique, Zenon
<1>8. Iter(g)
  BY <1>5, <1>6
<1>9. (CHOOSE h : Iter(h)) = g
  <2>. HIDE DEF Iter
  <2>1. Iter(CHOOSE h : Iter(h))
    BY <1>8, Zenon
  <2>. QED  BY <1>7, <2>1
<1>10. SumFunctionOnSet(f, S) = g[S]
  <2>. HIDE DEF Iter
  <2>. QED BY <1>3, <1>9
<1>. QED  BY <1>5, <1>10 DEF w

\* ... whose intermediate results are the sums over the subsets.
LEMMA SumOfSubsets ==
  ASSUME NEW S, IsFiniteSet(S), NEW f, \A x \in S : f[x] \in Nat,
         NEW T \in SUBSET S, NEW g, SumOver(g, S, [x \in S |-> f[x]], Picks(S))
  PROVE  SumFunctionOnSet(f, T) = g[T]
<1>. DEFINE w == [x \in S |-> f[x]]
            v == [x \in T |-> f[x]]
            r == [s \in SUBSET T |-> g[s]]
<1>1. IsFiniteSet(T) /\ \A x \in T : f[x] \in Nat
  BY FS_Subset
<1>2. PICK h \in [SUBSET T -> Nat] :
         SumOver(h, T, v, Picks(T)) /\ SumFunctionOnSet(f, T) = h[T]
  BY <1>1, SumFolds
<1>3. /\ \A s \in SUBSET T : s \in SUBSET S /\ s \ {Picks(T)[s]} \in SUBSET T
      /\ \A s \in SUBSET T : s # {} => Picks(T)[s] \in s
      /\ \A s \in SUBSET T : Picks(T)[s] = Picks(S)[s]
  BY DEF Picks
<1>4. /\ \A x \in T : w[x] = v[x]
      /\ \A s \in SUBSET T : r[s] = g[s]
  OBVIOUS
<1>5. v \in [T -> Nat]
  BY <1>1
<1>6. \A s \in SUBSET S : g[s] = IF s = {} THEN 0 ELSE w[Picks(S)[s]] + g[s \ {Picks(S)[s]}]
  BY Zenon DEF SumOver
<1>7. SumOver(r, T, v, Picks(T))
  <2>1. \A s \in SUBSET T : g[s] = IF s = {} THEN 0 ELSE v[Picks(T)[s]] + r[s \ {Picks(T)[s]}]
    <3>. HIDE DEF w, v, r
    <3>. SUFFICES ASSUME NEW s \in SUBSET T
                  PROVE g[s] = IF s = {} THEN 0 ELSE v[Picks(T)[s]] + r[s \ {Picks(T)[s]}]
      OBVIOUS
    <3>1. CASE s = {}  BY <1>6, <3>1
    <3>2. CASE s # {}
      <4>1. g[s] = w[Picks(T)[s]] + g[s \ {Picks(T)[s]}]
        BY <1>3, <1>6, <3>2
      <4>2. w[Picks(T)[s]] = v[Picks(T)[s]] /\ r[s \ {Picks(T)[s]}] = g[s \ {Picks(T)[s]}]
        BY <1>3, <1>4, <3>2
      <4>. QED  BY <3>2, <4>1, <4>2
    <3>. QED  BY <3>1, <3>2
  <2>. QED  BY <2>1, Zenon DEF SumOver
<1>8. r = h
  <2>. HIDE DEF v, r
  <2>. QED  BY <1>1, <1>2, <1>3, <1>5, <1>7, SumUnique, Zenon
<1>9. T \in SUBSET T /\ r[T] = g[T]
  OBVIOUS
<1>. QED  BY <1>2, <1>8, <1>9

LEMMA SumOfNothing ==
  ASSUME NEW f PROVE SumFunctionOnSet(f, {}) = 0
<1>1. PICK g \in [SUBSET {} -> Nat] :
         SumOver(g, {}, [x \in {} |-> f[x]], Picks({})) /\ SumFunctionOnSet(f, {}) = g[{}]
  BY FS_EmptySet, SumFolds
<1>2. \A s \in SUBSET {} : g[s] = IF s = {} THEN 0
                        ELSE [x \in {} |-> f[x]][Picks({})[s]] + g[s \ {Picks({})[s]}]
  BY <1>1, Zenon DEF SumOver
<1>. QED  BY <1>1, <1>2

\* Any element may be taken off first.
LEMMA SumRemove ==
  ASSUME NEW S, IsFiniteSet(S), NEW f, \A x \in S : f[x] \in Nat
  PROVE  /\ SumFunctionOnSet(f, S) \in Nat
         /\ \A x \in S : SumFunctionOnSet(f, S \ {x}) \in Nat
         /\ \A x \in S : SumFunctionOnSet(f, S) = f[x] + SumFunctionOnSet(f, S \ {x})
<1>1. PICK g \in [SUBSET S -> Nat] : SumOver(g, S, [x \in S |-> f[x]], Picks(S))
  BY SumFolds
<1>2. \A T \in SUBSET S : SumFunctionOnSet(f, T) = g[T]
  BY <1>1, SumOfSubsets
<1>3. \A s \in SUBSET S : s # {} => Picks(S)[s] \in s
  BY DEF Picks
<1>4. \A s \in SUBSET S : s # {} => g[s] = f[Picks(S)[s]] + g[s \ {Picks(S)[s]}]
  <2>1. \A s \in SUBSET S : g[s] = IF s = {} THEN 0
                         ELSE [x \in S |-> f[x]][Picks(S)[s]] + g[s \ {Picks(S)[s]}]
    BY <1>1, Zenon DEF SumOver
  <2>. QED  BY <1>3, <2>1
<1>5. \A s \in SUBSET S : IsFiniteSet(s) /\ Cardinality(s) \in Nat
  BY FS_Subset, FS_CardinalityType
<1>. DEFINE Q == {n \in Nat : \A s \in SUBSET S : Cardinality(s) <= n =>
                                  \A x \in s : g[s] = f[x] + g[s \ {x}]}
<1>6. 0 \in Q
  BY <1>5, FS_EmptySet
<1>7. ASSUME NEW n \in Nat, n \in Q PROVE n + 1 \in Q
  <2>1. SUFFICES ASSUME NEW s \in SUBSET S, Cardinality(s) <= n + 1, NEW x \in s
                 PROVE  g[s] = f[x] + g[s \ {x}]
    OBVIOUS
  <2>. DEFINE p == Picks(S)[s]
  <2>2. p \in s /\ g[s] = f[p] + g[s \ {p}]
    BY <1>3, <1>4
  <2>. HIDE DEF p
  <2>3. CASE x = p  BY <2>2, <2>3
  <2>4. CASE x # p
    <3>1. /\ s \ {p} \in SUBSET S /\ s \ {x} \in SUBSET S
          /\ (s \ {p}) \ {x} = (s \ {x}) \ {p} /\ (s \ {x}) \ {p} \in SUBSET S
          /\ x \in s \ {p} /\ p \in s \ {x}
      BY <2>2, <2>4
    <3>2. Cardinality(s \ {p}) = Cardinality(s) - 1 /\ Cardinality(s \ {x}) = Cardinality(s) - 1
      BY <1>5, <2>2, FS_RemoveElement
    <3>3. Cardinality(s \ {p}) <= n /\ Cardinality(s \ {x}) <= n
      BY <1>5, <2>1, <3>2
    <3>4. g[s \ {p}] = f[x] + g[(s \ {p}) \ {x}] /\ g[s \ {x}] = f[p] + g[(s \ {x}) \ {p}]
      BY <1>7, <3>1, <3>3
    <3>5. g[(s \ {x}) \ {p}] \in Nat /\ f[x] \in Nat /\ f[p] \in Nat
      BY <1>1, <2>2, <3>1
    <3>6. g[s \ {p}] = f[x] + g[(s \ {x}) \ {p}]
      BY <3>1, <3>4
    <3>7. g[s] = f[p] + (f[x] + g[(s \ {x}) \ {p}])
      BY <2>2, <3>6
    <3>8. g[s] = f[x] + (f[p] + g[(s \ {x}) \ {p}])
      BY <3>5, <3>7
    <3>. QED  BY <3>4, <3>8
  <2>. QED  BY <2>3, <2>4
<1>. HIDE DEF Q
<1>8. Nat \subseteq Q
  BY <1>6, <1>7, SetInduction
<1>9. Cardinality(S) \in Q /\ Cardinality(S) <= Cardinality(S)
  BY <1>5, <1>8
<1>10. \A x \in S : g[S] = f[x] + g[S \ {x}]
  BY <1>9 DEF Q
<1>11. \A x \in S : S \ {x} \in SUBSET S
  OBVIOUS
<1>. QED  BY <1>1, <1>2, <1>10, <1>11

\* Only the values of the summands matter.
LEMMA SumSame ==
  ASSUME NEW S, IsFiniteSet(S), NEW f, NEW h, \A x \in S : f[x] \in Nat /\ h[x] = f[x]
  PROVE  SumFunctionOnSet(h, S) = SumFunctionOnSet(f, S)
<1>1. PICK g \in [SUBSET S -> Nat] :
        SumOver(g, S, [x \in S |-> f[x]], Picks(S)) /\ SumFunctionOnSet(f, S) = g[S]
  BY SumFolds
<1>2. [x \in S |-> f[x]] = [x \in S |-> h[x]]
  OBVIOUS
<1>3. SumOver(g, S, [x \in S |-> h[x]], Picks(S))
  BY <1>1, <1>2
<1>4. SumFunctionOnSet(h, S) = g[S]
  BY <1>3, SumOfSubsets
<1>. QED  BY <1>1, <1>4

-----------------------------------------------------------------------------
(* Sequences of sequences, and ranges one after the other *)

\* g[i] is what the first i sequences of q are one after the other.
Prefixed(g, q) ==
  /\ g[0] = <<>>
  /\ \A i \in 1..Len(q) : g[i] = g[i-1] \o q[i]

LEMMA PrefixedExists ==
  ASSUME NEW A, NEW q \in Seq(Seq(A))
  PROVE  \E g \in [0..Len(q) -> Seq(A)] : Prefixed(g, q)
<1>. DEFINE Some(n) == \E g \in [0..n -> Seq(A)] :
                         g[0] = <<>> /\ \A i \in 1..n : g[i] = g[i-1] \o q[i]
            Q == {n \in Nat : n <= Len(q) => Some(n)}
<1>1. 0 \in Q
  <2>. DEFINE z == [i \in 0..0 |-> <<>>]
  <2>1. z \in [0..0 -> Seq(A)] /\ z[0] = <<>> /\ \A i \in 1..0 : z[i] = z[i-1] \o q[i]
    OBVIOUS
  <2>. HIDE DEF z
  <2>2. Some(0)
    BY <2>1
  <2>. HIDE DEF Some
  <2>. QED  BY <2>2
<1>2. ASSUME NEW n \in Nat, n \in Q PROVE n + 1 \in Q
  <2>. HIDE DEF Some
  <2>1. SUFFICES ASSUME n + 1 <= Len(q) PROVE Some(n + 1)
    OBVIOUS
  <2>a. Some(n)
    BY <1>2, <2>1, LenProperties
  <2>. USE DEF Some
  <2>2. PICK g \in [0..n -> Seq(A)] : g[0] = <<>> /\ \A i \in 1..n : g[i] = g[i-1] \o q[i]
    BY <2>a
  <2>. DEFINE h == [i \in 0..(n + 1) |-> IF i <= n THEN g[i] ELSE g[n] \o q[n + 1]]
  <2>3. q[n + 1] \in Seq(A) /\ g[n] \in Seq(A) /\ g[n] \o q[n + 1] \in Seq(A)
    BY <2>1, <2>2, ElementOfSeq, ConcatProperties
  <2>4. h \in [0..(n + 1) -> Seq(A)]
    BY <2>2, <2>3
  <2>5. /\ \A i \in 0..n : h[i] = g[i]
        /\ h[n + 1] = g[n] \o q[n + 1]
    OBVIOUS
  <2>. HIDE DEF h
  <2>6. h[0] = <<>> /\ \A i \in 1..(n + 1) : h[i] = h[i-1] \o q[i]
    <3>1. ASSUME NEW i \in 1..(n + 1) PROVE h[i] = h[i-1] \o q[i]
      <4>1. CASE i = n + 1
        <5>1. i - 1 = n /\ n \in 0..n
          BY <4>1
        <5>. QED  BY <2>5, <4>1, <5>1
      <4>2. CASE i # n + 1
        <5>1. i \in 1..n /\ i \in 0..n /\ i - 1 \in 0..n
          BY <4>2
        <5>. QED  BY <2>2, <2>5, <5>1
      <4>. QED  BY <4>1, <4>2
    <3>2. h[0] = <<>>
      <4>1. 0 \in 0..n
        OBVIOUS
      <4>. QED  BY <2>2, <2>5, <4>1
    <3>. QED  BY <3>1, <3>2
  <2>. QED  BY <2>4, <2>6
<1>. HIDE DEF Q
<1>3. Nat \subseteq Q
  BY <1>1, <1>2, SetInduction
<1>4. Len(q) \in Q /\ Len(q) <= Len(q)
  BY <1>3, LenProperties
<1>5. Some(Len(q))
  <2>. HIDE DEF Some
  <2>. QED  BY <1>4 DEF Q
<1>. QED  BY <1>5 DEF Prefixed

LEMMA PrefixedUnique ==
  ASSUME NEW A, NEW q \in Seq(Seq(A)), NEW g, Prefixed(g, q), NEW h, Prefixed(h, q),
         NEW i \in 0..Len(q)
  PROVE  g[i] = h[i]
<1>. DEFINE Q == {n \in Nat : n <= Len(q) => g[n] = h[n]}
<1>1. 0 \in Q
  BY DEF Prefixed
<1>2. ASSUME NEW n \in Nat, n \in Q PROVE n + 1 \in Q
  <2>. SUFFICES ASSUME n + 1 <= Len(q) PROVE g[n + 1] = h[n + 1]
    OBVIOUS
  <2>1. n + 1 \in 1..Len(q) /\ g[n] = h[n] /\ (n + 1) - 1 = n
    BY <1>2, LenProperties
  <2>2. g[n + 1] = g[(n + 1) - 1] \o q[n + 1] /\ h[n + 1] = h[(n + 1) - 1] \o q[n + 1]
    BY <2>1, Zenon DEF Prefixed
  <2>. QED  BY <2>1, <2>2
<1>. HIDE DEF Q
<1>3. Nat \subseteq Q
  BY <1>1, <1>2, SetInduction
<1>. QED  BY <1>3 DEF Q

LEMMA FlattenIs ==
  ASSUME NEW A, NEW q \in Seq(Seq(A)), NEW g, Prefixed(g, q)
  PROVE  FlattenSeq(q) = g[Len(q)] /\ FlattenSeq(q) \in Seq(A)
<1>1. PICK p \in [0..Len(q) -> Seq(A)] : Prefixed(p, q)
  BY PrefixedExists
<1>2. \A i \in 0..Len(q) : g[i] = p[i]
  BY <1>1, PrefixedUnique
<1>3. Len(q) \in Nat /\ Len(q) \in 0..Len(q)
  BY LenProperties
<1>4. CASE Len(q) = 0
  <2>1. q = <<>> /\ FlattenSeq(q) = <<>>
    BY <1>4, EmptySeq DEF FlattenSeq
  <2>. QED  BY <1>4, <2>1 DEF Prefixed
<1>5. CASE Len(q) # 0
  <2>. DEFINE Flattens(h) == h = [i \in 1..Len(q) |-> IF i = 1 THEN q[i] ELSE h[i-1] \o q[i]]
              f == [i \in 1..Len(q) |-> p[i]]
  <2>1. FlattenSeq(q) = (CHOOSE h : Flattens(h))[Len(q)]
    BY <1>5 DEF FlattenSeq
  <2>2. \A i \in 1..Len(q) : f[i] = p[i]
    OBVIOUS
  <2>3. \A i \in 1..Len(q) : q[i] \in Seq(A)
    BY ElementOfSeq
  <2>4. Flattens(f)
    <3>1. \A i \in 1..Len(q) : p[i] = IF i = 1 THEN q[i] ELSE f[i-1] \o q[i]
      <4>. SUFFICES ASSUME NEW i \in 1..Len(q)
                    PROVE  p[i] = IF i = 1 THEN q[i] ELSE f[i-1] \o q[i]
        OBVIOUS
      <4>1. p[i] = p[i-1] \o q[i]
        BY <1>1 DEF Prefixed
      <4>2. CASE i = 1
        <5>1. p[0] = <<>> /\ i - 1 = 0
          BY <1>1, <4>2 DEF Prefixed
        <5>. QED  BY <2>3, <4>1, <4>2, <5>1, ConcatEmptySeq
      <4>3. CASE i # 1
        <5>1. i - 1 \in 1..Len(q)
          BY <1>3, <4>3
        <5>. QED  BY <2>2, <4>1, <4>3, <5>1
      <4>. QED  BY <4>2, <4>3
    <3>. QED  BY <3>1, Zenon
  <2>5. ASSUME NEW h, Flattens(h) PROVE h[Len(q)] = p[Len(q)]
    <3>1. \A i \in 1..Len(q) : h[i] = IF i = 1 THEN q[i] ELSE h[i-1] \o q[i]
      BY <2>5, Zenon
    <3>. DEFINE e == [i \in 0..Len(q) |-> IF i = 0 THEN <<>> ELSE h[i]]
    <3>2. e[0] = <<>> /\ \A i \in 1..Len(q) : e[i] = h[i]
      BY <1>3
    <3>. HIDE DEF e, Flattens
    <3>3. \A i \in 1..Len(q) : e[i] = e[i-1] \o q[i]
      <4>. SUFFICES ASSUME NEW i \in 1..Len(q) PROVE e[i] = e[i-1] \o q[i]
        OBVIOUS
      <4>1. CASE i = 1
        <5>1. h[i] = q[i] /\ e[i - 1] = <<>>
          BY <3>1, <3>2, <4>1
        <5>2. <<>> \o q[i] = q[i]
          BY <2>3, ConcatEmptySeq
        <5>. QED  BY <3>2, <5>1, <5>2
      <4>2. CASE i # 1
        <5>1. i - 1 \in 1..Len(q)
          BY <1>3, <4>2
        <5>. QED  BY <3>1, <3>2, <4>2, <5>1
      <4>. QED  BY <4>1, <4>2
    <3>4. Prefixed(e, q)
      BY <3>2, <3>3 DEF Prefixed
    <3>5. e[Len(q)] = p[Len(q)]
      BY <1>1, <1>3, <3>4, PrefixedUnique
    <3>. QED  BY <1>3, <1>5, <3>2, <3>5
  <2>6. (CHOOSE h : Flattens(h))[Len(q)] = p[Len(q)]
    <3>. HIDE DEF Flattens, f
    <3>1. Flattens(CHOOSE h : Flattens(h))
      BY <2>4, Zenon
    <3>. QED  BY <2>5, <3>1, Zenon
  <2>. QED  BY <1>1, <1>2, <1>3, <2>1, <2>6
<1>. QED  BY <1>4, <1>5

\* The first k + 1 sequences of m, one after the other.
LEMMA FlattenNext ==
  ASSUME NEW A, NEW k \in Nat, NEW m, \A i \in 1..(k + 1) : m[i] \in Seq(A)
  PROVE  /\ FlattenSeq([i \in 1..k |-> m[i]]) \in Seq(A)
         /\ FlattenSeq([i \in 1..(k + 1) |-> m[i]])
              = FlattenSeq([i \in 1..k |-> m[i]]) \o m[k + 1]
<1>. DEFINE q == [i \in 1..k |-> m[i]]
            r == [i \in 1..(k + 1) |-> m[i]]
<1>1. /\ q \in Seq(Seq(A)) /\ Len(q) = k /\ \A i \in 1..k : q[i] = m[i]
      /\ r \in Seq(Seq(A)) /\ Len(r) = k + 1 /\ \A i \in 1..(k + 1) : r[i] = m[i]
  OBVIOUS
<1>. HIDE DEF q, r
<1>2. PICK g : Prefixed(g, r)
  BY <1>1, PrefixedExists
<1>3. Prefixed(g, q)
  <2>1. g[0] = <<>> /\ \A i \in 1..(k + 1) : g[i] = g[i-1] \o r[i]
    BY <1>1, <1>2, Zenon DEF Prefixed
  <2>2. \A i \in 1..k : i \in 1..(k + 1) /\ r[i] = q[i]
    BY <1>1
  <2>3. \A i \in 1..k : g[i] = g[i-1] \o q[i]
    BY <2>1, <2>2, Zenon
  <2>. QED  BY <1>1, <2>1, <2>3, Zenon DEF Prefixed
<1>4. FlattenSeq(r) = g[k + 1] /\ FlattenSeq(q) = g[k] /\ FlattenSeq(q) \in Seq(A)
  BY <1>1, <1>2, <1>3, FlattenIs
<1>5. g[k + 1] = g[(k + 1) - 1] \o r[k + 1] /\ (k + 1) - 1 = k
  <2>1. k + 1 \in 1..(k + 1) /\ (k + 1) - 1 = k
    OBVIOUS
  <2>. QED  BY <1>1, <1>2, <2>1, Zenon DEF Prefixed
<1>6. r[k + 1] = m[k + 1]
  BY <1>1
<1>7. FlattenSeq(q) \in Seq(A) /\ FlattenSeq(r) = FlattenSeq(q) \o m[k + 1]
  BY <1>4, <1>5, <1>6, Zenon
<1>. QED  BY <1>7 DEF q, r

LEMMA FlattenNothing == FlattenSeq(<<>>) = <<>>
  BY DEF FlattenSeq

\* Ranges of which each begins where the one before it ends are disjoint, and
\* together what lies between 0 and the last end.
LEMMA Tiles ==
  ASSUME NEW n \in Nat, NEW s \in [1..n -> Nat], NEW e \in [1..n -> Nat],
         \A i \in 1..n : s[i] <= e[i] /\ s[i] = IF i = 1 THEN 0 ELSE e[i - 1]
  PROVE  /\ \A i, j \in 1..n : i < j => e[i] <= s[j]
         /\ \A i \in 1..n : e[i] <= e[n]
         /\ \A i \in 1..n : \A b \in 0..(e[i] - 1) : \E j \in 1..i : s[j] <= b /\ b < e[j]
<1>. DEFINE Q == {k \in Nat : \A i, j \in 1..n : i < j /\ j <= k => e[i] <= s[j]}
            R == {k \in Nat : k \in 1..n =>
                    \A b \in 0..(e[k] - 1) : \E j \in 1..k : s[j] <= b /\ b < e[j]}
<1>1. 0 \in Q /\ 0 \in R
  OBVIOUS
<1>2. ASSUME NEW k \in Nat, k \in Q PROVE k + 1 \in Q
  <2>0. \A j \in 1..n : j <= k + 1 <=> j <= k \/ j = k + 1
    OBVIOUS
  <2>. SUFFICES ASSUME NEW i \in 1..n, NEW j \in 1..n, i < j, j = k + 1
                PROVE  e[i] <= s[j]
    <3>1. \A i, j \in 1..n : i < j /\ j <= k => e[i] <= s[j]
      BY <1>2
    <3>2. ASSUME \A i, j \in 1..n : i < j /\ j = k + 1 => e[i] <= s[j]
          PROVE  \A i, j \in 1..n : i < j /\ j <= k + 1 => e[i] <= s[j]
      BY <2>0, <3>1, <3>2, Zenon
    <3>. QED  BY <3>2
  <2>1. j # 1 /\ s[j] = e[j - 1] /\ j - 1 = k /\ k \in 1..n
    OBVIOUS
  <2>2. CASE i = k  BY <2>1, <2>2
  <2>3. CASE i # k
    <3>1. e[i] <= s[k]
      BY <1>2, <2>1, <2>3
    <3>. QED  BY <2>1, <3>1
  <2>. QED  BY <2>2, <2>3
<1>3. ASSUME NEW k \in Nat, k \in R PROVE k + 1 \in R
  <2>. SUFFICES ASSUME k + 1 \in 1..n, NEW b \in 0..(e[k + 1] - 1)
                PROVE  \E j \in 1..(k + 1) : s[j] <= b /\ b < e[j]
    OBVIOUS
  <2>1. CASE s[k + 1] <= b  BY <2>1
  <2>2. CASE ~(s[k + 1] <= b)
    <3>1. k + 1 # 1 /\ k \in 1..n /\ s[k + 1] = e[k]
      BY <2>2
    <3>2. b \in 0..(e[k] - 1)
      BY <2>2, <3>1
    <3>3. PICK j \in 1..k : s[j] <= b /\ b < e[j]
      BY <1>3, <3>1, <3>2
    <3>4. j \in 1..(k + 1)
      OBVIOUS
    <3>. QED  BY <3>3, <3>4
  <2>. QED  BY <2>1, <2>2
<1>. HIDE DEF Q, R
<1>4. Nat \subseteq Q /\ Nat \subseteq R
  BY <1>1, <1>2, <1>3, SetInduction
<1>5. \A i, j \in 1..n : i < j => e[i] <= s[j]
  <2>. SUFFICES ASSUME NEW i \in 1..n, NEW j \in 1..n, i < j PROVE e[i] <= s[j]
    OBVIOUS
  <2>1. j \in Q /\ j <= j
    BY <1>4
  <2>. QED  BY <2>1 DEF Q
<1>6. \A i \in 1..n : e[i] <= e[n]
  <2>. SUFFICES ASSUME NEW i \in 1..n PROVE e[i] <= e[n]
    OBVIOUS
  <2>1. CASE i = n  BY <2>1
  <2>2. CASE i # n
    <3>1. i < n /\ n \in 1..n
      BY <2>2
    <3>. QED  BY <1>5, <3>1
  <2>. QED  BY <2>1, <2>2
<1>. QED  BY <1>4, <1>5, <1>6 DEF R

-----------------------------------------------------------------------------
(* Sequences cut and put together *)

LEMMA Associates ==
  ASSUME NEW A
  PROVE  \A x, y, z \in Seq(A) : (x \o y) \o z = x \o (y \o z)
<1>. SUFFICES ASSUME NEW x \in Seq(A), NEW y \in Seq(A), NEW z \in Seq(A)
              PROVE  (x \o y) \o z = x \o (y \o z)
  OBVIOUS
<1>. QED  BY ConcatAssociative

LEMMA FlattenConcat ==
  ASSUME NEW A, NEW q \in Seq(Seq(A)), NEW r \in Seq(Seq(A))
  PROVE  /\ FlattenSeq(q) \in Seq(A) /\ FlattenSeq(r) \in Seq(A)
         /\ FlattenSeq(q \o r) = FlattenSeq(q) \o FlattenSeq(r)
<1>. DEFINE m == q \o r
            n == Len(q)
            First(k) == FlattenSeq([i \in 1..k |-> m[i]])
            Of(k) == FlattenSeq([i \in 1..k |-> r[i]])
            Same(k) == k <= Len(r) => First(n + k) = FlattenSeq(q) \o Of(k)
            Q == {k \in Nat : Same(k)}
<1>1. /\ m \in Seq(Seq(A)) /\ Len(m) = n + Len(r) /\ n \in Nat /\ Len(r) \in Nat
      /\ \A i \in 1..n : m[i] = q[i]
      /\ \A k \in Nat : k + 1 <= Len(r) => m[n + k + 1] = r[k + 1]
  <2>1. m \in Seq(Seq(A)) /\ Len(m) = n + Len(r) /\ n \in Nat /\ Len(r) \in Nat
        /\ \A i \in 1..(n + Len(r)) : m[i] = IF i <= n THEN q[i] ELSE r[i - n]
    BY ConcatProperties, LenProperties
  <2>. HIDE DEF m, n
  <2>2. \A i \in 1..n : i \in 1..(n + Len(r))
    BY <2>1
  <2>3. \A k \in Nat : k + 1 <= Len(r) =>
          n + k + 1 \in 1..(n + Len(r)) /\ ~(n + k + 1 <= n) /\ (n + k + 1) - n = k + 1
    BY <2>1
  <2>. QED  BY <2>1, <2>2, <2>3
<1>2. /\ \A i \in 1..(n + Len(r)) : m[i] \in Seq(A)
      /\ \A i \in 1..n : q[i] \in Seq(A)
      /\ \A i \in 1..Len(r) : r[i] \in Seq(A)
  BY <1>1, ElementOfSeq
<1>. HIDE DEF m, n, First, Of, Same
<1>3. FlattenSeq(q) = First(n) /\ FlattenSeq(q) \in Seq(A)
  <2>1. q = [i \in 1..n |-> m[i]]
    <3>1. q = [i \in 1..n |-> q[i]]
      BY LenProperties DEF n
    <3>2. [i \in 1..n |-> q[i]] = [i \in 1..n |-> m[i]]
      BY <1>1, Zenon
    <3>. QED  BY <3>1, <3>2, Zenon
  <2>2. \A i \in 1..n : m[i] \in Seq(A)
    BY <1>1, <1>2
  <2>3. FlattenSeq(q) \in Seq(A)
    <3>1. PICK g : Prefixed(g, q)
      BY PrefixedExists
    <3>. QED  BY <3>1, FlattenIs
  <2>. QED  BY <2>1, <2>3 DEF First
<1>4. Of(0) = <<>>
  <2>1. [i \in 1..0 |-> r[i]] = <<>>
    OBVIOUS
  <2>. QED  BY <2>1, FlattenNothing DEF Of
<1>5. 0 \in Q
  <2>1. n + 0 = n
    BY <1>1
  <2>2. FlattenSeq(q) \o <<>> = FlattenSeq(q)
    BY <1>3, ConcatEmptySeq
  <2>3. Same(0)
    BY <1>3, <1>4, <2>1, <2>2 DEF Same
  <2>. QED  BY <2>3
<1>6. ASSUME NEW k \in Nat, k \in Q PROVE k + 1 \in Q
  <2>0. Same(k)
    BY <1>6
  <2>. HIDE DEF Q
  <2>. SUFFICES ASSUME k + 1 <= Len(r) PROVE First(n + (k + 1)) = FlattenSeq(q) \o Of(k + 1)
    BY DEF Same, Q
  <2>1. First(n + k) = FlattenSeq(q) \o Of(k)
    <3>1. k <= Len(r)
      BY <1>1
    <3>. QED  BY <2>0, <3>1 DEF Same
  <2>2. /\ n + k \in Nat /\ n + (k + 1) = (n + k) + 1 /\ m[(n + k) + 1] = r[k + 1]
        /\ \A i \in 1..((n + k) + 1) : i \in 1..(n + Len(r))
        /\ \A i \in 1..(k + 1) : i \in 1..Len(r)
    <3>1. k + 1 <= Len(r) => m[n + k + 1] = r[k + 1]
      BY <1>1
    <3>. QED  BY <1>1, <3>1
  <2>3. First(n + k) \in Seq(A) /\ First((n + k) + 1) = First(n + k) \o m[(n + k) + 1]
    <3>1. \A i \in 1..((n + k) + 1) : m[i] \in Seq(A)
      BY <1>2, <2>2
    <3>. QED  BY <2>2, <3>1, FlattenNext DEF First
  <2>4. Of(k) \in Seq(A) /\ Of(k + 1) = Of(k) \o r[k + 1]
    <3>1. \A i \in 1..(k + 1) : r[i] \in Seq(A)
      BY <1>2, <2>2
    <3>. QED  BY <3>1, FlattenNext DEF Of
  <2>5. r[k + 1] \in Seq(A)
    BY <1>2, <2>2
  <2>6. (FlattenSeq(q) \o Of(k)) \o r[k + 1] = FlattenSeq(q) \o (Of(k) \o r[k + 1])
    <3>1. PICK x, y, z : x = FlattenSeq(q) /\ y = Of(k) /\ z = r[k + 1]
      OBVIOUS
    <3>2. x \in Seq(A) /\ y \in Seq(A) /\ z \in Seq(A)
      BY <1>3, <2>4, <2>5, <3>1
    <3>3. (x \o y) \o z = x \o (y \o z)
      BY <3>2, Associates, SMTT(30)
    <3>. QED  BY <3>1, <3>3
  <2>. QED  BY <2>1, <2>2, <2>3, <2>4, <2>6
<1>. HIDE DEF Q
<1>7. Nat \subseteq Q
  BY <1>5, <1>6, SetInduction
<1>8. First(n + Len(r)) = FlattenSeq(q) \o Of(Len(r))
  BY <1>1, <1>7 DEF Q, Same
<1>9. m = [i \in 1..(n + Len(r)) |-> m[i]] /\ r = [i \in 1..Len(r) |-> r[i]]
  BY <1>1
<1>10. FlattenSeq(r) \in Seq(A)
  <2>1. PICK g : Prefixed(g, r)
    BY PrefixedExists
  <2>. QED  BY <2>1, FlattenIs
<1>. QED  BY <1>3, <1>8, <1>9, <1>10 DEF m, First, Of

LEMMA NextMultiple ==
  ASSUME NEW n \in Nat, NEW k \in Nat PROVE (n + 1) * k = n * k + k /\ n * k \in Nat
  OBVIOUS

LEMMA Quotient ==
  ASSUME NEW l \in Nat, NEW b \in Nat \ {0}
  PROVE  LET n == (l + b - 1) \div b IN n \in Nat /\ n * b >= l /\ n * b <= l + b - 1
  OBVIOUS

\* Two slices, one after the other, are one.
LEMMA JoinSlices ==
  ASSUME NEW A, NEW s \in Seq(A), NEW i \in Nat, NEW j \in Nat, i <= j, j <= Len(s)
  PROVE  SubSeq(s, 1, i) \o SubSeq(s, i + 1, j) = SubSeq(s, 1, j)
  BY ConcatAdjacentSubSeq

\* A sequence in pieces of b, the last one shorter if it must be.
Cut(s, b) ==
  [i \in 1..((Len(s) + b - 1) \div b) |->
     SubSeq(s, (i - 1) * b + 1, IF i * b < Len(s) THEN i * b ELSE Len(s))]

LEMMA CutAndFlattened ==
  ASSUME NEW A, NEW s \in Seq(A), NEW b \in Nat \ {0}
  PROVE  Cut(s, b) \in Seq(Seq(A)) /\ FlattenSeq(Cut(s, b)) = s
<1>. DEFINE cut(k) == IF k * b < Len(s) THEN k * b ELSE Len(s)
            q == Cut(s, b)
<1>0. PICK n \in Nat : n = (Len(s) + b - 1) \div b
  BY Quotient, LenProperties
<1>1. /\ Len(s) \in Nat /\ n * b >= Len(s)
      /\ \A k \in Nat : k + 1 <= n => k * b < Len(s) /\ k * b \in Nat
      /\ \A k \in Nat : k * b \in Nat /\ cut(k) \in 0..Len(s)
  <2>1. Len(s) \in Nat
    BY LenProperties
  <2>2. n * b >= Len(s) /\ n * b <= Len(s) + b - 1
    BY <1>0, <2>1, Quotient
  <2>3. ASSUME NEW k \in Nat, k + 1 <= n PROVE k * b < Len(s)
    <3>1. (k + 1) * b <= n * b /\ (k + 1) * b \in Nat
      BY <2>3, ProductGrows
    <3>2. (k + 1) * b = k * b + b /\ k * b \in Nat
      BY NextMultiple
    <3>3. k * b + b <= Len(s) + b - 1
      <4>1. n * b \in Nat
        OBVIOUS
      <4>. QED  BY <2>1, <2>2, <3>1, <3>2, <4>1
    <3>. QED  BY <2>1, <3>2, <3>3
  <2>4. \A k \in Nat : k * b \in Nat
    BY NextMultiple
  <2>. QED  BY <2>1, <2>2, <2>3, <2>4
<1>2. q = [i \in 1..n |-> SubSeq(s, (i - 1) * b + 1, cut(i))]
  BY <1>0 DEF Cut
<1>. HIDE DEF cut, q
<1>3. \A i \in 1..n : q[i] = SubSeq(s, (i - 1) * b + 1, cut(i)) /\ q[i] \in Seq(A)
  <2>. SUFFICES ASSUME NEW i \in 1..n
               PROVE  SubSeq(s, (i - 1) * b + 1, cut(i)) \in Seq(A)
    BY <1>2
  <2>1. i - 1 \in Nat /\ i \in Nat
    OBVIOUS
  <2>2. PICK f \in Nat, l \in 0..Len(s) : f = (i - 1) * b + 1 /\ l = cut(i)
    <3>0. (i - 1) * b \in Nat
      BY <1>1, <2>1, Zenon
    <3>1. (i - 1) * b + 1 \in Nat
      BY <3>0
    <3>2. cut(i) \in 0..Len(s)
      BY <1>1, <2>1, Zenon
    <3>. QED  BY <3>1, <3>2, Zenon
  <2>3. f # 0
    <3>1. (i - 1) * b \in Nat
      BY <1>1, <2>1, Zenon
    <3>. QED  BY <2>2, <3>1
  <2>4. \A j \in f..l : s[j] \in A
    <3>1. \A j \in f..l : j \in 1..Len(s)
      BY <1>1, <2>3
    <3>. QED  BY <3>1, ElementOfSeq
  <2>5. SubSeq(s, f, l) \in Seq(A)
    <3>1. l \in Int /\ f \in Int
      BY <1>1
    <3>. QED  BY <2>4, <3>1, SubSeqProperties
  <2>. QED  BY <2>2, <2>5
<1>4. q \in Seq(Seq(A)) /\ q = [i \in 1..n |-> q[i]]
  <2>1. q = [i \in 1..n |-> q[i]]
    BY <1>2
  <2>. QED  BY <1>3, <2>1
<1>. DEFINE First(k) == FlattenSeq([i \in 1..k |-> q[i]])
            Same(k) == k <= n => First(k) = SubSeq(s, 1, cut(k))
            Q == {k \in Nat : Same(k)}
<1>5. 0 \in Q
  <2>1. [i \in 1..0 |-> q[i]] = <<>> /\ cut(0) = 0
    <3>1. 0 * b = 0
      OBVIOUS
    <3>. QED  BY <1>1, <3>1 DEF cut
  <2>2. SubSeq(s, 1, 0) = <<>>
    BY SubSeqEmpty
  <2>. QED  BY <2>1, <2>2, FlattenNothing
<1>. HIDE DEF First, Same
<1>6. ASSUME NEW k \in Nat, k \in Q PROVE k + 1 \in Q
  <2>0. Same(k)
    BY <1>6
  <2>. HIDE DEF Q
  <2>. SUFFICES ASSUME k + 1 <= n PROVE First(k + 1) = SubSeq(s, 1, cut(k + 1))
    BY DEF Same, Q
  <2>1. First(k) = SubSeq(s, 1, cut(k))
    BY <2>0 DEF Same
  <2>2. k * b \in Nat /\ cut(k) = k * b /\ k * b < Len(s) /\ cut(k + 1) \in k * b..Len(s)
    <3>1. k * b \in Nat /\ k * b < Len(s)
      BY <1>1
    <3>2. (k + 1) * b = k * b + b
      BY NextMultiple
    <3>. QED  BY <1>1, <3>1, <3>2 DEF cut
  <2>3. First(k + 1) = First(k) \o q[k + 1]
    <3>1. \A i \in 1..(k + 1) : q[i] \in Seq(A)
      BY <1>3
    <3>. QED  BY <3>1, FlattenNext DEF First
  <2>4. q[k + 1] = SubSeq(s, k * b + 1, cut(k + 1))
    <3>1. k + 1 \in 1..n /\ (k + 1) - 1 = k
      OBVIOUS
    <3>. QED  BY <1>3, <3>1
  <2>5. PICK f \in Nat, l \in Nat : f = k * b /\ l = cut(k + 1) /\ f <= l /\ l <= Len(s)
    <3>1. k * b \in Nat /\ cut(k + 1) \in Nat /\ k * b <= cut(k + 1) /\ cut(k + 1) <= Len(s)
      BY <1>1, <2>2
    <3>. QED  BY <3>1, Zenon
  <2>6. SubSeq(s, 1, f) \o SubSeq(s, f + 1, l) = SubSeq(s, 1, l)
    BY <2>5, JoinSlices, Zenon
  <2>. QED  BY <2>1, <2>2, <2>3, <2>4, <2>5, <2>6
<1>. HIDE DEF Q
<1>7. Nat \subseteq Q
  BY <1>5, <1>6, SetInduction
<1>8. First(n) = SubSeq(s, 1, cut(n))
  BY <1>7 DEF Q, Same
<1>9. cut(n) = Len(s)
  <2>1. n * b \in Nat
    BY <1>1
  <2>. QED  BY <1>1, <2>1 DEF cut
<1>10. SubSeq(s, 1, Len(s)) = s
  BY SubSeqFull
<1>. QED  BY <1>4, <1>8, <1>9, <1>10 DEF First, q

\* The elements of s at the places in I, in their order.
Picked(s, I) == FlattenSeq([i \in DOMAIN s |-> IF i \in I THEN <<s[i]>> ELSE <<>>])

Rising(f) == \A i, j \in DOMAIN f : i < j => f[i] < f[j]

LEMMA ChosenInOrder ==
  ASSUME NEW A, NEW s \in Seq(A), NEW I
  PROVE  /\ Picked(s, I) \in Seq(A)
         /\ \E f \in [1..Len(Picked(s, I)) -> I \cap (1..Len(s))] :
               Rising(f) /\ \A i \in 1..Len(Picked(s, I)) : Picked(s, I)[i] = s[f[i]]
         /\ 1..Len(s) \subseteq I => Picked(s, I) = s
<1>. DEFINE m == [i \in 1..Len(s) |-> IF i \in I THEN <<s[i]>> ELSE <<>>]
            First(k) == FlattenSeq([i \in 1..k |-> m[i]])
            Placed(k) ==
              /\ First(k) \in Seq(A)
              /\ \E f \in [1..Len(First(k)) -> I \cap (1..k)] :
                   Rising(f) /\ \A i \in 1..Len(First(k)) : First(k)[i] = s[f[i]]
              /\ 1..Len(s) \subseteq I => First(k) = SubSeq(s, 1, k)
            Q == {k \in Nat : k <= Len(s) => Placed(k)}
<1>1. /\ Len(s) \in Nat /\ DOMAIN s = 1..Len(s) /\ s = [i \in 1..Len(s) |-> s[i]]
      /\ \A i \in 1..Len(s) : s[i] \in A
      /\ \A i \in 1..Len(s) : m[i] = IF i \in I THEN <<s[i]>> ELSE <<>>
      /\ m = [i \in 1..Len(s) |-> m[i]]
  BY LenProperties, ElementOfSeq
<1>2. \A i \in 1..Len(s) : m[i] \in Seq(A)
  BY <1>1
<1>3. Picked(s, I) = First(Len(s))
  BY <1>1 DEF Picked
<1>. HIDE DEF m
<1>4. 0 \in Q
  <2>1. [i \in 1..0 |-> m[i]] = <<>>
    OBVIOUS
  <2>2. First(0) = <<>> /\ SubSeq(s, 1, 0) = <<>>
    BY <2>1, FlattenNothing, SubSeqEmpty
  <2>. HIDE DEF First
  <2>. DEFINE f == [i \in 1..0 |-> 1]
  <2>3. f \in [1..0 -> I \cap (1..0)] /\ Rising(f)
    BY DEF Rising
  <2>4. Len(First(0)) = 0 /\ First(0) \in Seq(A)
    <3>1. Len(<<>>) = 0 /\ <<>> \in Seq(A)
      BY EmptySeq
    <3>. QED  BY <2>2, <3>1
  <2>. HIDE DEF f
  <2>5. f \in [1..Len(First(0)) -> I \cap (1..0)]
        /\ \A i \in 1..Len(First(0)) : First(0)[i] = s[f[i]]
    BY <2>3, <2>4
  <2>6. Placed(0)
    BY <2>2, <2>3, <2>4, <2>5, Zenon
  <2>. HIDE DEF Placed
  <2>. QED  BY <2>6
<1>. HIDE DEF First, Placed
<1>5. ASSUME NEW k \in Nat, k \in Q PROVE k + 1 \in Q
  <2>. SUFFICES ASSUME k + 1 <= Len(s) PROVE Placed(k + 1)
    OBVIOUS
  <2>1. k <= Len(s) /\ k + 1 \in 1..Len(s) /\ (k + 1) - 1 = k /\ k \in 0..Len(s)
    BY <1>1
  <2>2. PICK f \in [1..Len(First(k)) -> I \cap (1..k)] :
           /\ First(k) \in Seq(A)
           /\ Rising(f) /\ \A i \in 1..Len(First(k)) : First(k)[i] = s[f[i]]
           /\ 1..Len(s) \subseteq I => First(k) = SubSeq(s, 1, k)
    BY <1>5, <2>1 DEF Placed
  <2>3. First(k + 1) = First(k) \o m[k + 1]
    <3>1. \A i \in 1..(k + 1) : m[i] \in Seq(A)
      BY <1>2, <2>1
    <3>. QED  BY <3>1, FlattenNext DEF First
  <2>4. SubSeq(s, 1, k) \o <<s[k + 1]>> = SubSeq(s, 1, k + 1)
    <3>1. 1 \in 1..Len(s) /\ k + 1 \in 1..Len(s)
      BY <2>1
    <3>2. SubSeq(s, 1, k + 1) = SubSeq(s, 1, (k + 1) - 1) \o <<s[k + 1]>>
      BY <3>1, SubSeqRecursiveSecond
    <3>. QED  BY <2>1, <3>2
  <2>5. CASE k + 1 \in I
    <3>1. First(k + 1) = First(k) \o <<s[k + 1]>> /\ s[k + 1] \in A
      BY <1>1, <2>1, <2>3, <2>5
    <3>. DEFINE n == Len(First(k))
                g == [i \in 1..n + 1 |-> IF i <= n THEN f[i] ELSE k + 1]
    <3>2. /\ First(k + 1) \in Seq(A) /\ Len(First(k + 1)) = n + 1 /\ n \in Nat
          /\ \A i \in 1..n : First(k + 1)[i] = First(k)[i]
          /\ First(k + 1)[n + 1] = s[k + 1]
      <4>1. First(k + 1) = Append(First(k), s[k + 1])
        BY <2>2, <3>1, AppendIsConcat
      <4>2. n \in Nat
        BY <2>2, LenProperties
      <4>3. PICK p \in Seq(A), x \in A : p = First(k) /\ x = s[k + 1]
        BY <2>2, <3>1
      <4>4. /\ Append(p, x) \in Seq(A) /\ Len(Append(p, x)) = Len(p) + 1
            /\ \A i \in 1..Len(p) : Append(p, x)[i] = p[i]
            /\ Append(p, x)[Len(p) + 1] = x
        BY AppendProperties
      <4>. QED  BY <4>1, <4>2, <4>3, <4>4, Zenon
    <3>. HIDE DEF n
    <3>3. /\ \A i \in 1..n : g[i] = f[i] /\ f[i] \in I /\ f[i] \in 1..k
          /\ g[n + 1] = k + 1 /\ DOMAIN g = 1..n + 1
      <4>1. \A i \in 1..n : f[i] \in I /\ f[i] \in 1..k
        BY <2>2 DEF n
      <4>2. /\ \A i \in 1..n : i \in 1..n + 1 /\ i <= n
            /\ n + 1 \in 1..n + 1 /\ ~(n + 1 <= n)
        BY <3>2
      <4>. QED  BY <4>1, <4>2, Zenon
    <3>4. g \in [1..n + 1 -> I \cap (1..(k + 1))]
      <4>1. \A i \in 1..n + 1 : i <= n => i \in 1..n
        BY <3>2
      <4>3. \A i \in 1..n : f[i] \in I \cap (1..(k + 1))
        <5>1. \A j \in 1..k : j \in 1..(k + 1)
          OBVIOUS
        <5>. QED  BY <3>3, <5>1, Zenon
      <4>4. k + 1 \in I \cap (1..(k + 1))
        BY <2>5
      <4>. QED  BY <4>1, <4>3, <4>4
    <3>. HIDE DEF g
    <3>5. Rising(g)
      <4>. SUFFICES ASSUME NEW i \in 1..n + 1, NEW j \in 1..n + 1, i < j PROVE g[i] < g[j]
        BY <3>3 DEF Rising
      <4>1. CASE j = n + 1
        <5>1. i \in 1..n
          BY <3>2, <4>1
        <5>. QED  BY <3>3, <4>1, <5>1
      <4>2. CASE j # n + 1
        <5>1. i \in 1..n /\ j \in 1..n /\ DOMAIN f = 1..n
          BY <2>2, <3>2, <4>2 DEF n
        <5>2. f[i] < f[j]
          BY <2>2, <5>1 DEF Rising
        <5>. QED  BY <3>3, <5>1, <5>2
      <4>. QED  BY <4>1, <4>2
    <3>6. \A i \in 1..n + 1 : First(k + 1)[i] = s[g[i]]
      <4>. SUFFICES ASSUME NEW i \in 1..n + 1 PROVE First(k + 1)[i] = s[g[i]]
        OBVIOUS
      <4>1. CASE i = n + 1  BY <3>2, <3>3, <4>1
      <4>2. CASE i # n + 1
        <5>1. i \in 1..n
          BY <3>2, <4>2
        <5>. QED  BY <2>2, <3>2, <3>3, <5>1 DEF n
      <4>. QED  BY <4>1, <4>2
    <3>7. 1..Len(s) \subseteq I => First(k + 1) = SubSeq(s, 1, k + 1)
      BY <2>2, <2>4, <3>1
    <3>. QED  BY <3>2, <3>4, <3>5, <3>6, <3>7 DEF Placed
  <2>6. CASE k + 1 \notin I
    <3>1. First(k + 1) = First(k)
      <4>1. m[k + 1] = <<>>
        BY <1>1, <2>1, <2>6
      <4>. QED  BY <2>2, <2>3, <4>1, ConcatEmptySeq
    <3>2. f \in [1..Len(First(k)) -> I \cap (1..(k + 1))]
      BY <2>2
    <3>3. ~(1..Len(s) \subseteq I)
      BY <2>1, <2>6
    <3>. QED  BY <2>2, <3>1, <3>2, <3>3 DEF Placed
  <2>. QED  BY <2>5, <2>6
<1>. HIDE DEF Q
<1>6. Nat \subseteq Q
  BY <1>4, <1>5, SetInduction
<1>7. Placed(Len(s)) /\ Len(s) <= Len(s)
  BY <1>1, <1>6 DEF Q
<1>8. SubSeq(s, 1, Len(s)) = s
  BY SubSeqFull
<1>. QED  BY <1>3, <1>7, <1>8 DEF Placed
=============================================================================
