----------------------- MODULE RolloutAllocation_proofs -----------------------
(***************************************************************************)
(* Theorems about dynamic sampling with graded allocation, for every number  *)
(* of prompts and generation batches, and for all rewards, diversities,      *)
(* floors and settings: a step trains on its rows, no more and no fewer,     *)
(* shared out as the settings say, and no group mixes two baselines.         *)
(***************************************************************************)
EXTENDS RolloutAllocation, FiniteSetTheorems, NaturalsInduction, WellFoundedInduction, TLAPS

-------------------------------------------------------------------------------
(* Finite sets, one element after the other.                                 *)

\* A set of natural numbers that contains 0, and with k also k + 1, has them all.
LEMMA Climb ==
    ASSUME NEW T, 0 \in T, \A k \in Nat : k \in T => k + 1 \in T
    PROVE  Nat \subseteq T
<1> SUFFICES ASSUME Nat \ T # {} PROVE FALSE
  OBVIOUS
<1> DEFINE R == OpToRel(<, Nat)
<1>1. IsWellFoundedOn(R, Nat)
  BY NatLessThanWellFounded
<1>2. \A n, k \in Nat : n < k => <<n, k>> \in R
  BY DEF OpToRel
<1> HIDE DEF R
<1>3. PICK m \in Nat \ T : \A n \in Nat \ T : ~ (<<n, m>> \in R)
  <2>1. Nat \ T \subseteq Nat
    OBVIOUS
  <2> QED
    BY <1>1, <2>1, WFMin
<1>4. PICK k \in Nat : k + 1 = m
  <2>1. m # 0 /\ m - 1 \in Nat /\ (m - 1) + 1 = m
    BY <1>3
  <2> QED
    BY <2>1
<1>5. <<k, m>> \in R
  <2>1. k < m
    BY <1>4
  <2> QED
    BY <1>2, <1>3, <2>1
<1>6. k \in T
  BY <1>3, <1>5
<1> QED
  BY <1>3, <1>4, <1>6

\* What holds of no element, and of one more, holds of all of a finite set.
LEMMA Gather ==
    ASSUME NEW S, IsFiniteSet(S), NEW Q, {} \in Q,
           \A T \in SUBSET S : \A x \in S \ T : T \in Q => T \cup {x} \in Q
    PROVE  S \in Q
<1> DEFINE N == {n \in Nat : \A T \in SUBSET S : Cardinality(T) = n => T \in Q}
<1>1. \A T \in SUBSET S : IsFiniteSet(T) /\ Cardinality(T) \in Nat
  BY FS_Subset, FS_CardinalityType
<1>2. 0 \in N
  <2> SUFFICES ASSUME NEW T \in SUBSET S, Cardinality(T) = 0 PROVE T \in Q
    OBVIOUS
  <2>1. T = {}
    BY <1>1, FS_EmptySet
  <2> QED
    BY <2>1
<1>3. ASSUME NEW n \in Nat, n \in N PROVE n + 1 \in N
  <2> SUFFICES ASSUME NEW T \in SUBSET S, Cardinality(T) = n + 1 PROVE T \in Q
    OBVIOUS
  <2>1. PICK x : x \in T
    <3>1. Cardinality(T) # 0
      OBVIOUS
    <3> QED
      BY <3>1, FS_EmptySet
  <2>2. Cardinality(T \ {x}) = n
    <3>1. IsFiniteSet(T) /\ x \in T
      BY <1>1, <2>1
    <3>2. Cardinality(T \ {x}) = Cardinality(T) - 1
      BY <3>1, FS_RemoveElement, Zenon
    <3> QED
      BY <3>2
  <2>3. T \ {x} \in Q
    BY <1>3, <2>2
  <2>4. x \in S \ (T \ {x}) /\ T \ {x} \in SUBSET S /\ (T \ {x}) \cup {x} = T
    BY <2>1
  <2> QED
    BY <2>3, <2>4
<1> HIDE DEF N
<1>4. Nat \subseteq N
  BY <1>2, <1>3, Climb
<1>5. Cardinality(S) \in N
  BY <1>1, <1>4
<1> QED
  BY <1>5 DEF N

-------------------------------------------------------------------------------
(* Finite sets in a line.                                                    *)

\* R orders S.
Lined(S, R) ==
    /\ IsFiniteSet(S)
    /\ \A a \in S : <<a, a>> \notin R
    /\ \A a, b, c \in S : <<a, b>> \in R /\ <<b, c>> \in R => <<a, c>> \in R
    /\ \A a, b \in S : a = b \/ <<a, b>> \in R \/ <<b, a>> \in R

\* Those that come before x.
Ahead(S, R, x) == {y \in S : <<y, x>> \in R}

\* There are fewer before those that come before.
LEMMA FewerAhead ==
    ASSUME NEW S, NEW R, Lined(S, R), NEW x \in S
    PROVE  /\ IsFiniteSet(Ahead(S, R, x))
           /\ Cardinality(Ahead(S, R, x)) \in 0 .. Cardinality(S) - 1
           /\ \A y \in S : <<x, y>> \in R =>
                Cardinality(Ahead(S, R, x)) < Cardinality(Ahead(S, R, y))
<1>1. ASSUME NEW T, IsFiniteSet(T), x \in T, Ahead(S, R, x) \subseteq T
      PROVE  Cardinality(Ahead(S, R, x)) < Cardinality(T)
  <2>1. x \notin Ahead(S, R, x)
    BY DEF Lined, Ahead
  <2>2. Ahead(S, R, x) # T /\ Ahead(S, R, x) \in SUBSET T
    BY <1>1, <2>1
  <2>3. /\ Cardinality(Ahead(S, R, x)) <= Cardinality(T)
        /\ Cardinality(Ahead(S, R, x)) # Cardinality(T)
        /\ IsFiniteSet(Ahead(S, R, x))
    BY <1>1, <2>2, FS_Subset
  <2>4. Cardinality(Ahead(S, R, x)) \in Nat /\ Cardinality(T) \in Nat
    BY <1>1, <2>3, FS_CardinalityType
  <2> QED
    BY <2>3, <2>4
<1>2. IsFiniteSet(S) /\ Ahead(S, R, x) \subseteq S
  BY DEF Lined, Ahead
<1>3. IsFiniteSet(Ahead(S, R, x))
  BY <1>2, FS_Subset
<1>4. Cardinality(Ahead(S, R, x)) \in Nat /\ Cardinality(S) \in Nat
  BY <1>2, <1>3, FS_CardinalityType
<1>5. Cardinality(Ahead(S, R, x)) < Cardinality(S)
  BY <1>1, <1>2
<1>6. ASSUME NEW y \in S, <<x, y>> \in R
      PROVE  Cardinality(Ahead(S, R, x)) < Cardinality(Ahead(S, R, y))
  <2>1. x \in Ahead(S, R, y) /\ Ahead(S, R, x) \subseteq Ahead(S, R, y)
    BY <1>6 DEF Lined, Ahead
  <2>2. IsFiniteSet(Ahead(S, R, y))
    <3>1. Ahead(S, R, y) \in SUBSET S
      BY DEF Ahead
    <3> QED
      BY <1>2, <3>1, FS_Subset
  <2> QED
    BY <1>1, <2>1, <2>2
<1> QED
  BY <1>3, <1>4, <1>5, <1>6

\* No two elements share a place, and no place is empty.
Places(S, R) ==
    /\ \A x, y \in S : Cardinality(Ahead(S, R, x)) = Cardinality(Ahead(S, R, y)) => x = y
    /\ \A i \in 0 .. Cardinality(S) - 1 : \E x \in S : Cardinality(Ahead(S, R, x)) = i

\* Every place in the line is taken by one element.
LEMMA Placed == ASSUME NEW S, NEW R, Lined(S, R) PROVE Places(S, R)
<1> DEFINE n == Cardinality(S)
           f == [x \in S |-> Cardinality(Ahead(S, R, x))]
<1>1. IsFiniteSet(S) /\ n \in Nat
  BY FS_CardinalityType DEF Lined
<1>2. ASSUME NEW x \in S, NEW y \in S,
             Cardinality(Ahead(S, R, x)) = Cardinality(Ahead(S, R, y))
      PROVE  x = y
  <2>1. x = y \/ <<x, y>> \in R \/ <<y, x>> \in R
    BY DEF Lined
  <2>2. ~ (Cardinality(Ahead(S, R, x)) < Cardinality(Ahead(S, R, y)))
        /\ ~ (Cardinality(Ahead(S, R, y)) < Cardinality(Ahead(S, R, x)))
    BY <1>2, FewerAhead
  <2> QED
    BY <2>1, <2>2, FewerAhead
<1>3. f \in Injection(S, 0 .. n - 1)
  <2>1. f \in [S -> 0 .. n - 1]
    BY FewerAhead
  <2>2. \A a, b \in S : f[a] = f[b] => a = b
    BY <1>2
  <2> HIDE DEF f
  <2> QED
    BY <2>1, <2>2 DEF Injection, IsInjective
<1>4. IsFiniteSet(0 .. n - 1) /\ Cardinality(0 .. n - 1) = n
  BY <1>1, FS_Interval, SMTT(60)
<1>5. f \in Surjection(S, 0 .. n - 1)
  <2> HIDE DEF f
  <2> QED
    BY <1>3, <1>4, FS_Injection
<1> QED
  BY <1>2, <1>5 DEF Surjection, Places

-------------------------------------------------------------------------------
(* Sums.                                                                     *)

Pairs(f, S) == UNION {{k} \X (1 .. f[k]) : k \in S}

\* A member of the set that is counted.
LEMMA InPairs ==
    ASSUME NEW f, NEW S, NEW x
    PROVE  x \in Pairs(f, S) <=> \E k \in S : \E i \in 1 .. f[k] : x = <<k, i>>
BY DEF Pairs

\* A sum has a finite number of pairs.
Summed(f, S) == IsFiniteSet(Pairs(f, S)) /\ Total(f, S) = Cardinality(Pairs(f, S))
                /\ Total(f, S) \in Nat

\* The sum over nothing.
LEMMA NoSum == ASSUME NEW f PROVE Summed(f, {}) /\ Total(f, {}) = 0
<1>1. Pairs(f, {}) = {}
  BY DEF Pairs
<1>2. Total(f, {}) = Cardinality({})
  BY DEF Total
<1> QED
  BY <1>1, <1>2, FS_EmptySet DEF Summed

\* One summand more.
LEMMA SumStep ==
    ASSUME NEW f, NEW T, NEW k, k \notin T, Summed(f, T), f[k] \in Nat
    PROVE  Summed(f, T \cup {k}) /\ Total(f, T \cup {k}) = Total(f, T) + f[k]
<1> DEFINE N == {k} \X (1 .. f[k])
<1>1. IsFiniteSet(N) /\ Cardinality(N) = f[k]
  <2>1. IsFiniteSet({k}) /\ Cardinality({k}) = 1
    BY FS_Singleton
  <2>2. IsFiniteSet(1 .. f[k]) /\ Cardinality(1 .. f[k]) = f[k]
    <3>1. PICK n \in Nat : n = f[k]
      OBVIOUS
    <3>2. IsFiniteSet(1 .. n) /\ Cardinality(1 .. n) = n
      <4>1. IsFiniteSet(1 .. n) /\ Cardinality(1 .. n) = IF 1 > n THEN 0 ELSE n - 1 + 1
        BY FS_Interval, SMTT(30)
      <4> QED
        BY <4>1
    <3> QED
      BY <3>1, <3>2, Zenon
  <2>3. IsFiniteSet(N) /\ Cardinality(N) = Cardinality({k}) * Cardinality(1 .. f[k])
    BY <2>1, <2>2, FS_Product, Zenon
  <2> HIDE DEF N
  <2> QED
    BY <2>1, <2>2, <2>3
<1>2. Pairs(f, T \cup {k}) = Pairs(f, T) \cup N
  BY DEF Pairs
<1>3. Pairs(f, T) \cap N = {}
  BY DEF Pairs
<1>4. IsFiniteSet(Pairs(f, T)) /\ Total(f, T) = Cardinality(Pairs(f, T)) /\ Total(f, T) \in Nat
  BY DEF Summed
<1>5. Total(f, T \cup {k}) = Cardinality(Pairs(f, T \cup {k}))
  BY DEF Total, Pairs
<1> HIDE DEF N
<1>6. /\ IsFiniteSet(Pairs(f, T) \cup N)
      /\ Cardinality(Pairs(f, T) \cup N) = Cardinality(Pairs(f, T)) + Cardinality(N) - Cardinality({})
  BY <1>1, <1>3, <1>4, FS_Union
<1>7. Cardinality({}) = 0
  BY FS_EmptySet
<1>8. Cardinality(Pairs(f, T) \cup N) = Total(f, T) + f[k]
  BY <1>1, <1>4, <1>6, <1>7
<1>9. Total(f, T) + f[k] \in Nat
  BY <1>4
<1>10. Total(f, T \cup {k}) = Total(f, T) + f[k] /\ IsFiniteSet(Pairs(f, T \cup {k}))
  BY <1>2, <1>5, <1>6, <1>8, Zenon
<1> QED
  BY <1>5, <1>9, <1>10, Zenon DEF Summed

\* Every sum of natural numbers over a finite set.
LEMMA Sums ==
    ASSUME NEW S, IsFiniteSet(S), NEW f, \A k \in S : f[k] \in Nat
    PROVE  \A T \in SUBSET S : Summed(f, T)
<1> DEFINE Q == {T \in SUBSET S : Summed(f, T)}
<1>1. ASSUME NEW T \in SUBSET S PROVE Summed(f, T)
  <2> DEFINE P == {U \in SUBSET T : Summed(f, U)}
  <2>1. {} \in P
    BY NoSum
  <2>2. \A U \in SUBSET T : \A x \in T \ U : U \in P => U \cup {x} \in P
    BY SumStep
  <2>3. IsFiniteSet(T)
    BY FS_Subset
  <2> HIDE DEF P
  <2>4. T \in P
    BY <2>1, <2>2, <2>3, Gather
  <2> QED
    BY <2>4 DEF P
<1> QED
  BY <1>1

\* A sum counts equal summands equally, and no zeros.
LEMMA SumSame ==
    ASSUME NEW f, NEW g, NEW S, \A k \in S : f[k] = g[k]
    PROVE  Total(f, S) = Total(g, S)
<1>1. Pairs(f, S) = Pairs(g, S)
  BY DEF Pairs
<1> QED
  BY <1>1 DEF Total, Pairs

\* Zeros can be left out of a sum.
LEMMA SumPart ==
    ASSUME NEW f, NEW S, NEW T \in SUBSET S, \A k \in S \ T : f[k] = 0
    PROVE  Total(f, S) = Total(f, T)
<1>1. \A x : x \in Pairs(f, S) <=> x \in Pairs(f, T)
  BY InPairs
<1>2. Pairs(f, S) = Pairs(f, T)
  BY <1>1
<1> QED
  BY <1>2 DEF Total, Pairs

\* A sum over fewer.
LEMMA SumFewer ==
    ASSUME NEW S, IsFiniteSet(S), NEW f, \A k \in S : f[k] \in Nat, NEW T \in SUBSET S
    PROVE  Total(f, T) <= Total(f, S)
<1>1. Summed(f, S) /\ Summed(f, T)
  BY Sums
<1>2. Pairs(f, T) \in SUBSET Pairs(f, S)
  BY InPairs
<1> QED
  BY <1>1, <1>2, FS_Subset DEF Summed

\* The sum of two sums.
LEMMA SumAdds ==
    ASSUME NEW S, IsFiniteSet(S), NEW f, NEW g, NEW h,
           \A k \in S : f[k] \in Nat /\ g[k] \in Nat /\ h[k] = f[k] + g[k]
    PROVE  Total(h, S) = Total(f, S) + Total(g, S)
<1> DEFINE Q == {T \in SUBSET S : Total(h, T) = Total(f, T) + Total(g, T)}
<1>1. \A T \in SUBSET S : Summed(f, T) /\ Summed(g, T) /\ Summed(h, T)
  BY Sums
<1>2. {} \in Q
  BY NoSum
<1>3. ASSUME NEW T \in SUBSET S, NEW x \in S \ T, T \in Q PROVE T \cup {x} \in Q
  <2>1. /\ Total(f, T \cup {x}) = Total(f, T) + f[x]
        /\ Total(g, T \cup {x}) = Total(g, T) + g[x]
        /\ Total(h, T \cup {x}) = Total(h, T) + h[x]
    <3>1. h[x] \in Nat
      OBVIOUS
    <3>2. x \notin T /\ Summed(f, T) /\ Summed(g, T) /\ Summed(h, T)
      BY <1>1
    <3>3. Total(h, T \cup {x}) = Total(h, T) + h[x]
      BY <3>1, <3>2, SumStep
    <3> QED
      BY <3>2, <3>3, SumStep, ZenonT(60)
  <2>2. Total(f, T) \in Nat /\ Total(g, T) \in Nat /\ Total(h, T) \in Nat
    BY <1>1 DEF Summed
  <2>3. Total(h, T \cup {x}) = Total(f, T \cup {x}) + Total(g, T \cup {x})
    BY <1>3, <2>1, <2>2
  <2> QED
    BY <2>3
<1> HIDE DEF Q
<1>4. S \in Q
  BY <1>2, <1>3, Gather
<1> QED
  BY <1>4 DEF Q

\* Sums of multiples compare as their summands do.
LEMMA SumScales ==
    ASSUME NEW S, IsFiniteSet(S), NEW f, NEW g, NEW c \in Nat, NEW d \in Nat,
           \A k \in S : f[k] \in Nat /\ g[k] \in Nat /\ c * f[k] <= d * g[k]
    PROVE  c * Total(f, S) <= d * Total(g, S)
<1> DEFINE Q == {T \in SUBSET S : c * Total(f, T) <= d * Total(g, T)}
<1>1. \A T \in SUBSET S : Summed(f, T) /\ Summed(g, T)
  BY Sums
<1>2. {} \in Q
  <2>1. Total(f, {}) = 0 /\ Total(g, {}) = 0
    BY NoSum
  <2> QED
    BY <2>1
<1>3. ASSUME NEW T \in SUBSET S, NEW x \in S \ T, T \in Q PROVE T \cup {x} \in Q
  <2>1. /\ Total(f, T \cup {x}) = Total(f, T) + f[x]
        /\ Total(g, T \cup {x}) = Total(g, T) + g[x]
    BY <1>1, SumStep
  <2>2. Total(f, T) \in Nat /\ Total(g, T) \in Nat
    BY <1>1 DEF Summed
  <2>3. \A a, b, u, v \in Nat : c * a <= d * b /\ c * u <= d * v => c * (a + u) <= d * (b + v)
    OBVIOUS
  <2>4. c * Total(f, T \cup {x}) <= d * Total(g, T \cup {x})
    BY <1>3, <2>1, <2>2, <2>3
  <2> QED
    BY <2>4
<1> HIDE DEF Q
<1>4. S \in Q
  BY <1>2, <1>3, Gather
<1> QED
  BY <1>4 DEF Q

-------------------------------------------------------------------------------
(* Rows in their order.                                                      *)

\* Numbers stand in a line, and Nth finds the one in each place.
LEMMA NthIs ==
    ASSUME NEW S \in SUBSET Nat, IsFiniteSet(S)
    PROVE  /\ \A i \in 1 .. Cardinality(S) :
                Nth(S, i) \in S /\ Cardinality({q \in S : q < Nth(S, i)}) = i - 1
           /\ \A r \in S : \E i \in 1 .. Cardinality(S) :
                r = Nth(S, i) /\ Cardinality({q \in S : q < r}) = i - 1
<1> DEFINE R == {p \in S \X S : p[1] < p[2]}
           Rank(r) == Cardinality({q \in S : q < r})
<1>1. \A a, b \in S : <<a, b>> \in R <=> a < b
  OBVIOUS
<1>2. \A x \in S : Ahead(S, R, x) = {q \in S : q < x}
  BY <1>1 DEF Ahead
<1> HIDE DEF R
<1>3. Lined(S, R)
  BY <1>1 DEF Lined
<1>4. /\ \A x, y \in S : Rank(x) = Rank(y) => x = y
      /\ \A i \in 0 .. Cardinality(S) - 1 : \E x \in S : Rank(x) = i
      /\ \A x \in S : Rank(x) \in 0 .. Cardinality(S) - 1
  <2>1. \A x \in S : Rank(x) = Cardinality(Ahead(S, R, x))
    BY <1>2
  <2>2. Places(S, R)
    BY <1>3, Placed
  <2>3. \A x \in S : Cardinality(Ahead(S, R, x)) \in 0 .. Cardinality(S) - 1
    BY <1>3, FewerAhead
  <2> HIDE DEF Rank
  <2> QED
    BY <2>1, <2>2, <2>3 DEF Places
<1> HIDE DEF Rank
<1>5. Cardinality(S) \in Nat
  BY FS_CardinalityType
<1>6. \A i : Nth(S, i) = CHOOSE r \in S : Rank(r) = i - 1
  BY DEF Nth, Rank
<1>7. ASSUME NEW i \in 1 .. Cardinality(S) PROVE Nth(S, i) \in S /\ Rank(Nth(S, i)) = i - 1
  <2>1. i - 1 \in 0 .. Cardinality(S) - 1
    BY <1>5
  <2>2. PICK x \in S : Rank(x) = i - 1
    BY <1>4, <2>1
  <2> QED
    BY <1>6, <2>2
<1>8. ASSUME NEW r \in S PROVE \E i \in 1 .. Cardinality(S) : r = Nth(S, i) /\ Rank(r) = i - 1
  <2>1. PICK i \in 1 .. Cardinality(S) : Rank(r) = i - 1
    <3>1. Rank(r) + 1 \in 1 .. Cardinality(S) /\ Rank(r) = (Rank(r) + 1) - 1
      BY <1>4, <1>5
    <3> QED
      BY <3>1
  <2>2. Nth(S, i) \in S /\ Rank(Nth(S, i)) = Rank(r)
    BY <1>7, <2>1
  <2> QED
    BY <1>4, <2>1, <2>2
<1> QED
  BY <1>7, <1>8 DEF Rank

\* The first rows are those in the first places.
LEMMA FirstAre ==
    ASSUME NEW S \in SUBSET Nat, IsFiniteSet(S), NEW n \in 0 .. Cardinality(S), NEW r
    PROVE  r \in FirstRows(S, n) <=> \E i \in 1 .. n : r = Nth(S, i)
<1>0. Cardinality(S) \in Nat
  BY FS_CardinalityType
<1>1. ASSUME r \in FirstRows(S, n) PROVE \E i \in 1 .. n : r = Nth(S, i)
  <2>1. r \in S /\ Cardinality({q \in S : q < r}) < n
    BY <1>1 DEF FirstRows
  <2>2. PICK i \in 1 .. Cardinality(S) : r = Nth(S, i) /\ Cardinality({q \in S : q < r}) = i - 1
    BY <2>1, NthIs
  <2>3. i \in 1 .. n
    BY <1>0, <2>1, <2>2
  <2> QED
    BY <2>2, <2>3
<1>2. ASSUME NEW i \in 1 .. n, r = Nth(S, i) PROVE r \in FirstRows(S, n)
  <2>1. i \in 1 .. Cardinality(S) /\ i - 1 < n
    BY <1>0
  <2>2. r \in S /\ Cardinality({q \in S : q < r}) = i - 1
    BY <1>2, <2>1, NthIs
  <2> QED
    BY <2>1, <2>2 DEF FirstRows
<1> QED
  BY <1>1, <1>2

\* Groups that share no row: D numbers them, and g gives the rows of each.
Disjoint(D, g) ==
    /\ IsFiniteSet(D)
    /\ \A k \in D : g[k] \in SUBSET Nat /\ IsFiniteSet(g[k])
    /\ \A j, k \in D : j # k => g[j] \cap g[k] = {}

\* The first rows of every group, all together.
Firsts(D, g, q) == UNION {FirstRows(g[k], q[k]) : k \in D}

\* The first rows of disjoint groups are as many as the quotas say.
LEMMA FirstsCount ==
    ASSUME NEW D, NEW g, Disjoint(D, g), NEW q, \A k \in D : q[k] \in 0 .. Cardinality(g[k])
    PROVE  IsFiniteSet(Firsts(D, g, q)) /\ Cardinality(Firsts(D, g, q)) = Total(q, D)
<1> DEFINE P == Pairs(q, D)
           F == Firsts(D, g, q)
           f == [x \in P |-> Nth(g[x[1]], x[2])]
<1>1. \A k \in D : Cardinality(g[k]) \in Nat
  BY FS_CardinalityType DEF Disjoint
<1>2. \A k \in D : q[k] \in Nat
  BY <1>1
<1>3. IsFiniteSet(P) /\ Total(q, D) = Cardinality(P)
  BY <1>2, Sums DEF Summed, Disjoint
<1>4. \A k \in D : \A i \in 1 .. q[k] :
         /\ <<k, i>> \in P
         /\ f[<<k, i>>] = Nth(g[k], i)
         /\ Nth(g[k], i) \in g[k]
         /\ Cardinality({r \in g[k] : r < Nth(g[k], i)}) = i - 1
  <2> SUFFICES ASSUME NEW k \in D, NEW i \in 1 .. q[k]
               PROVE  /\ <<k, i>> \in P
                      /\ f[<<k, i>>] = Nth(g[k], i)
                      /\ Nth(g[k], i) \in g[k]
                      /\ Cardinality({r \in g[k] : r < Nth(g[k], i)}) = i - 1
    OBVIOUS
  <2>1. <<k, i>> \in P
    BY InPairs
  <2>2. f[<<k, i>>] = Nth(g[k], i)
    BY <2>1
  <2>3. i \in 1 .. Cardinality(g[k])
    BY <1>1, <1>2
  <2>4. Nth(g[k], i) \in g[k] /\ Cardinality({r \in g[k] : r < Nth(g[k], i)}) = i - 1
    BY <2>3, NthIs DEF Disjoint
  <2> QED
    BY <2>1, <2>2, <2>4
<1>0. DOMAIN f = P /\ f = [x \in DOMAIN f |-> f[x]]
  OBVIOUS
<1> HIDE DEF f
<1>5. \A r : r \in F <=> \E k \in D : \E i \in 1 .. q[k] : r = f[<<k, i>>]
  <2>1. \A r : r \in F <=> \E k \in D : r \in FirstRows(g[k], q[k])
    BY DEF Firsts
  <2>2. \A k \in D : \A r : r \in FirstRows(g[k], q[k]) <=> \E i \in 1 .. q[k] : r = Nth(g[k], i)
    BY FirstAre DEF Disjoint
  <2>3. \A k \in D : \A i \in 1 .. q[k] : f[<<k, i>>] = Nth(g[k], i)
    BY <1>4
  <2> HIDE DEF F
  <2>4. ASSUME NEW r, r \in F PROVE \E k \in D : \E i \in 1 .. q[k] : r = f[<<k, i>>]
    <3>1. PICK k \in D : r \in FirstRows(g[k], q[k])
      BY <2>1, <2>4
    <3>2. PICK i \in 1 .. q[k] : r = Nth(g[k], i)
      BY <2>2, <3>1
    <3> QED
      BY <2>3, <3>2
  <2>5. ASSUME NEW k \in D, NEW i \in 1 .. q[k] PROVE f[<<k, i>>] \in F
    BY <2>1, <2>2, <2>3
  <2> QED
    BY <2>4, <2>5
<1>6. \A x : x \in P <=> \E k \in D : \E i \in 1 .. q[k] : x = <<k, i>>
  BY InPairs
<1>7. f \in [P -> F]
  <2>1. \A x \in P : f[x] \in F
    BY <1>5, <1>6
  <2> HIDE DEF P, F
  <2> QED
    BY <1>0, <2>1
<1>8. ASSUME NEW x \in P, NEW y \in P, f[x] = f[y] PROVE x = y
  <2>1. PICK k \in D : \E i \in 1 .. q[k] : x = <<k, i>>
    BY <1>6
  <2>a. PICK i \in 1 .. q[k] : x = <<k, i>>
    BY <2>1
  <2>2. PICK l \in D : \E j \in 1 .. q[l] : y = <<l, j>>
    BY <1>6
  <2>b. PICK j \in 1 .. q[l] : y = <<l, j>>
    BY <2>2
  <2>3. Nth(g[k], i) = Nth(g[l], j) /\ Nth(g[k], i) \in g[k] /\ Nth(g[l], j) \in g[l]
    BY <1>4, <1>8, <2>a, <2>b
  <2>4. k = l
    BY <2>3 DEF Disjoint
  <2>5. i - 1 = j - 1
    <3>1. /\ Cardinality({r \in g[k] : r < Nth(g[k], i)}) = i - 1
          /\ Cardinality({r \in g[l] : r < Nth(g[l], j)}) = j - 1
      BY <1>4
    <3> QED
      BY <2>3, <2>4, <3>1
  <2>6. i = j
    BY <1>2, <2>4, <2>5
  <2> QED
    BY <2>a, <2>b, <2>4, <2>6
<1>9. \A r \in F : \E x \in P : f[x] = r
  BY <1>5, <1>6
<1> HIDE DEF f, P, F
<1>10. f \in Bijection(P, F)
  BY <1>7, <1>8, <1>9 DEF Bijection, Injection, Surjection, IsInjective
<1>11. ExistsBijection(P, F)
  BY <1>10 DEF ExistsBijection
<1>12. IsFiniteSet(F) /\ Cardinality(F) = Cardinality(P)
  BY <1>3, <1>11, FS_Bijection
<1> QED
  BY <1>3, <1>12 DEF F

\* All rows of every group.
LEMMA AllRows ==
    ASSUME NEW D, NEW g, Disjoint(D, g), NEW q, \A k \in D : q[k] = Cardinality(g[k])
    PROVE  Firsts(D, g, q) = UNION {g[k] : k \in D}
<1>1. ASSUME NEW k \in D PROVE FirstRows(g[k], q[k]) = g[k]
  <2>1. g[k] \in SUBSET Nat /\ IsFiniteSet(g[k]) /\ Cardinality(g[k]) \in Nat
    BY FS_CardinalityType DEF Disjoint
  <2>2. ASSUME NEW r \in g[k] PROVE r \in FirstRows(g[k], q[k])
    <3>1. \E i \in 1 .. Cardinality(g[k]) : r = Nth(g[k], i)
      BY <2>1, NthIs, ZenonT(60)
    <3>2. Cardinality(g[k]) \in 0 .. Cardinality(g[k])
      BY <2>1
    <3> QED
      BY <2>1, <3>1, <3>2, FirstAre
  <2> QED
    BY <2>2 DEF FirstRows
<1> QED
  BY <1>1 DEF Firsts

-------------------------------------------------------------------------------
(* What is handed out down a line.                                           *)

\* One each for the first n: no more than n.
LEMMA FewSingles ==
    ASSUME NEW S, NEW R, Lined(S, R), NEW n \in Nat, NEW s,
           \A k \in S : s[k] = IF Cardinality(Ahead(S, R, k)) < n THEN 1 ELSE 0
    PROVE  Total(s, S) <= n
<1> DEFINE P == Pairs(s, S)
           f == [x \in P |-> Cardinality(Ahead(S, R, x[1]))]
<1>1. \A x \in P : \E k \in S : x = <<k, 1>> /\ Cardinality(Ahead(S, R, k)) \in 0 .. n - 1
  <2> SUFFICES ASSUME NEW x \in P
               PROVE  \E k \in S : x = <<k, 1>> /\ Cardinality(Ahead(S, R, k)) \in 0 .. n - 1
    OBVIOUS
  <2>1. PICK k \in S : \E i \in 1 .. s[k] : x = <<k, i>>
    BY InPairs
  <2>2. PICK i \in 1 .. s[k] : x = <<k, i>>
    BY <2>1
  <2>3. Cardinality(Ahead(S, R, k)) \in 0 .. Cardinality(S) - 1 /\ Cardinality(S) \in Nat
    BY FewerAhead, FS_CardinalityType DEF Lined
  <2>4. i = 1 /\ Cardinality(Ahead(S, R, k)) < n
    BY <2>2, <2>3
  <2> QED
    BY <2>2, <2>3, <2>4
<1>2. f \in [P -> 0 .. n - 1]
  BY <1>1
<1>3. \A x, y \in P : f[x] = f[y] => x = y
  BY <1>1, Placed DEF Places
<1> HIDE DEF f
<1>4. f \in Injection(P, 0 .. n - 1)
  BY <1>2, <1>3 DEF Injection, IsInjective
<1>5. IsFiniteSet(0 .. n - 1) /\ Cardinality(0 .. n - 1) = n
  BY FS_Interval
<1>6. Cardinality(P) <= n
  BY <1>4, <1>5, FS_Injection
<1>7. Total(s, S) = Cardinality(P)
  BY DEF Total, Pairs
<1> QED
  BY <1>6, <1>7

\* What those before x ask for, x itself, and those before the ones behind it.
LEMMA Bases ==
    ASSUME NEW S, NEW R, Lined(S, R), NEW c, \A k \in S : c[k] \in Nat, NEW x \in S
    PROVE  /\ Total(c, Ahead(S, R, x)) \in Nat
           /\ Total(c, Ahead(S, R, x) \cup {x}) = Total(c, Ahead(S, R, x)) + c[x]
           /\ \A T \in SUBSET S : Ahead(S, R, x) \cup {x} \subseteq T =>
                Total(c, Ahead(S, R, x)) + c[x] <= Total(c, T)
           /\ \A y \in S : <<x, y>> \in R => Ahead(S, R, x) \cup {x} \subseteq Ahead(S, R, y)
<1>0. IsFiniteSet(S) /\ x \notin Ahead(S, R, x) /\ \A y \in S : Ahead(S, R, y) \in SUBSET S
  BY DEF Lined, Ahead
<1>1. Summed(c, Ahead(S, R, x))
  BY <1>0, Sums
<1>2. Total(c, Ahead(S, R, x) \cup {x}) = Total(c, Ahead(S, R, x)) + c[x]
  BY <1>0, <1>1, SumStep
<1>3. ASSUME NEW T \in SUBSET S, Ahead(S, R, x) \cup {x} \subseteq T
      PROVE  Total(c, Ahead(S, R, x)) + c[x] <= Total(c, T)
  <2>1. IsFiniteSet(T)
    BY <1>0, FS_Subset
  <2> QED
    BY <1>2, <1>3, <2>1, SumFewer
<1>4. \A y \in S : <<x, y>> \in R => Ahead(S, R, x) \cup {x} \subseteq Ahead(S, R, y)
  BY DEF Lined, Ahead
<1> QED
  BY <1>1, <1>2, <1>3, <1>4 DEF Summed

\* The next in line has behind its back what the one before had, and that one.
LEMMA NextInLine ==
    ASSUME NEW S, NEW R, Lined(S, R), NEW x \in S, NEW T \in SUBSET S, IsFiniteSet(T),
           Ahead(S, R, x) \cup {x} \subseteq T,
           Cardinality(T) = Cardinality(Ahead(S, R, x)) + 1
    PROVE  T = Ahead(S, R, x) \cup {x}
<1>0. x \notin Ahead(S, R, x)
  BY DEF Lined, Ahead
<1>1. IsFiniteSet(Ahead(S, R, x)) /\ x \notin Ahead(S, R, x)
  BY <1>0, FewerAhead
<1>2. Cardinality(Ahead(S, R, x) \cup {x}) = Cardinality(Ahead(S, R, x)) + 1
  BY <1>1, FS_AddElement, Zenon
<1> QED
  BY <1>2, FS_Subset

\* The first in line get what they ask for until nothing is left: when all ask
\* for more than there is, everything is handed out.
LEMMA Squeeze ==
    ASSUME NEW S, NEW R, Lined(S, R), NEW c, \A k \in S : c[k] \in Nat,
           NEW n \in Nat, Total(c, S) > n, NEW q,
           \A k \in S : q[k] = IF n - Total(c, Ahead(S, R, k)) <= 0 THEN 0
                               ELSE Lesser(c[k], n - Total(c, Ahead(S, R, k)))
    PROVE  Total(q, S) = n
<1> DEFINE Base(k) == Total(c, Ahead(S, R, k))
           P == Pairs(q, S)
           f == [x \in P |-> Base(x[1]) + x[2]]
<1>1. IsFiniteSet(S) /\ Cardinality(S) \in Nat
  BY FS_CardinalityType DEF Lined
<1>2. /\ \A k \in S : Base(k) \in Nat /\ Base(k) + c[k] <= Total(c, S)
      /\ \A j, k \in S : <<j, k>> \in R => Base(j) + c[j] <= Base(k)
  <2>1. \A k \in S : Ahead(S, R, k) \cup {k} \subseteq S /\ Ahead(S, R, k) \in SUBSET S
    BY DEF Ahead
  <2> QED
    BY <2>1, Bases
<1>3. \A k \in S : q[k] = IF n - Base(k) <= 0 THEN 0 ELSE Lesser(c[k], n - Base(k))
  OBVIOUS
<1>4. Total(c, S) \in Nat
  BY <1>1, Sums DEF Summed
<1>5. ASSUME NEW t \in 1 .. n
      PROVE  \E k \in S : Base(k) < t /\ t <= Base(k) + c[k]
  <2> SUFFICES ASSUME \A k \in S : Base(k) < t => Base(k) + c[k] < t PROVE FALSE
    BY <1>2
  <2> DEFINE T == {i \in Nat : \A k \in S :
                      Cardinality(Ahead(S, R, k)) = i => Base(k) + c[k] < t}
  <2>1. 0 \in T
    <3> SUFFICES ASSUME NEW k \in S, Cardinality(Ahead(S, R, k)) = 0 PROVE Base(k) + c[k] < t
      OBVIOUS
    <3>1. Ahead(S, R, k) = {}
      BY FewerAhead, FS_EmptySet
    <3>2. Base(k) = 0
      BY <3>1, NoSum
    <3> QED
      BY <3>2
  <2>2. ASSUME NEW i \in Nat, i \in T PROVE i + 1 \in T
    <3> SUFFICES ASSUME NEW k \in S, Cardinality(Ahead(S, R, k)) = i + 1
                 PROVE  Base(k) + c[k] < t
      OBVIOUS
    <3>1. i \in 0 .. Cardinality(S) - 1
      BY <1>1, FewerAhead
    <3>2. PICK j \in S : Cardinality(Ahead(S, R, j)) = i
      BY <3>1, Placed DEF Places
    <3>3. <<j, k>> \in R
      <4>1. j # k
        BY <3>2
      <4>2. ~ (Cardinality(Ahead(S, R, k)) < Cardinality(Ahead(S, R, j)))
        BY <3>2
      <4> QED
        BY <4>1, <4>2, FewerAhead DEF Lined
    <3>4. Ahead(S, R, k) = Ahead(S, R, j) \cup {j}
      <4>1. Ahead(S, R, j) \cup {j} \subseteq Ahead(S, R, k) /\ Ahead(S, R, k) \in SUBSET S
        BY <3>3 DEF Lined, Ahead
      <4>2. IsFiniteSet(Ahead(S, R, k))
        BY FewerAhead
      <4> QED
        BY <3>2, <4>1, <4>2, NextInLine
    <3>5. Base(k) = Base(j) + c[j]
      BY <3>4, Bases
    <3>6. Base(j) + c[j] < t
      BY <2>2, <3>2
    <3> QED
      BY <3>5, <3>6
  <2> HIDE DEF T
  <2>3. Nat \subseteq T
    BY <2>1, <2>2, Climb
  <2>4. Cardinality(S) # 0
    <3>1. S # {}
      <4> SUFFICES ASSUME S = {} PROVE FALSE
        OBVIOUS
      <4>1. Total(c, S) = 0
        BY NoSum
      <4> QED
        BY <4>1
    <3> QED
      BY <1>1, <3>1, FS_EmptySet
  <2>5. Cardinality(S) - 1 \in Nat /\ Cardinality(S) - 1 \in 0 .. Cardinality(S) - 1
    BY <1>1, <2>4
  <2>6. PICK k \in S : Cardinality(Ahead(S, R, k)) = Cardinality(S) - 1
    BY <2>5, Placed DEF Places
  <2>7. S = Ahead(S, R, k) \cup {k}
    <3>1. Cardinality(S) = Cardinality(Ahead(S, R, k)) + 1 /\ Ahead(S, R, k) \cup {k} \subseteq S
      BY <1>1, <2>6 DEF Ahead
    <3> QED
      BY <1>1, <3>1, NextInLine
  <2>8. Total(c, S) = Base(k) + c[k]
    BY <2>7, Bases
  <2>9. Base(k) + c[k] < t
    BY <2>3, <2>5, <2>6 DEF T
  <2> QED
    BY <1>4, <2>8, <2>9
<1> HIDE DEF Base
<1>6. \A k \in S : q[k] \in Nat /\ q[k] <= c[k] /\ (q[k] # 0 => Base(k) + q[k] <= n)
  BY <1>2, <1>3 DEF Lesser
<1>7. IsFiniteSet(P) /\ Total(q, S) = Cardinality(P)
  BY <1>1, <1>6, Sums DEF Summed
<1>8. \A x : x \in P <=> \E k \in S : \E i \in 1 .. q[k] : x = <<k, i>>
  BY InPairs
<1>9. \A k \in S : \A i \in 1 .. q[k] : f[<<k, i>>] = Base(k) + i
  BY <1>8
<1>0. DOMAIN f = P /\ f = [x \in DOMAIN f |-> f[x]]
  OBVIOUS
<1> HIDE DEF f, P
<1>10. f \in [P -> 1 .. n]
  <2>1. ASSUME NEW x \in P PROVE f[x] \in 1 .. n
    <3>1. PICK k \in S : \E i \in 1 .. q[k] : x = <<k, i>>
      BY <1>8
    <3>2. PICK i \in 1 .. q[k] : x = <<k, i>>
      BY <3>1
    <3>3. f[x] = Base(k) + i /\ Base(k) \in Nat /\ q[k] \in Nat /\ Base(k) + q[k] <= n
      BY <1>2, <1>6, <1>9, <3>2
    <3> QED
      BY <3>3
  <2> QED
    BY <1>0, <2>1
<1>11. ASSUME NEW x \in P, NEW y \in P, f[x] = f[y] PROVE x = y
  <2>1. PICK k \in S : \E i \in 1 .. q[k] : x = <<k, i>>
    BY <1>8
  <2>2. PICK i \in 1 .. q[k] : x = <<k, i>>
    BY <2>1
  <2>3. PICK l \in S : \E j \in 1 .. q[l] : y = <<l, j>>
    BY <1>8
  <2>4. PICK j \in 1 .. q[l] : y = <<l, j>>
    BY <2>3
  <2>5. Base(k) + i = Base(l) + j /\ Base(k) \in Nat /\ Base(l) \in Nat
    BY <1>2, <1>9, <1>11, <2>2, <2>4
  <2>6. /\ q[k] \in Nat /\ q[l] \in Nat /\ q[k] <= c[k] /\ q[l] <= c[l]
        /\ c[k] \in Nat /\ c[l] \in Nat
    BY <1>6
  <2>7. <<k, l>> \notin R
    <3> SUFFICES ASSUME <<k, l>> \in R PROVE FALSE
      OBVIOUS
    <3>1. Base(k) + c[k] <= Base(l)
      BY <1>2
    <3> QED
      BY <2>5, <2>6, <3>1
  <2>8. <<l, k>> \notin R
    <3> SUFFICES ASSUME <<l, k>> \in R PROVE FALSE
      OBVIOUS
    <3>1. Base(l) + c[l] <= Base(k)
      BY <1>2
    <3> QED
      BY <2>5, <2>6, <3>1
  <2>9. k = l
    BY <2>7, <2>8 DEF Lined
  <2> QED
    BY <2>2, <2>4, <2>5, <2>6, <2>9
<1>12. ASSUME NEW t \in 1 .. n PROVE \E x \in P : f[x] = t
  <2>1. PICK k \in S : Base(k) < t /\ t <= Base(k) + c[k]
    BY <1>5
  <2> DEFINE i == t - Base(k)
  <2>2. Base(k) \in Nat /\ c[k] \in Nat /\ q[k] \in Nat
    BY <1>2, <1>6
  <2>3. n - Base(k) > 0
    BY <2>1, <2>2
  <2>4. q[k] = Lesser(c[k], n - Base(k))
    BY <1>3, <2>2, <2>3
  <2>5. i \in 1 .. q[k]
    BY <2>1, <2>2, <2>4 DEF Lesser
  <2>6. <<k, i>> \in P /\ f[<<k, i>>] = Base(k) + i
    BY <1>8, <1>9, <2>5
  <2> QED
    BY <2>2, <2>6
<1>13. f \in Bijection(P, 1 .. n)
  BY <1>10, <1>11, <1>12 DEF Bijection, Injection, Surjection, IsInjective
<1>14. ExistsBijection(P, 1 .. n)
  BY <1>13 DEF ExistsBijection
<1>15. Cardinality(1 .. n) = Cardinality(P)
  BY <1>7, <1>14, FS_Bijection
<1>16. Cardinality(1 .. n) = n
  BY FS_Interval
<1> QED
  BY <1>7, <1>15, <1>16

-------------------------------------------------------------------------------
(* The groups of the cached rows.                                            *)

\* A set of natural numbers has a least one.
LEMMA LeastNat ==
    ASSUME NEW T \in SUBSET Nat, T # {}
    PROVE  \E m \in T : \A n \in T : m <= n
<1> DEFINE R == OpToRel(<, Nat)
<1>1. IsWellFoundedOn(R, Nat)
  BY NatLessThanWellFounded
<1>2. \A n, k \in Nat : n < k => <<n, k>> \in R
  BY DEF OpToRel
<1> HIDE DEF R
<1>3. PICK m \in T : \A n \in T : ~ (<<n, m>> \in R)
  BY <1>1, WFMin
<1>4. SUFFICES ASSUME NEW n \in T PROVE m <= n
  OBVIOUS
<1>5. m \in Nat /\ n \in Nat /\ ~ (n < m)
  BY <1>2, <1>3
<1> QED
  BY <1>5

Row == [group : Nat, origin : Nat \X Nat, std : Nat, diversity : Nat]

\* The sizes of a run.
LEMMA SizesAre ==
    ASSUME cf \in Settings
    PROVE  /\ Generations(cf.loo) \in 2 .. 3 /\ Need \in Nat \ {0}
           /\ PromptsPerBatch \in Nat \ {0} /\ PromptsPerStep \in Nat \ {0}
           /\ Generations(cf.loo) * PromptsPerBatch \in Nat
           /\ cf.loo \in BOOLEAN /\ cf.graded \in BOOLEAN
           /\ cf.exponent \in 0 .. 2 /\ cf.floor \in Nat
<1>1. /\ cf.loo \in LeaveOneOut /\ cf.graded \in Graded
      /\ cf.floor \in Floors /\ cf.exponent \in Exponents
  BY DEF Settings
<1>2. PromptsPerStep \in Nat \ {0} /\ PromptsPerBatch \in Nat \ {0}
  BY AllocationAssumption
<1>3. Generations(cf.loo) \in 2 .. 3
  BY DEF Generations
<1>4. \A g \in 2 .. 3 : \A p \in Nat \ {0} : p * g \in Nat \ {0} /\ g * p \in Nat
  OBVIOUS
<1>5. Need \in Nat \ {0}
  BY <1>2, <1>3, <1>4 DEF Need
<1>6. cf.loo \in BOOLEAN /\ cf.graded \in BOOLEAN /\ cf.exponent \in 0 .. 2 /\ cf.floor \in Nat
  BY <1>1, AllocationAssumption
<1>7. Generations(cf.loo) * PromptsPerBatch \in Nat
  BY <1>2, <1>3, <1>4
<1> QED
  BY <1>2, <1>3, <1>5, <1>6, <1>7

-------------------------------------------------------------------------------
(* The inductive invariant.                                                  *)

\* The settings and the loop over the generation batches.
Batched ==
    /\ cf \in Settings
    /\ pc \in {"generate", "gate", "floors", "apportion", "train", "failed"}
    /\ ordinal \in 0 .. MaxGenBatches + 1
    /\ pc = "generate" => ordinal <= MaxGenBatches
    /\ cache \in Seq(Row)
    /\ Len(cache) <= Generations(cf.loo) * PromptsPerBatch * ordinal
    /\ remainder \in 0 .. Need

\* A group id belongs to one batch and one prompt of it.
Apart ==
    /\ \A r \in DOMAIN cache :
          /\ cache[r].origin[1] <= ordinal
          /\ \E c \in 0 .. Stride - 1 : cache[r].group = c + cache[r].origin[1] * Stride
    /\ \A r, q \in DOMAIN cache :
          cache[r].group = cache[q].group => cache[r].origin = cache[q].origin

\* Every group has rows of one id, and no row is in two groups.
Grouped ==
    /\ \E n \in Nat : DOMAIN groups = 1 .. n
    /\ \A k \in DOMAIN groups :
          /\ groups[k].rows \in SUBSET DOMAIN cache
          /\ groups[k].size = Cardinality(groups[k].rows)
          /\ groups[k].weight \in Nat /\ groups[k].graded \in Nat
          /\ \A r, q \in groups[k].rows : cache[r].group = cache[q].group
    /\ \A j, k \in DOMAIN groups : j # k => groups[j].rows \cap groups[k].rows = {}
    /\ pc \in {"generate", "gate", "failed"} => DOMAIN groups = {}
    /\ pc \in {"floors", "apportion"} =>
          /\ Len(cache) > Need
          /\ UNION {groups[k].rows : k \in DOMAIN groups} = DOMAIN cache

FloorsKept == \A k \in DOMAIN groups : quotas[k] >= Minimum[k]

FloorsSqueezed ==
    \A k \in DOMAIN groups :
        \/ quotas[k] >= Minimum[k]
        \/ \A j \in DOMAIN groups : quotas[j] > 0 => groups[j].graded >= groups[k].graded

Heavier ==
    \A j, k \in DOMAIN groups :
        groups[j].graded > groups[k].graded =>
            quotas[j] >= quotas[k] \/ quotas[j] = groups[j].size

\* No group has more than its rows; the floors are kept while there is anything
\* to hand out, and no turn of the loop undoes what an earlier one gave.
Shared ==
    /\ DOMAIN quotas = DOMAIN groups
    /\ \A k \in DOMAIN groups : quotas[k] \in 0 .. groups[k].size
    /\ FloorsKept \/ (remainder = 0 /\ FloorsSqueezed)
    /\ Heavier

\* What was handed out and what remains are the rows of a step.
Handed ==
    /\ pc \in {"apportion", "train"} => Shared
    /\ pc \notin {"apportion", "train"} => DOMAIN quotas = {}
    /\ pc = "apportion" => Total(quotas, DOMAIN groups) + remainder = Need
    /\ pc = "train" => Cardinality(kept) = Need

Allocating == Batched /\ Apart /\ Grouped /\ Handed

\* Nothing is cached at first.
LEMMA InitAllocating == ASSUME Init PROVE Allocating
<1>1. cf \in Settings /\ pc = "generate" /\ ordinal = 0 /\ cache = <<>> /\ groups = <<>>
      /\ quotas = <<>> /\ remainder = 0
  BY DEF Init
<1>2. DOMAIN cache = {} /\ DOMAIN groups = {} /\ DOMAIN quotas = {} /\ cache \in Seq(Row) /\ Len(cache) = 0
  BY <1>1
<1>3. Generations(cf.loo) * PromptsPerBatch \in Nat /\ Need \in Nat /\ MaxGenBatches \in Nat
  BY <1>1, SizesAre, AllocationAssumption
<1>4. \A x \in Nat : x * 0 = 0
  OBVIOUS
<1>5. Batched
  BY <1>1, <1>2, <1>3, <1>4 DEF Batched
<1>6. Apart
  BY <1>2 DEF Apart
<1>7. DOMAIN groups = 1 .. 0
  BY <1>2
<1>8. Grouped
  BY <1>1, <1>2, <1>7 DEF Grouped
<1>9. Handed
  BY <1>1, <1>2 DEF Handed
<1> QED
  BY <1>5, <1>6, <1>8, <1>9 DEF Allocating

-------------------------------------------------------------------------------
(* A generation batch.                                                       *)

\* Ids of two batches differ, and the batch can be read off an id.
LEMMA IdsOfBatches ==
    ASSUME NEW s, s \in Nat, NEW c, c \in 0 .. s - 1, NEW d, d \in 0 .. s - 1,
           NEW o, o \in Nat, NEW p, p \in Nat, c + o * s = d + p * s
    PROVE  o = p /\ c = d
<1>1. \A a, b \in Nat : a < b => a * s + s <= b * s
  <2> SUFFICES ASSUME NEW a \in Nat, NEW b \in Nat, a < b PROVE a * s + s <= b * s
    OBVIOUS
  <2>1. PICK e \in Nat : b = a + 1 + e
    <3>1. b - a - 1 \in Nat /\ b = a + 1 + (b - a - 1)
      OBVIOUS
    <3> QED
      BY <3>1
  <2>2. b * s = a * s + s + e * s
    BY <2>1
  <2>3. e * s \in Nat /\ a * s \in Nat
    OBVIOUS
  <2> QED
    BY <2>2, <2>3
<1>2. o * s \in Nat /\ p * s \in Nat
  OBVIOUS
<1>3. ~ (o < p)
  BY <1>1, <1>2
<1>4. ~ (p < o)
  BY <1>1, <1>2
<1>5. o = p
  BY <1>3, <1>4
<1> QED
  BY <1>2, <1>5

\* Within a batch a prompt has an id of its own, below the stride.
LEMMA IdsOfPrompts ==
    ASSUME NEW batch \in [1 .. PromptsPerBatch -> Prompts]
    PROVE  /\ \A p \in Range(batch) :
                Cardinality({q \in Range(batch) : q < p}) \in 0 .. Stride - 1
           /\ \A p, r \in Range(batch) :
                Cardinality({q \in Range(batch) : q < p}) = Cardinality({q \in Range(batch) : q < r})
                  => p = r
<1> DEFINE B == Range(batch)
<1>1. PromptsPerBatch \in Nat /\ Stride \in Nat /\ PromptsPerBatch <= Stride /\ Prompts \subseteq Nat
  BY AllocationAssumption
<1>2. B \subseteq Nat
  BY <1>1 DEF Range
<1>3. IsFiniteSet(1 .. PromptsPerBatch) /\ Cardinality(1 .. PromptsPerBatch) = PromptsPerBatch
  BY <1>1, FS_Interval
<1>4. batch \in Surjection(1 .. PromptsPerBatch, B)
  BY DEF Surjection, Range
<1>5. IsFiniteSet(B) /\ Cardinality(B) <= PromptsPerBatch
  BY <1>3, <1>4, FS_Surjection
<1>6. Cardinality(B) \in Nat
  BY <1>5, FS_CardinalityType
<1> HIDE DEF B
<1>7. \A p \in B : \E i \in 1 .. Cardinality(B) :
         p = Nth(B, i) /\ Cardinality({q \in B : q < p}) = i - 1
  BY <1>2, <1>5, NthIs
<1>8. ASSUME NEW p \in B
      PROVE  Cardinality({q \in B : q < p}) \in 0 .. Stride - 1
  <2>1. PICK i \in 1 .. Cardinality(B) : Cardinality({q \in B : q < p}) = i - 1
    BY <1>7
  <2> QED
    BY <1>1, <1>5, <1>6, <2>1
<1>9. ASSUME NEW p \in B, NEW r \in B,
             Cardinality({q \in B : q < p}) = Cardinality({q \in B : q < r})
      PROVE  p = r
  <2>1. PICK i \in 1 .. Cardinality(B) : p = Nth(B, i) /\ Cardinality({q \in B : q < p}) = i - 1
    BY <1>7
  <2>2. PICK j \in 1 .. Cardinality(B) : r = Nth(B, j) /\ Cardinality({q \in B : q < r}) = j - 1
    BY <1>7
  <2>3. i - 1 = j - 1
    BY <1>9, <2>1, <2>2, Zenon
  <2>4. i = j
    BY <1>6, <2>3
  <2> QED
    BY <2>1, <2>2, <2>4
<1> QED
  BY <1>8, <1>9 DEF B

\* The spread of a group's rows is a number.
LEMMA StdsAre ==
    ASSUME NEW loo \in BOOLEAN, NEW s \in GroupStds(loo), NEW i \in 1 .. Generations(loo)
    PROVE  s[i] \in Nat
<1>1. PICK rewards \in [1 .. Generations(loo) -> Rewards] : s = Stds(rewards, loo)
  BY DEF GroupStds
<1>2. Rewards \subseteq Nat
  BY AllocationAssumption
<1>3. \A a, b \in Nat : Distance(a, b) \in Nat
  BY DEF Distance
<1>4. s[i] = IF loo THEN Distance(rewards[(i % 3) + 1], rewards[((i + 1) % 3) + 1])
                    ELSE Distance(rewards[1], rewards[2])
  BY <1>1 DEF Stds
<1>5. CASE loo
  <2>1. (i % 3) + 1 \in 1 .. 3 /\ ((i + 1) % 3) + 1 \in 1 .. 3 /\ Generations(loo) = 3
    BY <1>5 DEF Generations
  <2>2. rewards[(i % 3) + 1] \in Nat /\ rewards[((i + 1) % 3) + 1] \in Nat
    BY <1>2, <2>1
  <2> QED
    BY <1>3, <1>4, <1>5, <2>2
<1>6. CASE ~loo
  <2>1. Generations(loo) = 2
    BY <1>6 DEF Generations
  <2>2. rewards \in [1 .. 2 -> Rewards] /\ 1 \in 1 .. 2 /\ 2 \in 1 .. 2
    BY <2>1
  <2>3. rewards[1] \in Nat /\ rewards[2] \in Nat
    BY <1>2, <2>2
  <2> QED
    BY <1>3, <1>4, <1>6, <2>3
<1> QED
  BY <1>5, <1>6

\* The rows of a batch, each with the id and the origin of its group.
OfBatch(rows, ord) ==
    /\ DOMAIN rows = 1 .. PromptsPerBatch * Generations(cf.loo)
    /\ \A r \in DOMAIN rows :
          /\ rows[r] \in Row /\ rows[r].origin[1] = ord
          /\ \E c \in 0 .. Stride - 1 : rows[r].group = c + ord * Stride
    /\ \A r, q \in DOMAIN rows : rows[r].group = rows[q].group => rows[r].origin = rows[q].origin

\* The rows of a new batch.
LEMMA RowsAre ==
    ASSUME cf \in Settings, NEW batch \in [1 .. PromptsPerBatch -> Prompts],
           NEW stds \in [1 .. PromptsPerBatch -> GroupStds(cf.loo)],
           NEW diversity \in [1 .. PromptsPerBatch -> Diversities], NEW ord \in Nat,
           NEW rows, rows = BatchRows(batch, stds, diversity, ord)
    PROVE  OfBatch(rows, ord)
<1> DEFINE n == Generations(cf.loo)
           of(r) == (r - 1) \div n + 1
           at(r) == ((r - 1) % n) + 1
           Rank(p) == Cardinality({q \in Range(batch) : q < p})
<1>1. PromptsPerBatch \in Nat /\ n \in 2 .. 3 /\ cf.loo \in BOOLEAN
  BY SizesAre
<1>2. DOMAIN rows = 1 .. PromptsPerBatch * n
  BY DEF BatchRows
<1>3. \A r \in DOMAIN rows :
         rows[r] = [group |-> Rank(batch[of(r)]) + ord * Stride, origin |-> <<ord, batch[of(r)]>>,
                    std |-> stds[of(r)][at(r)], diversity |-> diversity[of(r)]]
  BY DEF BatchRows, AssignGroupId
<1>4. \A r \in DOMAIN rows : of(r) \in 1 .. PromptsPerBatch /\ at(r) \in 1 .. n
  <2>1. \A p \in Nat : \A r \in 1 .. p * 2 :
           (r - 1) \div 2 + 1 \in 1 .. p /\ ((r - 1) % 2) + 1 \in 1 .. 2
    OBVIOUS
  <2>2. \A p \in Nat : \A r \in 1 .. p * 3 :
           (r - 1) \div 3 + 1 \in 1 .. p /\ ((r - 1) % 3) + 1 \in 1 .. 3
    OBVIOUS
  <2>3. CASE n = 2
    BY <1>1, <1>2, <2>1, <2>3
  <2>4. CASE n = 3
    BY <1>1, <1>2, <2>2, <2>4
  <2>5. n = 2 \/ n = 3
    BY <1>1
  <2> QED
    BY <2>3, <2>4, <2>5
<1>5. \A p \in Range(batch) : Rank(p) \in 0 .. Stride - 1
  BY IdsOfPrompts
<1>6. \A p, r \in Range(batch) : Rank(p) = Rank(r) => p = r
  BY IdsOfPrompts
<1>7. \A p \in 1 .. PromptsPerBatch : batch[p] \in Range(batch)
  BY DEF Range
<1>8. Stride \in Nat /\ Prompts \subseteq Nat /\ Diversities \subseteq Nat
  BY AllocationAssumption
<1>9. \A p \in 1 .. PromptsPerBatch : \A i \in 1 .. n : stds[p][i] \in Nat
  BY <1>1, StdsAre
<1> HIDE DEF n, of, at, Rank
<1>10. \A r \in DOMAIN rows :
          /\ rows[r].group = Rank(batch[of(r)]) + ord * Stride
          /\ rows[r].origin = <<ord, batch[of(r)]>>
          /\ rows[r].origin[1] = ord
  BY <1>3
<1>11. ASSUME NEW r \in DOMAIN rows
       PROVE  /\ rows[r] \in Row
              /\ \E c \in 0 .. Stride - 1 : rows[r].group = c + ord * Stride
  <2>1. of(r) \in 1 .. PromptsPerBatch /\ at(r) \in 1 .. n
    BY <1>4
  <2>2. Rank(batch[of(r)]) \in 0 .. Stride - 1
    BY <1>5, <1>7, <2>1
  <2>3. Rank(batch[of(r)]) \in Nat /\ ord * Stride \in Nat
    BY <1>8, <2>2
  <2>4. Rank(batch[of(r)]) + ord * Stride \in Nat
    BY <2>3
  <2>5. batch[of(r)] \in Nat /\ diversity[of(r)] \in Nat /\ stds[of(r)][at(r)] \in Nat
    BY <1>8, <1>9, <2>1
  <2>6. rows[r] \in Row
    BY <1>3, <2>4, <2>5 DEF Row
  <2> QED
    BY <1>10, <2>2, <2>6
<1>12. ASSUME NEW r \in DOMAIN rows, NEW q \in DOMAIN rows, rows[r].group = rows[q].group
       PROVE  rows[r].origin = rows[q].origin
  <2>1. of(r) \in 1 .. PromptsPerBatch /\ of(q) \in 1 .. PromptsPerBatch
    BY <1>4
  <2>2. batch[of(r)] \in Range(batch) /\ batch[of(q)] \in Range(batch)
    BY <1>7, <2>1
  <2>3. Rank(batch[of(r)]) \in Nat /\ Rank(batch[of(q)]) \in Nat /\ ord * Stride \in Nat
    BY <1>5, <1>8, <2>2
  <2>4. Rank(batch[of(r)]) + ord * Stride = Rank(batch[of(q)]) + ord * Stride
    BY <1>10, <1>12
  <2>5. Rank(batch[of(r)]) = Rank(batch[of(q)])
    BY <2>3, <2>4
  <2> QED
    BY <1>6, <1>10, <2>2, <2>5
<1> QED
  BY <1>2, <1>10, <1>11, <1>12 DEF n, OfBatch

\* The gate takes rows out and leaves the others as they are.
Gated(rows, new, n) ==
    \E m \in 0 .. n :
        /\ new = [i \in 1 .. m |-> new[i]]
        /\ \A i \in 1 .. m : \E r \in 1 .. n : new[i] = rows[r]

\* The rows the gate lets through.
LEMMA InformativeAre ==
    ASSUME NEW n, n \in Nat, NEW rows, DOMAIN rows = 1 .. n
    PROVE  Gated(rows, Informative(rows), n)
<1> DEFINE passed == {r \in DOMAIN rows : rows[r].std # 0}
<1>1. passed \subseteq 1 .. n
  OBVIOUS
<1>2. IsFiniteSet(1 .. n) /\ Cardinality(1 .. n) = n
  BY FS_Interval
<1>3. IsFiniteSet(passed) /\ Cardinality(passed) <= n
  BY <1>1, <1>2, FS_Subset
<1>4. Cardinality(passed) \in 0 .. n
  BY <1>3, FS_CardinalityType
<1>5. Informative(rows) = [i \in 1 .. Cardinality(passed) |-> rows[Nth(passed, i)]]
  BY DEF Informative
<1> HIDE DEF passed
<1>6. passed \in SUBSET Nat
  BY <1>1
<1>7. \A i \in 1 .. Cardinality(passed) : Nth(passed, i) \in passed
  BY <1>3, <1>6, NthIs
<1> QED
  BY <1>1, <1>4, <1>5, <1>7 DEF Gated

-------------------------------------------------------------------------------
(* A batch is generated, and gated.                                          *)

\* A batch is generated and gated.
LEMMA GenerateKeeps == ASSUME Allocating, Generate PROVE Allocating'
<1> USE DEF Allocating
<1>1. /\ pc = "generate" /\ ordinal' = ordinal + 1 /\ pc' = "gate"
      /\ UNCHANGED <<cf, groups, quotas, remainder, kept>>
  BY DEF Generate
<1>2. PICK batch \in Batches :
      \E stds \in [1 .. PromptsPerBatch -> GroupStds(cf.loo)] :
      \E diversity \in [1 .. PromptsPerBatch -> Diversities] :
          cache' = cache \o Informative(BatchRows(batch, stds, diversity, ordinal + 1))
  BY DEF Generate
<1>3. PICK stds \in [1 .. PromptsPerBatch -> GroupStds(cf.loo)] :
      \E diversity \in [1 .. PromptsPerBatch -> Diversities] :
          cache' = cache \o Informative(BatchRows(batch, stds, diversity, ordinal + 1))
  BY <1>2
<1>4. PICK diversity \in [1 .. PromptsPerBatch -> Diversities] :
          cache' = cache \o Informative(BatchRows(batch, stds, diversity, ordinal + 1))
  BY <1>3
<1>5. PICK rows : rows = BatchRows(batch, stds, diversity, ordinal + 1)
  OBVIOUS
<1>6. batch \in [1 .. PromptsPerBatch -> Prompts]
  BY DEF Batches
<1>7. /\ cf \in Settings /\ ordinal \in Nat /\ ordinal <= MaxGenBatches /\ ordinal + 1 \in Nat
      /\ MaxGenBatches \in Nat /\ cache \in Seq(Row)
  BY <1>1, AllocationAssumption DEF Batched
<1>a. OfBatch(rows, ordinal + 1)
  <2>1. cf \in Settings /\ ordinal + 1 \in Nat
    BY <1>7
  <2> QED
    BY <1>5, <1>6, <2>1, RowsAre
<1>8. /\ DOMAIN rows = 1 .. PromptsPerBatch * Generations(cf.loo)
      /\ \A r \in DOMAIN rows :
           /\ rows[r] \in Row /\ rows[r].origin[1] = ordinal + 1
           /\ \E c \in 0 .. Stride - 1 : rows[r].group = c + (ordinal + 1) * Stride
      /\ \A r, q \in DOMAIN rows : rows[r].group = rows[q].group => rows[r].origin = rows[q].origin
  BY <1>a DEF OfBatch
<1> DEFINE n == Generations(cf.loo) * PromptsPerBatch
<1>9. n \in Nat /\ PromptsPerBatch * Generations(cf.loo) = n /\ Need \in Nat
  BY <1>7, SizesAre
<1> HIDE DEF n
<1>11. PICK new : new = Informative(rows)
  OBVIOUS
<1>10. Gated(rows, new, n)
  <2>1. n \in Nat /\ DOMAIN rows = 1 .. n
    BY <1>8, <1>9
  <2> QED
    BY <1>11, <2>1, InformativeAre
<1>12. PICK m \in 0 .. n :
           new = [i \in 1 .. m |-> new[i]] /\ \A i \in 1 .. m : \E r \in DOMAIN rows : new[i] = rows[r]
  BY <1>8, <1>9, <1>10 DEF Gated
<1>13. m \in Nat /\ \A i \in 1 .. m : new[i] \in Row
  BY <1>8, <1>9, <1>12
<1>14. new \in Seq(Row) /\ Len(new) = m
  BY <1>12, <1>13
<1>15. cache' = cache \o new
  BY <1>4, <1>5, <1>11
<1>16. /\ cache' \in Seq(Row) /\ Len(cache') = Len(cache) + m
       /\ \A i \in 1 .. Len(cache) : cache'[i] = cache[i]
       /\ \A i \in 1 .. m : cache'[Len(cache) + i] = new[i]
  BY <1>7, <1>12, <1>14, <1>15
<1>17. Len(cache) \in Nat /\ DOMAIN cache = 1 .. Len(cache) /\ DOMAIN cache' = 1 .. Len(cache')
  BY <1>7, <1>16
\* Every row is an old one or one of the batch.
<1>18. \A i \in DOMAIN cache' :
           \/ i \in DOMAIN cache /\ cache'[i] = cache[i]
           \/ \E r \in DOMAIN rows : cache'[i] = rows[r]
  <2> SUFFICES ASSUME NEW i \in DOMAIN cache', i \notin DOMAIN cache
               PROVE  \E r \in DOMAIN rows : cache'[i] = rows[r]
    BY <1>16, <1>17
  <2>1. i - Len(cache) \in 1 .. m /\ i = Len(cache) + (i - Len(cache))
    BY <1>13, <1>16, <1>17
  <2>2. cache'[i] = new[i - Len(cache)]
    BY <1>16, <2>1
  <2> QED
    BY <1>12, <2>1, <2>2
<1>19. Batched'
  <2>1. Len(cache) <= n * ordinal
    BY DEF Batched, n
  <2>2. n * (ordinal + 1) = n * ordinal + n /\ n * ordinal \in Nat
    BY <1>7, <1>9
  <2>3. Len(cache') <= n * (ordinal + 1)
    BY <1>9, <1>13, <1>16, <1>17, <2>1, <2>2
  <2>4. Len(cache') <= Generations(cf'.loo) * PromptsPerBatch * ordinal'
    BY <1>1, <2>3 DEF n
  <2>5. remainder' \in 0 .. Need'
    BY <1>1 DEF Batched, Need
  <2> QED
    BY <1>1, <1>7, <1>16, <2>4, <2>5 DEF Batched
<1>20. Apart'
  <2>1. Stride \in Nat
    BY AllocationAssumption
  <2>0. ASSUME NEW i \in DOMAIN cache
        PROVE  cache[i].origin[1] \in Nat /\ cache[i].origin[1] <= ordinal
    <3>1. cache[i] \in Row
      BY <1>7
    <3>2. cache[i].origin \in Nat \X Nat
      BY <3>1 DEF Row
    <3> QED
      BY <3>2 DEF Apart
  <2>2. ASSUME NEW i \in DOMAIN cache'
        PROVE  /\ cache'[i].origin[1] <= ordinal'
               /\ \E c \in 0 .. Stride - 1 : cache'[i].group = c + cache'[i].origin[1] * Stride
    <3>1. CASE i \in DOMAIN cache /\ cache'[i] = cache[i]
      <4>1. cache[i].origin[1] \in Nat /\ cache[i].origin[1] <= ordinal
        BY <2>0, <3>1
      <4> QED
        BY <1>1, <1>7, <3>1, <4>1 DEF Apart
    <3>2. CASE \E r \in DOMAIN rows : cache'[i] = rows[r]
      BY <1>1, <1>7, <1>8, <3>2
    <3> QED
      BY <1>18, <3>1, <3>2
  \* An old row and a new one have ids of different batches.
  <2>3. ASSUME NEW i \in DOMAIN cache, NEW r \in DOMAIN rows
        PROVE  cache[i].group # rows[r].group
    <3>1. PICK o \in Nat : o = cache[i].origin[1] /\ o <= ordinal
      BY <2>0
    <3>2. PICK c \in 0 .. Stride - 1 : cache[i].group = c + o * Stride
      BY <3>1 DEF Apart
    <3>3. PICK d \in 0 .. Stride - 1 : rows[r].group = d + (ordinal + 1) * Stride
      BY <1>8
    <3>4. o # ordinal + 1
      BY <1>7, <3>1
    <3>5. ordinal + 1 \in Nat
      BY <1>7
    <3>6. SUFFICES ASSUME cache[i].group = rows[r].group PROVE FALSE
      OBVIOUS
    <3>7. c + o * Stride = d + (ordinal + 1) * Stride
      BY <3>2, <3>3, <3>6
    <3>8. o \in Nat /\ c \in 0 .. Stride - 1 /\ d \in 0 .. Stride - 1
      OBVIOUS
    <3>9. PICK e \in Nat : e = ordinal + 1 /\ c + o * Stride = d + e * Stride
      BY <3>5, <3>7
    <3>10. e \in Nat /\ c + o * Stride = d + e * Stride
      BY <3>9
    <3>11. o = e
      BY <2>1, <3>8, <3>10, IdsOfBatches, Zenon
    <3> QED
      BY <3>4, <3>9, <3>11
  <2>4. ASSUME NEW i \in DOMAIN cache', NEW j \in DOMAIN cache', cache'[i].group = cache'[j].group
        PROVE  cache'[i].origin = cache'[j].origin
    <3>1. CASE /\ i \in DOMAIN cache /\ cache'[i] = cache[i]
               /\ j \in DOMAIN cache /\ cache'[j] = cache[j]
      BY <2>4, <3>1 DEF Apart
    <3>2. CASE /\ \E r \in DOMAIN rows : cache'[i] = rows[r]
               /\ \E r \in DOMAIN rows : cache'[j] = rows[r]
      BY <1>8, <2>4, <3>2
    <3> QED
      BY <1>18, <2>3, <2>4, <3>1, <3>2
  <2> QED
    BY <2>2, <2>4 DEF Apart
<1>21. DOMAIN groups = {} /\ DOMAIN groups' = {} /\ DOMAIN quotas' = {}
  BY <1>1 DEF Grouped, Handed
<1>22. Grouped'
  <2>1. \E k \in Nat : DOMAIN groups' = 1 .. k
    BY <1>1 DEF Grouped
  <2> QED
    BY <1>1, <1>21, <2>1 DEF Grouped
<1>23. Handed'
  BY <1>1, <1>21 DEF Handed
<1> QED
  BY <1>19, <1>20, <1>22, <1>23

\* The cache is short of a step: another batch.
LEMMA IncompleteKeeps == ASSUME Allocating, Incomplete PROVE Allocating'
<1> USE DEF Allocating
<1>1. /\ pc = "gate" /\ pc' = IF ordinal <= MaxGenBatches THEN "generate" ELSE "failed"
      /\ UNCHANGED <<cf, ordinal, cache, groups, quotas, remainder, kept>>
  BY DEF Incomplete
<1>2. pc' \in {"generate", "failed"} /\ (pc' = "generate" => ordinal <= MaxGenBatches)
  BY <1>1
<1>3. Batched'
  BY <1>1, <1>2 DEF Batched, Need
<1>4. Apart'
  BY <1>1 DEF Apart
<1>5. Grouped'
  BY <1>1, <1>2 DEF Grouped
<1>6. Handed'
  BY <1>1, <1>2 DEF Handed
<1> QED
  BY <1>3, <1>4, <1>5, <1>6

\* What does not depend on groups when there are none.
LEMMA NoGroups ==
    ASSUME DOMAIN groups = {}, DOMAIN quotas = {}
    PROVE  Shared
  BY DEF Shared, FloorsKept, Heavier

\* The surplus is cut off, or there is none.
LEMMA CutKeeps == ASSUME Allocating, Truncate \/ KeepAll PROVE Allocating'
<1> USE DEF Allocating
<1>1. /\ pc = "gate" /\ pc' = "train" /\ Len(cache) >= Need
      /\ UNCHANGED <<cf, ordinal, cache, groups, quotas, remainder>>
  <2>1. Need \in Nat /\ Len(cache) \in Nat
    BY SizesAre DEF Batched
  <2> QED
    BY <2>1 DEF Truncate, KeepAll
<1>2. kept' = 1 .. Need
  <2>1. DOMAIN cache = 1 .. Len(cache)
    BY DEF Batched
  <2> QED
    BY <2>1 DEF Truncate, KeepAll
<1>3. Batched'
  BY <1>1 DEF Batched, Need
<1>4. Apart'
  BY <1>1 DEF Apart
<1>5. Grouped'
  BY <1>1 DEF Grouped
<1>6. DOMAIN groups = {} /\ DOMAIN quotas = {} /\ Shared
  BY <1>1, NoGroups DEF Grouped, Handed
<1>7. Shared'
  BY <1>1, <1>6 DEF Shared, FloorsKept, Heavier
<1>8. Need' = Need /\ Need \in Nat
  BY <1>1, SizesAre DEF Batched, Need
<1>9. Cardinality(kept') = Need'
  BY <1>2, <1>8, FS_Interval
<1>10. Handed'
  BY <1>1, <1>7, <1>9 DEF Handed
<1> QED
  BY <1>3, <1>4, <1>5, <1>10

\* The next step begins with nothing.
LEMMA EndStepKeeps == ASSUME Allocating, EndStep PROVE Allocating'
<1> USE DEF Allocating
<1>1. /\ cf' = cf /\ pc' = "generate" /\ ordinal' = 0 /\ cache' = <<>> /\ groups' = <<>>
      /\ quotas' = <<>> /\ remainder' = 0
  BY DEF EndStep
<1>2. /\ DOMAIN cache' = {} /\ DOMAIN groups' = {} /\ DOMAIN quotas' = {}
      /\ cache' \in Seq(Row) /\ Len(cache') = 0
  BY <1>1
<1>3. /\ Generations(cf.loo) * PromptsPerBatch \in Nat /\ Need \in Nat /\ MaxGenBatches \in Nat
      /\ cf \in Settings
  BY SizesAre, AllocationAssumption DEF Batched
<1>4. \A x \in Nat : x * 0 = 0
  OBVIOUS
<1>5. Need' = Need
  BY <1>1 DEF Need
<1>6. Batched'
  BY <1>1, <1>2, <1>3, <1>4, <1>5 DEF Batched
<1>7. Apart'
  BY <1>2 DEF Apart
<1>8. DOMAIN groups' = 1 .. 0
  BY <1>2
<1>9. Grouped'
  BY <1>1, <1>2, <1>8 DEF Grouped
<1>10. Handed'
  BY <1>1, <1>2 DEF Handed
<1> QED
  BY <1>6, <1>7, <1>9, <1>10

-------------------------------------------------------------------------------
(* The cached rows in their groups.                                          *)

\* Every row of the cache in one group, with those that have its id.
Parted(g) ==
    /\ \E n \in Nat : DOMAIN g = 1 .. n
    /\ \A k \in DOMAIN g :
          /\ g[k] \in SUBSET DOMAIN cache /\ g[k] # {}
          /\ \A r, q \in g[k] : cache[r].group = cache[q].group
    /\ \A j, k \in DOMAIN g : j # k => g[j] \cap g[k] = {}
    /\ UNION {g[k] : k \in DOMAIN g} = DOMAIN cache

\* The groups part the cache.
LEMMA GroupRowsAre == ASSUME cache \in Seq(Row) PROVE Parted(GroupRows)
<1> DEFINE first == {r \in DOMAIN cache : \A q \in 1 .. r - 1 : cache[q].group # cache[r].group}
           of(r) == {q \in DOMAIN cache : cache[q].group = cache[r].group}
<1>1. DOMAIN cache = 1 .. Len(cache) /\ Len(cache) \in Nat
  OBVIOUS
<1>2. IsFiniteSet(DOMAIN cache)
  BY <1>1, FS_Interval
<1>3. first \in SUBSET Nat /\ IsFiniteSet(first) /\ first \subseteq DOMAIN cache
  BY <1>1, <1>2, FS_Subset
<1>4. Cardinality(first) \in Nat
  BY <1>3, FS_CardinalityType
<1>5. GroupRows = [k \in 1 .. Cardinality(first) |-> of(Nth(first, k))]
  BY DEF GroupRows
<1>6. \A q, r \in first : q < r => cache[q].group # cache[r].group
  BY <1>1
<1>7. \A r \in DOMAIN cache : \E m \in first : cache[m].group = cache[r].group
  <2> SUFFICES ASSUME NEW r \in DOMAIN cache
               PROVE  \E m \in first : cache[m].group = cache[r].group
    OBVIOUS
  <2>1. of(r) \in SUBSET Nat /\ of(r) # {}
    BY <1>1
  <2>2. PICK m \in of(r) : \A q \in of(r) : m <= q
    BY <2>1, LeastNat
  <2>3. m \in DOMAIN cache /\ cache[m].group = cache[r].group /\ m \in 1 .. Len(cache)
    BY <1>1, <2>2
  <2>4. ASSUME NEW q \in 1 .. m - 1, cache[q].group = cache[m].group PROVE FALSE
    <3>1. q \in of(r) /\ q < m
      BY <1>1, <2>3, <2>4
    <3> QED
      BY <1>1, <2>2, <2>3, <3>1
  <2> QED
    BY <2>3, <2>4
<1> HIDE DEF first
<1>8. /\ \A i \in 1 .. Cardinality(first) :
            Nth(first, i) \in first /\ Cardinality({q \in first : q < Nth(first, i)}) = i - 1
      /\ \A r \in first : \E i \in 1 .. Cardinality(first) : r = Nth(first, i)
  BY <1>3, NthIs
<1>9. ASSUME NEW j \in 1 .. Cardinality(first), NEW k \in 1 .. Cardinality(first), j # k
      PROVE  of(Nth(first, j)) \cap of(Nth(first, k)) = {}
  <2>1. PICK a \in first : a = Nth(first, j) /\ Cardinality({q \in first : q < a}) = j - 1
    BY <1>8
  <2>2. PICK b \in first : b = Nth(first, k) /\ Cardinality({q \in first : q < b}) = k - 1
    BY <1>8
  <2>3. j - 1 # k - 1
    BY <1>4, <1>9
  <2>4. a # b
    BY <2>1, <2>2, <2>3
  <2>5. a \in Nat /\ b \in Nat
    BY <1>3
  <2>6. cache[a].group # cache[b].group
    BY <1>6, <2>4, <2>5
  <2> QED
    BY <2>1, <2>2, <2>6
<1>10. \A k \in 1 .. Cardinality(first) :
          /\ GroupRows[k] = of(Nth(first, k)) /\ Nth(first, k) \in of(Nth(first, k))
          /\ \A r, q \in of(Nth(first, k)) : cache[r].group = cache[q].group
  BY <1>3, <1>5, <1>8
<1>11. DOMAIN GroupRows = 1 .. Cardinality(first)
  BY <1>5
<1>12. UNION {GroupRows[k] : k \in DOMAIN GroupRows} = DOMAIN cache
  <2>1. ASSUME NEW r \in DOMAIN cache PROVE \E k \in DOMAIN GroupRows : r \in GroupRows[k]
    <3>1. PICK m \in first : cache[m].group = cache[r].group
      BY <1>7
    <3>2. PICK k \in 1 .. Cardinality(first) : m = Nth(first, k)
      BY <1>8
    <3> QED
      BY <1>10, <1>11, <3>1, <3>2
  <2>2. \A k \in DOMAIN GroupRows : GroupRows[k] \subseteq DOMAIN cache
    BY <1>10, <1>11
  <2> QED
    BY <2>1, <2>2
<1>13. \A k \in DOMAIN GroupRows :
          /\ GroupRows[k] \in SUBSET DOMAIN cache /\ GroupRows[k] # {}
          /\ \A r, q \in GroupRows[k] : cache[r].group = cache[q].group
  BY <1>10, <1>11
<1>14. \A j, k \in DOMAIN GroupRows : j # k => GroupRows[j] \cap GroupRows[k] = {}
  BY <1>9, <1>10, <1>11
<1> QED
  BY <1>4, <1>11, <1>12, <1>13, <1>14 DEF Parted

\* The mean of natural numbers.
LEMMA Means ==
    ASSUME NEW rows, IsFiniteSet(rows), rows # {}, NEW column, \A r \in rows : column[r] \in Nat
    PROVE  Mean(column, rows) \in Nat
<1>1. Total(column, rows) \in Nat
  BY Sums DEF Summed
<1>2. Cardinality(rows) \in Nat /\ Cardinality(rows) # 0
  BY FS_EmptySet, FS_CardinalityType
<1>3. \A x \in Nat : \A y \in Nat \ {0} : (6 * x) \div y \in Nat
  OBVIOUS
<1> QED
  BY <1>1, <1>2, <1>3 DEF Mean, Scale

\* A group's record says how many rows it has and what they weigh.
LEMMA GroupIs ==
    ASSUME cf \in Settings, cache \in Seq(Row), NEW rows \in SUBSET DOMAIN cache, rows # {},
           NEW g, g = Group(rows)
    PROVE  /\ g.rows = rows /\ g.size = Cardinality(rows)
           /\ g.weight \in Nat /\ g.graded \in Nat
<1> DEFINE std == [r \in DOMAIN cache |-> cache[r].std]
           diversity == [r \in DOMAIN cache |-> cache[r].diversity]
           weight == Mean(std, rows)
           factor == IF \A r \in DOMAIN cache : diversity[r] = 0 THEN 1 ELSE Mean(diversity, rows)
<1>1. g = [rows |-> rows, size |-> Cardinality(rows),
           weight |-> weight, graded |-> Power(weight, cf.exponent) * factor]
  BY DEF Group
<1>2. \A r \in DOMAIN cache : cache[r] \in Row
  OBVIOUS
<1>3. \A r \in DOMAIN cache : std[r] \in Nat /\ diversity[r] \in Nat
  BY <1>2 DEF Row
<1>4. IsFiniteSet(rows)
  <2>1. IsFiniteSet(DOMAIN cache)
    BY FS_Interval
  <2> QED
    BY <2>1, FS_Subset
<1> HIDE DEF std, diversity
<1>5. \A r \in rows : std[r] \in Nat /\ diversity[r] \in Nat
  BY <1>3
<1>6. weight \in Nat /\ Mean(diversity, rows) \in Nat
  BY <1>4, <1>5, Means
<1>7. factor \in Nat
  BY <1>6
<1> HIDE DEF weight, factor
<1>8. weight * weight \in Nat
  BY <1>6
<1>9. Power(weight, cf.exponent) \in Nat
  <2>1. cf.exponent \in {0, 1, 2}
    BY SizesAre
  <2> QED
    BY <1>6, <1>8, <2>1 DEF Power
<1>10. Power(weight, cf.exponent) * factor \in Nat
  BY <1>7, <1>9
<1> QED
  BY <1>1, <1>6, <1>10

\* The groups are formed.
LEMMA AllocateKeeps == ASSUME Allocating, Allocate PROVE Allocating'
<1> USE DEF Allocating
<1>1. /\ pc = "gate" /\ Len(cache) > Need /\ pc' = "floors"
      /\ UNCHANGED <<cf, ordinal, cache, quotas, remainder, kept>>
  BY DEF Allocate
<1>2. PICK rows : rows = GroupRows
  OBVIOUS
<1>3. groups' = [k \in DOMAIN rows |-> Group(rows[k])]
  BY <1>2 DEF Allocate
<1>4. cf \in Settings /\ cache \in Seq(Row)
  BY DEF Batched
<1>5. Parted(rows)
  BY <1>2, <1>4, GroupRowsAre
<1>6. \A k \in DOMAIN rows :
         /\ groups'[k].rows = rows[k] /\ groups'[k].size = Cardinality(rows[k])
         /\ groups'[k].weight \in Nat /\ groups'[k].graded \in Nat
  <2> SUFFICES ASSUME NEW k \in DOMAIN rows
               PROVE  /\ groups'[k].rows = rows[k] /\ groups'[k].size = Cardinality(rows[k])
                      /\ groups'[k].weight \in Nat /\ groups'[k].graded \in Nat
    OBVIOUS
  <2>1. rows[k] \in SUBSET DOMAIN cache /\ rows[k] # {}
    BY <1>5 DEF Parted
  <2>2. groups'[k] = Group(rows[k])
    BY <1>3
  <2> QED
    BY <1>4, <2>1, <2>2, GroupIs
<1>7. DOMAIN groups' = DOMAIN rows
  BY <1>3
<1>8. Batched'
  BY <1>1 DEF Batched, Need
<1>9. Apart'
  BY <1>1 DEF Apart
<1>10. Grouped'
  <2>1. Need' = Need
    BY <1>1 DEF Need
  <2>2. {groups'[k].rows : k \in DOMAIN groups'} = {rows[k] : k \in DOMAIN rows}
    BY <1>6, <1>7
  <2>3. UNION {groups'[k].rows : k \in DOMAIN groups'} = DOMAIN cache'
    BY <1>1, <1>5, <2>2 DEF Parted
  <2>4. \E n \in Nat : DOMAIN groups' = 1 .. n
    BY <1>5, <1>7 DEF Parted
  <2>5. \A k \in DOMAIN groups' :
          /\ groups'[k].rows \in SUBSET DOMAIN cache'
          /\ groups'[k].size = Cardinality(groups'[k].rows)
          /\ groups'[k].weight \in Nat /\ groups'[k].graded \in Nat
          /\ \A r, q \in groups'[k].rows : cache'[r].group = cache'[q].group
    BY <1>1, <1>5, <1>6, <1>7 DEF Parted
  <2>6. \A j, k \in DOMAIN groups' : j # k => groups'[j].rows \cap groups'[k].rows = {}
    BY <1>5, <1>6, <1>7 DEF Parted
  <2> QED
    BY <1>1, <2>1, <2>3, <2>4, <2>5, <2>6 DEF Grouped
<1>11. Handed'
  BY <1>1 DEF Handed
<1> QED
  BY <1>8, <1>9, <1>10, <1>11

-------------------------------------------------------------------------------
(* The floors.                                                               *)

\* The groups of an allocation, and what there is to hand out.
Budget(g) ==
    /\ cf \in Settings /\ Need \in Nat
    /\ IsFiniteSet(DOMAIN g)
    /\ DOMAIN g \subseteq Nat
    /\ \A k \in DOMAIN g : g[k].weight \in Nat /\ g[k].graded \in Nat /\ g[k].size \in Nat

\* The sizes, weights and counts of the groups are numbers.
LEMMA BudgetIs == ASSUME Batched, Grouped PROVE Budget(groups)
<1>1. cf \in Settings /\ Need \in Nat
  BY SizesAre DEF Batched
<1>2. PICK n \in Nat : DOMAIN groups = 1 .. n
  BY DEF Grouped
<1>3. IsFiniteSet(DOMAIN groups) /\ DOMAIN groups \subseteq Nat
  BY <1>2, FS_Interval
<1>4. IsFiniteSet(DOMAIN cache)
  <2>1. DOMAIN cache = 1 .. Len(cache)
    BY DEF Batched
  <2> QED
    BY <2>1, FS_Interval DEF Batched
<1>5. \A k \in DOMAIN groups : groups[k].size \in Nat
  <2> SUFFICES ASSUME NEW k \in DOMAIN groups PROVE groups[k].size \in Nat
    OBVIOUS
  <2>1. groups[k].rows \subseteq DOMAIN cache /\ groups[k].size = Cardinality(groups[k].rows)
    BY DEF Grouped
  <2>2. IsFiniteSet(groups[k].rows)
    BY <1>4, <2>1, FS_Subset
  <2> QED
    BY <2>1, <2>2, FS_CardinalityType
<1> QED
  BY <1>1, <1>3, <1>5 DEF Budget, Grouped

\* Worthier and Before put the groups in a line.
WorthOrder == {x \in (DOMAIN groups) \X (DOMAIN groups) : Worthier(x[1], x[2])}

\* The groups can be lined up by worth.
LEMMA WorthLines ==
    ASSUME Budget(groups)
    PROVE  Lined(DOMAIN groups, WorthOrder)
<1>1. \A j, k \in DOMAIN groups : <<j, k>> \in WorthOrder <=> Worthier(j, k)
  BY DEF WorthOrder
<1>2. \A k \in DOMAIN groups : k \in Nat /\ groups[k].graded \in Nat /\ groups[k].weight \in Nat
  BY DEF Budget
<1>3. \A k \in DOMAIN groups : ~Worthier(k, k)
  BY <1>2 DEF Worthier
<1>4. \A j, k, l \in DOMAIN groups : Worthier(j, k) /\ Worthier(k, l) => Worthier(j, l)
  BY <1>2 DEF Worthier
<1>5. \A j, k \in DOMAIN groups : j = k \/ Worthier(j, k) \/ Worthier(k, j)
  BY <1>2 DEF Worthier
<1>6. IsFiniteSet(DOMAIN groups)
  BY DEF Budget
<1> QED
  BY <1>1, <1>3, <1>4, <1>5, <1>6 DEF Lined

\* A group's floor, cut to its size.
LEMMA MinimumIs ==
    ASSUME Budget(groups)
    PROVE  /\ DOMAIN Minimum = DOMAIN groups /\ cf.floor \in Nat
           /\ \A k \in DOMAIN groups :
                /\ Minimum[k] = Lesser(cf.floor, groups[k].size)
                /\ Minimum[k] \in Nat /\ Minimum[k] <= groups[k].size /\ Minimum[k] <= cf.floor
<1>1. cf.floor \in Nat
  BY SizesAre DEF Budget
<1>2. \A k \in DOMAIN groups : groups[k].size \in Nat
  BY DEF Budget
<1>3. Minimum = [k \in DOMAIN groups |-> Lesser(cf.floor, groups[k].size)]
  BY DEF Minimum
<1>4. \A a, b \in Nat : Lesser(a, b) \in Nat /\ Lesser(a, b) <= a /\ Lesser(a, b) <= b
  BY DEF Lesser
<1> QED
  BY <1>1, <1>2, <1>3, <1>4

\* What the first quotas are: the floors, or as many of them as fit, in line.
FirstShare(q) ==
    /\ DOMAIN q = DOMAIN groups
    /\ \A k \in DOMAIN groups : q[k] \in Nat /\ q[k] <= Minimum[k]
    /\ Total(q, DOMAIN groups) \in 0 .. Need
    /\ \/ \A k \in DOMAIN groups : q[k] = Minimum[k]
       \/ /\ Total(q, DOMAIN groups) = Need
          /\ \A j, k \in DOMAIN groups : Worthier(j, k) => q[k] = 0 \/ q[j] = Minimum[j]

\* The floors, or what fits of them, are within the budget.
LEMMA FirstShares == ASSUME Budget(groups) PROVE FirstShare(FirstQuotas)
<1> DEFINE D == DOMAIN groups
           R == WorthOrder
<1>1. /\ DOMAIN Minimum = D
      /\ \A k \in D : Minimum[k] \in Nat
  BY MinimumIs
<1>2. IsFiniteSet(D) /\ Need \in Nat
  BY DEF Budget
<1>3. Total(Minimum, D) \in Nat
  BY <1>1, <1>2, Sums DEF Summed
<1>4. CASE Total(Minimum, D) <= Need
  <2>1. FirstQuotas = Minimum
    BY <1>4 DEF FirstQuotas
  <2> QED
    BY <1>1, <1>2, <1>3, <1>4, <2>1 DEF FirstShare
<1>5. CASE ~ (Total(Minimum, D) <= Need)
  <2>1. PICK q : q = FirstQuotas
    OBVIOUS
  <2>2. q = [k \in D |-> IF Left(k) <= 0 THEN 0 ELSE Lesser(Minimum[k], Left(k))]
    BY <1>5, <2>1 DEF FirstQuotas
  <2>3. \A k \in D : {j \in D : Worthier(j, k)} = Ahead(D, R, k)
    BY DEF Ahead, WorthOrder
  <2>4. \A k \in D : Left(k) = Need - Total(Minimum, Ahead(D, R, k))
    BY <2>3 DEF Left
  <2>5. Lined(D, R)
    BY WorthLines
  <2>6. Total(Minimum, D) > Need
    BY <1>2, <1>3, <1>5
  <2>7. \A k \in D : q[k] = IF Need - Total(Minimum, Ahead(D, R, k)) <= 0 THEN 0
                            ELSE Lesser(Minimum[k], Need - Total(Minimum, Ahead(D, R, k)))
    BY <2>2, <2>4
  <2> HIDE DEF D, R
  <2>8. Total(q, D) = Need
    BY <1>1, <1>2, <2>5, <2>6, <2>7, Squeeze
  <2>9. \A k \in D : Total(Minimum, Ahead(D, R, k)) \in Nat
    BY <1>1, <2>5, Bases
  <2>10. \A k \in D : Left(k) \in Int
    BY <1>2, <2>4, <2>9
  <2>11. ASSUME NEW k \in D PROVE q[k] \in Nat /\ q[k] <= Minimum[k]
    <3>1. \A a \in Nat : \A b \in Int : b > 0 => Lesser(a, b) \in Nat /\ Lesser(a, b) <= a
      BY DEF Lesser
    <3>2. Left(k) \in Int /\ Minimum[k] \in Nat
      BY <1>1, <2>10
    <3>3. q[k] = IF Left(k) <= 0 THEN 0 ELSE Lesser(Minimum[k], Left(k))
      BY <2>2
    <3> QED
      BY <3>1, <3>2, <3>3
  <2>12. ASSUME NEW j \in D, NEW k \in D, Worthier(j, k), q[k] # 0 PROVE q[j] = Minimum[j]
    <3>1. <<j, k>> \in R
      BY <2>12 DEF R, WorthOrder, D
    <3>2. j \in D /\ k \in D /\ Left(j) \in Int /\ Left(k) \in Int /\ Minimum[j] \in Nat
      BY <1>1, <2>10
    <3>3. IsFiniteSet(Ahead(D, R, k)) /\ Ahead(D, R, k) \in SUBSET D
      BY <2>5, FewerAhead DEF Ahead
    <3>4. Total(Minimum, Ahead(D, R, j)) + Minimum[j] <= Total(Minimum, Ahead(D, R, k))
      BY <1>1, <2>5, <3>1, <3>3, Bases
    <3>5. Left(k) + Minimum[j] <= Left(j)
      BY <1>2, <2>4, <2>9, <3>2, <3>4
    <3>6. Left(k) > 0
      BY <2>2, <2>12, <3>2
    <3>7. Left(j) > 0 /\ Minimum[j] <= Left(j)
      BY <3>2, <3>5, <3>6
    <3>8. q[j] = Lesser(Minimum[j], Left(j))
      BY <2>2, <3>2, <3>7
    <3> QED
      BY <3>7, <3>8 DEF Lesser
  <2>13. DOMAIN q = D
    BY <2>2
  <2> QED
    BY <1>2, <2>1, <2>8, <2>11, <2>12, <2>13 DEF FirstShare, D
<1> QED
  BY <1>4, <1>5

\* Where there is only so much, the worthier groups come first.
LEMMA FirstSharesAreFair ==
    ASSUME Budget(groups), NEW q, FirstShare(q)
    PROVE  /\ \A j, k \in DOMAIN groups : groups[j].graded > groups[k].graded =>
                q[j] >= q[k] \/ q[j] = groups[j].size
           /\ \/ \A k \in DOMAIN groups : q[k] >= Minimum[k]
              \/ /\ Total(q, DOMAIN groups) = Need
                 /\ \A k \in DOMAIN groups :
                      \/ q[k] >= Minimum[k]
                      \/ \A j \in DOMAIN groups : q[j] > 0 => groups[j].graded >= groups[k].graded
<1>1. \A k \in DOMAIN groups :
         /\ Minimum[k] = Lesser(cf.floor, groups[k].size)
         /\ Minimum[k] \in Nat /\ Minimum[k] <= cf.floor
         /\ groups[k].size \in Nat /\ groups[k].graded \in Nat
         /\ q[k] \in Nat /\ q[k] <= Minimum[k]
  BY MinimumIs DEF Budget, FirstShare
<1>2. cf.floor \in Nat
  BY MinimumIs
<1>3. \A j, k \in DOMAIN groups : groups[j].graded > groups[k].graded => Worthier(j, k)
  BY DEF Worthier
<1>4. \A j, k \in DOMAIN groups : Worthier(j, k) => q[k] = 0 \/ q[j] = Minimum[j]
      \/ \A l \in DOMAIN groups : q[l] = Minimum[l]
  BY DEF FirstShare
<1>5. ASSUME NEW j \in DOMAIN groups, NEW k \in DOMAIN groups, groups[j].graded > groups[k].graded
      PROVE  q[j] >= q[k] \/ q[j] = groups[j].size
  <2>1. q[k] = 0 \/ q[j] = Minimum[j]
    BY <1>3, <1>4, <1>5
  <2>2. CASE q[k] = 0
    BY <1>1, <2>2
  <2>3. CASE q[j] = Minimum[j]
    BY <1>1, <1>2, <2>3 DEF Lesser
  <2> QED
    BY <2>1, <2>2, <2>3
<1>6. CASE \A k \in DOMAIN groups : q[k] = Minimum[k]
  BY <1>1, <1>5, <1>6
<1>7. CASE /\ Total(q, DOMAIN groups) = Need
           /\ \A j, k \in DOMAIN groups : Worthier(j, k) => q[k] = 0 \/ q[j] = Minimum[j]
  <2>1. ASSUME NEW k \in DOMAIN groups, ~ (q[k] >= Minimum[k]), NEW j \in DOMAIN groups, q[j] > 0
        PROVE  groups[j].graded >= groups[k].graded
    <3>1. ~Worthier(k, j)
      BY <1>1, <1>7, <2>1
    <3> QED
      BY <1>1, <1>3, <3>1
  <2> QED
    BY <1>5, <1>7, <2>1
<1> QED
  BY <1>6, <1>7 DEF FirstShare

\* The floors are handed out.
LEMMA SetFloorsKeeps == ASSUME Allocating, SetFloors PROVE Allocating'
<1> USE DEF Allocating
<1>1. /\ pc = "floors" /\ pc' = "apportion"
      /\ quotas' = FirstQuotas /\ remainder' = Need - Total(quotas', DOMAIN groups)
      /\ UNCHANGED <<cf, ordinal, cache, groups, kept>>
  BY DEF SetFloors
<1>2. Budget(groups)
  BY BudgetIs
<1>3. PICK q : q = FirstQuotas
  OBVIOUS
<1>4. FirstShare(q)
  BY <1>2, <1>3, FirstShares
<1>5. Need' = Need /\ Minimum' = Minimum /\ groups' = groups
  BY <1>1 DEF Need, Minimum
<1>6. q = quotas' /\ remainder' = Need - Total(q, DOMAIN groups)
  BY <1>1, <1>3
<1>7. DOMAIN q = DOMAIN groups /\ Total(q, DOMAIN groups) \in 0 .. Need /\ Need \in Nat
  BY <1>2, <1>4 DEF FirstShare, Budget
<1>8. remainder' \in 0 .. Need
  BY <1>6, <1>7
<1>9. Batched'
  BY <1>1, <1>5, <1>8 DEF Batched
<1>10. Apart'
  BY <1>1 DEF Apart
<1>11. Grouped'
  BY <1>1, <1>5 DEF Grouped
<1>12. /\ \A j, k \in DOMAIN groups : groups[j].graded > groups[k].graded =>
                q[j] >= q[k] \/ q[j] = groups[j].size
       /\ \/ \A k \in DOMAIN groups : q[k] >= Minimum[k]
          \/ /\ Total(q, DOMAIN groups) = Need
             /\ \A k \in DOMAIN groups :
                  \/ q[k] >= Minimum[k]
                  \/ \A j \in DOMAIN groups : q[j] > 0 => groups[j].graded >= groups[k].graded
  BY <1>2, <1>4, FirstSharesAreFair
<1>13. \A k \in DOMAIN groups : q[k] \in 0 .. groups[k].size
  <2>1. \A k \in DOMAIN groups : q[k] \in Nat /\ q[k] <= Minimum[k]
    BY <1>4 DEF FirstShare
  <2>2. \A k \in DOMAIN groups : Minimum[k] \in Nat /\ Minimum[k] <= groups[k].size /\ groups[k].size \in Nat
    BY <1>2, MinimumIs DEF Budget
  <2> QED
    BY <2>1, <2>2
<1>14. Shared'
  <2>1. Total(q, DOMAIN groups) = Need => remainder' = 0
    BY <1>6, <1>7
  <2>2. Heavier'
    BY <1>5, <1>6, <1>12 DEF Heavier
  <2>3. FloorsKept' \/ (remainder' = 0 /\ FloorsSqueezed')
    BY <1>5, <1>6, <1>12, <2>1 DEF FloorsKept, FloorsSqueezed
  <2> QED
    BY <1>5, <1>6, <1>7, <1>13, <2>2, <2>3 DEF Shared
<1>15. Total(quotas', DOMAIN groups') + remainder' = Need'
  <2>1. Total(q, DOMAIN groups) + remainder' = Need
    BY <1>6, <1>7
  <2> QED
    BY <1>5, <1>6, <2>1
<1>16. Handed'
  BY <1>1, <1>14, <1>15 DEF Handed
<1> QED
  BY <1>9, <1>10, <1>11, <1>16

-------------------------------------------------------------------------------
(* A turn of the loop.                                                       *)

BeforeOrder == {x \in Active \X Active : Before(x[1], x[2])}

\* The groups with headroom, in a line by weight.
LEMMA BeforeLines ==
    ASSUME Budget(groups)
    PROVE  Lined(Active, BeforeOrder)
<1>1. \A j, k \in Active : <<j, k>> \in BeforeOrder <=> Before(j, k)
  BY DEF BeforeOrder
<1>2. \A k \in Active : k \in Nat /\ groups[k].graded \in Nat
  BY DEF Budget, Active
<1>3. \A k \in Active : ~Before(k, k)
  BY <1>2 DEF Before
<1>4. \A j, k, l \in Active : Before(j, k) /\ Before(k, l) => Before(j, l)
  BY <1>2 DEF Before
<1>5. \A j, k \in Active : j = k \/ Before(j, k) \/ Before(k, j)
  BY <1>2 DEF Before
<1>6. IsFiniteSet(Active)
  <2>1. Active \subseteq DOMAIN groups /\ IsFiniteSet(DOMAIN groups)
    BY DEF Active, Budget
  <2> QED
    BY <2>1, FS_Subset
<1> QED
  BY <1>1, <1>3, <1>4, <1>5, <1>6 DEF Lined

\* A turn gives no group more rows than it has left, no more rows than there are
\* to give, and a group that weighs more no fewer, unless these are all it has.
FairTurn(turn) ==
    /\ DOMAIN turn = DOMAIN groups
    /\ \A k \in DOMAIN groups :
          /\ turn[k] \in Nat
          /\ k \in Active => turn[k] <= Headroom(k)
          /\ k \notin Active => turn[k] = 0
    /\ Total(turn, DOMAIN groups) \in 0 .. remainder
    /\ \A j, k \in Active :
          groups[j].graded > groups[k].graded => turn[j] >= turn[k] \/ turn[j] = Headroom(j)

\* Shares of the total weight.
LEMMA SharesOf ==
    ASSUME NEW r \in Nat, NEW total \in Nat, total > 0
    PROVE  /\ \A g \in Nat : (r * g) \div total \in Nat
           /\ \A g \in Nat : total * ((r * g) \div total) <= r * g
           /\ \A g, h \in Nat : g > h => (r * g) \div total >= (r * h) \div total
<1>1. \A x \in Nat : /\ x \div total \in Nat
                     /\ total * (x \div total) <= x
                     /\ x < total * (x \div total) + total
  OBVIOUS
<1>2. \A g \in Nat : r * g \in Nat
  OBVIOUS
<1>3. ASSUME NEW g \in Nat, NEW h \in Nat, g > h
      PROVE  (r * g) \div total >= (r * h) \div total
  <2>1. PICK e \in Nat : g = h + e
    <3>1. g - h \in Nat /\ g = h + (g - h)
      BY <1>3
    <3> QED
      BY <3>1
  <2>2. r * g = r * h + r * e /\ r * e \in Nat
    BY <2>1
  <2>3. r * h <= r * g
    BY <1>2, <2>2
  <2>4. \A x, y \in Nat : x <= y => x \div total <= y \div total
    <3> SUFFICES ASSUME NEW x \in Nat, NEW y \in Nat, x <= y, y \div total < x \div total PROVE FALSE
      BY <1>1
    <3>1. PICK a \in Nat : a = x \div total
      BY <1>1
    <3>2. PICK b \in Nat : b = y \div total
      BY <1>1
    <3>3. total * a <= x /\ y < total * b + total
      BY <1>1, <3>1, <3>2
    <3>4. PICK e2 \in Nat : a = b + 1 + e2
      <4>1. a - b - 1 \in Nat /\ a = b + 1 + (a - b - 1)
        BY <3>1, <3>2
      <4> QED
        BY <4>1
    <3>5. total * a = total * b + total + total * e2 /\ total * e2 \in Nat /\ total * b \in Nat
      BY <3>4
    <3> QED
      BY <3>3, <3>5
  <2> QED
    BY <1>2, <2>3, <2>4
<1> QED
  BY <1>1, <1>2, <1>3

\* What Shared says of the headroom.
LEMMA Headrooms ==
    ASSUME Budget(groups), Shared
    PROVE  \A k \in DOMAIN groups :
               /\ Headroom(k) \in Nat
               /\ k \in Active <=> Headroom(k) > 0
               /\ quotas[k] \in Nat /\ groups[k].size = quotas[k] + Headroom(k)
<1>1. \A k \in DOMAIN groups : quotas[k] \in 0 .. groups[k].size /\ groups[k].size \in Nat
  BY DEF Shared, Budget
<1> QED
  BY <1>1 DEF Headroom, Active

\* Whole rows.
LEMMA WholeTurn ==
    ASSUME Budget(groups), Shared, remainder \in Nat, NEW total, total = TotalWeight, total > 0,
           NEW turn, turn = [k \in DOMAIN groups |-> IF k \notin Active THEN 0 ELSE Take(k, total)]
    PROVE  FairTurn(turn)
<1> DEFINE graded == [k \in DOMAIN groups |-> groups[k].graded]
           Share(k) == (remainder * groups[k].graded) \div total
<1>1. Active \subseteq DOMAIN groups /\ IsFiniteSet(DOMAIN groups)
  BY DEF Active, Budget
<1>2. IsFiniteSet(Active)
  BY <1>1, FS_Subset
<1>3. \A k \in Active : graded[k] \in Nat /\ graded[k] = groups[k].graded
  BY <1>1 DEF Budget
<1>4. total = Total(graded, Active)
  BY DEF TotalWeight
<1> HIDE DEF graded
<1>5. total \in Nat
  BY <1>2, <1>3, <1>4, Sums DEF Summed
<1>6. /\ \A g \in Nat : (remainder * g) \div total \in Nat
      /\ \A g \in Nat : total * ((remainder * g) \div total) <= remainder * g
      /\ \A g, h \in Nat : g > h => (remainder * g) \div total >= (remainder * h) \div total
  BY <1>5, SharesOf
<1>7. \A k \in Active : groups[k].graded \in Nat
  BY <1>3
<1>8. /\ \A k \in Active : Share(k) \in Nat /\ total * Share(k) <= remainder * graded[k]
      /\ \A j, k \in Active : groups[j].graded > groups[k].graded => Share(j) >= Share(k)
  BY <1>3, <1>6, <1>7
<1>9. \A k \in Active : turn[k] = Lesser(Share(k), Headroom(k))
  BY <1>1 DEF Take
<1>10. \A k \in DOMAIN groups : k \notin Active => turn[k] = 0
  OBVIOUS
<1>11. \A k \in Active : Headroom(k) \in Nat
  BY <1>1, Headrooms
<1> HIDE DEF Share
<1>12. \A k \in Active : /\ turn[k] \in Nat /\ turn[k] <= Headroom(k) /\ turn[k] <= Share(k)
                         /\ turn[k] = Share(k) \/ turn[k] = Headroom(k)
  BY <1>8, <1>9, <1>11 DEF Lesser
<1>13. \A j, k \in Active :
          groups[j].graded > groups[k].graded => turn[j] >= turn[k] \/ turn[j] = Headroom(j)
  <2> SUFFICES ASSUME NEW j \in Active, NEW k \in Active, groups[j].graded > groups[k].graded,
                      turn[j] # Headroom(j)
               PROVE  turn[j] >= turn[k]
    OBVIOUS
  <2>1. turn[j] = Share(j) /\ Share(j) >= Share(k)
    BY <1>8, <1>12
  <2>2. turn[k] <= Share(k) /\ turn[k] \in Nat /\ Share(k) \in Nat /\ Share(j) \in Nat
    BY <1>8, <1>12
  <2> QED
    BY <2>1, <2>2
<1>14. \A k \in Active : total * turn[k] <= remainder * graded[k]
  <2> SUFFICES ASSUME NEW k \in Active PROVE total * turn[k] <= remainder * graded[k]
    OBVIOUS
  <2>1. PICK t \in Nat : t = turn[k] /\ t <= Share(k)
    BY <1>12
  <2>2. PICK s \in Nat : s = Share(k) /\ total * s <= remainder * graded[k]
    BY <1>8
  <2>3. PICK e \in Nat : s = t + e
    <3>1. s - t \in Nat /\ s = t + (s - t)
      BY <2>1, <2>2
    <3> QED
      BY <3>1
  <2>4. total * s = total * t + total * e /\ total * t \in Nat /\ total * e \in Nat
    BY <1>5, <2>3
  <2>5. remainder * graded[k] \in Nat
    BY <1>3
  <2> QED
    BY <2>1, <2>2, <2>4, <2>5
<1>15. total * Total(turn, Active) <= remainder * total
  BY <1>2, <1>3, <1>4, <1>5, <1>12, <1>14, SumScales
<1>16. Total(turn, Active) \in Nat
  BY <1>2, <1>12, Sums DEF Summed
<1>17. Total(turn, Active) <= remainder
  <2> SUFFICES ASSUME Total(turn, Active) > remainder PROVE FALSE
    BY <1>16
  <2>1. PICK t \in Nat : t = Total(turn, Active)
    BY <1>16
  <2>2. PICK e \in Nat : t = remainder + 1 + e
    <3>1. t - remainder - 1 \in Nat /\ t = remainder + 1 + (t - remainder - 1)
      BY <2>1
    <3> QED
      BY <3>1
  <2>3. total * t = remainder * total + total + total * e
    BY <1>5, <2>2
  <2>4. total * e \in Nat /\ remainder * total \in Nat
    BY <1>5
  <2> QED
    BY <1>5, <1>15, <2>1, <2>3, <2>4
<1>18. Total(turn, DOMAIN groups) = Total(turn, Active)
  <2>1. \A k \in (DOMAIN groups) \ Active : turn[k] = 0
    BY <1>10
  <2> QED
    BY <1>1, <2>1, SumPart
<1> QED
  BY <1>10, <1>12, <1>13, <1>16, <1>17, <1>18 DEF FairTurn

\* Single rows.
LEMMA SingleTurn ==
    ASSUME Budget(groups), Shared, remainder \in Nat,
           NEW turn, turn = [k \in DOMAIN groups |-> IF k \notin Active THEN 0 ELSE Single(k)]
    PROVE  FairTurn(turn)
<1> DEFINE R == BeforeOrder
<1>1. Active \subseteq DOMAIN groups
  BY DEF Active
<1>2. Lined(Active, R)
  BY BeforeLines
<1>3. \A k \in Active : {j \in Active : Before(j, k)} = Ahead(Active, R, k)
  BY DEF Ahead, BeforeOrder
<1>4. \A k \in Active : turn[k] = IF Cardinality(Ahead(Active, R, k)) < remainder THEN 1 ELSE 0
  BY <1>1, <1>3 DEF Single
<1>5. \A j, k \in Active : groups[j].graded > groups[k].graded => <<j, k>> \in R
  BY DEF BeforeOrder, Before
<1> HIDE DEF R
<1>6. Total(turn, Active) <= remainder
  BY <1>2, <1>4, FewSingles
<1>7. IsFiniteSet(Active)
  BY <1>2 DEF Lined
<1>8. \A k \in Active : turn[k] \in {0, 1}
  BY <1>4
<1>9. Total(turn, Active) \in Nat
  BY <1>7, <1>8, Sums DEF Summed
<1>10. \A k \in DOMAIN groups : k \notin Active => turn[k] = 0
  OBVIOUS
<1>11. Total(turn, DOMAIN groups) = Total(turn, Active)
  <2>1. \A k \in (DOMAIN groups) \ Active : turn[k] = 0
    BY <1>10
  <2> QED
    BY <1>1, <2>1, SumPart
<1>12. \A k \in Active : Headroom(k) \in Nat /\ Headroom(k) > 0
  BY <1>1, Headrooms
<1>13. ASSUME NEW j \in Active, NEW k \in Active, groups[j].graded > groups[k].graded
       PROVE  turn[j] >= turn[k]
  <2>1. <<j, k>> \in R
    BY <1>5, <1>13
  <2>2. Cardinality(Ahead(Active, R, j)) < Cardinality(Ahead(Active, R, k))
    BY <1>2, <2>1, FewerAhead
  <2>3. Cardinality(Ahead(Active, R, j)) \in Nat /\ Cardinality(Ahead(Active, R, k)) \in Nat
    <3>1. IsFiniteSet(Ahead(Active, R, j)) /\ IsFiniteSet(Ahead(Active, R, k))
      BY <1>2, FewerAhead
    <3> QED
      BY <3>1, FS_CardinalityType
  <2> QED
    BY <1>4, <2>2, <2>3
<1>14. \A k \in Active : turn[k] \in Nat /\ turn[k] <= Headroom(k)
  BY <1>8, <1>12
<1> QED
  BY <1>6, <1>9, <1>10, <1>11, <1>13, <1>14 DEF FairTurn

\* A turn gives heavier groups no less.
LEMMA TurnIsFair ==
    ASSUME Budget(groups), Shared, remainder \in Nat
    PROVE  FairTurn(Turn)
<1> DEFINE whole == TotalWeight > 0 /\ \E j \in Active : Take(j, TotalWeight) > 0
<1>1. CASE whole
  <2>1. Turn = [k \in DOMAIN groups |-> IF k \notin Active THEN 0 ELSE Take(k, TotalWeight)]
    BY <1>1 DEF Turn
  <2> QED
    BY <1>1, <2>1, WholeTurn
<1>2. CASE ~whole
  <2>1. Turn = [k \in DOMAIN groups |-> IF k \notin Active THEN 0 ELSE Single(k)]
    BY <1>2 DEF Turn
  <2> QED
    BY <2>1, SingleTurn
<1> QED
  BY <1>1, <1>2

\* A turn of the apportionment.
LEMMA ApportionKeeps == ASSUME Allocating, Apportion PROVE Allocating'
<1> USE DEF Allocating
<1>1. /\ pc = "apportion" /\ remainder > 0
      /\ UNCHANGED <<cf, pc, ordinal, cache, groups, kept>>
  BY DEF Apportion
<1>2. PICK turn : turn = Turn
  OBVIOUS
<1>3. /\ quotas' = [k \in DOMAIN quotas |-> quotas[k] + turn[k]]
      /\ remainder' = remainder - Total(turn, DOMAIN groups)
  BY <1>2 DEF Apportion
<1>4. Budget(groups) /\ Shared
  BY <1>1, BudgetIs DEF Handed
<1>5. Need \in Nat /\ remainder \in 0 .. Need
  BY <1>4 DEF Batched, Budget
<1>6. FairTurn(turn)
  <2>1. remainder \in Nat
    BY <1>5
  <2> QED
    BY <1>2, <1>4, <2>1, TurnIsFair
<1>7. Need' = Need /\ Minimum' = Minimum /\ groups' = groups
  BY <1>1 DEF Need, Minimum
<1>8. Total(turn, DOMAIN groups) \in 0 .. remainder
  BY <1>6 DEF FairTurn
<1>9. remainder' \in 0 .. Need
  BY <1>3, <1>5, <1>8
<1>10. \A k \in DOMAIN groups :
          /\ Headroom(k) \in Nat
          /\ k \in Active <=> Headroom(k) > 0
          /\ quotas[k] \in Nat /\ groups[k].size = quotas[k] + Headroom(k)
  BY <1>4, Headrooms
<1>11. DOMAIN quotas = DOMAIN groups
  BY <1>4 DEF Shared
<1>12. \A k \in DOMAIN groups :
          /\ turn[k] \in Nat /\ turn[k] <= Headroom(k)
          /\ k \notin Active => turn[k] = 0
          /\ quotas'[k] = quotas[k] + turn[k]
  <2>1. \A k \in DOMAIN groups :
           /\ turn[k] \in Nat
           /\ k \in Active => turn[k] <= Headroom(k)
           /\ k \notin Active => turn[k] = 0
    BY <1>6 DEF FairTurn
  <2>2. \A k \in DOMAIN groups : quotas'[k] = quotas[k] + turn[k]
    BY <1>3, <1>11
  <2> QED
    BY <1>10, <2>1, <2>2
<1>13. Batched'
  BY <1>1, <1>7, <1>9 DEF Batched
<1>14. Apart'
  BY <1>1 DEF Apart
<1>15. Grouped'
  BY <1>1, <1>7 DEF Grouped
<1>16. \A k \in DOMAIN groups : quotas'[k] \in 0 .. groups[k].size
  <2> SUFFICES ASSUME NEW k \in DOMAIN groups PROVE quotas'[k] \in 0 .. groups[k].size
    OBVIOUS
  <2>1. /\ quotas[k] \in Nat /\ turn[k] \in Nat /\ Headroom(k) \in Nat /\ turn[k] <= Headroom(k)
        /\ groups[k].size = quotas[k] + Headroom(k) /\ quotas'[k] = quotas[k] + turn[k]
    BY <1>10, <1>12
  <2> QED
    BY <2>1
<1>17. ASSUME NEW j \in DOMAIN groups, NEW k \in DOMAIN groups,
              groups[j].graded > groups[k].graded
       PROVE  quotas'[j] >= quotas'[k] \/ quotas'[j] = groups[j].size
  <2>1. /\ quotas[k] \in Nat /\ turn[k] \in Nat /\ quotas[j] \in Nat /\ turn[j] \in Nat
        /\ Headroom(j) \in Nat /\ groups[j].size = quotas[j] + Headroom(j)
        /\ quotas'[j] = quotas[j] + turn[j] /\ quotas'[k] = quotas[k] + turn[k]
    BY <1>10, <1>12
  <2>2. quotas[j] >= quotas[k] \/ quotas[j] = groups[j].size
    BY <1>4, <1>17 DEF Shared, Heavier
  \* A group with headroom was not given less before, and is not now.
  <2>3. CASE j \in Active
    <3>1. Headroom(j) > 0
      BY <1>10, <2>3
    <3>2. quotas[j] >= quotas[k]
      BY <2>1, <2>2, <3>1
    <3>3. turn[k] = 0 \/ turn[j] >= turn[k] \/ turn[j] = Headroom(j)
      BY <1>6, <1>12, <1>17, <2>3 DEF FairTurn
    <3> QED
      BY <2>1, <3>2, <3>3
  \* The others have all their rows.
  <2>4. CASE j \notin Active
    <3>1. Headroom(j) = 0 /\ turn[j] = 0
      BY <1>10, <1>12, <2>1, <2>4
    <3> QED
      BY <2>1, <3>1
  <2> QED
    BY <2>3, <2>4
<1>18. \A k \in DOMAIN groups : quotas'[k] >= Minimum[k]
  <2> SUFFICES ASSUME NEW k \in DOMAIN groups PROVE quotas'[k] >= Minimum[k]
    OBVIOUS
  <2>1. FloorsKept
    BY <1>1, <1>4 DEF Shared
  <2>2. quotas[k] >= Minimum[k] /\ quotas[k] \in Nat /\ turn[k] \in Nat /\ quotas'[k] = quotas[k] + turn[k]
    BY <1>10, <1>12, <2>1 DEF FloorsKept
  <2>3. Minimum[k] \in Nat
    BY <1>4, MinimumIs
  <2> QED
    BY <2>2, <2>3
<1>19. Shared'
  <2>1. Heavier'
    BY <1>7, <1>17 DEF Heavier
  <2>2. FloorsKept'
    BY <1>7, <1>18 DEF FloorsKept
  <2>3. DOMAIN quotas' = DOMAIN groups'
    BY <1>3, <1>7, <1>11
  <2> QED
    BY <1>7, <1>16, <2>1, <2>2, <2>3 DEF Shared
<1>20. Total(quotas', DOMAIN groups) = Total(quotas, DOMAIN groups) + Total(turn, DOMAIN groups)
  <2>1. IsFiniteSet(DOMAIN groups)
    BY <1>4 DEF Budget
  <2>2. \A k \in DOMAIN groups : quotas[k] \in Nat /\ turn[k] \in Nat /\ quotas'[k] = quotas[k] + turn[k]
    BY <1>10, <1>12
  <2> QED
    BY <2>1, <2>2, SumAdds
<1>21. Total(quotas', DOMAIN groups') + remainder' = Need'
  <2>1. Total(quotas, DOMAIN groups) + remainder = Need
    BY <1>1 DEF Handed
  <2>2. Total(quotas, DOMAIN groups) \in Nat
    <3>1. IsFiniteSet(DOMAIN groups)
      BY <1>4 DEF Budget
    <3> QED
      BY <1>10, <3>1, Sums DEF Summed
  <2>3. Total(quotas', DOMAIN groups) + remainder' = Need
    BY <1>3, <1>5, <1>8, <1>20, <2>1, <2>2
  <2> QED
    BY <1>7, <2>3
<1>22. Handed'
  BY <1>1, <1>19, <1>21 DEF Handed
<1> QED
  BY <1>13, <1>14, <1>15, <1>22

-------------------------------------------------------------------------------
(* The rows of the step.                                                     *)

\* The rows are selected.
LEMMA SelectKeeps == ASSUME Allocating, Select PROVE Allocating'
<1> USE DEF Allocating
<1> DEFINE D == DOMAIN groups
<1>1. /\ pc = "apportion" /\ (remainder = 0 \/ Active = {}) /\ pc' = "train"
      /\ kept' = UNION {FirstRows(groups[k].rows, quotas[k]) : k \in D}
      /\ UNCHANGED <<cf, ordinal, cache, groups, quotas, remainder>>
  BY DEF Select
<1>2. Budget(groups) /\ Shared
  BY <1>1, BudgetIs DEF Handed
<1>3. PICK g : g = [k \in D |-> groups[k].rows]
  OBVIOUS
<1>4. Need \in Nat /\ remainder \in 0 .. Need
  BY <1>2 DEF Batched, Budget
<1>5. DOMAIN cache = 1 .. Len(cache) /\ Len(cache) \in Nat
  BY DEF Batched
<1>6. IsFiniteSet(DOMAIN cache) /\ Cardinality(DOMAIN cache) = Len(cache)
  <2>1. PICK n \in Nat : n = Len(cache)
    BY <1>5
  <2>2. IsFiniteSet(1 .. n) /\ Cardinality(1 .. n) = n
    BY FS_Interval
  <2> QED
    BY <1>5, <2>1, <2>2
<1>7. Disjoint(D, g)
  <2>1. \A k \in D : g[k] \subseteq DOMAIN cache
    BY <1>3 DEF Grouped
  <2>2. \A k \in D : g[k] \in SUBSET Nat /\ IsFiniteSet(g[k])
    BY <1>5, <1>6, <2>1, FS_Subset
  <2>3. \A j, k \in D : j # k => g[j] \cap g[k] = {}
    BY <1>3 DEF Grouped
  <2>4. IsFiniteSet(D)
    BY <1>2 DEF Budget
  <2> QED
    BY <2>2, <2>3, <2>4 DEF Disjoint
<1>8. \A k \in D : /\ quotas[k] \in 0 .. Cardinality(g[k])
                   /\ groups[k].size = Cardinality(g[k]) /\ g[k] = groups[k].rows
  BY <1>2, <1>3 DEF Shared, Grouped
<1>9. kept' = Firsts(D, g, quotas)
  <2>1. {FirstRows(groups[k].rows, quotas[k]) : k \in D} = {FirstRows(g[k], quotas[k]) : k \in D}
    BY <1>8
  <2> QED
    BY <1>1, <2>1 DEF Firsts
<1>10. Cardinality(kept') = Total(quotas, D)
  BY <1>7, <1>8, <1>9, FirstsCount
<1>11. Total(quotas, D) + remainder = Need
  BY <1>1 DEF Handed
<1>12. Total(quotas, D) \in Nat
  <2>1. IsFiniteSet(D) /\ \A k \in D : quotas[k] \in Nat
    BY <1>2, Headrooms DEF Budget
  <2> QED
    BY <2>1, Sums DEF Summed
\* The loop does not run out of rows.
<1>13. ASSUME Active = {} PROVE FALSE
  <2>1. \A k \in D : quotas[k] = Cardinality(g[k])
    <3> SUFFICES ASSUME NEW k \in D PROVE quotas[k] = Cardinality(g[k])
      OBVIOUS
    <3>1. /\ Headroom(k) \in Nat /\ ~ (Headroom(k) > 0)
          /\ quotas[k] \in Nat /\ groups[k].size = quotas[k] + Headroom(k)
      BY <1>2, <1>13, Headrooms
    <3> QED
      BY <1>8, <3>1
  <2>2. Firsts(D, g, quotas) = UNION {g[k] : k \in D}
    BY <1>7, <2>1, AllRows
  <2>3. UNION {g[k] : k \in D} = DOMAIN cache
    <3>1. {g[k] : k \in D} = {groups[k].rows : k \in D}
      BY <1>8
    <3> QED
      BY <1>1, <3>1 DEF Grouped
  <2>4. Total(quotas, D) = Len(cache)
    BY <1>6, <1>9, <1>10, <2>2, <2>3
  <2>5. Len(cache) > Need
    BY <1>1 DEF Grouped
  <2> QED
    BY <1>4, <1>5, <1>11, <2>4, <2>5
<1>14. remainder = 0
  BY <1>1, <1>13
<1>15. Cardinality(kept') = Need
  BY <1>10, <1>11, <1>12, <1>14
<1>16. Need' = Need /\ Minimum' = Minimum
  BY <1>1 DEF Need, Minimum
<1>17. Batched'
  BY <1>1, <1>16 DEF Batched
<1>18. Apart'
  BY <1>1 DEF Apart
<1>19. Grouped'
  <2>1. pc' = "train" /\ cache' = cache /\ groups' = groups
    BY <1>1
  <2> QED
    BY <2>1 DEF Grouped
<1>20. Shared'
  BY <1>1, <1>2, <1>16 DEF Shared, FloorsKept, FloorsSqueezed, Heavier
<1>21. Handed'
  BY <1>1, <1>15, <1>16, <1>20 DEF Handed
<1> QED
  BY <1>17, <1>18, <1>19, <1>21

-------------------------------------------------------------------------------
(* Theorems.                                                                 *)

\* Every step keeps the invariant.
LEMMA StepKeeps == ASSUME Allocating, [Next]_vars PROVE Allocating'
<1>1. CASE Generate
  BY <1>1, GenerateKeeps
<1>2. CASE Incomplete
  BY <1>2, IncompleteKeeps
<1>3. CASE Truncate
  BY <1>3, CutKeeps
<1>4. CASE Allocate
  BY <1>4, AllocateKeeps
<1>5. CASE KeepAll
  BY <1>5, CutKeeps
<1>6. CASE SetFloors
  BY <1>6, SetFloorsKeeps
<1>7. CASE Apportion
  BY <1>7, ApportionKeeps
<1>8. CASE Select
  BY <1>8, SelectKeeps
<1>9. CASE EndStep
  BY <1>9, EndStepKeeps
<1>10. CASE UNCHANGED vars
  <2>1. UNCHANGED <<cf, pc, ordinal, cache, groups, quotas, remainder, kept>>
    BY <1>10 DEF vars
  <2>2. Batched'
    BY <2>1 DEF Allocating, Batched, Need
  <2>3. Apart'
    BY <2>1 DEF Allocating, Apart
  <2>4. Grouped'
    BY <2>1 DEF Allocating, Grouped, Need
  <2>5. Shared => Shared'
    BY <2>1 DEF Shared, FloorsKept, FloorsSqueezed, Heavier, Minimum
  <2>6. Handed'
    BY <2>1, <2>5 DEF Allocating, Handed, Need
  <2> QED
    BY <2>2, <2>3, <2>4, <2>6 DEF Allocating
<1> QED
  BY <1>1, <1>2, <1>3, <1>4, <1>5, <1>6, <1>7, <1>8, <1>9, <1>10 DEF Next

\* The invariant of allocate_rollout_budget and of the loop that feeds it.
THEOREM AllocatingAlways == Spec => []Allocating
<1>1. Init => Allocating
  BY InitAllocating
<1>2. Allocating /\ [Next]_vars => Allocating'
  BY StepKeeps
<1> QED
  BY <1>1, <1>2, PTL DEF Spec

\* The rows of a step are shared out as the settings say: exactly the budget of
\* _apportion, the floors first and the rest by weight, for every settings,
\* rewards, diversities and number of batches.
THEOREM SharesAreSound == Spec => []SharesSound
<1>1. Allocating => SharesSound
  <2> SUFFICES ASSUME Allocating PROVE SharesSound
    OBVIOUS
  <2>1. TypeOK
    <3>1. DOMAIN quotas = IF pc \in {"apportion", "train"} THEN DOMAIN groups ELSE {}
      BY DEF Allocating, Handed, Shared
    <3> QED
      BY <3>1 DEF Allocating, Batched, TypeOK
  <2>2. BudgetExact
    BY DEF Allocating, Handed, BudgetExact
  <2>3. FloorMet
    <3>1. pc = "train" => FloorsKept \/ FloorsSqueezed
      BY DEF Allocating, Handed, Shared
    <3> QED
      BY <3>1 DEF FloorMet, FloorsKept, FloorsSqueezed
  <2>4. MoreForMore
    <3>1. CASE pc \in {"apportion", "train"}
      BY <3>1 DEF Allocating, Handed, Shared, Heavier, MoreForMore
    <3>2. CASE pc = "floors"
      BY <3>2 DEF MoreForMore
    <3>3. CASE pc \in {"generate", "gate", "failed"}
      BY <3>3 DEF Allocating, Grouped, MoreForMore
    <3> QED
      BY <3>1, <3>2, <3>3 DEF Allocating, Batched
  <2> QED
    BY <2>1, <2>2, <2>3, <2>4 DEF SharesSound
<1> QED
  BY <1>1, AllocatingAlways, PTL

\* No group of _group_rows mixes the generations of two prompts or of two
\* generation batches: the stride keeps the ids of assign_group_ids apart.
THEOREM GroupsStayApart == Spec => []GroupsApart
<1>1. Allocating => GroupsApart
  <2> SUFFICES ASSUME Allocating, NEW k \in DOMAIN groups,
                      NEW r \in groups[k].rows, NEW q \in groups[k].rows
               PROVE  cache[r].origin = cache[q].origin
    BY DEF GroupsApart
  <2>1. r \in DOMAIN cache /\ q \in DOMAIN cache /\ cache[r].group = cache[q].group
    BY DEF Allocating, Grouped
  <2> QED
    BY <2>1 DEF Allocating, Apart
<1> QED
  BY <1>1, AllocatingAlways, PTL

===============================================================================
