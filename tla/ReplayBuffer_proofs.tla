-------------------------- MODULE ReplayBuffer_proofs --------------------------
(***************************************************************************)
(* Theorems about the replay buffer, for every size, every number of groups  *)
(* per sample and every bound on versions: the three lists stay well formed, *)
(* and they implement the set of entries its clients rely on.                *)
(***************************************************************************)
EXTENDS ReplayBuffer, FiniteSetTheorems, NaturalsInduction, WellFoundedInduction, TLAPS

-------------------------------------------------------------------------------
(* list.pop(idx), and the loop of pops.                                      *)

\* A pop moves the entries behind it up by one.
LEMMA RemoveAtIs ==
    ASSUME NEW X, NEW s \in Seq(X), NEW i \in 1 .. Len(s)
    PROVE  /\ RemoveAt(s, i) \in Seq(X) /\ Len(RemoveAt(s, i)) = Len(s) - 1
           /\ \A j \in 1 .. Len(s) - 1 :
                RemoveAt(s, i)[j] = IF j < i THEN s[j] ELSE s[j + 1]
<1> DEFINE l == SubSeq(s, 1, i - 1)
           r == SubSeq(s, i + 1, Len(s))
<1>1. l \in Seq(X) /\ Len(l) = i - 1 /\ \A j \in 1 .. i - 1 : l[j] = s[j]
  OBVIOUS
<1>2. r \in Seq(X) /\ Len(r) = Len(s) - i
  OBVIOUS
<1>3. \A j \in 1 .. Len(s) - i : r[j] = s[i + j]
  OBVIOUS
<1>4. RemoveAt(s, i) = l \o r
  BY DEF RemoveAt
<1> HIDE DEF l, r
<1>5. l \o r \in Seq(X) /\ Len(l \o r) = Len(s) - 1
  BY <1>1, <1>2, SMTT(60)
<1>6. ASSUME NEW j \in 1 .. Len(s) - 1
      PROVE  (l \o r)[j] = IF j < i THEN s[j] ELSE s[j + 1]
  <2>1. CASE j < i
    <3>1. (l \o r)[j] = l[j]
      BY <1>1, <1>2, <2>1
    <3> QED
      BY <1>1, <2>1, <3>1
  <2>2. CASE i <= j
    <3>1. (l \o r)[j] = r[j - (i - 1)]
      BY <1>1, <1>2, <2>2
    <3>2. PICK k \in 1 .. Len(s) - i : k = j - (i - 1)
      BY <2>2
    <3>3. r[k] = s[i + k] /\ i + k = j + 1
      BY <1>3, <3>2
    <3> QED
      BY <2>2, <3>1, <3>2, <3>3
  <2>3. j < i \/ i <= j
    OBVIOUS
  <2> QED
    BY <2>1, <2>2, <2>3
<1> QED
  BY <1>4, <1>5, <1>6

\* A set of natural numbers that contains 0, and with k also k + 1, has them all.
LEMMA Climb ==
    ASSUME NEW T, 0 \in T, \A k \in Nat : k \in T => k + 1 \in T
    PROVE  Nat \subseteq T
<1> SUFFICES ASSUME Nat \ T # {} PROVE FALSE
  OBVIOUS
<1> DEFINE R == OpToRel(<, Nat)
<1>1. IsWellFoundedOn(R, Nat)
  BY NatLessThanWellFounded
<1>2. \A n, k \in Nat : n < k => <<n, k>> \in R
  BY DEF OpToRel
<1> HIDE DEF R
<1>3. PICK m \in Nat \ T : \A n \in Nat \ T : ~ (<<n, m>> \in R)
  <2>1. Nat \ T \subseteq Nat
    OBVIOUS
  <2> QED
    BY <1>1, <2>1, WFMin
<1>4. PICK k \in Nat : k + 1 = m
  <2>1. m # 0 /\ m - 1 \in Nat /\ (m - 1) + 1 = m
    BY <1>3
  <2> QED
    BY <2>1
<1>5. <<k, m>> \in R
  <2>1. k < m
    BY <1>4
  <2> QED
    BY <1>2, <1>3, <2>1
<1>6. k \in T
  BY <1>3, <1>5
<1> QED
  BY <1>3, <1>4, <1>6

\* p lists what is left of list after each of the n pops of the loop over f.
Pops(p, list, f, n, m) ==
    p = [k \in 0 .. m |-> IF k = 0 THEN list ELSE RemoveAt(p[k - 1], f[n + 1 - k])]

\* The loop runs to its end.
LEMMA LoopRuns ==
    ASSUME NEW list, NEW f, NEW n \in Nat
    PROVE  \E p : Pops(p, list, f, n, n)
<1> DEFINE T == {m \in Nat : \E p : Pops(p, list, f, n, m)}
<1>1. 0 \in T
  <2> DEFINE p == [k \in 0 .. 0 |-> list]
  <2>1. Pops(p, list, f, n, 0)
    BY DEF Pops
  <2> QED
    BY <2>1
<1>2. ASSUME NEW m \in Nat, m \in T
      PROVE  m + 1 \in T
  <2>1. PICK p : Pops(p, list, f, n, m)
    BY <1>2
  <2> DEFINE g(k) == IF k = 0 THEN list ELSE RemoveAt(p[k - 1], f[n + 1 - k])
             q == [k \in 0 .. m + 1 |-> g(k)]
  <2>2. p = [k \in 0 .. m |-> g(k)]
    BY <2>1 DEF Pops
  <2>3. \A k \in 0 .. m : q[k] = p[k]
    <3>1. \A k \in 0 .. m : p[k] = g(k)
      BY <2>2
    <3> HIDE DEF g
    <3> QED
      BY <3>1
  <2>4. ASSUME NEW k \in 0 .. m + 1
        PROVE  g(k) = IF k = 0 THEN list ELSE RemoveAt(q[k - 1], f[n + 1 - k])
    <3>1. CASE k = 0
      BY <3>1
    <3>2. CASE k # 0
      <4>1. k - 1 \in 0 .. m
        BY <3>2
      <4>2. q[k - 1] = p[k - 1]
        BY <2>3, <4>1
      <4> QED
        BY <3>2, <4>2
    <3> QED
      BY <3>1, <3>2
  <2>5. Pops(q, list, f, n, m + 1)
    BY <2>4 DEF Pops
  <2> QED
    BY <2>5
<1> HIDE DEF T
<1>3. Nat \subseteq T
  BY <1>1, <1>2, Climb
<1> QED
  BY <1>3 DEF T

\* What PopAll returns is where the loop ends.
LEMMA PopAllLoops ==
    ASSUME NEW list, NEW n \in Nat, NEW f, Len(f) = n
    PROVE  \E p : Pops(p, list, f, n, n) /\ PopAll(list, f) = p[n]
<1> DEFINE p == CHOOSE p : p = [k \in 0 .. n |-> IF k = 0 THEN list
                                                ELSE RemoveAt(p[k - 1], f[n + 1 - k])]
<1>1. Pops(p, list, f, n, n)
  <2>1. PICK u : Pops(u, list, f, n, n)
    BY LoopRuns
  <2>2. u = [k \in 0 .. n |-> IF k = 0 THEN list ELSE RemoveAt(u[k - 1], f[n + 1 - k])]
    BY <2>1 DEF Pops
  <2>3. p = [k \in 0 .. n |-> IF k = 0 THEN list ELSE RemoveAt(p[k - 1], f[n + 1 - k])]
    BY <2>2, Zenon
  <2> QED
    BY <2>3 DEF Pops
<1>2. PopAll(list, f) = p[n]
  BY DEF PopAll
<1> QED
  BY <1>1, <1>2

\* The positions 1 .. n of a list, and an order-preserving choice of n of them.
Ascends(f, n) == \A j, k \in 1 .. n : j < k => f[j] < f[k]

\* Popping place d of a list of m positions leaves them in order, without the
\* one at d; the places before d stay.
Squeezed(q, d, m, size) ==
    /\ RemoveAt(q, d) \in Seq(1 .. size) /\ Len(RemoveAt(q, d)) = m - 1
    /\ Ascends(RemoveAt(q, d), m - 1)
    /\ \A x : (\E j \in 1 .. m - 1 : RemoveAt(q, d)[j] = x) <=>
              (\E j \in 1 .. m : q[j] = x) /\ x # q[d]
    /\ \A j \in 1 .. m - 1 : j < d => RemoveAt(q, d)[j] = q[j]

\* One position less, the rest in order.
LEMMA Squeeze ==
    ASSUME NEW size, size \in Nat, NEW m, m \in Nat, NEW d, d \in 1 .. m,
           NEW q, q \in Seq(1 .. size), Len(q) = m, Ascends(q, m)
    PROVE  Squeezed(q, d, m, size)
<1> DEFINE r == RemoveAt(q, d)
<1>1. /\ r \in Seq(1 .. size) /\ Len(r) = m - 1
      /\ \A j \in 1 .. m - 1 : r[j] = IF j < d THEN q[j] ELSE q[j + 1]
  BY RemoveAtIs
<1> HIDE DEF r
<1>2. \A j \in 1 .. m : q[j] \in Int
  OBVIOUS
<1>3. ASSUME NEW j \in 1 .. m - 1, NEW l \in 1 .. m - 1, j < l
      PROVE  r[j] < r[l]
  <2>1. j \in 1 .. m /\ l \in 1 .. m /\ l + 1 \in 1 .. m /\ j + 1 \in 1 .. m
    OBVIOUS
  <2>2. CASE l < d
    <3>1. r[j] = q[j] /\ r[l] = q[l]
      BY <1>1, <1>3, <2>2
    <3> QED
      BY <1>3, <2>1, <3>1 DEF Ascends
  <2>3. CASE j < d /\ ~(l < d)
    <3>1. r[j] = q[j] /\ r[l] = q[l + 1] /\ j < l + 1
      BY <1>1, <1>3, <2>3
    <3> QED
      BY <2>1, <3>1 DEF Ascends
  <2>4. CASE ~(j < d)
    <3>1. r[j] = q[j + 1] /\ r[l] = q[l + 1] /\ j + 1 < l + 1
      BY <1>1, <1>3, <2>4
    <3> QED
      BY <2>1, <3>1 DEF Ascends
  <2> QED
    BY <1>3, <2>2, <2>3, <2>4
<1>4. ASSUME NEW j \in 1 .. m - 1
      PROVE  (\E l \in 1 .. m : q[l] = r[j]) /\ r[j] # q[d]
  <2>1. CASE j < d
    <3>1. r[j] = q[j] /\ j \in 1 .. m
      BY <1>1, <2>1
    <3> QED
      BY <1>2, <2>1, <3>1 DEF Ascends
  <2>2. CASE ~(j < d)
    <3>1. r[j] = q[j + 1] /\ j + 1 \in 1 .. m /\ d < j + 1
      BY <1>1, <2>2
    <3> QED
      BY <1>2, <3>1 DEF Ascends
  <2> QED
    BY <2>1, <2>2
<1>5. ASSUME NEW l \in 1 .. m, q[l] # q[d]
      PROVE  \E j \in 1 .. m - 1 : r[j] = q[l]
  <2>1. CASE l < d
    <3>1. l \in 1 .. m - 1
      BY <2>1
    <3> QED
      BY <1>1, <2>1, <3>1
  <2>2. CASE ~(l < d)
    <3>1. l # d
      BY <1>5
    <3>2. PICK j \in 1 .. m - 1 : j + 1 = l /\ ~(j < d)
      <4>1. l - 1 \in 1 .. m - 1 /\ (l - 1) + 1 = l /\ ~(l - 1 < d)
        BY <2>2, <3>1
      <4> QED
        BY <4>1
    <3> QED
      BY <1>1, <3>2
  <2> QED
    BY <2>1, <2>2
<1>6. Ascends(r, m - 1)
  BY <1>3 DEF Ascends
<1>7. \A x : (\E j \in 1 .. m - 1 : r[j] = x) <=> (\E j \in 1 .. m : q[j] = x) /\ x # q[d]
  <2> SUFFICES ASSUME NEW x
               PROVE  (\E j \in 1 .. m - 1 : r[j] = x) <=> (\E j \in 1 .. m : q[j] = x) /\ x # q[d]
    OBVIOUS
  <2>1. ASSUME NEW j \in 1 .. m - 1, r[j] = x
        PROVE  (\E l \in 1 .. m : q[l] = x) /\ x # q[d]
    BY <1>4, <2>1
  <2>2. ASSUME NEW l \in 1 .. m, q[l] = x, x # q[d]
        PROVE  \E j \in 1 .. m - 1 : r[j] = x
    BY <1>5, <2>2
  <2> QED
    BY <2>1, <2>2
<1>8. \A j \in 1 .. m - 1 : j < d => r[j] = q[j]
  BY <1>1
<1> QED
  BY <1>1, <1>6, <1>7, <1>8 DEF r, Squeezed

\* After k pops of positions f, from the last down: q says which entry of the
\* old list each place holds, and up to the next position to pop nothing moved.
Left(q, f, n, size, k) ==
    /\ q \in Seq(1 .. size) /\ Len(q) = size - k
    /\ Ascends(q, size - k)
    /\ \A x \in 1 .. size : (\E j \in 1 .. size - k : q[j] = x) <=>
                            (\A i \in 1 .. n : n - k < i => f[i] # x)
    /\ k < n => f[n - k] <= size - k /\ \A j \in 1 .. f[n - k] : q[j] = j

\* One pop of the loop.
LEMMA OnePop ==
    ASSUME NEW size \in Nat, NEW n \in Nat, NEW f \in [1 .. n -> 1 .. size], Ascends(f, n),
           NEW k \in Nat, k < n, NEW q, Left(q, f, n, size, k)
    PROVE  Left(RemoveAt(q, f[n - k]), f, n, size, k + 1)
<1> DEFINE d == f[n - k]
           r == RemoveAt(q, d)
           m == size - k
<1>1. n - k \in 1 .. n
  OBVIOUS
<1>2. d \in 1 .. m /\ q[d] = d /\ (\A j \in 1 .. d : q[j] = j) /\ m \in Nat
  BY <1>1, SMTT(60) DEF Left
<1>3. q \in Seq(1 .. size) /\ Len(q) = m /\ Ascends(q, m)
  BY DEF Left
<1>4. m - 1 = size - (k + 1)
  OBVIOUS
<1>5. \A x \in 1 .. size : (\E j \in 1 .. m : q[j] = x) <=>
                          (\A i \in 1 .. n : n - k < i => f[i] # x)
  BY DEF Left
<1>6. \A i \in 1 .. n : n - (k + 1) < i <=> (n - k < i \/ i = n - k)
  OBVIOUS
<1>7. k + 1 < n => f[n - (k + 1)] < d /\ f[n - (k + 1)] \in 1 .. size
  BY <1>1 DEF Ascends
<1> HIDE DEF m
<1>8. /\ r \in Seq(1 .. size) /\ Len(r) = m - 1 /\ Ascends(r, m - 1)
      /\ \A x : (\E j \in 1 .. m - 1 : r[j] = x) <=> (\E j \in 1 .. m : q[j] = x) /\ x # d
      /\ \A j \in 1 .. m - 1 : j < d => r[j] = q[j]
  <2> HIDE DEF d
  <2>1. Squeezed(q, d, m, size)
    BY <1>2, <1>3, Squeeze
  <2>2. q[d] = d
    BY <1>2
  <2> QED
    BY <2>1, <2>2 DEF Squeezed
<1>9. ASSUME NEW x \in 1 .. size
      PROVE  (\E j \in 1 .. m - 1 : r[j] = x) <=>
             (\A i \in 1 .. n : n - (k + 1) < i => f[i] # x)
  <2>1. (\A i \in 1 .. n : n - (k + 1) < i => f[i] # x) <=>
        (\A i \in 1 .. n : n - k < i => f[i] # x) /\ x # d
    BY <1>1, <1>6
  <2> HIDE DEF d, r
  <2> QED
    BY <1>5, <1>8, <2>1
<1>10. k + 1 < n => /\ f[n - (k + 1)] <= m - 1
                    /\ \A j \in 1 .. f[n - (k + 1)] : r[j] = j
  <2> HIDE DEF d, r
  <2> SUFFICES ASSUME k + 1 < n
               PROVE  /\ f[n - (k + 1)] <= m - 1
                      /\ \A j \in 1 .. f[n - (k + 1)] : r[j] = j
    OBVIOUS
  <2>1. PICK e \in 1 .. size : e = f[n - (k + 1)] /\ e < d
    BY <1>7
  <2>2. e <= m - 1 /\ \A j \in 1 .. e : j \in 1 .. m - 1 /\ j < d /\ j \in 1 .. d
    BY <1>2, <2>1
  <2> QED
    BY <1>2, <1>8, <2>1, <2>2
<1> HIDE DEF d, r
<1>11. Left(r, f, n, size, k + 1)
  BY <1>4, <1>8, <1>9, <1>10 DEF Left
<1> QED
  BY <1>11 DEF r, d

\* What remains of list is what the remaining positions point to.
Tracks(p, q, list, X, m) ==
    p \in Seq(X) /\ Len(p) = m /\ \A j \in 1 .. m : p[j] = list[q[j]]

\* A pop keeps a list beside its positions.
LEMMA PopTracks ==
    ASSUME NEW X, NEW list, NEW size, NEW m, m \in Nat, NEW d, d \in 1 .. m,
           NEW q, q \in Seq(1 .. size), Len(q) = m,
           NEW p, Tracks(p, q, list, X, m)
    PROVE  Tracks(RemoveAt(p, d), RemoveAt(q, d), list, X, m - 1)
<1> DEFINE r == RemoveAt(q, d)
           t == RemoveAt(p, d)
<1>1. p \in Seq(X) /\ Len(p) = m /\ \A j \in 1 .. m : p[j] = list[q[j]]
  BY DEF Tracks
<1>2. \A j \in 1 .. m - 1 : r[j] = IF j < d THEN q[j] ELSE q[j + 1]
  BY RemoveAtIs
<1>3. /\ t \in Seq(X) /\ Len(t) = m - 1
      /\ \A j \in 1 .. m - 1 : t[j] = IF j < d THEN p[j] ELSE p[j + 1]
  <2>1. d \in 1 .. Len(p) /\ p \in Seq(X)
    BY <1>1
  <2>2. /\ t \in Seq(X) /\ Len(t) = Len(p) - 1
        /\ \A j \in 1 .. Len(p) - 1 : t[j] = IF j < d THEN p[j] ELSE p[j + 1]
    BY <2>1, RemoveAtIs, Zenon
  <2> QED
    BY <1>1, <2>2
<1> HIDE DEF r, t
<1>4. ASSUME NEW j \in 1 .. m - 1
      PROVE  t[j] = list[r[j]]
  <2>1. j \in 1 .. m /\ j + 1 \in 1 .. m
    OBVIOUS
  <2> QED
    BY <1>1, <1>2, <1>3, <2>1
<1>5. Tracks(t, r, list, X, m - 1)
  BY <1>3, <1>4 DEF Tracks
<1> QED
  BY <1>5 DEF r, t

\* The positions that a list of the size has after the loop over f, in order.
Remaining(size, f) == PopAll([i \in 1 .. size |-> i], f)

Kept(list, X, f, n, size) ==
    /\ Left(Remaining(size, f), f, n, size, n)
    /\ Tracks(PopAll(list, f), Remaining(size, f), list, X, size - n)

\* The loop of pops, on any of the three lists: exactly the entries at f go, and
\* the others keep their order.
LEMMA PopAllKeeps ==
    ASSUME NEW size \in Nat, NEW n \in Nat, NEW f \in [1 .. n -> 1 .. size], Ascends(f, n),
           n >= 1, NEW X, NEW list \in Seq(X), Len(list) = size
    PROVE  Kept(list, X, f, n, size)
<1> DEFINE id == [i \in 1 .. size |-> i]
<1>1. Len(f) = n
  OBVIOUS
<1>2. PICK q : Pops(q, id, f, n, n) /\ PopAll(id, f) = q[n]
  <2> HIDE DEF id
  <2> QED
    BY <1>1, PopAllLoops, ZenonT(60)
<1>3. PICK p : Pops(p, list, f, n, n) /\ PopAll(list, f) = p[n]
  BY <1>1, PopAllLoops, ZenonT(60)
<1> DEFINE T == {k \in Nat : k <= n => /\ Left(q[k], f, n, size, k)
                                       /\ Tracks(p[k], q[k], list, X, size - k)}
<1>4. 0 \in T
  <2>1. q[0] = id /\ p[0] = list
    BY <1>2, <1>3 DEF Pops
  <2>2. f[n] \in 1 .. size /\ n - 0 = n /\ size - 0 = size
    OBVIOUS
  <2>3. id \in Seq(1 .. size) /\ Len(id) = size /\ \A j \in 1 .. size : id[j] = j
    OBVIOUS
  <2> HIDE DEF id
  <2>4. \A x \in 1 .. size : (\E j \in 1 .. size : id[j] = x) <=>
                             (\A i \in 1 .. n : n < i => f[i] # x)
    BY <2>3
  <2>5. Ascends(id, size)
    BY <2>3 DEF Ascends
  <2>6. Left(id, f, n, size, 0)
    BY <2>2, <2>3, <2>4, <2>5 DEF Left
  <2>7. Tracks(list, id, list, X, size)
    BY <2>3 DEF Tracks
  <2> QED
    BY <2>1, <2>2, <2>6, <2>7
<1>5. ASSUME NEW k \in Nat, k \in T
      PROVE  k + 1 \in T
  <2> SUFFICES ASSUME k + 1 <= n
               PROVE  /\ Left(q[k + 1], f, n, size, k + 1)
                      /\ Tracks(p[k + 1], q[k + 1], list, X, size - (k + 1))
    OBVIOUS
  <2>1. k < n /\ Left(q[k], f, n, size, k) /\ Tracks(p[k], q[k], list, X, size - k)
    BY <1>5
  <2>2. q[k + 1] = RemoveAt(q[k], f[n - k]) /\ p[k + 1] = RemoveAt(p[k], f[n - k])
    <3>1. k + 1 \in 0 .. n /\ k + 1 # 0 /\ (k + 1) - 1 = k /\ n + 1 - (k + 1) = n - k
      OBVIOUS
    <3> HIDE DEF id
    <3> QED
      BY <1>2, <1>3, <3>1 DEF Pops
  <2>3. Left(RemoveAt(q[k], f[n - k]), f, n, size, k + 1)
    BY <2>1, OnePop
  <2>4. f[n - k] \in 1 .. size - k /\ size - k \in Nat
    <3>1. n - k \in 1 .. n
      BY <2>1
    <3> QED
      BY <2>1, <3>1 DEF Left
  <2>5. q[k] \in Seq(1 .. size) /\ Len(q[k]) = size - k
    BY <2>1 DEF Left
  <2>6. Tracks(RemoveAt(p[k], f[n - k]), RemoveAt(q[k], f[n - k]), list, X, (size - k) - 1)
    BY <2>1, <2>4, <2>5, PopTracks
  <2>7. (size - k) - 1 = size - (k + 1)
    OBVIOUS
  <2> QED
    BY <2>2, <2>3, <2>6, <2>7
<1> HIDE DEF T
<1>6. n \in T
  BY <1>4, <1>5, Climb
<1>7. Left(q[n], f, n, size, n) /\ Tracks(p[n], q[n], list, X, size - n)
  BY <1>6 DEF T
<1> QED
  BY <1>2, <1>3, <1>7 DEF Remaining, Kept

-------------------------------------------------------------------------------
(* The three lists are sound, and so are those of the last checkpoint.       *)

\* Three lists of the same length, within max_size, with the trajectories in
\* order of arrival, none of which is still to come, and targets up to last.
Sound(ts, vs, ws, last, next) ==
    /\ ts \in Seq([id : Nat]) /\ vs \in Seq(0 .. MaxVersion) /\ ws \in Seq(0 .. MaxVersion)
    /\ last \in -1 .. MaxVersion /\ next \in 1 .. MaxAdds + 1
    /\ Len(vs) = Len(ts) /\ Len(ws) = Len(ts) /\ Len(ts) <= MaxSize
    /\ \A i \in 1 .. Len(ts) : ws[i] <= last /\ ts[i].id < next
    /\ \A i, j \in 1 .. Len(ts) : i < j => ts[i].id < ts[j].id

\* What BufferSound needs to be inductive: a checkpoint is restored as it is.
BufferInv ==
    /\ Sound(trajectories, trajectory_versions, target_weight_versions,
             last_target_weight_already_generated, nextId)
    /\ saved = UnpersistedState \/ saved.persisted = TRUE
    /\ saved.persisted => Sound(saved.trajectories, saved.trajectory_versions,
                                saved.target_weight_versions, saved.last, nextId)

\* What a list holds, by position.
Holds(s, m, X) == \A i \in 1 .. m : s[i] \in X

\* A sequence holds members of its set.
LEMMA ListHolds ==
    ASSUME NEW X, NEW s, s \in Seq(X), NEW m, Len(s) = m
    PROVE  Holds(s, m, X)
BY DEF Holds

\* The types in a sound buffer.
LEMMA SoundTypes ==
    ASSUME NEW ts, NEW vs, NEW ws, NEW last, NEW next, Sound(ts, vs, ws, last, next)
    PROVE  /\ Len(ts) \in Nat /\ last \in Int /\ next \in Nat
           /\ \A i \in 1 .. Len(ts) : /\ ts[i] \in [id : Nat] /\ ts[i].id \in Nat
                                     /\ vs[i] \in 0 .. MaxVersion /\ ws[i] \in 0 .. MaxVersion
<1>1. /\ ts \in Seq([id : Nat]) /\ vs \in Seq(0 .. MaxVersion) /\ ws \in Seq(0 .. MaxVersion)
      /\ Len(vs) = Len(ts) /\ Len(ws) = Len(ts) /\ last \in -1 .. MaxVersion
      /\ next \in 1 .. MaxAdds + 1
  BY DEF Sound
<1>2. Holds(ts, Len(ts), [id : Nat])
  BY <1>1, ListHolds
<1>3. \A i \in 1 .. Len(ts) : ts[i] \in [id : Nat] /\ ts[i].id \in Nat
  BY <1>2 DEF Holds
<1>4. Holds(vs, Len(ts), 0 .. MaxVersion) /\ Holds(ws, Len(ts), 0 .. MaxVersion)
  BY <1>1, ListHolds
<1>5. \A i \in 1 .. Len(ts) : vs[i] \in 0 .. MaxVersion /\ ws[i] \in 0 .. MaxVersion
  BY <1>4 DEF Holds
<1> QED
  BY <1>1, <1>3, <1>5, BufferAssumption

\* An empty buffer is sound.
LEMMA EmptySound ==
    ASSUME NEW last, last \in -1 .. MaxVersion, NEW next, next \in 1 .. MaxAdds + 1
    PROVE  Sound(<<>>, <<>>, <<>>, last, next)
BY BufferAssumption DEF Sound

\* A larger next id changes nothing.
LEMMA LaterSound ==
    ASSUME NEW ts, NEW vs, NEW ws, NEW last, NEW next, Sound(ts, vs, ws, last, next),
           next + 1 \in 1 .. MaxAdds + 1
    PROVE  Sound(ts, vs, ws, last, next + 1)
<1>1. next \in Nat /\ \A i \in 1 .. Len(ts) : ts[i].id \in Nat
  BY SoundTypes
<1> QED
  BY <1>1 DEF Sound

\* add() on sound lists.
LEMMA AppendSound ==
    ASSUME NEW ts, NEW vs, NEW ws, NEW last, NEW next, Sound(ts, vs, ws, last, next),
           Len(ts) < MaxSize, next <= MaxAdds,
           NEW v \in 0 .. MaxVersion, NEW t \in 0 .. MaxVersion
    PROVE  Sound(Append(ts, [id |-> next]), Append(vs, v), Append(ws, t),
                 Larger(last, t), next + 1)
<1> DEFINE size == Len(ts)
           e == [id |-> next]
           ts2 == Append(ts, e)
           vs2 == Append(vs, v)
           ws2 == Append(ws, t)
           top == Larger(last, t)
<1>1. /\ ts \in Seq([id : Nat]) /\ vs \in Seq(0 .. MaxVersion) /\ ws \in Seq(0 .. MaxVersion)
      /\ last \in -1 .. MaxVersion /\ next \in 1 .. MaxAdds + 1
      /\ Len(vs) = size /\ Len(ws) = size /\ size <= MaxSize /\ size \in Nat
      /\ \A i \in 1 .. size : ws[i] <= last /\ ts[i].id < next
      /\ \A i, j \in 1 .. size : i < j => ts[i].id < ts[j].id
  BY DEF Sound
<1>2. e \in [id : Nat] /\ e.id = next
  BY <1>1, BufferAssumption
<1>3. top \in -1 .. MaxVersion /\ last <= top /\ t <= top
  BY <1>1, BufferAssumption DEF Larger
<1> HIDE DEF e, top
<1>4. /\ ts2 \in Seq([id : Nat]) /\ Len(ts2) = size + 1 /\ ts2[size + 1] = e
      /\ \A i \in 1 .. size : ts2[i] = ts[i]
  BY <1>1, <1>2
<1>5. vs2 \in Seq(0 .. MaxVersion) /\ Len(vs2) = size + 1
  BY <1>1
<1>6. /\ ws2 \in Seq(0 .. MaxVersion) /\ Len(ws2) = size + 1 /\ ws2[size + 1] = t
      /\ \A i \in 1 .. size : ws2[i] = ws[i]
  BY <1>1
<1>7. /\ \A i \in 1 .. size : ws[i] \in Int /\ ts[i].id \in Nat
      /\ last \in Int /\ next \in Nat /\ top \in Int
  BY <1>3, SoundTypes, BufferAssumption
<1> HIDE DEF size, ts2, vs2, ws2
<1>8. ASSUME NEW i \in 1 .. size + 1
      PROVE  ws2[i] <= top /\ ts2[i].id < next + 1
  <2>1. CASE i = size + 1
    BY <1>1, <1>2, <1>3, <1>4, <1>6, <2>1
  <2>2. CASE i # size + 1
    <3>1. i \in 1 .. size
      BY <1>1, <2>2
    <3>2. ws2[i] = ws[i] /\ ts2[i].id = ts[i].id
      BY <1>4, <1>6, <3>1
    <3>3. /\ ws[i] <= last /\ ts[i].id < next /\ last <= top
          /\ ws[i] \in Int /\ ts[i].id \in Nat /\ last \in Int /\ next \in Nat /\ top \in Int
      BY <1>1, <1>3, <1>7, <3>1
    <3> QED
      BY <3>2, <3>3, SMTT(60)
  <2> QED
    BY <2>1, <2>2
<1>9. ASSUME NEW i \in 1 .. size + 1, NEW j \in 1 .. size + 1, i < j
      PROVE  ts2[i].id < ts2[j].id
  <2>1. i \in 1 .. size
    BY <1>1, <1>9
  <2>2. CASE j = size + 1
    BY <1>1, <1>2, <1>4, <2>1, <2>2
  <2>3. CASE j # size + 1
    <3>1. j \in 1 .. size
      BY <1>1, <2>3
    <3> QED
      BY <1>1, <1>4, <1>9, <2>1, <3>1
  <2> QED
    BY <2>2, <2>3
<1>10. next + 1 \in 1 .. MaxAdds + 1 /\ size + 1 <= MaxSize
  BY <1>1, BufferAssumption DEF size
<1>11. Sound(ts2, vs2, ws2, top, next + 1)
  BY <1>3, <1>4, <1>5, <1>6, <1>8, <1>9, <1>10 DEF Sound
<1> QED
  BY <1>11 DEF ts2, vs2, ws2, top, e

\* The pops of sample() on sound lists.
LEMMA PopSound ==
    ASSUME NEW ts, NEW vs, NEW ws, NEW last, NEW next, Sound(ts, vs, ws, last, next),
           NEW n \in Nat, n >= 1, NEW f \in [1 .. n -> 1 .. Len(ts)], Ascends(f, n)
    PROVE  Sound(PopAll(ts, f), PopAll(vs, f), PopAll(ws, f), last, next)
<1> DEFINE size == Len(ts)
           q == Remaining(size, f)
           ts2 == PopAll(ts, f)
           vs2 == PopAll(vs, f)
           ws2 == PopAll(ws, f)
           m == size - n
<1>1. /\ ts \in Seq([id : Nat]) /\ vs \in Seq(0 .. MaxVersion) /\ ws \in Seq(0 .. MaxVersion)
      /\ last \in -1 .. MaxVersion /\ next \in 1 .. MaxAdds + 1
      /\ Len(vs) = size /\ Len(ws) = size /\ size <= MaxSize /\ size \in Nat
      /\ \A i \in 1 .. size : ws[i] <= last /\ ts[i].id < next
      /\ \A i, j \in 1 .. size : i < j => ts[i].id < ts[j].id
  BY DEF Sound
<1> HIDE DEF size
<1>2. f \in [1 .. n -> 1 .. size]
  BY DEF size
<1>3. Left(q, f, n, size, n) /\ Tracks(ts2, q, ts, [id : Nat], m)
  <2>1. Kept(ts, [id : Nat], f, n, size)
    BY <1>1, <1>2, PopAllKeeps DEF size
  <2> QED
    BY <2>1 DEF Kept
<1>4. Tracks(vs2, q, vs, 0 .. MaxVersion, m)
  <2>1. Kept(vs, 0 .. MaxVersion, f, n, size)
    BY <1>1, <1>2, PopAllKeeps
  <2> QED
    BY <2>1 DEF Kept
<1>5. Tracks(ws2, q, ws, 0 .. MaxVersion, m)
  <2>1. Kept(ws, 0 .. MaxVersion, f, n, size)
    BY <1>1, <1>2, PopAllKeeps
  <2> QED
    BY <2>1 DEF Kept
<1> HIDE DEF q, ts2, vs2, ws2
<1>6. /\ ts2 \in Seq([id : Nat]) /\ vs2 \in Seq(0 .. MaxVersion) /\ ws2 \in Seq(0 .. MaxVersion)
      /\ Len(ts2) = m /\ Len(vs2) = m /\ Len(ws2) = m
      /\ \A j \in 1 .. m : ts2[j] = ts[q[j]] /\ ws2[j] = ws[q[j]]
  BY <1>3, <1>4, <1>5 DEF Tracks
<1>7. /\ \A j \in 1 .. m : q[j] \in 1 .. size
      /\ \A i, j \in 1 .. m : i < j => q[i] < q[j]
  <2>1. q \in Seq(1 .. size) /\ Len(q) = m /\ Ascends(q, m)
    BY <1>3 DEF Left
  <2>2. Holds(q, m, 1 .. size)
    BY <2>1, ListHolds
  <2> HIDE DEF m
  <2> QED
    BY <2>1, <2>2 DEF Ascends, Holds
<1>8. m <= MaxSize
  BY <1>1, BufferAssumption
<1> HIDE DEF m
<1>9. \A i \in 1 .. m : ws2[i] <= last /\ ts2[i].id < next
  BY <1>1, <1>6, <1>7
<1>10. \A i, j \in 1 .. m : i < j => ts2[i].id < ts2[j].id
  BY <1>1, <1>6, <1>7
<1>11. Sound(ts2, vs2, ws2, last, next)
  BY <1>1, <1>6, <1>8, <1>9, <1>10 DEF Sound
<1> QED
  BY <1>11 DEF ts2, vs2, ws2

\* Every method keeps the buffer and its last checkpoint sound.
LEMMA BufferStep ==
    ASSUME BufferInv, [Next]_vars
    PROVE  BufferInv'
<1>1. /\ Sound(trajectories, trajectory_versions, target_weight_versions,
               last_target_weight_already_generated, nextId)
      /\ saved = UnpersistedState \/ saved.persisted = TRUE
      /\ saved.persisted => Sound(saved.trajectories, saved.trajectory_versions,
                                  saved.target_weight_versions, saved.last, nextId)
  BY DEF BufferInv
<1>2. /\ last_target_weight_already_generated \in -1 .. MaxVersion
      /\ nextId \in 1 .. MaxAdds + 1
  BY <1>1 DEF Sound
<1>3. CASE UNCHANGED vars
  BY <1>1, <1>3 DEF vars, lists, BufferInv
<1>4. CASE \E v, t \in 0 .. MaxVersion : add(v, t)
  <2>1. PICK v \in 0 .. MaxVersion, t \in 0 .. MaxVersion : add(v, t)
    BY <1>4
  <2>2. Sound(trajectories', trajectory_versions', target_weight_versions',
              last_target_weight_already_generated', nextId')
    BY <1>1, <2>1, AppendSound DEF add, Watermark
  <2>3. nextId + 1 \in 1 .. MaxAdds + 1 /\ nextId' = nextId + 1 /\ saved' = saved
    BY <1>2, <2>1, BufferAssumption DEF add
  <2>4. saved.persisted => Sound(saved.trajectories, saved.trajectory_versions,
                                 saved.target_weight_versions, saved.last, nextId + 1)
    BY <1>1, <2>3, LaterSound
  <2> QED
    BY <1>1, <2>2, <2>3, <2>4 DEF BufferInv
<1>5. CASE \E n \in 1 .. Groups, current, maxAge \in 0 .. MaxVersion : sample(n, current, maxAge)
  <2>1. PICK n \in 1 .. Groups, current \in 0 .. MaxVersion, maxAge \in 0 .. MaxVersion :
            sample(n, current, maxAge)
    BY <1>5
  <2>2. UNCHANGED <<last_target_weight_already_generated, saved, nextId>>
    BY <2>1 DEF sample, sample_none, sample_raises, sample_groups
  <2>3. CASE sample_none(n, current, maxAge) \/ sample_raises(current, maxAge)
    BY <1>1, <2>2, <2>3 DEF sample_none, sample_raises, lists, BufferInv
  <2>4. CASE sample_groups(n, current, maxAge)
    <3>1. PICK f \in FirstOf(intended_indices(current, maxAge), n) :
              /\ trajectories' = PopAll(trajectories, f)
              /\ trajectory_versions' = PopAll(trajectory_versions, f)
              /\ target_weight_versions' = PopAll(target_weight_versions, f)
      BY <2>4 DEF sample_groups
    <3>2. intended_indices(current, maxAge) \subseteq 1 .. Len(trajectories)
      BY DEF intended_indices, valid_indices, Indices
    <3>3. f \in [1 .. n -> 1 .. Len(trajectories)] /\ Ascends(f, n) /\ n \in Nat /\ n >= 1
      <4>1. n \in Nat /\ n >= 1
        BY BufferAssumption
      <4>2. f \in [1 .. n -> intended_indices(current, maxAge)] /\ Ascends(f, n)
        BY <3>1 DEF FirstOf, Ascends
      <4>3. f \in [1 .. n -> 1 .. Len(trajectories)]
        BY <3>2, <4>2
      <4> QED
        BY <4>1, <4>2, <4>3
    <3>4. Sound(trajectories', trajectory_versions', target_weight_versions',
                last_target_weight_already_generated, nextId)
      BY <1>1, <3>1, <3>3, PopSound
    <3> QED
      BY <1>1, <2>2, <3>4 DEF BufferInv
  <2> QED
    BY <2>1, <2>3, <2>4 DEF sample
<1>6. CASE clear
  <2>1. Sound(<<>>, <<>>, <<>>, last_target_weight_already_generated, nextId)
    BY <1>2, EmptySound
  <2> QED
    BY <1>1, <1>6, <2>1 DEF clear, EmptyLists, BufferInv
<1>7. CASE state_dict
  <2>1. UNCHANGED <<lists, last_target_weight_already_generated, nextId>>
    BY <1>7 DEF state_dict
  <2>2. \/ saved' = UnpersistedState
        \/ saved' = [persisted |-> TRUE,
                     trajectories |-> trajectories,
                     trajectory_versions |-> trajectory_versions,
                     target_weight_versions |-> target_weight_versions,
                     last |-> last_target_weight_already_generated]
    BY <1>7 DEF state_dict
  <2>3. CASE saved' = UnpersistedState
    BY <1>1, <2>1, <2>3 DEF BufferInv, UnpersistedState, lists
  <2>4. CASE saved' # UnpersistedState
    <3>1. /\ saved'.persisted = TRUE /\ saved'.trajectories = trajectories
          /\ saved'.trajectory_versions = trajectory_versions
          /\ saved'.target_weight_versions = target_weight_versions
          /\ saved'.last = last_target_weight_already_generated
      BY <2>2, <2>4
    <3> QED
      BY <1>1, <2>1, <3>1 DEF BufferInv, lists
  <2> QED
    BY <2>3, <2>4
<1>8. CASE load_state_dict
  BY <1>1, <1>8 DEF load_state_dict, BufferInv
<1>9. CASE Restart
  <2>1. Sound(<<>>, <<>>, <<>>, -1, nextId)
    BY <1>2, EmptySound, BufferAssumption, SMTT(60)
  <2> QED
    BY <1>1, <1>9, <2>1 DEF Restart, EmptyLists, BufferInv
<1> QED
  BY <1>3, <1>4, <1>5, <1>6, <1>7, <1>8, <1>9 DEF Next

\* The buffer is sound at first.
LEMMA BufferInit ==
    ASSUME Init
    PROVE  BufferInv
<1>1. -1 \in -1 .. MaxVersion /\ 1 \in 1 .. MaxAdds + 1
  BY BufferAssumption
<1>2. Sound(<<>>, <<>>, <<>>, -1, 1)
  BY <1>1, EmptySound, Zenon
<1> QED
  BY <1>2 DEF Init, BufferInv, UnpersistedState

\* What the run checks follows.
LEMMA SoundBuffer ==
    ASSUME BufferInv
    PROVE  BufferSound
<1> DEFINE size == Len(trajectories)
<1>1. Sound(trajectories, trajectory_versions, target_weight_versions,
            last_target_weight_already_generated, nextId)
  BY DEF BufferInv
<1>2. TypeOK
  BY <1>1 DEF Sound, TypeOK
<1>3. ListsAligned
  BY <1>1 DEF Sound, ListsAligned
<1>4. WatermarkCovers
  BY <1>1 DEF Sound, WatermarkCovers
<1>5. ArrivalOrder
  BY <1>1 DEF Sound, ArrivalOrder
<1> QED
  BY <1>2, <1>3, <1>4, <1>5 DEF BufferSound

\* The buffer is always sound, and what the last state_dict() returned is what a
\* sound buffer held.
THEOREM BufferInvariant == Spec => []BufferInv
<1>1. Init => BufferInv
  BY BufferInit
<1>2. BufferInv /\ [Next]_vars => BufferInv'
  BY BufferStep
<1> QED
  BY <1>1, <1>2, PTL DEF Spec

\* Over every sequence of adds, samples, clears, checkpoints, restarts and
\* restores: the lists are aligned and within max_size, the watermark covers
\* every target, and what sample() leaves is in order of arrival.
THEOREM BufferIsSound == Spec => []BufferSound
<1>1. BufferInv => BufferSound
  BY SoundBuffer
<1> QED
  BY <1>1, BufferInvariant, PTL

-------------------------------------------------------------------------------
(* The lists implement the set of entries.                                   *)

EntryAt(ts, vs, ws, i) == [traj |-> ts[i], version |-> vs[i], target |-> ws[i]]

\* Sound lists have an entry of its own at each position.
LEMMA EntriesCount ==
    ASSUME NEW ts, NEW vs, NEW ws, NEW last, NEW next, Sound(ts, vs, ws, last, next)
    PROVE  /\ IsFiniteSet(EntriesOf(ts, vs, ws))
           /\ Cardinality(EntriesOf(ts, vs, ws)) = Len(ts)
<1> DEFINE size == Len(ts)
           S == EntriesOf(ts, vs, ws)
           e(i) == EntryAt(ts, vs, ws, i)
           g == [i \in 1 .. size |-> e(i)]
<1>1. size \in Nat
  BY SoundTypes
<1>2. ASSUME NEW i \in 1 .. size, NEW j \in 1 .. size, i # j
      PROVE  e(i) # e(j)
  <2>1. ts[i].id # ts[j].id
    <3>1. ts[i].id \in Nat /\ ts[j].id \in Nat /\ (i < j \/ j < i)
      BY <1>1, <1>2, SoundTypes
    <3> QED
      BY <3>1 DEF Sound
  <2>2. e(i).traj = ts[i] /\ e(j).traj = ts[j]
    BY DEF EntryAt
  <2> QED
    BY <2>1, <2>2
<1>3. S = {e(i) : i \in 1 .. size}
  BY DEF EntriesOf, EntryAt
<1> HIDE DEF e, S, size
<1>4. g \in [1 .. size -> S]
  BY <1>3
<1>5. \A x, y \in 1 .. size : g[x] = g[y] => x = y
  BY <1>2
<1>6. \A y \in S : \E x \in 1 .. size : g[x] = y
  BY <1>3
<1> HIDE DEF g
<1>7. ExistsBijection(1 .. size, S)
  BY <1>4, <1>5, <1>6 DEF ExistsBijection, Bijection, Injection, Surjection, IsInjective
<1>8. IsFiniteSet(S)
  BY <1>1, <1>7, FS_NatBijection
<1>9. Cardinality(S) = size
  BY <1>1, <1>7, FS_CountingElements
<1> QED
  BY <1>8, <1>9 DEF S, size

\* The entries that pops at the n positions f take away.
Popped(ts, vs, ws, f, n) ==
    /\ EntriesOf(ts, vs, ws) \ EntriesOf(PopAll(ts, f), PopAll(vs, f), PopAll(ws, f))
           = {EntryAt(ts, vs, ws, f[k]) : k \in 1 .. n}
    /\ EntriesOf(PopAll(ts, f), PopAll(vs, f), PopAll(ws, f)) \subseteq EntriesOf(ts, vs, ws)

\* The pops take away the entries at the positions f and no others.
LEMMA PopEntries ==
    ASSUME NEW ts, NEW vs, NEW ws, NEW last, NEW next, Sound(ts, vs, ws, last, next),
           NEW n \in Nat, n >= 1, NEW f \in [1 .. n -> 1 .. Len(ts)], Ascends(f, n)
    PROVE  Popped(ts, vs, ws, f, n)
<1> DEFINE size == Len(ts)
           q == Remaining(size, f)
           ts2 == PopAll(ts, f)
           vs2 == PopAll(vs, f)
           ws2 == PopAll(ws, f)
           m == size - n
           e(i) == EntryAt(ts, vs, ws, i)
<1>1. /\ ts \in Seq([id : Nat]) /\ vs \in Seq(0 .. MaxVersion) /\ ws \in Seq(0 .. MaxVersion)
      /\ Len(vs) = size /\ Len(ws) = size /\ size \in Nat
      /\ \A i, j \in 1 .. size : i < j => ts[i].id < ts[j].id
  BY DEF Sound
<1>2. \A i \in 1 .. size : ts[i].id \in Nat
  BY SoundTypes
<1> HIDE DEF size
<1>3. f \in [1 .. n -> 1 .. size]
  BY DEF size
<1>4. Left(q, f, n, size, n) /\ Tracks(ts2, q, ts, [id : Nat], m)
  <2>1. Kept(ts, [id : Nat], f, n, size)
    BY <1>1, <1>3, PopAllKeeps DEF size
  <2> QED
    BY <2>1 DEF Kept
<1>5. Tracks(vs2, q, vs, 0 .. MaxVersion, m)
  <2>1. Kept(vs, 0 .. MaxVersion, f, n, size)
    BY <1>1, <1>3, PopAllKeeps
  <2> QED
    BY <2>1 DEF Kept
<1>6. Tracks(ws2, q, ws, 0 .. MaxVersion, m)
  <2>1. Kept(ws, 0 .. MaxVersion, f, n, size)
    BY <1>1, <1>3, PopAllKeeps
  <2> QED
    BY <2>1 DEF Kept
<1> HIDE DEF q, ts2, vs2, ws2
<1>7. EntriesOf(ts2, vs2, ws2) = {e(q[j]) : j \in 1 .. m}
  <2>1. Len(ts2) = m /\ \A j \in 1 .. m : ts2[j] = ts[q[j]]
    BY <1>4 DEF Tracks
  <2>2. (\A j \in 1 .. m : vs2[j] = vs[q[j]]) /\ (\A j \in 1 .. m : ws2[j] = ws[q[j]])
    BY <1>5, <1>6 DEF Tracks
  <2> HIDE DEF m
  <2>3. \A j \in 1 .. m : EntryAt(ts2, vs2, ws2, j) = e(q[j])
    BY <2>1, <2>2 DEF EntryAt
  <2>4. EntriesOf(ts2, vs2, ws2) = {EntryAt(ts2, vs2, ws2, j) : j \in 1 .. m}
    BY <2>1 DEF EntriesOf, EntryAt
  <2> HIDE DEF e
  <2> QED
    BY <2>3, <2>4
<1>8. EntriesOf(ts, vs, ws) = {e(i) : i \in 1 .. size}
  BY DEF EntriesOf, EntryAt, size
<1>9. \A i, j \in 1 .. size : e(i) = e(j) => i = j
  <2> SUFFICES ASSUME NEW i \in 1 .. size, NEW j \in 1 .. size, i # j
               PROVE  e(i) # e(j)
    OBVIOUS
  <2>1. ts[i].id # ts[j].id
    <3>1. ts[i].id \in Nat /\ ts[j].id \in Nat /\ (i < j \/ j < i)
      BY <1>1, <1>2
    <3> QED
      BY <1>1, <3>1, SMTT(60)
  <2>2. e(i).traj = ts[i] /\ e(j).traj = ts[j]
    BY DEF EntryAt
  <2> QED
    BY <2>1, <2>2
<1>10. /\ Holds(q, m, 1 .. size)
       /\ \A x \in 1 .. size : (\E j \in 1 .. m : q[j] = x) <=> (\A k \in 1 .. n : f[k] # x)
  <2>1. /\ q \in Seq(1 .. size) /\ Len(q) = m
        /\ \A x \in 1 .. size : (\E j \in 1 .. m : q[j] = x) <=>
                                (\A i \in 1 .. n : n - n < i => f[i] # x)
    BY <1>4 DEF Left
  <2>2. Holds(q, m, 1 .. size)
    BY <2>1, ListHolds
  <2>3. \A i \in 1 .. n : n - n < i
    OBVIOUS
  <2> HIDE DEF m
  <2> QED
    BY <2>1, <2>2, <2>3
<1> HIDE DEF m, e
<1>11. \A k \in 1 .. n : f[k] \in 1 .. size
  BY <1>3
<1>12. EntriesOf(ts2, vs2, ws2) \subseteq EntriesOf(ts, vs, ws)
  BY <1>7, <1>8, <1>10 DEF Holds
<1>13. ASSUME NEW k \in 1 .. n
       PROVE  e(f[k]) \in EntriesOf(ts, vs, ws) /\ e(f[k]) \notin EntriesOf(ts2, vs2, ws2)
  <2>1. e(f[k]) \in EntriesOf(ts, vs, ws)
    BY <1>8, <1>11
  <2>2. \A j \in 1 .. m : q[j] # f[k] /\ q[j] \in 1 .. size
    BY <1>10, <1>11 DEF Holds
  <2> QED
    BY <1>7, <1>9, <1>11, <2>1, <2>2
<1>14. ASSUME NEW x \in EntriesOf(ts, vs, ws), x \notin EntriesOf(ts2, vs2, ws2)
       PROVE  \E k \in 1 .. n : x = e(f[k])
  <2>1. PICK i \in 1 .. size : x = e(i)
    BY <1>8
  <2>2. ~ \E j \in 1 .. m : q[j] = i
    BY <1>7, <1>14, <2>1
  <2>3. PICK k \in 1 .. n : f[k] = i
    BY <1>10, <2>2
  <2> QED
    BY <2>1, <2>3
<1>15. EntriesOf(ts, vs, ws) \ EntriesOf(ts2, vs2, ws2) = {e(f[k]) : k \in 1 .. n}
  BY <1>13, <1>14
<1> QED
  BY <1>12, <1>15 DEF Popped, e, ts2, vs2, ws2

\* The refinement mapping of ReplayBuffer.
store == EntriesOf(trajectories, trajectory_versions, target_weight_versions)
snapshot == IF saved.persisted
            THEN [persisted |-> TRUE,
                  entries |-> EntriesOf(saved.trajectories, saved.trajectory_versions,
                                        saved.target_weight_versions)]
            ELSE [persisted |-> FALSE, entries |-> {}]

\* Cardinality means the same in the instance.
LEMMA SameCardinality == \A S : Store!Cardinality(S) = Cardinality(S)
BY DEF Store!Cardinality, Cardinality

\* An entry appended to the lists is one added to the set.
LEMMA AddIsAdd ==
    ASSUME BufferInv, NEW v \in 0 .. MaxVersion, NEW t \in 0 .. MaxVersion, add(v, t)
    PROVE  Store!TStoreNext
<1> DEFINE e == [traj |-> [id |-> nextId], version |-> v, target |-> t]
           size == Len(trajectories)
<1>1. Sound(trajectories, trajectory_versions, target_weight_versions,
            last_target_weight_already_generated, nextId)
  BY DEF BufferInv
<1>2. /\ trajectories \in Seq([id : Nat]) /\ trajectory_versions \in Seq(0 .. MaxVersion)
      /\ target_weight_versions \in Seq(0 .. MaxVersion)
      /\ Len(trajectory_versions) = size /\ Len(target_weight_versions) = size
      /\ size \in Nat /\ nextId \in Nat
  BY <1>1, SoundTypes DEF Sound
<1>3. /\ trajectories' = Append(trajectories, [id |-> nextId])
      /\ trajectory_versions' = Append(trajectory_versions, v)
      /\ target_weight_versions' = Append(target_weight_versions, t)
      /\ size < MaxSize /\ saved' = saved
  BY DEF add
<1>4. /\ Len(trajectories') = size + 1
      /\ trajectories'[size + 1] = [id |-> nextId]
      /\ trajectory_versions'[size + 1] = v /\ target_weight_versions'[size + 1] = t
      /\ \A i \in 1 .. size : /\ trajectories'[i] = trajectories[i]
                              /\ trajectory_versions'[i] = trajectory_versions[i]
                              /\ target_weight_versions'[i] = target_weight_versions[i]
  <2> HIDE DEF size
  <2>1. [id |-> nextId] \in [id : Nat]
    BY <1>2
  <2> QED
    BY <1>2, <1>3, <2>1 DEF size
<1> DEFINE old(i) == EntryAt(trajectories, trajectory_versions, target_weight_versions, i)
           new(i) == EntryAt(trajectories', trajectory_versions', target_weight_versions', i)
<1>5. \A i \in 1 .. size : new(i) = old(i)
  BY <1>4 DEF EntryAt
<1>6. new(size + 1) = e
  BY <1>4 DEF EntryAt
<1>7. store = {old(i) : i \in 1 .. size}
  BY DEF store, EntriesOf, EntryAt
<1>8. store' = {new(i) : i \in 1 .. size + 1}
  BY <1>4 DEF store, EntriesOf, EntryAt
<1>9. store' = store \cup {e}
  <2>1. \A i : i \in 1 .. size + 1 <=> i \in 1 .. size \/ i = size + 1
    BY <1>2
  <2> HIDE DEF e, size, old, new
  <2> QED
    BY <1>5, <1>6, <1>7, <1>8, <2>1
<1>10. e \notin store
  <2>1. ASSUME NEW i \in 1 .. size
        PROVE  e # EntryAt(trajectories, trajectory_versions, target_weight_versions, i)
    <3>1. trajectories[i].id < nextId /\ trajectories[i].id \in Nat
      BY <1>1, SoundTypes DEF Sound
    <3>2. e.traj.id = nextId
      OBVIOUS
    <3>3. EntryAt(trajectories, trajectory_versions, target_weight_versions, i).traj
          = trajectories[i]
      BY DEF EntryAt
    <3> QED
      BY <1>2, <3>1, <3>2, <3>3
  <2> HIDE DEF e
  <2> QED
    BY <1>7, <2>1
<1>11. Cardinality(store) = size /\ ~ (Cardinality(store) >= MaxSize)
  BY <1>1, <1>2, <1>3, EntriesCount, BufferAssumption DEF store
<1>12. snapshot' = snapshot
  BY <1>3 DEF snapshot
<1>13. e.traj = [id |-> nextId] /\ e.version = v /\ e.target = t
       /\ e = [traj |-> e.traj, version |-> e.version, target |-> e.target]
  OBVIOUS
<1> HIDE DEF e
<1>14. Store!Add(e.traj, e.version, e.target)
  <2>1. Store!Entry(e.traj, e.version, e.target) = e
    BY <1>13 DEF Store!Entry
  <2>2. ~Store!Full
    BY <1>11, SameCardinality DEF Store!Full, store
  <2> QED
    BY <1>9, <1>12, <2>1, <2>2 DEF Store!Add, store, snapshot
<1>15. e \in store' \ store
  BY <1>9, <1>10
<1> QED
  BY <1>14, <1>15 DEF Store!TStoreNext, store

\* The age window, with an age beyond the current version cut to it.
LEMMA SameWindow ==
    ASSUME NEW current \in Nat, NEW maxAge \in Nat
    PROVE  \E age \in 0 .. current :
               Store!MinValidVersion(current, age) = min_valid_version(current, maxAge)
<1>1. CASE maxAge <= current
  <2>1. maxAge \in 0 .. current
    BY <1>1
  <2>2. Store!MinValidVersion(current, maxAge) = min_valid_version(current, maxAge)
    BY DEF Store!MinValidVersion, min_valid_version, Larger
  <2> QED
    BY <2>1, <2>2
<1>2. CASE current < maxAge
  <2>1. current \in 0 .. current
    OBVIOUS
  <2>2. Store!MinValidVersion(current, current) = min_valid_version(current, maxAge)
    BY <1>2 DEF Store!MinValidVersion, min_valid_version, Larger
  <2> QED
    BY <2>1, <2>2
<1> QED
  BY <1>1, <1>2

\* sample() hands out the oldest of the entries meant for the step.
LEMMA SampleIsSample ==
    ASSUME BufferInv, NEW n \in 1 .. Groups, NEW current \in 0 .. MaxVersion,
           NEW maxAge \in 0 .. MaxVersion, sample_groups(n, current, maxAge)
    PROVE  Store!TStoreNext
<1> DEFINE size == Len(trajectories)
           e(i) == EntryAt(trajectories, trajectory_versions, target_weight_versions, i)
           S == intended_indices(current, maxAge)
           sel == store \ store'
           low == min_valid_version(current, maxAge)
<1>1. Sound(trajectories, trajectory_versions, target_weight_versions,
            last_target_weight_already_generated, nextId)
  BY DEF BufferInv
<1>2. n \in Nat /\ n >= 1 /\ current \in Nat /\ maxAge \in Nat
  BY BufferAssumption
<1>3. PICK f \in FirstOf(S, n) :
          /\ trajectories' = PopAll(trajectories, f)
          /\ trajectory_versions' = PopAll(trajectory_versions, f)
          /\ target_weight_versions' = PopAll(target_weight_versions, f)
          /\ saved' = saved
  BY DEF sample_groups
<1>4. /\ \A i \in S : /\ i \in 1 .. size /\ target_weight_versions[i] = current
                      /\ low <= trajectory_versions[i] /\ trajectory_versions[i] <= current
      /\ \A i \in 1 .. size : low <= trajectory_versions[i] /\ trajectory_versions[i] <= current
                              /\ target_weight_versions[i] = current => i \in S
  BY DEF intended_indices, valid_indices, Indices
<1>5. \A i \in 1 .. size : ~ (trajectory_versions[i] < low)
  BY DEF sample_groups, old_trajectories, Indices
<1> HIDE DEF S, low
<1>6. /\ f \in [1 .. n -> S] /\ Ascends(f, n)
      /\ \A i \in S, k \in 1 .. n : (\A l \in 1 .. n : f[l] # i) => f[k] < i
  BY <1>3 DEF FirstOf, Ascends
<1>7. f \in [1 .. n -> 1 .. size] /\ \A k \in 1 .. n : f[k] \in S
  BY <1>4, <1>6
<1>8. sel = {e(f[k]) : k \in 1 .. n} /\ store' \subseteq store
  <2>1. Popped(trajectories, trajectory_versions, target_weight_versions, f, n)
    BY <1>1, <1>2, <1>6, <1>7, PopEntries
  <2>2. /\ store = EntriesOf(trajectories, trajectory_versions, target_weight_versions)
        /\ store' = EntriesOf(PopAll(trajectories, f), PopAll(trajectory_versions, f),
                              PopAll(target_weight_versions, f))
    BY <1>3 DEF store
  <2> QED
    BY <2>1, <2>2 DEF Popped
<1>9. store = {e(i) : i \in 1 .. size}
  BY DEF store, EntriesOf, EntryAt
<1>10. \A i : /\ e(i).traj = trajectories[i] /\ e(i).version = trajectory_versions[i]
              /\ e(i).target = target_weight_versions[i]
  BY DEF EntryAt
<1>11. \A i, j \in 1 .. size : i < j => trajectories[i].id < trajectories[j].id
  BY <1>1 DEF Sound
<1>12. snapshot' = snapshot
  BY <1>3 DEF snapshot
<1>13. PICK age \in 0 .. current : Store!MinValidVersion(current, age) = low
  BY <1>2, SameWindow DEF low
<1>14. ~Store!SampleRaises(current, age)
  <2>1. \A x \in store : ~ (x.version < low)
    BY <1>5, <1>9, <1>10
  <2> QED
    BY <1>13, <2>1 DEF Store!SampleRaises, Store!OldTrajectories, store
<1>15. \A x : x \in Store!Intended(current, age) <=>
              \E i \in S : x = e(i)
  <2>1. \A x : x \in Store!Intended(current, age) <=>
               /\ x \in store /\ low <= x.version /\ x.version <= current /\ x.target = current
    BY <1>13 DEF Store!Intended, Store!Valid, store
  <2> QED
    BY <1>4, <1>9, <1>10, <2>1
<1> HIDE DEF e, sel
<1>16. sel \subseteq Store!Intended(current, age)
  BY <1>7, <1>8, <1>15
<1>17. ASSUME NEW x \in sel, NEW y \in Store!Intended(current, age) \ sel
       PROVE  x.traj.id < y.traj.id
  <2>1. PICK k \in 1 .. n : x = e(f[k])
    BY <1>8
  <2>2. PICK i \in S : y = e(i)
    BY <1>15
  <2>3. \A l \in 1 .. n : f[l] # i
    BY <1>8, <1>17, <2>2
  <2>4. f[k] < i /\ f[k] \in 1 .. size /\ i \in 1 .. size
    BY <1>4, <1>6, <1>7, <2>3
  <2> QED
    BY <1>10, <1>11, <2>1, <2>2, <2>4
<1>18. store' = store \ sel
  BY <1>8 DEF sel
<1>19. 1 \in 1 .. n
  BY <1>2
<1>20. sel # {}
  BY <1>8, <1>19
<1>21. current \in {x.target : x \in sel}
  <2>1. e(f[1]) \in sel /\ e(f[1]).target = current
    BY <1>4, <1>7, <1>8, <1>10, <1>19
  <2> QED
    BY <2>1
<1>22. Store!Sample(Store!Cardinality(sel), current, age, sel)
  BY <1>12, <1>14, <1>16, <1>17, <1>18 DEF Store!Sample, store, snapshot
<1>23. Store!TStoreSample
  BY <1>20, <1>21, <1>22 DEF Store!TStoreSample, sel, store
<1> QED
  BY <1>23 DEF Store!TStoreNext

\* Emptying the lists empties the set, a checkpoint holds it, and a restore
\* brings the checkpoint's back.
LEMMA EmptyIsClear ==
    ASSUME EmptyLists, saved' = saved
    PROVE  Store!TStoreNext
<1>1. store' = {} /\ snapshot' = snapshot
  BY DEF EmptyLists, store, snapshot, EntriesOf
<1>2. Store!Clear
  BY <1>1 DEF Store!Clear, store, snapshot
<1> QED
  BY <1>2 DEF Store!TStoreNext

\* state_dict is the store's snapshot.
LEMMA CheckpointIsSnapshot ==
    ASSUME BufferInv, state_dict
    PROVE  Store!TStoreNext
<1>1. store' = store
  BY DEF state_dict, store, lists
<1>2. store = {} <=> trajectories = <<>>
  <2>1. trajectories \in Seq([id : Nat])
    BY DEF BufferInv, Sound
  <2>2. trajectories = <<>> <=> Len(trajectories) = 0
    BY <2>1
  <2>3. Len(trajectories) \in Nat
    BY <2>1
  <2>4. store = {} <=> ~ \E i : i \in 1 .. Len(trajectories)
    BY DEF store, EntriesOf
  <2>5. (~ \E i : i \in 1 .. Len(trajectories)) <=> Len(trajectories) = 0
    BY <2>3
  <2> QED
    BY <2>2, <2>4, <2>5
<1>3. snapshot' = IF DataPlane /\ store # {} THEN Store!NotPersisted
                  ELSE [persisted |-> TRUE, entries |-> store]
  <2>1. CASE DataPlane /\ trajectories # <<>>
    BY <1>2, <2>1 DEF state_dict, snapshot, UnpersistedState, Store!NotPersisted
  <2>2. CASE ~ (DataPlane /\ trajectories # <<>>)
    <3>1. /\ saved'.persisted = TRUE /\ saved'.trajectories = trajectories
          /\ saved'.trajectory_versions = trajectory_versions
          /\ saved'.target_weight_versions = target_weight_versions
      BY <2>2 DEF state_dict
    <3>2. snapshot' = [persisted |-> TRUE, entries |-> store]
      BY <3>1 DEF snapshot, store
    <3> QED
      BY <1>2, <2>2, <3>2
  <2> QED
    BY <2>1, <2>2
<1>4. Store!StateDict
  BY <1>1, <1>3 DEF Store!StateDict, store, snapshot
<1> QED
  BY <1>4 DEF Store!TStoreNext

\* load_state_dict is its restore.
LEMMA LoadIsRestore ==
    ASSUME BufferInv, load_state_dict
    PROVE  Store!TStoreNext
<1> DEFINE kept == EntriesOf(saved.trajectories, saved.trajectory_versions,
                             saved.target_weight_versions)
<1>1. store' = kept /\ snapshot' = snapshot
  BY DEF load_state_dict, store, snapshot
<1>2. snapshot = [persisted |-> TRUE, entries |-> kept]
  BY DEF load_state_dict, snapshot
<1>3. Cardinality(kept) <= MaxSize
  <2>1. Sound(saved.trajectories, saved.trajectory_versions,
              saved.target_weight_versions, saved.last, nextId)
    BY DEF BufferInv, load_state_dict
  <2> QED
    BY <2>1, EntriesCount DEF load_state_dict
<1> HIDE DEF kept
<1>4. Store!Restored(snapshot, store) = kept
  BY <1>2, <1>3, SameCardinality DEF Store!Restored
<1>5. Store!LoadStateDict
  BY <1>1, <1>4 DEF Store!LoadStateDict, store, snapshot
<1> QED
  BY <1>5 DEF Store!TStoreNext

\* The lists of the buffer implement the set of entries that the collector and
\* the trainer rely on: the pops of sample() remove, across the three lists, the
\* oldest groups meant for the step and nothing else.
THEOREM ImplementsTheStore == Spec => ImplementsStore
<1>1. Init => Store!TStoreInit
  BY DEF Init, UnpersistedState, Store!TStoreInit, Store!NotPersisted, EntriesOf
<1>2. BufferInv /\ [Next]_vars => [Store!TStoreNext]_<<store, snapshot>>
  <2> SUFFICES ASSUME BufferInv, [Next]_vars
               PROVE  Store!TStoreNext \/ UNCHANGED <<store, snapshot>>
    OBVIOUS
  <2>1. CASE UNCHANGED vars
    BY <2>1 DEF vars, lists, store, snapshot
  <2>2. CASE \E v, t \in 0 .. MaxVersion : add(v, t)
    BY <2>2, AddIsAdd
  <2>3. CASE \E n \in 1 .. Groups, current, maxAge \in 0 .. MaxVersion : sample(n, current, maxAge)
    <3>1. PICK n \in 1 .. Groups, current \in 0 .. MaxVersion, maxAge \in 0 .. MaxVersion :
              sample(n, current, maxAge)
      BY <2>3
    <3>2. CASE sample_groups(n, current, maxAge)
      BY <3>2, SampleIsSample
    <3>3. CASE sample_none(n, current, maxAge) \/ sample_raises(current, maxAge)
      BY <3>3 DEF sample_none, sample_raises, lists, store, snapshot
    <3> QED
      BY <3>1, <3>2, <3>3 DEF sample
  <2>4. CASE clear
    BY <2>4, EmptyIsClear DEF clear
  <2>5. CASE state_dict
    BY <2>5, CheckpointIsSnapshot
  <2>6. CASE load_state_dict
    BY <2>6, LoadIsRestore
  <2>7. CASE Restart
    BY <2>7, EmptyIsClear DEF Restart
  <2> QED
    BY <2>1, <2>2, <2>3, <2>4, <2>5, <2>6, <2>7 DEF Next
<1> QED
  BY <1>1, <1>2, BufferInvariant, PTL
     DEF Spec, ImplementsStore, Store!TStoreSpec, store, snapshot

===============================================================================
