------------------------ MODULE LiveTranscriptProofs ------------------------
(***************************************************************************)
(* What the page of a live task keeps, proved for any number of turns, of  *)
(* answers in a turn and of faults: at rest it shows the journal, and no   *)
(* stored message that it shows is ever lost.                              *)
(*                                                                         *)
(* The argument. A book (Book) says which part of the journal the history  *)
(* and the counted part of the tail are; the rows of the tail behind it    *)
(* are the next ones, up to a position m (TailReaches). What is in flight  *)
(* is a true part of the journal since a cursor that is still the page's   *)
(* (Flight). And while the session rests with the stream empty, whatever   *)
(* the page lacks is on its way: a probe carries it, or a recovery, or it  *)
(* lacks nothing, or it says so (Debt). All this holds until one of the    *)
(* races named in slips has happened.                                      *)
(*                                                                         *)
(* Induction over positions is by a least counterexample (LeastOf).        *)
(***************************************************************************)
EXTENDS LiveTranscript, FiniteSetTheorems, TLAPS

-----------------------------------------------------------------------------
(* Sequences: what is kept of one, what joins one, and in what order.      *)

\* A set of positions has a least one: induction over positions, without a
\* schema.
LEMMA LeastOf ==
  ASSUME NEW N \in Nat, NEW S \in SUBSET (1..N), S # {}
  PROVE  \E p \in S : \A q \in S : p <= q
<1> DEFINE D == {x \in 1..N : \A y \in S : x <= y}
           d == Cardinality(D)
<1>1. IsFiniteSet(D) /\ d \in Nat /\ d <= N
  <2>1. IsFiniteSet(1..N) /\ Cardinality(1..N) = N
    BY FS_Interval
  <2> QED
    BY <2>1, FS_Subset, FS_CardinalityType
<1>2. ASSUME NEW x \in D PROVE x \in 1..d
  <2>1. x \in 1..N /\ 1..x \subseteq D
    OBVIOUS
  <2>2. Cardinality(1..x) = x
    BY <2>1, FS_Interval
  <2>3. x <= d
    BY <1>1, <2>1, <2>2, FS_Subset
  <2> HIDE DEF d, D
  <2> QED
    BY <1>1, <2>1, <2>3
<1>3. D = 1..d
  <2>1. D \subseteq 1..d
    BY <1>2
  <2> HIDE DEF d
  <2>2. IsFiniteSet(1..d) /\ Cardinality(1..d) = d
    BY <1>1, FS_Interval
  <2> QED
    BY <2>1, <2>2, FS_Subset DEF d
<1>4. 1 \in D
  <2>1. PICK y \in S : TRUE
    OBVIOUS
  <2>2. y \in 1..N
    BY <2>1
  <2>3. 1 \in 1..N /\ \A z \in S : 1 <= z
    BY <2>2
  <2> QED
    BY <2>3
<1> HIDE DEF d
<1>5. d \in 1..N /\ d \in D /\ d + 1 \notin D
  <2>1. d >= 1
    BY <1>1, <1>3, <1>4
  <2> HIDE DEF D
  <2> QED
    BY <1>1, <1>3, <2>1
<1>6. d \in S
  <2> SUFFICES ASSUME d \notin S PROVE FALSE
    OBVIOUS
  <2>1. \A y \in S : y \in 1..N /\ d <= y
    BY <1>5
  <2>2. \A y \in S : d + 1 <= y
    BY <1>5, <2>1
  <2> PICK y \in S : TRUE
    OBVIOUS
  <2>3. d + 1 \in 1..N
    BY <1>5, <2>1, <2>2
  <2> QED
    BY <1>5, <2>2, <2>3
<1> QED
  BY <1>5, <1>6

(* Positions picked in ascending order, after a; and all of those up to m. *)
Ascends(f, n, a) ==
    /\ f \in [1..n -> Nat]
    /\ \A i \in 1..n : f[i] > a
    /\ \A i, j \in 1..n : i < j => f[i] < f[j]
Takes(f, n, a, m) == \A x \in a + 1..m : \E i \in 1..n : f[i] = x

\* Ascending positions that take all of a + 1..m take them first, in order.
LEMMA Ascending ==
  ASSUME NEW n \in Nat, NEW a \in Nat, NEW m \in Nat, NEW f,
         Ascends(f, n, a), Takes(f, n, a, m)
  PROVE  \A i \in 1..m - a : i \in 1..n /\ f[i] = a + i
<1> USE DEF Ascends, Takes
<1> DEFINE S == {i \in 1..m - a : ~(i \in 1..n /\ f[i] = a + i)}
<1>1. SUFFICES ASSUME S # {} PROVE FALSE
  OBVIOUS
<1>2. m > a /\ m - a \in Nat
  BY <1>1
<1>3. PICK p \in S : \A q \in S : p <= q
  BY <1>1, <1>2, LeastOf
<1>4. p \in 1..m - a /\ a + p \in a + 1..m
  BY <1>2
<1>5. PICK k \in 1..n : f[k] = a + p
  BY <1>4
<1>6. \A q \in 1..m - a : q < p => q \in 1..n /\ f[q] = a + q
  BY <1>2, <1>3
<1>7. k # p
  BY <1>2, <1>3, <1>5
<1>8. ASSUME k < p PROVE FALSE
  <2>1. k \in 1..m - a /\ f[k] = a + k
    BY <1>4, <1>6, <1>8
  <2> QED
    BY <1>4, <1>5, <1>8, <2>1
<1>9. p < k /\ p \in 1..n
  BY <1>4, <1>7, <1>8
<1>10. f[p] < a + p /\ f[p] > a /\ f[p] \in Nat
  BY <1>5, <1>9
<1>11. p > 1
  BY <1>4, <1>10
<1> DEFINE q == f[p] - a
<1>12. q \in 1..m - a /\ q < p
  BY <1>4, <1>10
<1>13. q \in 1..n /\ f[q] = a + q /\ a + q = f[p]
  <2>1. a + q = f[p]
    BY <1>10
  <2> HIDE DEF q
  <2> QED
    BY <1>6, <1>12, <2>1
<1>14. f[q] < f[p]
  <2> HIDE DEF q
  <2> QED
    BY <1>9, <1>12, <1>13
<1> QED
  BY <1>10, <1>13, <1>14

\* Those that take no other are exactly a + 1..m.
LEMMA AscendingExactly ==
  ASSUME NEW n \in Nat, NEW a \in Nat, NEW m \in Nat, NEW f, a <= m,
         Ascends(f, n, a), Takes(f, n, a, m), \A i \in 1..n : f[i] <= m
  PROVE  n = m - a /\ \A i \in 1..n : f[i] = a + i
<1>1. \A i \in 1..m - a : i \in 1..n /\ f[i] = a + i
  BY Ascending
<1>2. n >= m - a
  <2>1. CASE m = a
    BY <2>1
  <2>2. CASE m > a
    <3>1. m - a \in 1..m - a
      BY <2>2
    <3> QED
      BY <1>1, <3>1
  <2> QED
    BY <2>1, <2>2
<1>3. ASSUME n > m - a PROVE FALSE
  <2>1. n \in 1..n
    BY <1>3
  <2>2. f[n] \in Nat /\ f[n] > a /\ f[n] <= m
    BY <2>1 DEF Ascends
  <2>3. m - a \in 1..n /\ m - a \in 1..m - a /\ m - a < n
    BY <1>3, <2>2
  <2>4. f[m - a] = m
    BY <1>1, <2>3
  <2>5. f[m - a] < f[n]
    BY <2>1, <2>3 DEF Ascends
  <2> QED
    BY <2>2, <2>4, <2>5
<1> QED
  BY <1>1, <1>2, <1>3

(* Counting the kept positions up to one.                                  *)
LEMMA Ranks ==
  ASSUME NEW N \in Nat, NEW K \in SUBSET (1..N)
  PROVE  /\ \A i \in 0..N : Cardinality(K \cap 1..i) \in Nat
         /\ Cardinality(K \cap 1..0) = 0
         /\ Cardinality(K \cap 1..N) = Cardinality(K)
         /\ Cardinality(K) \in 0..N
         /\ \A i \in 1..N : Cardinality(K \cap 1..i) =
               Cardinality(K \cap 1..i - 1) + (IF i \in K THEN 1 ELSE 0)
         /\ \A i, j \in 0..N : i <= j => Cardinality(K \cap 1..i) <= Cardinality(K \cap 1..j)
<1>1. IsFiniteSet(1..N) /\ Cardinality(1..N) = N
  BY FS_Interval
<1>2. IsFiniteSet(K) /\ Cardinality(K) \in 0..N
  <2>1. IsFiniteSet(K) /\ Cardinality(K) <= N
    BY <1>1, FS_Subset
  <2> QED
    BY <2>1, FS_CardinalityType
<1>3. \A i \in 0..N : IsFiniteSet(K \cap 1..i) /\ Cardinality(K \cap 1..i) \in Nat
  <2> TAKE i \in 0..N
  <2>1. K \cap 1..i \subseteq K
    OBVIOUS
  <2> QED
    BY <1>2, <2>1, FS_Subset, FS_CardinalityType
<1>4. K \cap 1..0 = {} /\ K \cap 1..N = K
  <2>1. 1..0 = {}
    OBVIOUS
  <2> QED
    BY <2>1
<1>5. Cardinality(K \cap 1..0) = 0
  BY <1>4, FS_EmptySet
<1>6. ASSUME NEW i \in 1..N
      PROVE  Cardinality(K \cap 1..i) =
               Cardinality(K \cap 1..i - 1) + (IF i \in K THEN 1 ELSE 0)
  <2> DEFINE A == K \cap 1..i - 1
  <2>1. i - 1 \in 0..N /\ IsFiniteSet(A) /\ i \notin A
    BY <1>3
  <2>2. K \cap 1..i = IF i \in K THEN A \cup {i} ELSE A
    <3>1. 1..i = (1..i - 1) \cup {i}
      OBVIOUS
    <3> QED
      BY <3>1
  <2>3. Cardinality(A \cup {i}) = Cardinality(A) + 1
    BY <2>1, FS_AddElement
  <2>4. Cardinality(A) \in Nat
    BY <2>1, FS_CardinalityType
  <2>5. CASE i \in K
    BY <2>2, <2>3, <2>5
  <2>6. CASE i \notin K
    <3>1. Cardinality(K \cap 1..i) = Cardinality(A)
      BY <2>2, <2>6
    <3> HIDE DEF A
    <3>2. Cardinality(A) = Cardinality(A) + 0
      BY <2>4
    <3> QED
      BY <2>6, <3>1, <3>2 DEF A
  <2> QED
    BY <2>5, <2>6
<1>7. ASSUME NEW i \in 0..N, NEW j \in 0..N, i <= j
      PROVE  Cardinality(K \cap 1..i) <= Cardinality(K \cap 1..j)
  <2>1. K \cap 1..i \subseteq K \cap 1..j
    BY <1>7
  <2> QED
    BY <1>3, <2>1, FS_Subset
<1> QED
  BY <1>2, <1>3, <1>4, <1>5, <1>6, <1>7

(* The positions that Without keeps: w is items at the positions f. *)
Picks(f, w, items, seen) ==
    /\ Ascends(f, Len(w), 0)
    /\ \A n \in 1..Len(w) : f[n] <= Len(items) /\ w[n] = items[f[n]] /\ items[f[n]] \notin seen
    /\ \A i \in 1..Len(items) : items[i] \notin seen => \E n \in 1..Len(w) : f[n] = i

\* Without keeps the items that were not seen, in their order.
LEMMA WithoutIs ==
  ASSUME NEW T, NEW items \in Seq(T), NEW seen
  PROVE  /\ Without(items, seen) \in Seq(T)
         /\ \E f : Picks(f, Without(items, seen), items, seen)
<1> DEFINE N == Len(items)
           K == {i \in 1..N : items[i] \notin seen}
           R(i) == Cardinality(K \cap 1..i)
           c == Cardinality(K)
           f == [n \in 1..c |-> CHOOSE i \in K : R(i) = n]
           w == Without(items, seen)
<1>1. N \in Nat /\ K \in SUBSET (1..N)
  OBVIOUS
<1>2. w = [n \in 1..c |-> items[f[n]]]
  BY DEF Without
<1> HIDE DEF K
<1>3. /\ \A i \in 0..N : R(i) \in Nat
      /\ R(0) = 0 /\ R(N) = c /\ c \in 0..N
      /\ \A i \in 1..N : R(i) = R(i - 1) + (IF i \in K THEN 1 ELSE 0)
      /\ \A i, j \in 0..N : i <= j => R(i) <= R(j)
  BY <1>1, Ranks
<1>4. c \in Nat /\ \A i \in K : i \in 1..N /\ i \in Nat
  BY <1>1, <1>3
<1> HIDE DEF R, c, N
<1>5. ASSUME NEW n \in 1..c PROVE \E i \in K : R(i) = n
  <2> DEFINE S == {i \in 1..N : R(i) >= n}
  <2>1. S \in SUBSET (1..N) /\ S # {}
    <3>1. N \in 1..N /\ R(N) >= n
      BY <1>1, <1>3
    <3> QED
      BY <3>1
  <2>2. PICK p \in S : \A q \in S : p <= q
    BY <1>1, <2>1, LeastOf
  <2>3. p \in 1..N /\ R(p) >= n /\ p - 1 \in 0..N
    BY <1>1, <2>2
  <2>4. R(p - 1) < n
    <3>1. CASE p = 1
      BY <1>3, <3>1
    <3>2. CASE p # 1
      <4>1. p - 1 \in 1..N /\ p - 1 \notin S
        BY <2>2, <2>3, <3>2
      <4> QED
        BY <1>3, <2>3, <4>1
    <3> QED
      BY <3>1, <3>2
  <2>5. p \in K /\ R(p) = n
    BY <1>3, <2>3, <2>4
  <2> QED
    BY <2>5
<1>6. \A n \in 1..c : f[n] \in K /\ R(f[n]) = n
  BY <1>5
<1>7. ASSUME NEW i \in K, NEW j \in K, i < j PROVE R(i) < R(j)
  <2>1. i \in 0..N /\ j \in 1..N /\ j - 1 \in 0..N /\ i <= j - 1
    BY <1>1, <1>7
  <2>2. R(i) <= R(j - 1) /\ R(j) = R(j - 1) + 1
    BY <1>3, <2>1
  <2> QED
    BY <1>3, <2>1, <2>2
<1>8. \A i \in K : R(i) \in 1..c
  <2> TAKE i \in K
  <2>1. i \in 1..N /\ i - 1 \in 0..N /\ i \in 0..N /\ N \in 0..N
    BY <1>1
  <2>2. R(i) = R(i - 1) + 1 /\ R(i - 1) \in Nat /\ R(i) <= c
    BY <1>3, <2>1
  <2> QED
    BY <1>3, <2>2
<1> HIDE DEF f
<1>9. f \in [1..c -> Nat]
  BY <1>4, <1>6 DEF f
<1>10. \A n, k \in 1..c : n < k => f[n] < f[k]
  <2> TAKE n, k \in 1..c
  <2>1. f[n] \in K /\ f[k] \in K /\ R(f[n]) = n /\ R(f[k]) = k
    BY <1>6
  <2>2. f[n] \in Nat /\ f[k] \in Nat /\ n \in Nat /\ k \in Nat
    BY <1>4, <2>1
  <2>3. f[k] < f[n] => k < n
    BY <1>7, <2>1
  <2>4. f[k] = f[n] => k = n
    BY <2>1
  <2> QED
    BY <2>2, <2>3, <2>4
<1>11. \A i \in K : \E n \in 1..c : f[n] = i
  <2> TAKE i \in K
  <2> DEFINE n == R(i)
  <2>1. n \in 1..c
    BY <1>8
  <2>2. f[n] \in K /\ R(f[n]) = n
    BY <1>6, <2>1
  <2>3. ~(f[n] < i) /\ ~(i < f[n])
    BY <1>3, <1>7, <1>8, <2>2
  <2>4. f[n] \in Nat /\ i \in Nat
    BY <1>4, <2>2
  <2> QED
    BY <2>1, <2>3, <2>4
<1>12. \A n \in 1..c : f[n] \in 1..N /\ items[f[n]] \notin seen
  BY <1>6 DEF K
<1>13. w \in Seq(T) /\ Len(w) = c
  <2>1. \A n \in 1..c : items[f[n]] \in T
    BY <1>12 DEF N
  <2>2. c \in Nat
    BY <1>3
  <2> HIDE DEF w
  <2> QED
    BY <1>2, <2>1, <2>2
<1>14. \A i \in 1..N : items[i] \notin seen => i \in K
  BY DEF K
<1> HIDE DEF w
<1>15. \A n \in 1..c : w[n] = items[f[n]]
  BY <1>2
<1>16. Ascends(f, Len(w), 0)
  BY <1>9, <1>10, <1>12, <1>13 DEF Ascends
<1>17. Picks(f, w, items, seen)
  <2> HIDE DEF c, K
  <2>1. Len(w) = c
    BY <1>13
  <2>2. \A n \in 1..Len(w) : f[n] <= Len(items) /\ w[n] = items[f[n]] /\ items[f[n]] \notin seen
    <3>1. \A n \in 1..Len(w) : f[n] \in 1..N /\ items[f[n]] \notin seen /\ w[n] = items[f[n]]
      BY <1>12, <1>15, <2>1
    <3> QED
      BY <3>1 DEF N
  <2>3. \A i \in 1..Len(items) : items[i] \notin seen => \E n \in 1..Len(w) : f[n] = i
    BY <1>11, <1>14, <2>1 DEF N
  <2> QED
    BY <1>16, <2>2, <2>3 DEF Picks
<1> QED
  BY <1>13, <1>17 DEF w

\* It is a sequence of the same kind of items.
LEMMA WithoutType ==
  ASSUME NEW T, NEW items \in Seq(T), NEW seen
  PROVE  Without(items, seen) \in Seq(T)
BY WithoutIs

\* It drops what was seen and nothing else.
LEMMA WithoutMembers ==
  ASSUME NEW T, NEW items \in Seq(T), NEW seen
  PROVE  Range(Without(items, seen)) = Range(items) \ seen
<1> DEFINE w == Without(items, seen)
<1>1. PICK f : Picks(f, w, items, seen)
  BY WithoutIs
<1>2. w \in Seq(T) /\ items \in Seq(T)
  BY WithoutType
<1> HIDE DEF w
<1>3. DOMAIN w = 1..Len(w) /\ DOMAIN items = 1..Len(items)
  BY <1>2
<1>4. Range(w) \subseteq Range(items) \ seen
  BY <1>1, <1>2, <1>3 DEF Range, Picks, Ascends
<1>5. Range(items) \ seen \subseteq Range(w)
  BY <1>1, <1>3 DEF Range, Picks
<1> QED
  BY <1>4, <1>5 DEF w

(* The first p are seen and the others are not: those others.              *)
SeenUpTo(p, items, seen) ==
    /\ p \in 0..Len(items)
    /\ \A i \in 1..p : items[i] \in seen
    /\ \A i \in p + 1..Len(items) : items[i] \notin seen

\* When the first p are the ones that were seen, the others move up by p.
LEMMA WithoutPrefix ==
  ASSUME NEW T, NEW items \in Seq(T), NEW seen, NEW p, SeenUpTo(p, items, seen)
  PROVE  /\ Len(Without(items, seen)) = Len(items) - p
         /\ \A n \in 1..Len(items) - p : Without(items, seen)[n] = items[p + n]
<1> DEFINE w == Without(items, seen)
           l == Len(w)
           N == Len(items)
<1>1. PICK f : Picks(f, w, items, seen)
  BY WithoutIs
<1> USE DEF SeenUpTo
<1>2. w \in Seq(T) /\ N \in Nat /\ p \in Nat /\ l \in Nat /\ p <= N
  BY WithoutType
<1> HIDE DEF w
<1>3. Ascends(f, l, p)
  <2>1. ASSUME NEW i \in 1..l PROVE f[i] > p
    <3>1. f[i] \in Nat /\ f[i] > 0 /\ f[i] <= Len(items) /\ items[f[i]] \notin seen
      BY <1>1 DEF Picks, Ascends
    <3>2. ~(f[i] \in 1..p)
      BY <3>1
    <3> QED
      BY <1>2, <3>1, <3>2
  <2>2. f \in [1..l -> Nat] /\ \A i, j \in 1..l : i < j => f[i] < f[j]
    BY <1>1 DEF Picks, Ascends
  <2> QED
    BY <2>1, <2>2 DEF Ascends
<1>4. Takes(f, l, p, N)
  BY <1>1, <1>2 DEF Picks, Takes
<1>5. \A n \in 1..l : f[n] <= N /\ w[n] = items[f[n]]
  BY <1>1 DEF Picks
<1> HIDE DEF l, N
<1>6. l = N - p /\ \A i \in 1..l : f[i] = p + i
  BY <1>2, <1>3, <1>4, <1>5, AscendingExactly
<1>7. \A n \in 1..N - p : w[n] = items[p + n]
  BY <1>5, <1>6
<1> QED
  BY <1>6, <1>7 DEF w, N, l

(* The first p are not seen: they stay where they are.                     *)
UnseenUpTo(p, items, seen) ==
    p \in 0..Len(items) /\ \A i \in 1..p : items[i] \notin seen

\* When none of the first p was seen, they stay where they are.
LEMMA WithoutHead ==
  ASSUME NEW T, NEW items \in Seq(T), NEW seen, NEW p, UnseenUpTo(p, items, seen)
  PROVE  \A i \in 1..p : /\ i \in 1..Len(Without(items, seen))
                         /\ Without(items, seen)[i] = items[i]
<1> DEFINE w == Without(items, seen)
           l == Len(w)
<1>1. PICK f : Picks(f, w, items, seen)
  BY WithoutIs
<1> USE DEF UnseenUpTo
<1>2. w \in Seq(T) /\ l \in Nat /\ p \in Nat /\ p <= Len(items)
  BY WithoutType
<1> HIDE DEF w
<1>3. Ascends(f, l, 0)
  BY <1>1 DEF Picks
<1>4. Takes(f, l, 0, p)
  <2>1. ASSUME NEW x \in 0 + 1..p PROVE \E i \in 1..l : f[i] = x
    <3>1. x \in 1..p /\ x \in 1..Len(items)
      BY <1>2
    <3> QED
      BY <1>1, <3>1 DEF Picks
  <2> QED
    BY <2>1 DEF Takes
<1>5. \A n \in 1..l : w[n] = items[f[n]]
  BY <1>1 DEF Picks
<1> HIDE DEF l
<1>6. \A i \in 1..p - 0 : i \in 1..l /\ f[i] = 0 + i
  BY <1>2, <1>3, <1>4, Ascending
<1>7. \A i \in 1..p : i \in 1..l /\ f[i] = i
  BY <1>2, <1>6
<1> QED
  BY <1>5, <1>7 DEF w, l

Message == Nat \X Nat
PageItem ==
    {i \in [msg : Message, form : {"opt", "part", "text", "row", "error"}] :
        i.form = "error" => i = Failure}

\* An item is its message and its form.
LEMMA Items ==
  /\ \A m, f : Item(m, f).msg = m /\ Item(m, f).form = f
  /\ \A m, n, f, g : Item(m, f) = Item(n, g) => m = n /\ f = g
  /\ \A m \in Message : Item(m, "row") \in PageItem
  /\ \A i \in PageItem : i.msg \in Message /\ i = Item(i.msg, i.form)
<1>1. \A m, f : Item(m, f).msg = m /\ Item(m, f).form = f
  BY DEF Item
<1> QED
  BY <1>1 DEF Item, PageItem

(* What is shown of ms up to a position, and more of ms from before or at it. *)
Once(ms) == \A i, j \in 1..Len(ms) : ms[i] = ms[j] => i = j
\* The items are the rows of ms after a position.
RowsAfter(q, items, ms) ==
    /\ q + Len(items) <= Len(ms)
    /\ \A i \in 1..Len(items) : items[i] = Item(ms[q + i], "row")

\* Rows of the journal appended to its first rows, the common ones once, are
\* its first rows again.
LEMMA JoinsOn ==
  ASSUME NEW ms \in Seq(Message), Once(ms), NEW items \in Seq(PageItem),
         NEW more \in Seq(PageItem), NEW q \in Nat, q <= Len(items),
         RowsAfter(0, items, ms), RowsAfter(q, more, ms)
  PROVE  /\ AppendUnique(items, more) \in Seq(PageItem)
         /\ Len(AppendUnique(items, more)) =
               IF q + Len(more) > Len(items) THEN q + Len(more) ELSE Len(items)
         /\ RowsAfter(0, AppendUnique(items, more), ms)
<1> DEFINE l == Len(items)
           k == Len(more)
           w == Without(more, Range(items))
           t == AppendUnique(items, more)
           n == Len(ms)
           p == IF q + k > l THEN l - q ELSE k
<1>1. /\ l \in Nat /\ k \in Nat /\ n \in Nat /\ q \in Nat /\ q <= l /\ l <= n /\ q + k <= n
      /\ DOMAIN items = 1..l
  BY DEF RowsAfter
<1>2. \A i, j \in 1..n : ms[i] = ms[j] => i = j
  BY DEF Once
<1>3. w \in Seq(PageItem) /\ t = items \o w
  BY WithoutType DEF AppendUnique
<1> HIDE DEF w, t
<1>4. t \in Seq(PageItem) /\ Len(t) = l + Len(w)
  BY <1>3
<1>5. \A i \in 1..l + Len(w) : t[i] = IF i <= l THEN items[i] ELSE w[i - l]
  BY <1>3
<1>6. \A i \in 1..l : items[i] = Item(ms[i], "row")
  <2> TAKE i \in 1..l
  <2>1. 0 + i = i
    OBVIOUS
  <2> QED
    BY <2>1 DEF RowsAfter
<1>7. \A i \in 1..k : more[i] = Item(ms[q + i], "row")
  BY DEF RowsAfter
<1> HIDE DEF l, k, n
<1>8. p \in 0..k
  BY <1>1
<1>9. ASSUME NEW i \in 1..p PROVE more[i] \in Range(items)
  <2>1. i \in 1..k /\ q + i \in 1..l
    BY <1>1
  <2>2. more[i] = items[q + i]
    BY <1>6, <1>7, <2>1
  <2> QED
    BY <1>1, <2>1, <2>2 DEF Range
<1>10. ASSUME NEW i \in p + 1..k PROVE more[i] \notin Range(items)
  <2>1. i \in 1..k /\ q + i \in 1..n /\ q + i > l
    BY <1>1, <1>8
  <2>2. ASSUME NEW x \in 1..l, more[i] = items[x] PROVE FALSE
    <3>1. ms[q + i] = ms[x] /\ x \in 1..n
      BY <1>1, <1>6, <1>7, <2>1, <2>2, Items
    <3> QED
      BY <1>2, <1>1, <2>1, <3>1
  <2> QED
    BY <1>1, <2>2 DEF Range
<1> HIDE DEF p
<1>11. Len(w) = k - p /\ \A i \in 1..k - p : w[i] = more[p + i]
  <2>1. SeenUpTo(p, more, Range(items))
    BY <1>8, <1>9, <1>10 DEF k, SeenUpTo
  <2>2. /\ Len(Without(more, Range(items))) = Len(more) - p
        /\ \A i \in 1..Len(more) - p : Without(more, Range(items))[i] = more[p + i]
    BY <2>1, WithoutPrefix
  <2> QED
    BY <2>2 DEF w, k
<1>12. l + Len(w) = IF q + k > l THEN q + k ELSE l
  BY <1>1, <1>11 DEF p
<1>13. ASSUME NEW i \in 1..l + Len(w) PROVE t[i] = Item(ms[i], "row")
  <2>1. CASE i <= l
    BY <1>1, <1>5, <1>6, <2>1
  <2>2. CASE i > l
    <3>1. q + k > l
      BY <1>1, <1>12, <2>2
    <3>2. p = l - q
      BY <3>1 DEF p
    <3>3. i - l \in 1..k - p /\ p + (i - l) \in 1..k /\ q + (p + (i - l)) = i
      BY <1>1, <1>8, <1>11, <2>2, <3>2
    <3>4. t[i] = more[p + (i - l)]
      BY <1>1, <1>5, <1>11, <2>2, <3>3
    <3> QED
      BY <1>7, <3>3, <3>4
  <2> QED
    BY <1>1, <2>1, <2>2
<1>14. RowsAfter(0, t, ms)
  <2>1. Len(t) \in Nat /\ 0 + Len(t) <= Len(ms)
    BY <1>1, <1>4, <1>12 DEF n
  <2>2. \A i \in 1..Len(t) : 0 + i = i
    BY <2>1
  <2> QED
    BY <1>4, <1>13, <2>1, <2>2 DEF RowsAfter
<1> QED
  BY <1>4, <1>12, <1>14 DEF t, l, k

\* No row and no typed prompt is there twice.
ShownOnce(items) ==
    \A i, j \in 1..Len(items) :
        items[i] = items[j] /\ items[i].form \in {"row", "opt"} => i = j
OnlyRows(items) == \A i \in 1..Len(items) : items[i].form = "row"

\* What a merge of rows gives.
Merges(t, items, rows) ==
    /\ t \in Seq(PageItem) /\ Len(t) >= Len(items)
    /\ \A i \in 1..Len(items) :
          /\ t[i].msg = items[i].msg
          /\ t[i] = items[i] \/ (items[i].form = "opt" /\ t[i] \in Range(rows))
    /\ \A i \in Len(items) + 1..Len(t) : t[i] \in Range(rows)
    /\ Range(rows) \subseteq Range(t)
    /\ ShownOnce(t)

\* u is t after s.
Follows(u, s, t) ==
    /\ Len(u) = Len(s) + Len(t)
    /\ \A i \in 1..Len(s) : u[i] = s[i]
    /\ \A i \in Len(s) + 1..Len(u) : i - Len(s) \in 1..Len(t) /\ u[i] = t[i - Len(s)]
    /\ \A i \in 1..Len(t) : Len(s) + i \in 1..Len(u) /\ u[Len(s) + i] = t[i]

\* What a concatenation holds, position by position.
LEMMA Concatenated ==
  ASSUME NEW T, NEW s \in Seq(T), NEW t \in Seq(T)
  PROVE  s \o t \in Seq(T) /\ Follows(s \o t, s, t)
BY DEF Follows

\* The range of a sequence is what stands at its positions.
LEMMA Ranges ==
  ASSUME NEW T, NEW s \in Seq(T)
  PROVE  /\ \A x : x \in Range(s) <=> \E i \in 1..Len(s) : s[i] = x
         /\ Range(s) \subseteq T
BY DEF Range

\* A merge keeps every item's message in its place, adds the new rows, and
\* shows none twice.
LEMMA MergeIs ==
  ASSUME NEW items \in Seq(PageItem), NEW rows \in Seq(PageItem),
         OnlyRows(rows), ShownOnce(items), ShownOnce(rows)
  PROVE  Merges(Merge(items, rows), items, rows)
<1> DEFINE n == Len(items)
           placed == [i \in 1..n |-> Placed(items[i], items, rows)]
           w == Without(rows, Range(placed))
           t == Merge(items, rows)
<1>1. n \in Nat /\ DOMAIN items = 1..n /\ DOMAIN rows = 1..Len(rows)
  OBVIOUS
<1>2. \A r \in Range(rows) : r \in PageItem /\ r.form = "row"
  BY <1>1 DEF Range, OnlyRows
<1>3. ASSUME NEW i \in 1..n
      PROVE  /\ placed[i] \in PageItem /\ placed[i].msg = items[i].msg
             /\ \/ placed[i] = items[i]
                \/ /\ items[i].form = "opt" /\ placed[i] \in Range(rows)
                   /\ placed[i] \notin Range(items)
  <2>1. items[i] \in PageItem
    OBVIOUS
  <2>2. placed[i] = IF items[i].form = "opt" /\ Item(items[i].msg, "row") \in Range(rows) \ Range(items)
                    THEN Item(items[i].msg, "row") ELSE items[i]
    BY DEF Placed
  <2> HIDE DEF placed
  <2> QED
    BY <1>2, <2>1, <2>2, Items
<1>4. placed \in Seq(PageItem) /\ Len(placed) = n
  BY <1>3
<1>5. w \in Seq(PageItem) /\ t = placed \o w /\ Range(w) = Range(rows) \ Range(placed)
  BY WithoutType, WithoutMembers DEF Merge, AppendUnique
<1> HIDE DEF placed, w, t
<1>6. /\ t \in Seq(PageItem) /\ Len(t) = n + Len(w) /\ Len(w) \in Nat
      /\ \A i \in 1..n : t[i] = placed[i]
      /\ \A i \in n + 1..Len(t) : t[i] = w[i - n] /\ i - n \in 1..Len(w)
      /\ \A i \in 1..Len(w) : w[i] = t[n + i] /\ n + i \in 1..Len(t)
      /\ DOMAIN t = 1..Len(t) /\ DOMAIN w = 1..Len(w) /\ DOMAIN placed = 1..n
  <2>1. t \in Seq(PageItem) /\ Follows(t, placed, w)
    BY <1>4, <1>5, Concatenated
  <2> HIDE DEF n
  <2>2. /\ \A i \in 1..n : t[i] = placed[i]
        /\ \A i \in n + 1..Len(t) : t[i] = w[i - n] /\ i - n \in 1..Len(w)
        /\ \A i \in 1..Len(w) : w[i] = t[n + i] /\ n + i \in 1..Len(t)
        /\ Len(t) = n + Len(w)
    BY <1>4, <2>1 DEF Follows
  <2>3. w \in Seq(PageItem) /\ placed \in Seq(PageItem) /\ Len(placed) = n
    BY <1>4, <1>5
  <2>4. Len(w) \in Nat /\ DOMAIN w = 1..Len(w)
    BY <2>3
  <2>5. DOMAIN t = 1..Len(t)
    BY <2>1
  <2>6. DOMAIN placed = 1..n
    BY <2>3
  <2> QED
    BY <2>1, <2>2, <2>4, <2>5, <2>6
<1>7. \A i \in n + 1..Len(t) : t[i] \in Range(rows) \ Range(placed)
  BY <1>5, <1>6 DEF Range
<1>8. Range(rows) \subseteq Range(t)
  <2> SUFFICES ASSUME NEW r \in Range(rows) PROVE \E i \in 1..Len(t) : t[i] = r
    BY <1>6 DEF Range
  <2>1. CASE r \in Range(placed)
    <3>1. PICK i \in 1..n : placed[i] = r
      BY <1>6, <2>1 DEF Range
    <3> QED
      BY <1>1, <1>6, <3>1
  <2>2. CASE r \notin Range(placed)
    <3>1. PICK i \in 1..Len(w) : w[i] = r
      <4>1. r \in Range(w)
        BY <1>5, <2>2
      <4> QED
        BY <1>5, <4>1, Ranges
    <3> QED
      BY <1>6, <3>1
  <2> QED
    BY <2>1, <2>2
<1>9. \E f : Picks(f, w, rows, Range(placed))
  BY WithoutIs DEF w
<1>10. ASSUME NEW i \in 1..Len(w), NEW j \in 1..Len(w), w[i] = w[j] PROVE i = j
  <2>1. PICK f : Picks(f, w, rows, Range(placed))
    BY <1>9
  <2>2. /\ f[i] \in 1..Len(rows) /\ w[i] = rows[f[i]]
        /\ f[j] \in 1..Len(rows) /\ w[j] = rows[f[j]]
    <3>1. \A k \in 1..Len(w) : /\ f[k] \in Nat /\ f[k] > 0 /\ f[k] <= Len(rows)
                              /\ w[k] = rows[f[k]]
      BY <2>1 DEF Picks, Ascends
    <3>2. \A k \in 1..Len(w) : f[k] \in 1..Len(rows)
      BY <3>1
    <3> QED
      BY <3>1, <3>2
  <2>3. rows[f[i]].form = "row"
    BY <2>2 DEF OnlyRows
  <2>4. f[i] = f[j]
    BY <1>10, <2>2, <2>3 DEF ShownOnce
  <2>5. (i < j => f[i] < f[j]) /\ (j < i => f[j] < f[i])
    BY <2>1 DEF Picks, Ascends
  <2> QED
    BY <1>6, <2>2, <2>4, <2>5
<1>11. ASSUME NEW i \in 1..n, NEW j \in 1..n, placed[i] = placed[j],
              placed[i].form \in {"row", "opt"}
       PROVE  i = j
  <2>1. items[i] \in Range(items) /\ items[j] \in Range(items) /\ items[i] \in PageItem /\ items[j] \in PageItem
    BY <1>1 DEF Range
  <2>2. CASE placed[i] = items[i] /\ placed[j] = items[j]
    BY <1>11, <2>2 DEF ShownOnce
  <2>3. CASE placed[i] # items[i]
    <3>1. placed[j] # items[j]
      BY <1>3, <1>11, <2>1, <2>3
    <3>2. items[i].form = "opt" /\ items[j].form = "opt" /\ items[i].msg = items[j].msg
      BY <1>3, <1>11, <2>3, <3>1
    <3>3. items[i] = items[j]
      BY <2>1, <3>2, Items
    <3> QED
      BY <3>2, <3>3 DEF ShownOnce
  <2>4. CASE placed[j] # items[j]
    <3>1. placed[i] # items[i]
      BY <1>3, <1>11, <2>1, <2>4
    <3> QED
      BY <2>3, <3>1
  <2> QED
    BY <2>2, <2>3, <2>4
<1>12. ShownOnce(t)
  <2> SUFFICES ASSUME NEW i \in 1..Len(t), NEW j \in 1..Len(t), t[i] = t[j],
                      t[i].form \in {"row", "opt"}
               PROVE  i = j
    BY DEF ShownOnce
  <2>1. i \in 1..n \/ i \in n + 1..Len(t)
    BY <1>1, <1>6
  <2>2. j \in 1..n \/ j \in n + 1..Len(t)
    BY <1>1, <1>6
  <2>3. CASE i \in 1..n /\ j \in 1..n
    <3>1. t[i] = placed[i] /\ t[j] = placed[j]
      BY <1>6, <2>3
    <3> QED
      BY <1>11, <2>3, <3>1
  <2>4. ASSUME NEW a \in 1..n, NEW b \in n + 1..Len(t) PROVE t[a] # t[b]
    <3>1. t[a] = placed[a] /\ placed[a] \in Range(placed)
      BY <1>6 DEF Range
    <3>2. t[b] \notin Range(placed)
      BY <1>7
    <3> QED
      BY <3>1, <3>2
  <2>5. CASE i \in 1..n /\ j \in n + 1..Len(t)
    BY <2>4, <2>5
  <2>6. CASE i \in n + 1..Len(t) /\ j \in 1..n
    BY <2>4, <2>6
  <2>7. CASE i \in n + 1..Len(t) /\ j \in n + 1..Len(t)
    <3>1. t[i] = w[i - n] /\ i - n \in 1..Len(w)
      BY <1>6, <2>7
    <3>2. t[j] = w[j - n] /\ j - n \in 1..Len(w)
      BY <1>6, <2>7
    <3>3. w[i - n] = w[j - n]
      BY <3>1, <3>2
    <3>4. i - n = j - n
      BY <1>10, <3>1, <3>2, <3>3
    <3>5. i \in Nat /\ j \in Nat
      BY <1>1, <1>6, <2>7
    <3> QED
      BY <1>1, <3>4, <3>5
  <2> QED
    BY <2>1, <2>2, <2>3, <2>5, <2>6, <2>7
<1>13. Len(t) >= n /\ \A i \in 1..n : /\ t[i].msg = items[i].msg
                                      /\ t[i] = items[i] \/ (items[i].form = "opt" /\ t[i] \in Range(rows))
  BY <1>1, <1>3, <1>6
<1> QED
  BY <1>6, <1>7, <1>8, <1>12, <1>13 DEF Merges, t

\* The rows among the items are those of ms from one position to another.
Covers(items, ms, a, m) ==
    /\ \A i \in 1..Len(items) : items[i].form = "row" =>
          \E x \in a + 1..m : items[i] = Item(ms[x], "row")
    /\ \A x \in a + 1..m : \E i \in 1..Len(items) : items[i] = Item(ms[x], "row")

(* Nothing but rows, none misplaced: the rows in their order.              *)
LEMMA InOrder ==
  ASSUME journal \in Seq(Message), Once(journal), NEW items \in Seq(PageItem),
         ShownOnce(items), OnlyRows(items), ~Misplaced(items),
         NEW a \in Nat, NEW m \in Nat, a <= m, m <= Len(journal),
         Covers(items, journal, a, m)
  PROVE  Len(items) = m - a /\ RowsAfter(a, items, journal)
<1> DEFINE l == Len(items)
           n == Len(journal)
           R(x) == Item(journal[x], "row")
           f == [i \in 1..l |-> CHOOSE x \in a + 1..m : items[i] = R(x)]
<1>1. l \in Nat /\ n \in Nat /\ m <= n
  OBVIOUS
<1>2. ASSUME NEW i \in 1..l PROVE f[i] \in a + 1..m /\ items[i] = R(f[i])
  <2>1. \E x \in a + 1..m : items[i] = R(x)
    BY DEF Covers, OnlyRows
  <2>2. f[i] = CHOOSE x \in a + 1..m : items[i] = R(x)
    OBVIOUS
  <2> HIDE DEF f, R
  <2> QED
    BY <2>1, <2>2
<1>3. \A x, y \in 1..n : R(x) = R(y) => x = y
  BY Items DEF Once
<1> HIDE DEF f
<1>4. f \in [1..l -> Nat] /\ \A i \in 1..l : f[i] > a /\ f[i] <= m /\ f[i] \in 1..n
  <2>1. DOMAIN f = 1..l /\ f = [i \in 1..l |-> f[i]]
    BY DEF f
  <2>2. \A i \in 1..l : f[i] \in Nat /\ f[i] > a /\ f[i] <= m /\ f[i] \in 1..n
    BY <1>1, <1>2
  <2> QED
    BY <2>1, <2>2
<1>5. ASSUME NEW i \in 1..l, NEW j \in 1..l, i < j PROVE f[i] < f[j]
  <2>1. f[i] # f[j]
    <3>1. items[i].form = "row" /\ i # j
      BY <1>5 DEF OnlyRows
    <3>2. items[i] # items[j]
      BY <3>1 DEF ShownOnce
    <3> QED
      BY <1>2, <3>2
  <2>2. ~(f[j] < f[i])
    BY <1>2, <1>4, <1>5 DEF Misplaced
  <2> QED
    BY <1>4, <2>1, <2>2
<1>6. Ascends(f, l, a)
  BY <1>4, <1>5 DEF Ascends
<1>7. Takes(f, l, a, m)
  <2>1. ASSUME NEW x \in a + 1..m PROVE \E i \in 1..l : f[i] = x
    <3>1. PICK i \in 1..l : items[i] = R(x)
      BY DEF Covers
    <3>2. x \in 1..n
      BY <1>1
    <3>3. f[i] = x
      BY <1>2, <1>3, <1>4, <3>1, <3>2
    <3> QED
      BY <3>3
  <2> QED
    BY <2>1 DEF Takes
<1>8. l = m - a /\ \A i \in 1..l : f[i] = a + i
  <2>1. l \in Nat /\ \A i \in 1..l : f[i] <= m
    BY <1>1, <1>4
  <2> HIDE DEF l
  <2> QED
    BY <1>6, <1>7, <2>1, AscendingExactly
<1>9. \A i \in 1..l : items[i] = R(a + i)
  BY <1>2, <1>8
<1> QED
  BY <1>1, <1>8, <1>9 DEF RowsAfter

-----------------------------------------------------------------------------
Event == [kind : {"running", "delta", "end", "completed", "failed", "initializing", "ready"},
          msg : Message]
StateAnswer == [status : {"ready", "failed", "initializing"}, streaming : BOOLEAN]
Window == [entries : Seq(Message), leaf : Nat, state : StateAnswer]
InitialRequest == [at : {"asked", "read", "done"}, got : Window]
RecoveryRequest ==
    [at : {"idle", "asked", "read"}, mode : {"live", "settle"}, since : Nat, base : Nat,
     moved : BOOLEAN, pending : {"none", "live", "settle"}, got : Window]
ProbeRequest == [at : {"none", "asked", "read"}, force : BOOLEAN, got : StateAnswer]
SendRequest == [at : {"none", "asked", "ok", "failed"}, turn : Nat, hit : BOOLEAN]

ServerTypeOK ==
    /\ journal \in Seq(Message) /\ status \in {"ready", "failed", "initializing"}
    /\ replying \in Nat /\ part \in Nat /\ open \in BOOLEAN /\ issued \in Nat
    /\ wire \in Seq(Event) /\ connected \in BOOLEAN
ShownTypeOK ==
    /\ stable \in Seq(PageItem) /\ active \in Seq(PageItem)
    /\ leaf \in Nat /\ base \in Nat
RequestsTypeOK ==
    /\ touched \in BOOLEAN
    /\ initial \in InitialRequest /\ recovery \in RecoveryRequest
    /\ probe \in ProbeRequest /\ sending \in SendRequest
    /\ known \in StateAnswer /\ state \in StateAnswer
    /\ syncError \in BOOLEAN
PageTypeOK == ServerTypeOK /\ ShownTypeOK /\ RequestsTypeOK

\* A merge gives items, no fewer than there were.
LEMMA MergeType ==
  ASSUME NEW items \in Seq(PageItem), NEW rows \in Seq(PageItem)
  PROVE  Merge(items, rows) \in Seq(PageItem) /\ Len(Merge(items, rows)) >= Len(items)
<1> DEFINE placed == [i \in 1..Len(items) |-> Placed(items[i], items, rows)]
<1>1. \A i \in 1..Len(items) : Placed(items[i], items, rows) \in PageItem
  BY Items DEF Placed
<1>2. placed \in Seq(PageItem) /\ Len(placed) = Len(items)
  BY <1>1
<1>3. Without(rows, Range(placed)) \in Seq(PageItem)
  BY WithoutType
<1>4. Merge(items, rows) = placed \o Without(rows, Range(placed))
  BY DEF Merge, AppendUnique
<1> HIDE DEF placed
<1> QED
  BY <1>2, <1>3, <1>4

\* An append gives items.
LEMMA AppendUniqueType ==
  ASSUME NEW items \in Seq(PageItem), NEW more \in Seq(PageItem)
  PROVE  AppendUnique(items, more) \in Seq(PageItem)
BY WithoutType DEF AppendUnique

\* The rows of the messages, one for one.
LEMMA RowsType ==
  ASSUME NEW ms \in Seq(Message)
  PROVE  /\ Rows(ms) \in Seq(PageItem) /\ Len(Rows(ms)) = Len(ms) /\ OnlyRows(Rows(ms))
         /\ \A i \in 1..Len(ms) : Rows(ms)[i] = Item(ms[i], "row")
         /\ Rows(ms) = <<>> <=> ms = <<>>
<1>1. \A i \in 1..Len(ms) : Item(ms[i], "row") \in PageItem /\ Item(ms[i], "row").form = "row"
  BY Items
<1>2. Rows(ms) = [i \in 1..Len(ms) |-> Item(ms[i], "row")]
  BY DEF Rows
<1>3. Rows(ms) \in Seq(PageItem) /\ Len(Rows(ms)) = Len(ms)
  BY <1>1, <1>2
<1> QED
  BY <1>1, <1>2, <1>3 DEF OnlyRows

\* The settled part of a window is a part of it.
LEMMA StableLengthType ==
  ASSUME NEW rows \in Seq(PageItem), NEW streaming \in BOOLEAN
  PROVE  StableLength(rows, streaming) \in 0..Len(rows)
<1> DEFINE S == {i \in 1..Len(rows) : \E j \in i+1..Len(rows) : rows[j].msg[2] = 0}
<1>1. IsFiniteSet(1..Len(rows)) /\ Cardinality(1..Len(rows)) = Len(rows)
  BY FS_Interval
<1>2. IsFiniteSet(S) /\ Cardinality(S) <= Len(rows)
  BY <1>1, FS_Subset
<1>3. Cardinality(S) \in Nat
  BY <1>2, FS_CardinalityType
<1> HIDE DEF S
<1> QED
  BY <1>2, <1>3 DEF S, StableLength

\* What a snapshot holds: all since the cursor from a ready session, nothing
\* from another.
LEMMA SnapshotType ==
  ASSUME ServerTypeOK, NEW since \in Nat
  PROVE  /\ Snapshot(since) \in Window
         /\ status # "ready" => Snapshot(since).entries = <<>> /\ Snapshot(since).leaf = 0
         /\ Snapshot(since).state = RuntimeState /\ RuntimeState \in StateAnswer
         /\ status = "ready" =>
              /\ Snapshot(since).leaf = Len(journal)
              /\ since <= Len(journal) =>
                    /\ Len(Snapshot(since).entries) = Len(journal) - since
                    /\ \A i \in 1..Len(Snapshot(since).entries) :
                          Snapshot(since).entries[i] = journal[since + i]
<1> DEFINE e == SubSeq(journal, since + 1, Len(journal))
<1>1. RuntimeState \in StateAnswer
  BY DEF RuntimeState, StateAnswer, ServerTypeOK
<1>2. journal \in Seq(Message)
  BY DEF ServerTypeOK
<1>3. e \in Seq(Message)
  BY <1>2
<1>4. since <= Len(journal) => Len(e) = Len(journal) - since /\ \A i \in 1..Len(e) : e[i] = journal[since + i]
  BY <1>2
<1>5. Len(journal) \in Nat
  BY <1>2
<1>6. Snapshot(since) =
        IF status = "ready"
        THEN [entries |-> e, leaf |-> Len(journal), state |-> RuntimeState]
        ELSE [entries |-> <<>>, leaf |-> 0, state |-> RuntimeState]
  BY DEF Snapshot
<1> HIDE DEF e
<1>7. CASE status = "ready"
  BY <1>1, <1>3, <1>4, <1>5, <1>6, <1>7 DEF Window
<1>8. CASE status # "ready"
  <2>1. <<>> \in Seq(Message)
    OBVIOUS
  <2> QED
    BY <1>1, <1>6, <1>8, <2>1 DEF Window
<1> QED
  BY <1>7, <1>8

\* The initial records of the requests.
LEMMA Records ==
  /\ <<>> \in Seq(Message) /\ ReadyIdle \in StateAnswer /\ Unread \in Window
  /\ NotAsking \in ProbeRequest /\ NotSending \in SendRequest /\ Idle \in RecoveryRequest
  /\ ReadyIdle.status = "ready" /\ ReadyIdle.streaming = FALSE
  /\ NotAsking.at = "none" /\ NotAsking.force = FALSE
  /\ NotSending.at = "none" /\ NotSending.hit = FALSE
  /\ Idle.at = "idle" /\ Idle.pending = "none" /\ Idle.moved = FALSE
<1>1. ReadyIdle \in StateAnswer /\ ReadyIdle.status = "ready" /\ ReadyIdle.streaming = FALSE
  BY DEF ReadyIdle, StateAnswer
<1>2. <<>> \in Seq(Message)
  OBVIOUS
<1>3. Unread \in Window
  BY <1>1, <1>2 DEF Unread, Window
<1>4. /\ NotAsking \in ProbeRequest /\ NotSending \in SendRequest
      /\ NotAsking.at = "none" /\ NotAsking.force = FALSE
      /\ NotSending.at = "none" /\ NotSending.hit = FALSE
  BY <1>1 DEF NotAsking, NotSending, ProbeRequest, SendRequest
<1>5. /\ Idle \in RecoveryRequest
      /\ Idle.at = "idle" /\ Idle.pending = "none" /\ Idle.moved = FALSE
  BY <1>3 DEF Idle, Asking, RecoveryRequest
<1> QED
  BY <1>1, <1>2, <1>3, <1>4, <1>5

\* A recovery that has just asked.
Asks(r, since, count) ==
    /\ r \in RecoveryRequest /\ r.at = "asked" /\ r.since = since /\ r.base = count
    /\ r.moved = FALSE /\ r.pending = "none"
\* The same recovery, but for what runs after it and whether it has moved.
SameRequest(q, r) ==
    /\ q \in RecoveryRequest /\ q.at = r.at /\ q.mode = r.mode /\ q.since = r.since
    /\ q.base = r.base /\ q.got = r.got

\* A recovery that asks has captured the leaf and the base.
LEMMA AskingIs ==
  ASSUME NEW mode \in {"live", "settle"}, NEW since \in Nat, NEW count \in Nat
  PROVE  Asks(Asking(mode, since, count), since, count)
BY Records DEF Asking, Asks, RecoveryRequest

\* A recovery is asked for, or the one under way remembers that another is to
\* follow.
LEMMA RecoverIs ==
  ASSUME NEW r \in RecoveryRequest, NEW mode \in {"live", "settle"}, leaf \in Nat, base \in Nat
  PROVE  /\ r.at = "idle" => Asks(Recover(r, mode), leaf, base)
         /\ r.at # "idle" => /\ SameRequest(Recover(r, mode), r)
                             /\ Recover(r, mode).moved = r.moved
                             /\ Recover(r, mode).pending # "none"
<1>1. CASE r.at = "idle"
  <2>1. Recover(r, mode) = Asking(mode, leaf, base)
    BY <1>1 DEF Recover
  <2> QED
    BY <1>1, <2>1, AskingIs
<1>2. CASE r.at # "idle"
  <2> DEFINE v == IF mode = "settle" \/ r.pending = "none" THEN mode ELSE r.pending
  <2>1. Recover(r, mode) = [r EXCEPT !.pending = v]
    BY <1>2 DEF Recover, RecoveryRequest
  <2>2. v \in {"live", "settle"}
    BY DEF RecoveryRequest
  <2> HIDE DEF v
  <2> QED
    BY <1>2, <2>1, <2>2 DEF SameRequest, RecoveryRequest
<1> QED
  BY <1>1, <1>2

\* A transcript that moves marks the recovery under way and changes nothing
\* else of it.
LEMMA MovedIs ==
  ASSUME NEW r \in RecoveryRequest
  PROVE  /\ SameRequest(Moved(r), r) /\ Moved(r).pending = r.pending
         /\ Moved(r).moved = (r.at # "idle")
<1> DEFINE v == r.at # "idle"
<1>1. Moved(r) = [r EXCEPT !.moved = v] /\ v \in BOOLEAN
  BY DEF Moved
<1> HIDE DEF v
<1>2. /\ SameRequest(Moved(r), r) /\ Moved(r).pending = r.pending
      /\ Moved(r).moved = v
  BY <1>1 DEF SameRequest, RecoveryRequest
<1> QED
  BY <1>2 DEF v

\* A recovery that has been answered has kept what it captured.
LEMMA ReadIs ==
  ASSUME NEW r \in RecoveryRequest, NEW got \in Window
  PROVE  LET q == [r EXCEPT !.at = "read", !.got = got] IN
         /\ q \in RecoveryRequest /\ q.at = "read" /\ q.got = got /\ q.since = r.since
         /\ q.base = r.base /\ q.moved = r.moved /\ q.pending = r.pending /\ q.mode = r.mode
BY DEF RecoveryRequest

\* After a recovery there is the one that was asked for meanwhile, or none.
LEMMA NextRecoveryIs ==
  ASSUME recovery \in RecoveryRequest, NEW since \in Nat, NEW count \in Nat
  PROVE  /\ NextRecovery(since, count) \in RecoveryRequest
         /\ recovery.pending = "none" => NextRecovery(since, count) = Idle
         /\ recovery.pending # "none" => Asks(NextRecovery(since, count), since, count)
<1>1. recovery.pending # "none" => recovery.pending \in {"live", "settle"}
  BY DEF RecoveryRequest
<1>2. recovery.pending # "none" => Asks(NextRecovery(since, count), since, count)
  BY <1>1, AskingIs DEF NextRecovery
<1>3. recovery.pending = "none" => NextRecovery(since, count) = Idle
  BY DEF NextRecovery
<1> QED
  BY <1>2, <1>3, Records DEF Asks

\* What the tail is when a failure has been shown in it.
FailureAdded ==
    /\ active' \in Seq(PageItem) /\ Len(active') \in {Len(active), Len(active) + 1}
    /\ \A i \in 1..Len(active) : active'[i] = active[i]
    /\ \A i \in Len(active) + 1..Len(active') : active'[i] = Failure

LEMMA FailureIs ==
  ASSUME active \in Seq(PageItem), active' = active \/ active' = WithFailure
  PROVE  FailureAdded /\ Failure.form = "error"
<1>1. Failure \in PageItem /\ Failure.form = "error"
  BY DEF Failure, Item, PageItem, Message, NoMessage
<1>2. CASE active' = active
  BY <1>1, <1>2 DEF FailureAdded
<1>3. CASE active' = Append(active, Failure)
  BY <1>1, <1>3 DEF FailureAdded
<1> QED
  BY <1>1, <1>2, <1>3 DEF WithFailure

\* An answer of the stream takes the place of its begun part, or is appended.
LEMMA StreamedIs ==
  ASSUME NEW items \in Seq(PageItem), NEW m \in Message, NEW form \in {"part", "text"}
  PROVE  /\ Streamed(items, m, form) \in Seq(PageItem)
         /\ Len(Streamed(items, m, form)) \in {Len(items), Len(items) + 1}
         /\ \A i \in 1..Len(items) :
              \/ Streamed(items, m, form)[i] = items[i]
              \/ items[i] = Item(m, "part") /\ Streamed(items, m, form)[i] = Item(m, form)
         /\ \A i \in Len(items) + 1..Len(Streamed(items, m, form)) :
              Streamed(items, m, form)[i] = Item(m, form)
<1>1. Item(m, form) \in PageItem
  BY DEF Item, PageItem
<1>2. CASE \E i \in 1..Len(items) : items[i] = Item(m, "part")
  <2> DEFINE t == [i \in 1..Len(items) |-> IF items[i] = Item(m, "part") THEN Item(m, form) ELSE items[i]]
  <2>1. Streamed(items, m, form) = t
    BY <1>2 DEF Streamed
  <2>2. t \in Seq(PageItem) /\ Len(t) = Len(items)
    BY <1>1
  <2> QED
    BY <2>1, <2>2
<1>3. CASE ~ \E i \in 1..Len(items) : items[i] = Item(m, "part")
  <2>1. Streamed(items, m, form) = Append(items, Item(m, form))
    BY <1>3 DEF Streamed
  <2> QED
    BY <1>1, <2>1
<1> QED
  BY <1>2, <1>3

\* An event goes to an open stream, behind those on their way.
LEMMA PublishIs ==
  ASSUME ServerTypeOK, NEW kind, NEW m, [kind |-> kind, msg |-> m] \in Event, Publish(kind, m)
  PROVE  /\ wire' \in Seq(Event)
         /\ ~connected => wire' = wire
         /\ connected => /\ Len(wire') = Len(wire) + 1 /\ wire' # <<>>
                         /\ wire'[Len(wire')] = [kind |-> kind, msg |-> m]
                         /\ \A i \in 1..Len(wire) : wire'[i] = wire[i]
<1> DEFINE e == [kind |-> kind, msg |-> m]
<1>1. e \in Event /\ wire' = IF connected THEN Append(wire, e) ELSE wire
  BY DEF Publish
<1> HIDE DEF e
<1> QED
  BY <1>1 DEF e, ServerTypeOK

\* What the session publishes are events.
LEMMA Events ==
  ASSUME NEW m \in Message
  PROVE  /\ NoMessage \in Message
         /\ \A kind \in {"running", "completed", "failed", "initializing", "ready"} :
              [kind |-> kind, msg |-> NoMessage] \in Event
         /\ [kind |-> "delta", msg |-> m] \in Event /\ [kind |-> "end", msg |-> m] \in Event
BY DEF Event, NoMessage, Message

\* A window of rows takes the place of what is shown.
WindowTaken(rows, n, keepTail) ==
    /\ stable' = SubSeq(rows, 1, n)
    /\ active' = IF keepTail THEN Merge(active, SubSeq(rows, n + 1, Len(rows)))
                 ELSE SubSeq(rows, n + 1, Len(rows))

\* How a window is taken: a settled part, a tail, and the anchor behind them.
LEMMA TakeWindowIs ==
  ASSUME ShownTypeOK, NEW got \in Window, NEW keepTail \in BOOLEAN, TakeWindow(got, keepTail)
  PROVE  LET rows == Rows(got.entries) IN
         \E n \in 0..Len(rows) :
            /\ ShownTypeOK' /\ rows \in Seq(PageItem)
            /\ leaf' = got.leaf /\ base' = Len(rows) - n
            /\ ~got.state.streaming => n = Len(rows)
            /\ IF rows = <<>> /\ stable \o active # <<>>
               THEN stable' = stable /\ active' = active
               ELSE WindowTaken(rows, n, keepTail)
<1> DEFINE rows == Rows(got.entries)
           n == StableLength(rows, got.state.streaming)
           tail == SubSeq(rows, n + 1, Len(rows))
<1>1. got.entries \in Seq(Message) /\ got.leaf \in Nat /\ got.state.streaming \in BOOLEAN
  BY DEF Window, StateAnswer
<1>2. rows \in Seq(PageItem)
  BY <1>1, RowsType
<1>3. n \in 0..Len(rows) /\ (~got.state.streaming => n = Len(rows))
  <2>1. n \in 0..Len(rows)
    BY <1>1, <1>2, StableLengthType
  <2> QED
    BY <2>1 DEF StableLength
<1>4. /\ leaf' = got.leaf /\ base' = Len(tail)
      /\ IF rows = <<>> /\ stable \o active # <<>>
         THEN stable' = stable /\ active' = active
         ELSE WindowTaken(rows, n, keepTail)
  BY DEF TakeWindow, WindowTaken, shown
<1> HIDE DEF rows, n
<1>5. tail \in Seq(PageItem) /\ Len(tail) = Len(rows) - n /\ SubSeq(rows, 1, n) \in Seq(PageItem)
  BY <1>2, <1>3
<1> HIDE DEF tail
<1>6. WindowTaken(rows, n, keepTail) => stable' \in Seq(PageItem) /\ active' \in Seq(PageItem)
  BY <1>5, MergeType DEF WindowTaken, ShownTypeOK, tail
<1>7. ShownTypeOK'
  BY <1>1, <1>3, <1>4, <1>5, <1>6 DEF ShownTypeOK
<1>8. base' = Len(rows) - n
  BY <1>4, <1>5
<1> QED
  BY <1>2, <1>3, <1>4, <1>7, <1>8 DEF rows

\* What is kept of the tail's counted part are items.
LEMMA KeptBaseType ==
  ASSUME ShownTypeOK, recovery \in RecoveryRequest, NEW rows
  PROVE  KeptBase(rows) \in Seq(PageItem)
<1> DEFINE n == IF recovery.base <= Len(active) THEN recovery.base ELSE Len(active)
<1>1. n \in 0..Len(active) /\ active \in Seq(PageItem)
  BY DEF ShownTypeOK, RecoveryRequest
<1> HIDE DEF n
<1>2. SubSeq(active, 1, n) \in Seq(PageItem)
  BY <1>1
<1>3. KeptBase(rows) = Without(SubSeq(active, 1, n), Range(rows))
  BY DEF KeptBase, n
<1> QED
  BY <1>2, <1>3, WithoutType

\* A settled recovery leaves the shown part well formed.
LEMMA TakeSettledType ==
  ASSUME ShownTypeOK, recovery \in RecoveryRequest, NEW got \in Window, TakeSettled(got)
  PROVE  ShownTypeOK'
<1> DEFINE rows == Rows(got.entries)
           more == IF rows = <<>> THEN active ELSE KeptBase(rows) \o rows
<1>1. /\ stable' = AppendUnique(stable, more) /\ active' = <<>> /\ base' = 0
      /\ leaf' = IF got.leaf = 0 THEN recovery.since ELSE got.leaf
  BY DEF TakeSettled
<1>2. rows \in Seq(PageItem) /\ got.leaf \in Nat /\ recovery.since \in Nat
  BY RowsType DEF Window, RecoveryRequest
<1> HIDE DEF rows
<1>3. more \in Seq(PageItem)
  BY <1>2, KeptBaseType DEF ShownTypeOK
<1> HIDE DEF more
<1>4. stable' \in Seq(PageItem)
  BY <1>1, <1>3, AppendUniqueType DEF ShownTypeOK
<1> QED
  BY <1>1, <1>2, <1>4 DEF ShownTypeOK

\* The page starts with well-formed fields.
LEMMA TypeInit == PageInit => PageTypeOK
<1>1. <<>> \in Seq(Message) /\ <<>> \in Seq(PageItem) /\ <<>> \in Seq(Event)
  OBVIOUS
<1>2. PageInit => initial \in InitialRequest
  BY Records DEF PageInit, InitialRequest
<1>3. PageInit => ShownTypeOK
  BY <1>1 DEF PageInit, ShownTypeOK
<1>4. ASSUME PageInit PROVE ServerTypeOK
  <2>1. /\ journal = <<>> /\ status = "ready" /\ wire = <<>> /\ connected = FALSE
        /\ replying = 0 /\ part = 0 /\ open = FALSE /\ issued = 0
    BY <1>4 DEF PageInit
  <2> QED
    BY <1>1, <2>1 DEF ServerTypeOK
<1>5. PageInit => RequestsTypeOK
  BY <1>2, Records DEF PageInit, RequestsTypeOK
<1> QED
  BY <1>3, <1>5, <1>4 DEF PageTypeOK

\* The journal takes a message; an event leaves for the page, if it listens.
Written(m) ==
    /\ journal' \in Seq(Message) /\ Len(journal') = Len(journal) + 1
    /\ journal'[Len(journal) + 1] = m
    /\ \A i \in 1..Len(journal) : journal'[i] = journal[i]
Published(kind, m) ==
    /\ wire' \in Seq(Event)
    /\ ~connected => wire' = wire
    /\ connected => /\ Len(wire') = Len(wire) + 1 /\ wire' # <<>>
                    /\ wire'[Len(wire')] = [kind |-> kind, msg |-> m]
                    /\ \A i \in 1..Len(wire) : wire'[i] = wire[i]
\* The session acts, and leaves to the page all that the page keeps.
ShownKept == stable' = stable /\ active' = active /\ leaf' = leaf /\ base' = base
RequestsKept ==
    /\ touched' = touched /\ initial' = initial /\ recovery' = recovery /\ probe' = probe
    /\ known' = known /\ state' = state /\ syncError' = syncError
PageKept == connected' = connected /\ ShownKept /\ RequestsKept /\ slips' = slips
ServerKept ==
    /\ journal' = journal /\ status' = status /\ replying' = replying
    /\ part' = part /\ open' = open /\ issued' = issued
WireKept == wire' = wire /\ connected' = connected

\* Append is to write.
LEMMA WrittenIs ==
  ASSUME ServerTypeOK, NEW m \in Message, journal' = Append(journal, m)
  PROVE  Written(m)
BY DEF Written, ServerTypeOK

\* Publish is to have published.
LEMMA PublishedIs ==
  ASSUME ServerTypeOK, NEW kind, NEW m, [kind |-> kind, msg |-> m] \in Event, Publish(kind, m)
  PROVE  Published(kind, m)
BY PublishIs DEF Published

\* What the tuples of the frame conditions say.
LEMMA Frames ==
  /\ UNCHANGED pageFields => PageKept
  /\ UNCHANGED server => /\ journal' = journal /\ status' = status /\ replying' = replying
                         /\ part' = part /\ open' = open
  /\ UNCHANGED shown => stable' = stable /\ active' = active
  /\ UNCHANGED anchor => leaf' = leaf /\ base' = base
BY DEF pageFields, server, shown, anchor, PageKept, ShownKept, RequestsKept

\* A turn begins.
Begins(t) ==
    /\ status = "ready" /\ status' = "ready" /\ replying = 0 /\ replying' = t
    /\ part' = 0 /\ open' = open /\ Written(<<t, 0>>) /\ Published("running", NoMessage)

\* A turn that begins writes its prompt and tells the page.
LEMMA BeginIs ==
  ASSUME ServerTypeOK, NEW t \in Nat, Begin(t)
  PROVE  Begins(t)
<1>1. <<t, 0>> \in Message /\ [kind |-> "running", msg |-> NoMessage] \in Event
  BY DEF Message, Event, NoMessage
<1>2. /\ journal' = Append(journal, <<t, 0>>) /\ Publish("running", NoMessage)
      /\ status = "ready" /\ status' = "ready" /\ replying = 0 /\ replying' = t
      /\ part' = 0 /\ open' = open
  BY DEF Begin
<1>3. Written(<<t, 0>>)
  BY <1>1, <1>2, WrittenIs
<1>4. Published("running", NoMessage)
  BY <1>1, <1>2, PublishedIs
<1> QED
  BY <1>2, <1>3, <1>4 DEF Begins

\* A prompt from elsewhere begins a turn with a new number.
LEMMA OthersPromptIs ==
  ASSUME ServerTypeOK, OthersPrompt
  PROVE  PageKept /\ sending' = sending /\ issued' = issued + 1 /\ Begins(issued + 1)
<1>1. Begin(issued + 1) /\ UNCHANGED pageFields /\ sending' = sending /\ issued' = issued + 1
  BY DEF OthersPrompt
<1>2. issued + 1 \in Nat
  BY DEF ServerTypeOK
<1> QED
  BY <1>1, <1>2, BeginIs, Frames

\* A prompt of this page begins the turn with its number.
LEMMA AcceptIs ==
  ASSUME ServerTypeOK, RequestsTypeOK, Accept
  PROVE  /\ PageKept /\ issued' = issued /\ sending.at = "asked" /\ Begins(sending.turn)
         /\ sending' \in SendRequest /\ sending'.at \in {"ok", "failed"}
         /\ sending'.turn = sending.turn /\ sending'.hit = sending.hit
<1>1. Begin(sending.turn) /\ UNCHANGED pageFields /\ issued' = issued /\ sending.at = "asked"
  BY DEF Accept
<1>2. sending \in SendRequest /\ sending.turn \in Nat
  BY DEF RequestsTypeOK, SendRequest
<1>3. sending' = [sending EXCEPT !.at = "ok"] \/ sending' = [sending EXCEPT !.at = "failed"]
  BY DEF Accept
<1>4. /\ sending' \in SendRequest /\ sending'.at \in {"ok", "failed"}
      /\ sending'.turn = sending.turn /\ sending'.hit = sending.hit
  BY <1>2, <1>3 DEF SendRequest
<1> QED
  BY <1>1, <1>2, <1>4, BeginIs, Frames

\* A prompt that is refused changes only the request.
LEMMA RejectIs ==
  ASSUME RequestsTypeOK, Reject
  PROVE  /\ PageKept /\ ServerKept /\ WireKept /\ sending.at = "asked"
         /\ status # "ready" \/ replying # 0
         /\ sending' \in SendRequest /\ sending'.at = "failed"
         /\ sending'.turn = sending.turn /\ sending'.hit = sending.hit
<1>1. UNCHANGED pageFields /\ UNCHANGED server /\ issued' = issued /\ wire' = wire
  BY DEF Reject
<1>2. /\ sending.at = "asked" /\ (status # "ready" \/ replying # 0)
      /\ sending' = [sending EXCEPT !.at = "failed"]
  BY DEF Reject
<1>3. sending \in SendRequest
  BY DEF RequestsTypeOK
<1>4. /\ sending' \in SendRequest /\ sending'.at = "failed"
      /\ sending'.turn = sending.turn /\ sending'.hit = sending.hit
  BY <1>2, <1>3 DEF SendRequest
<1> QED
  <2>1. PageKept /\ ServerKept
    BY <1>1, Frames DEF ServerKept
  <2>2. WireKept
    BY <1>1, <2>1 DEF WireKept, PageKept
  <2> QED
    BY <1>2, <1>4, <2>1, <2>2

\* An answer that begins is told, and not yet written.
LEMMA BeginAnswerIs ==
  ASSUME ServerTypeOK, BeginAnswer
  PROVE  /\ PageKept /\ sending' = sending /\ issued' = issued
         /\ replying # 0 /\ ~open /\ part' = part + 1 /\ open' = TRUE
         /\ journal' = journal /\ status' = status /\ replying' = replying
         /\ <<replying, part + 1>> \in Message
         /\ Published("delta", <<replying, part + 1>>)
<1>1. /\ UNCHANGED pageFields /\ sending' = sending /\ issued' = issued
      /\ replying # 0 /\ ~open /\ part' = part + 1 /\ open' = TRUE
      /\ journal' = journal /\ status' = status /\ replying' = replying
      /\ Publish("delta", <<replying, part + 1>>)
  BY DEF BeginAnswer
<1>2. <<replying, part + 1>> \in Message
  BY DEF ServerTypeOK, Message
<1> QED
  BY <1>1, <1>2, PublishedIs, Events, Frames

\* An answer that ends is written and told.
LEMMA EndAnswerIs ==
  ASSUME ServerTypeOK, EndAnswer
  PROVE  /\ PageKept /\ sending' = sending /\ issued' = issued
         /\ open /\ open' = FALSE /\ part' = part /\ status' = status /\ replying' = replying
         /\ <<replying, part>> \in Message /\ Written(<<replying, part>>)
         /\ Published("end", <<replying, part>>)
<1>1. /\ UNCHANGED pageFields /\ sending' = sending /\ issued' = issued
      /\ open /\ open' = FALSE /\ part' = part /\ status' = status /\ replying' = replying
      /\ journal' = Append(journal, <<replying, part>>)
      /\ Publish("end", <<replying, part>>)
  BY DEF EndAnswer
<1>2. <<replying, part>> \in Message
  BY DEF ServerTypeOK, Message
<1> QED
  BY <1>1, <1>2, PublishedIs, WrittenIs, Events, Frames

\* A turn is over, or the runtime changes its status.
StatusTurns(kind) ==
    \/ kind = "completed" /\ replying # 0 /\ ~open /\ status' = status /\ open' = open /\ replying' = 0
    \/ kind = "failed" /\ status' = "failed" /\ open' = FALSE /\ replying' = 0
    \/ kind = "initializing" /\ status = "failed" /\ status' = "initializing" /\ open' = open /\ replying' = replying
    \/ kind = "ready" /\ status = "initializing" /\ status' = "ready" /\ open' = open /\ replying' = replying

\* The other steps of the session only tell the page.
LEMMA StatusTurnsIs ==
  ASSUME ServerTypeOK, Settle \/ Crash \/ WorkerRestarts \/ BecomeReady
  PROVE  /\ PageKept /\ sending' = sending /\ issued' = issued
         /\ journal' = journal /\ part' = part
         /\ \E kind \in {"completed", "failed", "initializing", "ready"} :
               Published(kind, NoMessage) /\ StatusTurns(kind)
<1>1. \A kind \in {"completed", "failed", "initializing", "ready"} :
         Publish(kind, NoMessage) => Published(kind, NoMessage)
  <2> TAKE kind \in {"completed", "failed", "initializing", "ready"}
  <2>1. [kind |-> kind, msg |-> NoMessage] \in Event
    BY DEF Event, NoMessage, Message
  <2> QED
    BY <2>1, PublishedIs
<1>2. CASE Settle
  <2>1. /\ UNCHANGED pageFields /\ sending' = sending /\ issued' = issued
        /\ journal' = journal /\ part' = part /\ Publish("completed", NoMessage)
        /\ StatusTurns("completed")
    BY <1>2 DEF Settle, StatusTurns
  <2> QED
    BY <1>1, <2>1, Frames
<1>3. CASE Crash
  <2>1. /\ UNCHANGED pageFields /\ sending' = sending /\ issued' = issued
        /\ journal' = journal /\ part' = part /\ Publish("failed", NoMessage)
        /\ StatusTurns("failed")
    BY <1>3 DEF Crash, StatusTurns
  <2> QED
    BY <1>1, <2>1, Frames
<1>4. CASE WorkerRestarts
  <2>1. /\ UNCHANGED pageFields /\ sending' = sending /\ issued' = issued
        /\ journal' = journal /\ part' = part /\ Publish("initializing", NoMessage)
        /\ StatusTurns("initializing")
    BY <1>4 DEF WorkerRestarts, Starting, StatusTurns
  <2> QED
    BY <1>1, <2>1, Frames
<1>5. CASE BecomeReady
  <2>1. /\ UNCHANGED pageFields /\ sending' = sending /\ issued' = issued
        /\ journal' = journal /\ part' = part /\ Publish("ready", NoMessage)
        /\ StatusTurns("ready")
    BY <1>5 DEF BecomeReady, Starting, StatusTurns
  <2> QED
    BY <1>1, <2>1, Frames
<1> QED
  BY <1>2, <1>3, <1>4, <1>5

\* The session's steps keep the fields well formed.
LEMMA TypeServer ==
  ASSUME PageTypeOK,
         OthersPrompt \/ BeginAnswer \/ EndAnswer \/ Settle \/ Crash \/ WorkerRestarts
           \/ BecomeReady \/ Accept \/ Reject
  PROVE  PageTypeOK'
<1> USE DEF PageTypeOK
<1>1. ASSUME PageKept, sending' \in SendRequest PROVE ShownTypeOK' /\ RequestsTypeOK'
  BY <1>1 DEF PageKept, ShownKept, RequestsKept, ShownTypeOK, RequestsTypeOK
<1>2. sending \in SendRequest /\ sending.turn \in Nat
  BY DEF RequestsTypeOK, SendRequest
<1>3. ASSUME NEW t \in Nat, Begins(t), connected' = connected, issued' \in Nat PROVE ServerTypeOK'
  BY <1>3 DEF Begins, Written, Published, ServerTypeOK
<1>4. CASE OthersPrompt
  BY <1>1, <1>2, <1>3, <1>4, OthersPromptIs DEF PageKept, ServerTypeOK
<1>5. CASE Accept
  BY <1>1, <1>2, <1>3, <1>5, AcceptIs DEF PageKept, ServerTypeOK
<1>6. CASE Reject
  BY <1>1, <1>6, RejectIs DEF PageKept, ServerKept, WireKept, ServerTypeOK
<1>7. CASE BeginAnswer
  <2>1. /\ PageKept /\ sending' = sending /\ issued' = issued /\ connected' = connected
        /\ wire' \in Seq(Event) /\ part' = part + 1 /\ open' = TRUE
        /\ journal' = journal /\ status' = status /\ replying' = replying
    BY <1>7, BeginAnswerIs DEF PageKept, Published
  <2>2. ServerTypeOK'
    BY <2>1 DEF ServerTypeOK
  <2> QED
    BY <1>1, <1>2, <2>1, <2>2
<1>8. CASE EndAnswer
  <2>1. /\ PageKept /\ sending' = sending /\ issued' = issued /\ connected' = connected
        /\ wire' \in Seq(Event) /\ journal' \in Seq(Message) /\ open' = FALSE
        /\ part' = part /\ status' = status /\ replying' = replying
    BY <1>8, EndAnswerIs DEF PageKept, Published, Written
  <2>2. ServerTypeOK'
    BY <2>1 DEF ServerTypeOK
  <2> QED
    BY <1>1, <1>2, <2>1, <2>2
<1>9. CASE Settle \/ Crash \/ WorkerRestarts \/ BecomeReady
  <2>1. PICK kind \in {"completed", "failed", "initializing", "ready"} :
           Published(kind, NoMessage) /\ StatusTurns(kind)
    BY <1>9, StatusTurnsIs
  <2>2. PageKept /\ sending' = sending /\ issued' = issued /\ journal' = journal /\ part' = part
    BY <1>9, StatusTurnsIs
  <2>3. wire' \in Seq(Event) /\ connected' = connected
    BY <2>1, <2>2 DEF PageKept, Published
  <2>4. /\ status' \in {"ready", "failed", "initializing"} /\ replying' \in Nat
        /\ open' \in BOOLEAN
    <3>1. open \in BOOLEAN /\ replying \in Nat
      BY DEF ServerTypeOK
    <3>2. open' = open \/ open' = FALSE
      BY <2>1 DEF StatusTurns
    <3>3. replying' = replying \/ replying' = 0
      BY <2>1 DEF StatusTurns
    <3>4. status' \in {"ready", "failed", "initializing"}
      <4>1. status \in {"ready", "failed", "initializing"}
        BY DEF ServerTypeOK
      <4> QED
        BY <2>1, <4>1 DEF StatusTurns
    <3>5. open' \in BOOLEAN
      BY <3>1, <3>2
    <3>6. replying' \in Nat
      BY <3>1, <3>3
    <3> QED
      BY <3>4, <3>5, <3>6
  <2>5. ServerTypeOK'
    BY <2>2, <2>3, <2>4 DEF ServerTypeOK
  <2> QED
    BY <1>1, <1>2, <2>2, <2>5
<1> QED
  BY <1>4, <1>5, <1>6, <1>7, <1>8, <1>9

\* So do the steps of the requests.
LEMMA TypeRequests ==
  ASSUME PageTypeOK,
         Cut \/ Connect \/ ReadInitial \/ ReadRecovery \/ SnapshotFails \/ Look \/ StateAnswers
           \/ TakeState \/ StateFails \/ Send \/ TakeReply
  PROVE  PageTypeOK'
<1> USE DEF PageTypeOK
<1>1. leaf \in Nat /\ base \in Nat /\ recovery \in RecoveryRequest /\ probe \in ProbeRequest
      /\ sending \in SendRequest /\ state \in StateAnswer /\ known \in StateAnswer
  BY DEF ShownTypeOK, RequestsTypeOK
<1>2. CASE Cut
  <2>1. wire' \in Seq(Event)
    BY <1>2 DEF Cut, ServerTypeOK
  <2> QED
    BY <1>2, <2>1 DEF Cut, server, shown, anchor, ServerTypeOK, ShownTypeOK, RequestsTypeOK
<1>3. CASE Connect
  <2>1. probe' \in ProbeRequest
    BY <1>3, Records DEF Connect, ProbeRequest
  <2> QED
    BY <1>3, <2>1 DEF Connect, server, shown, anchor, ServerTypeOK, ShownTypeOK, RequestsTypeOK
<1>4. CASE ReadInitial
  <2>1. Snapshot(0) \in Window
    BY SnapshotType
  <2>2. initial' \in InitialRequest
    BY <1>4, <2>1 DEF ReadInitial, InitialRequest
  <2> QED
    BY <1>4, <2>2 DEF ReadInitial, server, shown, anchor, ServerTypeOK, ShownTypeOK,
       RequestsTypeOK
<1>5. CASE ReadRecovery
  <2>1. Snapshot(recovery.since) \in Window
    BY <1>1, SnapshotType DEF RecoveryRequest
  <2>2. recovery' \in RecoveryRequest
    BY <1>1, <1>5, <2>1, ReadIs DEF ReadRecovery
  <2> QED
    BY <1>5, <2>2 DEF ReadRecovery, server, shown, anchor, ServerTypeOK, ShownTypeOK,
       RequestsTypeOK
<1>6. CASE SnapshotFails
  <2>1. recovery' \in RecoveryRequest /\ initial' \in InitialRequest
    BY <1>1, <1>6, NextRecoveryIs, Records DEF SnapshotFails, RequestsTypeOK, InitialRequest
  <2> QED
    BY <1>6, <2>1 DEF SnapshotFails, server, shown, anchor, ServerTypeOK, ShownTypeOK,
       RequestsTypeOK
<1>7. CASE Look
  <2>1. probe' \in ProbeRequest
    BY <1>7, Records DEF Look, ProbeRequest
  <2> QED
    BY <1>7, <2>1 DEF Look, server, shown, anchor, ServerTypeOK, ShownTypeOK, RequestsTypeOK
<1>8. CASE StateAnswers
  <2>1. RuntimeState \in StateAnswer
    BY SnapshotType, 0 \in Nat
  <2>2. probe' \in ProbeRequest
    BY <1>1, <1>8, <2>1 DEF StateAnswers, ProbeRequest
  <2> QED
    BY <1>8, <2>2 DEF StateAnswers, server, shown, anchor, ServerTypeOK, ShownTypeOK,
       RequestsTypeOK
<1>9. CASE TakeState
  <2>1. probe' \in ProbeRequest /\ probe.got \in StateAnswer
    BY <1>1, <1>9, Records DEF TakeState, ProbeRequest
  <2>2. recovery' \in RecoveryRequest
    BY <1>1, <1>9, RecoverIs DEF TakeState, Asks, SameRequest
  <2>3. known' \in StateAnswer /\ state' \in StateAnswer
    BY <1>1, <1>9, <2>1 DEF TakeState
  <2> QED
    BY <1>9, <2>1, <2>2, <2>3 DEF TakeState, server, shown, anchor, ServerTypeOK,
       ShownTypeOK, RequestsTypeOK
<1>10. CASE StateFails
  BY <1>10, Records DEF StateFails, server, shown, anchor, ServerTypeOK, ShownTypeOK,
     RequestsTypeOK
<1>11. CASE Send
  <2>1. recovery' \in RecoveryRequest
    BY <1>1, <1>11, MovedIs DEF Send, SameRequest
  <2>2. issued' \in Nat /\ Item(<<issued + 1, 0>>, "opt") \in PageItem
    BY <1>11 DEF Send, ServerTypeOK, Item, PageItem, Message
  <2>3. active' \in Seq(PageItem)
    BY <1>11, <2>2 DEF Send, ShownTypeOK
  <2>4. sending' \in SendRequest
    BY <1>1, <1>11, <2>2 DEF Send, SendRequest
  <2> QED
    BY <1>11, <2>1, <2>2, <2>3, <2>4
       DEF Send, server, anchor, ServerTypeOK, ShownTypeOK, RequestsTypeOK
<1>12. CASE TakeReply
  <2>1. active' \in Seq(PageItem)
    BY <1>12, WithoutType DEF TakeReply, ShownTypeOK
  <2>2. state' \in StateAnswer
    BY <1>1, <1>12 DEF TakeReply, StateAnswer
  <2> QED
    BY <1>12, <2>1, <2>2, Records
       DEF TakeReply, server, anchor, ServerTypeOK, ShownTypeOK, RequestsTypeOK
<1> QED
  BY <1>2, <1>3, <1>4, <1>5, <1>6, <1>7, <1>8, <1>9, <1>10, <1>11, <1>12
\* An answer of the stream, or the settling of a turn, or the status.
LEMMA DeliverIs ==
  ASSUME PageTypeOK, Deliver
  PROVE  /\ ServerKept /\ connected' = connected /\ stable' = stable
         /\ leaf' = leaf /\ base' = base /\ initial' = initial /\ probe' = probe
         /\ sending' = sending /\ syncError' = syncError /\ known' = state'
         /\ wire \in Seq(Event) /\ wire # <<>> /\ wire' \in Seq(Event)
         /\ Len(wire) = Len(wire') + 1 /\ wire[1] \in Event
         /\ \A i \in 1..Len(wire') : wire'[i] = wire[i + 1]
         /\ OnAnswer(wire[1].kind, wire[1].msg) \/ OnTurn(wire[1].kind) \/ OnStatus(wire[1].kind)
<1>1. wire \in Seq(Event) /\ wire # <<>> /\ wire' = Tail(wire)
  BY DEF Deliver, PageTypeOK, ServerTypeOK
<1>2. /\ wire' \in Seq(Event) /\ Len(wire) = Len(wire') + 1 /\ wire[1] \in Event
      /\ \A i \in 1..Len(wire') : wire'[i] = wire[i + 1]
      /\ Head(wire) = wire[1]
  BY <1>1
<1>3. /\ OnAnswer(wire[1].kind, wire[1].msg) \/ OnTurn(wire[1].kind) \/ OnStatus(wire[1].kind)
  BY <1>2 DEF Deliver
<1>4. /\ UNCHANGED server /\ issued' = issued /\ connected' = connected /\ stable' = stable
      /\ UNCHANGED anchor /\ initial' = initial /\ probe' = probe
      /\ sending' = sending /\ syncError' = syncError /\ known' = state'
  BY DEF Deliver
<1>5. ServerKept /\ leaf' = leaf /\ base' = base
  BY <1>4, Frames DEF ServerKept
<1> QED
  BY <1>1, <1>2, <1>3, <1>4, <1>5

\* So does an event of the stream.
LEMMA TypeDeliver ==
  ASSUME PageTypeOK, Deliver
  PROVE  PageTypeOK'
<1>1. /\ leaf \in Nat /\ base \in Nat /\ recovery \in RecoveryRequest
      /\ state \in StateAnswer /\ active \in Seq(PageItem) /\ touched \in BOOLEAN
  BY DEF PageTypeOK, ShownTypeOK, RequestsTypeOK
<1>2. /\ ServerKept /\ connected' = connected /\ stable' = stable
      /\ leaf' = leaf /\ base' = base /\ initial' = initial /\ probe' = probe
      /\ sending' = sending /\ syncError' = syncError /\ known' = state'
      /\ wire' \in Seq(Event) /\ wire[1] \in Event
      /\ OnAnswer(wire[1].kind, wire[1].msg) \/ OnTurn(wire[1].kind) \/ OnStatus(wire[1].kind)
  BY DeliverIs
<1>3. Moved(recovery) \in RecoveryRequest
  BY <1>1, MovedIs DEF SameRequest
<1>4. ASSUME NEW r \in RecoveryRequest, NEW mode \in {"live", "settle"}
      PROVE  Recover(r, mode) \in RecoveryRequest
  <2>1. CASE r.at = "idle"
    BY <1>1, <2>1, RecoverIs DEF Asks
  <2>2. CASE r.at # "idle"
    BY <1>1, <2>2, RecoverIs DEF SameRequest
  <2> QED
    BY <2>1, <2>2
<1>5. /\ active' \in Seq(PageItem) /\ touched' \in BOOLEAN
      /\ recovery' \in RecoveryRequest /\ state' \in StateAnswer
  <2>1. CASE OnAnswer(wire[1].kind, wire[1].msg)
    <3>1. wire[1].msg \in Message
      BY <1>2 DEF Event
    <3>2. active' = Streamed(active, wire[1].msg, IF wire[1].kind = "delta" THEN "part" ELSE "text")
      BY <2>1 DEF OnAnswer
    <3>3. active' \in Seq(PageItem)
      BY <1>1, <3>1, <3>2, StreamedIs
    <3>4. recovery' = Moved(recovery) /\ touched' = TRUE
          /\ state' = IF wire[1].kind = "delta" THEN [state EXCEPT !.streaming = TRUE] ELSE state
      BY <2>1 DEF OnAnswer
    <3>5. state' \in StateAnswer
      BY <1>1, <3>4 DEF StateAnswer
    <3> QED
      BY <1>3, <3>3, <3>4, <3>5
  <2>2. CASE OnTurn(wire[1].kind)
    <3>1. /\ active' = active \/ active' = WithFailure
          /\ touched' = TRUE
          /\ recovery' = IF wire[1].kind = "completed" THEN Recover(Moved(recovery), "settle")
                         ELSE Moved(recovery)
          /\ state' = [status |-> IF wire[1].kind = "failed" THEN "failed" ELSE state.status,
                       streaming |-> wire[1].kind = "running"]
      BY <2>2 DEF OnTurn
    <3>2. state' \in StateAnswer
      BY <1>1, <3>1 DEF StateAnswer
    <3>3. active' \in Seq(PageItem)
      BY <1>1, <3>1, FailureIs DEF FailureAdded
    <3> QED
      BY <1>1, <1>3, <1>4, <3>1, <3>2, <3>3
  <2>3. CASE OnStatus(wire[1].kind)
    <3>1. /\ active' = active /\ touched' = touched
          /\ recovery' = IF wire[1].kind = "ready" THEN Recover(recovery, "live") ELSE recovery
          /\ state' = [state EXCEPT !.status = wire[1].kind]
          /\ wire[1].kind \in {"initializing", "ready"}
      BY <2>3 DEF OnStatus
    <3>2. state' \in StateAnswer
      BY <1>1, <3>1 DEF StateAnswer
    <3> QED
      BY <1>1, <1>4, <3>1, <3>2
  <2> QED
    BY <1>2, <2>1, <2>2, <2>3
<1>6. ServerTypeOK'
  BY <1>2 DEF ServerKept, PageTypeOK, ServerTypeOK
<1>7. ShownTypeOK'
  BY <1>2, <1>5 DEF PageTypeOK, ShownTypeOK
<1>8. RequestsTypeOK'
  BY <1>2, <1>5 DEF PageTypeOK, RequestsTypeOK
<1> QED
  BY <1>6, <1>7, <1>8 DEF PageTypeOK

\* The fields that a snapshot's answer leaves alone.
LEMMA TakeInitialIs ==
  ASSUME PageTypeOK, TakeInitial
  PROVE  /\ ServerKept /\ WireKept /\ touched' = touched /\ recovery' = recovery
         /\ probe' = probe /\ sending' = sending /\ syncError' = syncError
         /\ initial.at = "read" /\ initial' = [at |-> "done", got |-> Unread]
         /\ initial.got \in Window /\ initial' \in InitialRequest
         /\ known' = initial.got.state /\ state' = initial.got.state
         /\ (initial.got.state.streaming \/ touched) \in BOOLEAN
         /\ TakeWindow(initial.got, initial.got.state.streaming \/ touched)
         /\ slips' = slips \cup WindowSlips(initial.got, leaf # 0)
<1>1. UNCHANGED server /\ issued' = issued
  BY DEF TakeInitial
<1>2. /\ WireKept /\ touched' = touched /\ recovery' = recovery
      /\ probe' = probe /\ sending' = sending /\ syncError' = syncError
      /\ initial.at = "read" /\ initial' = [at |-> "done", got |-> Unread]
      /\ known' = initial.got.state /\ state' = initial.got.state
      /\ TakeWindow(initial.got, initial.got.state.streaming \/ touched)
      /\ slips' = slips \cup WindowSlips(initial.got, leaf # 0)
  BY DEF TakeInitial, WireKept
<1>3. initial.got \in Window /\ (initial.got.state.streaming \/ touched) \in BOOLEAN
  BY DEF PageTypeOK, RequestsTypeOK, InitialRequest
<1>4. initial' \in InitialRequest
  BY <1>2, Records DEF InitialRequest
<1>5. ServerKept
  BY <1>1, Frames DEF ServerKept
<1> QED
  BY <1>2, <1>3, <1>4, <1>5

\* So does the first snapshot.
LEMMA TypeTakeInitial ==
  ASSUME PageTypeOK, TakeInitial
  PROVE  PageTypeOK'
<1>1. /\ ServerKept /\ WireKept /\ touched' = touched /\ recovery' = recovery
      /\ probe' = probe /\ sending' = sending /\ syncError' = syncError
      /\ initial.got \in Window /\ initial' \in InitialRequest
      /\ known' = initial.got.state /\ state' = initial.got.state
      /\ (initial.got.state.streaming \/ touched) \in BOOLEAN
      /\ TakeWindow(initial.got, initial.got.state.streaming \/ touched)
  BY TakeInitialIs
<1>2. ServerTypeOK'
  BY <1>1 DEF ServerKept, WireKept, PageTypeOK, ServerTypeOK
<1>3. ShownTypeOK'
  BY <1>1, TakeWindowIs DEF PageTypeOK
<1>4. initial.got.state \in StateAnswer
  BY <1>1 DEF Window
<1>5. RequestsTypeOK'
  BY <1>1, <1>4 DEF PageTypeOK, RequestsTypeOK
<1> QED
  BY <1>2, <1>3, <1>5 DEF PageTypeOK

\* The answer of a recovery comes too late; or it is taken in one of four ways.
ComesTooLate ==
    /\ recovery.moved /\ ShownKept
    /\ state' = state /\ syncError' = syncError /\ slips' = slips
TurnsRunOn == recovery.mode = "settle" /\ recovery.got.state.streaming /\ ShownKept /\ slips' = slips
WindowComes ==
    /\ recovery.since = 0
    /\ TakeWindow(recovery.got, recovery.got.state.streaming)
    /\ slips' = slips \cup WindowSlips(recovery.got, recovery.got.leaf < leaf)
RowsJoin ==
    /\ recovery.since # 0 /\ recovery.got.state.streaming
    /\ active' = Merge(active, Rows(recovery.got.entries))
    /\ stable' = stable /\ leaf' = leaf /\ base' = base /\ slips' = slips
TailSettles ==
    /\ recovery.since # 0 /\ ~recovery.got.state.streaming
    /\ TakeSettled(recovery.got)
IsTaken ==
    /\ ~recovery.moved /\ state' = recovery.got.state /\ syncError' = FALSE
    /\ TurnsRunOn \/ WindowComes \/ RowsJoin \/ TailSettles

\* The answer of a recovery is dropped, or taken in one of four ways.
LEMMA TakeRecoveryIs ==
  ASSUME PageTypeOK, TakeRecovery
  PROVE  /\ ServerKept /\ WireKept /\ touched' = touched /\ initial' = initial
         /\ probe' = probe /\ sending' = sending /\ known' = known
         /\ recovery.at = "read" /\ recovery' = NextRecovery(leaf', base')
         /\ recovery.got \in Window /\ recovery.got.state \in StateAnswer
         /\ recovery.got.state.streaming \in BOOLEAN
         /\ ComesTooLate \/ IsTaken
<1>1. recovery.got \in Window /\ recovery.got.state \in StateAnswer
  BY DEF PageTypeOK, RequestsTypeOK, RecoveryRequest, Window
<1>2. /\ UNCHANGED server /\ issued' = issued
      /\ WireKept /\ touched' = touched /\ initial' = initial
      /\ probe' = probe /\ sending' = sending /\ known' = known
      /\ recovery.at = "read" /\ recovery' = NextRecovery(leaf', base')
  BY DEF TakeRecovery, WireKept
<1>3. ServerKept
  BY <1>2, Frames DEF ServerKept
<1>4. CASE recovery.moved
  <2>1. /\ UNCHANGED shown /\ UNCHANGED anchor
        /\ state' = state /\ syncError' = syncError /\ slips' = slips
    BY <1>4 DEF TakeRecovery
  <2>2. ComesTooLate
    BY <1>4, <2>1, Frames DEF ComesTooLate, ShownKept
  <2> QED
    BY <1>1, <1>2, <1>3, <2>2 DEF StateAnswer
<1>5. CASE ~recovery.moved
  <2>1. state' = recovery.got.state /\ syncError' = FALSE
    BY <1>5 DEF TakeRecovery
  <2>2. \/ /\ recovery.mode = "settle" /\ recovery.got.state.streaming
           /\ UNCHANGED <<shown, anchor, slips>>
        \/ /\ recovery.since = 0
           /\ TakeWindow(recovery.got, recovery.got.state.streaming)
           /\ slips' = slips \cup WindowSlips(recovery.got, recovery.got.leaf < leaf)
        \/ /\ recovery.got.state.streaming /\ recovery.since # 0
           /\ active' = Merge(active, Rows(recovery.got.entries))
           /\ UNCHANGED <<stable, anchor, slips>>
        \/ ~recovery.got.state.streaming /\ recovery.since # 0 /\ TakeSettled(recovery.got)
    BY <1>5 DEF TakeRecovery
  <2>3. IsTaken
    <3>1. CASE /\ recovery.mode = "settle" /\ recovery.got.state.streaming
               /\ UNCHANGED <<shown, anchor, slips>>
      <4>1. TurnsRunOn
        BY <3>1, Frames DEF TurnsRunOn, ShownKept
      <4> QED
        BY <1>5, <2>1, <4>1 DEF IsTaken
    <3>2. CASE /\ recovery.since = 0
               /\ TakeWindow(recovery.got, recovery.got.state.streaming)
               /\ slips' = slips \cup WindowSlips(recovery.got, recovery.got.leaf < leaf)
      BY <1>5, <2>1, <3>2 DEF IsTaken, WindowComes
    <3>3. CASE /\ recovery.got.state.streaming /\ recovery.since # 0
               /\ active' = Merge(active, Rows(recovery.got.entries))
               /\ UNCHANGED <<stable, anchor, slips>>
      <4>1. RowsJoin
        BY <3>3, Frames DEF RowsJoin
      <4> QED
        BY <1>5, <2>1, <4>1 DEF IsTaken
    <3>4. CASE ~recovery.got.state.streaming /\ recovery.since # 0 /\ TakeSettled(recovery.got)
      BY <1>5, <2>1, <3>4 DEF IsTaken, TailSettles
    <3> QED
      BY <2>2, <3>1, <3>2, <3>3, <3>4
  <2> QED
    BY <1>1, <1>2, <1>3, <2>3 DEF StateAnswer
<1> QED
  BY <1>4, <1>5

\* A recovery keeps the fields well formed.
LEMMA TypeTakeRecovery ==
  ASSUME PageTypeOK, TakeRecovery
  PROVE  PageTypeOK'
<1>1. /\ ServerKept /\ WireKept /\ touched' = touched /\ initial' = initial
      /\ probe' = probe /\ sending' = sending /\ known' = known
      /\ recovery.at = "read" /\ recovery' = NextRecovery(leaf', base')
      /\ recovery.got \in Window /\ recovery.got.state \in StateAnswer
      /\ recovery.got.state.streaming \in BOOLEAN
      /\ ComesTooLate \/ IsTaken
  BY TakeRecoveryIs
<1>2. ShownTypeOK /\ active \in Seq(PageItem) /\ recovery \in RecoveryRequest
  BY DEF PageTypeOK, ShownTypeOK, RequestsTypeOK
<1>3. ServerTypeOK'
  BY <1>1 DEF ServerKept, WireKept, PageTypeOK, ServerTypeOK
<1>4. ASSUME ShownKept PROVE ShownTypeOK'
  BY <1>4, <1>2 DEF ShownKept, ShownTypeOK
<1>5. ShownTypeOK'
  <2>1. CASE ComesTooLate
    BY <1>4, <2>1 DEF ComesTooLate
  <2>2. CASE IsTaken /\ TurnsRunOn
    BY <1>4, <2>2 DEF TurnsRunOn
  <2>3. CASE IsTaken /\ WindowComes
    BY <1>2, <1>1, <2>3, TakeWindowIs DEF WindowComes
  <2>4. CASE IsTaken /\ RowsJoin
    <3>1. Rows(recovery.got.entries) \in Seq(PageItem)
      BY <1>1, RowsType DEF Window
    <3>2. active' \in Seq(PageItem)
      BY <1>2, <2>4, <3>1, MergeType DEF RowsJoin
    <3> QED
      BY <1>2, <2>4, <3>2 DEF RowsJoin, ShownTypeOK
  <2>5. CASE IsTaken /\ TailSettles
    BY <1>2, <1>1, <2>5, TakeSettledType DEF TailSettles
  <2> QED
    BY <1>1, <2>1, <2>2, <2>3, <2>4, <2>5 DEF IsTaken
<1>6. recovery' \in RecoveryRequest
  <2>1. leaf' \in Nat /\ base' \in Nat
    BY <1>5 DEF ShownTypeOK
  <2> QED
    BY <1>2, <1>1, <2>1, NextRecoveryIs
<1>7. state' \in StateAnswer /\ syncError' \in BOOLEAN
  BY <1>1 DEF ComesTooLate, IsTaken, PageTypeOK, RequestsTypeOK
<1>8. RequestsTypeOK'
  BY <1>1, <1>6, <1>7 DEF PageTypeOK, RequestsTypeOK
<1> QED
  BY <1>3, <1>5, <1>8 DEF PageTypeOK

\* Every step does.
LEMMA TypeStep ==
  ASSUME PageTypeOK, [PageNext]_pageVars
  PROVE  PageTypeOK'
<1>1. CASE UNCHANGED pageVars
  <2>1. UNCHANGED server /\ UNCHANGED shown /\ UNCHANGED anchor
    BY <1>1 DEF pageVars
  <2>2. /\ issued' = issued /\ wire' = wire /\ connected' = connected
        /\ touched' = touched /\ initial' = initial /\ recovery' = recovery /\ probe' = probe
        /\ sending' = sending /\ known' = known /\ state' = state /\ syncError' = syncError
    BY <1>1 DEF pageVars
  <2>3. ServerTypeOK'
    BY <2>1, <2>2, Frames DEF PageTypeOK, ServerTypeOK
  <2>4. ShownTypeOK'
    BY <2>1, <2>2, Frames DEF PageTypeOK, ShownTypeOK
  <2>5. RequestsTypeOK'
    BY <2>1, <2>2, Frames DEF PageTypeOK, RequestsTypeOK
  <2> QED
    BY <2>3, <2>4, <2>5 DEF PageTypeOK
<1>2. CASE PageNext
  BY <1>2, TypeServer, TypeRequests, TypeDeliver, TypeTakeInitial, TypeTakeRecovery
     DEF PageNext, Turn, Answers, Handlers, Faults
<1> QED
  BY <1>1, <1>2

\* The page's fields keep the form the handlers give them.
THEOREM PageTypeCorrect == PageSpec => []PageTypeOK
<1>1. PageInit => PageTypeOK
  BY TypeInit
<1>2. PageTypeOK /\ [PageNext]_pageVars => PageTypeOK'
  BY TypeStep
<1> QED
  BY <1>1, <1>2, PTL DEF PageSpec

\* A turn that has begun: its prompt is known, and no longer waits to be taken.
Waiting(t) == sending.at = "asked" /\ sending.turn = t
Begun(t) == t \in 1..issued /\ ~Waiting(t) /\ journal # <<>>
\* The same of the next state, for a turn named in this one.
WaitingNext(t) == sending'.at = "asked" /\ sending'.turn = t
BegunNext(t) == t \in 1..issued' /\ ~WaitingNext(t) /\ journal' # <<>>

\* The session writes a message once.
JournalOnce ==
    /\ Once(journal)
    /\ \A i \in 1..Len(journal) : Begun(journal[i][1])
    /\ sending.at = "asked" => sending.turn \in 1..issued
    /\ sending.at = "ok" => journal # <<>>
    /\ replying # 0 => Begun(replying)
    /\ replying = 0 => ~open
    /\ \A i \in 1..Len(journal) : journal[i][1] = replying =>
          journal[i][2] <= part /\ (open => journal[i][2] # part)

IsAnswer(item) == item.form \in {"part", "text"}

AnswersBegun ==
    /\ \A i \in 1..Len(active) : IsAnswer(active[i]) => Begun(active[i].msg[1])
    /\ \A i \in 1..Len(wire) :
          wire[i].kind \in {"delta", "end"} => Begun(wire[i].msg[1])

\* What the page has loaded: the history, and the counted part of the tail.
Book ==
    /\ base <= Len(active) /\ leaf <= Len(stable) + base
    /\ Len(stable) + base <= Len(journal)
    /\ base # 0 => Len(stable) + base = leaf
    /\ leaf = 0 => stable = <<>>
    /\ RowsAfter(0, stable, journal)
    /\ \A i \in 1..base : active[i] = Item(journal[leaf - base + i], "row")

\* The rows of the tail are those after the settled ones, up to m.
TailRows(m) ==
    /\ m \in leaf..Len(journal) /\ (leaf = 0 => m = 0)
    /\ Covers(active, journal, leaf - base, m)
TailAsked(m) ==
    /\ recovery.at # "idle" /\ recovery.since = 0 => m = leaf
    /\ recovery.at = "read" /\ recovery.since # 0 /\ recovery.got.leaf # 0 =>
          m <= recovery.got.leaf
TailReaches == \E m \in Nat : TailRows(m) /\ TailAsked(m)
TailOnce ==
    /\ ShownOnce(active)
    /\ \A i \in 1..Len(active) : active[i].form = "opt" => active[i].msg[1] <= issued

\* What an answer in flight says.
WindowIsSound(got, since, ms) ==
    \/ got.leaf = 0 /\ got.entries = <<>>
    \/ /\ since <= got.leaf /\ got.leaf <= Len(ms) /\ got.state.status = "ready"
       /\ Len(got.entries) = got.leaf - since
       /\ \A i \in 1..Len(got.entries) : got.entries[i] = ms[since + i]

Flight ==
    /\ recovery.at # "idle" /\ recovery.since # 0 =>
          recovery.since = leaf /\ recovery.base = base
    /\ recovery.at # "idle" /\ recovery.since = 0 => Len(stable) + base = leaf
    /\ recovery.at = "read" => WindowIsSound(recovery.got, recovery.since, journal)
    /\ initial.at = "read" => WindowIsSound(initial.got, 0, journal)

\* The tail holds failures, the prompt being sent and no more.
Untold ==
    \A i \in 1..Len(active) :
        \/ active[i] = Failure
        \/ /\ sending.at \in {"asked", "failed"}
           /\ active[i] = Item(<<sending.turn, 0>>, "opt")

EmptyStart ==
    /\ journal = <<>> => Untold
    /\ initial.at # "done" /\ ~touched /\ leaf = 0 => active = <<>>

\* The answers that a settled snapshot does not hold never come.
SettledAnswers ==
    (recovery.at = "read" /\ ~recovery.moved /\ recovery.got.state = ReadyIdle) =>
        \A i \in 1..Len(active) : IsAnswer(active[i]) =>
            /\ active[i].msg[1] # replying
            /\ \A x \in 1..Len(journal) :
                  journal[x] = active[i].msg => x <= recovery.got.leaf

WireEnds ==
    (connected /\ wire # <<>> /\ replying = 0 /\ status = "ready") =>
        wire[Len(wire)].kind \in {"completed", "ready"}

Still == connected /\ wire = <<>> /\ replying = 0 /\ status = "ready"

Complete == Len(stable) = Len(journal) /\ base = 0 /\ Untold

ProbeCarries ==
    /\ probe.force
    /\ probe.at = "asked" \/ (probe.at = "read" /\ probe.got.status # "failed")

RecoveryCarries ==
    \/ recovery.pending # "none"
    \/ recovery.at = "asked" /\ ~recovery.moved
    \/ recovery.at = "read" /\ ~recovery.moved /\ recovery.got = Snapshot(recovery.since)

Excused ==
    /\ recovery.at = "idle" \/ recovery.moved
    /\ \/ Complete
       \/ sending.at \in {"asked", "failed"} /\ sending.hit
       \/ syncError

\* While the session rests, what the page lacks is on its way to it.
Debt == Still => ProbeCarries \/ RecoveryCarries \/ Excused
IdlePending == recovery.at = "idle" => recovery.pending = "none" /\ ~recovery.moved

PageInv ==
    /\ JournalOnce /\ AnswersBegun /\ Book /\ TailReaches /\ TailOnce /\ Flight
    /\ EmptyStart /\ SettledAnswers /\ WireEnds /\ Debt /\ IdlePending

-----------------------------------------------------------------------------
(* Lemmas that carry a part over a step that leaves its variables alone,   *)
(* or lets the journal grow.                                               *)

Grows ==
    /\ journal' \in Seq(Message) /\ Len(journal) <= Len(journal')
    /\ \A i \in 1..Len(journal) : journal'[i] = journal[i]
StaysBegun ==
    /\ issued' \in Nat /\ issued <= issued'
    /\ journal # <<>> => journal' # <<>>
    /\ \A t \in 1..issued : WaitingNext(t) => Waiting(t)

\* The lengths and positions are numbers, in the order the book gives them.
LEMMA Numbers ==
  ASSUME PageTypeOK, Book
  PROVE  /\ Len(journal) \in Nat /\ Len(stable) \in Nat /\ Len(active) \in Nat
         /\ leaf \in Nat /\ base \in Nat /\ leaf - base \in Nat /\ leaf - base <= Len(stable)
         /\ leaf <= Len(journal) /\ Len(stable) <= Len(journal) /\ issued \in Nat
<1>1. /\ Len(journal) \in Nat /\ Len(stable) \in Nat /\ Len(active) \in Nat
      /\ leaf \in Nat /\ base \in Nat /\ issued \in Nat
  BY DEF PageTypeOK, ServerTypeOK, ShownTypeOK
<1> QED
  BY <1>1 DEF Book

\* A turn that has begun stays begun.
LEMMA StillBegun ==
  ASSUME issued \in Nat, StaysBegun, NEW t, Begun(t)
  PROVE  BegunNext(t)
BY DEF StaysBegun, Begun, BegunNext

\* An answer in flight stays true while the journal grows.
LEMMA SoundGrows ==
  ASSUME journal \in Seq(Message), Grows, NEW got \in Window, NEW since \in Nat,
         WindowIsSound(got, since, journal)
  PROVE  WindowIsSound(got, since, journal')
<1>1. Len(journal) \in Nat /\ Len(journal') \in Nat /\ got.leaf \in Nat
      /\ Len(got.entries) \in Nat
  BY DEF Grows, Window
<1>2. CASE got.leaf = 0 /\ got.entries = <<>>
  BY <1>2 DEF WindowIsSound
<1>3. CASE /\ since <= got.leaf /\ got.leaf <= Len(journal) /\ got.state.status = "ready"
           /\ Len(got.entries) = got.leaf - since
           /\ \A i \in 1..Len(got.entries) : got.entries[i] = journal[since + i]
  <2>1. got.leaf <= Len(journal')
    BY <1>1, <1>3 DEF Grows
  <2>2. \A i \in 1..Len(got.entries) : since + i \in 1..Len(journal)
    BY <1>1, <1>3
  <2> QED
    BY <1>3, <2>1, <2>2 DEF WindowIsSound, Grows
<1> QED
  BY <1>2, <1>3 DEF WindowIsSound

\* So does the book.
LEMMA BookGrows ==
  ASSUME PageTypeOK, Book, ShownKept, Grows
  PROVE  Book'
<1>1. /\ Len(journal) \in Nat /\ Len(stable) \in Nat /\ Len(active) \in Nat
      /\ leaf \in Nat /\ base \in Nat /\ leaf - base \in Nat /\ leaf - base <= Len(stable)
      /\ leaf <= Len(journal) /\ Len(stable) <= Len(journal) /\ Len(journal') \in Nat
      /\ Len(journal) <= Len(journal')
  BY Numbers DEF Grows
<1>2. /\ base' <= Len(active') /\ leaf' <= Len(stable') + base'
      /\ Len(stable') + base' <= Len(journal')
      /\ base' # 0 => Len(stable') + base' = leaf'
      /\ leaf' = 0 => stable' = <<>>
  BY <1>1 DEF Book, ShownKept
<1>3. RowsAfter(0, stable', journal')
  <2>1. \A i \in 1..Len(stable) : 0 + i \in 1..Len(journal)
    BY <1>1
  <2> QED
    BY <1>1, <2>1 DEF Book, ShownKept, Grows, RowsAfter
<1>4. \A i \in 1..base' : active'[i] = Item(journal'[leaf' - base' + i], "row")
  <2>1. \A i \in 1..base : leaf - base + i \in 1..Len(journal)
    BY <1>1
  <2> QED
    BY <2>1 DEF Book, ShownKept, Grows
<1> QED
  BY <1>2, <1>3, <1>4 DEF Book

\* And the rows of the tail stay the same part of the journal.
LEMMA RowsGrow ==
  ASSUME PageTypeOK, Book, ShownKept, Grows, NEW m \in Nat, TailRows(m)
  PROVE  TailRows(m)'
<1>1. /\ Len(journal) \in Nat /\ leaf \in Nat /\ base \in Nat /\ leaf - base \in Nat
      /\ Len(journal') \in Nat /\ Len(journal) <= Len(journal') /\ m <= Len(journal)
  BY Numbers DEF Grows, TailRows
<1>2. \A x \in leaf - base + 1..m : x \in 1..Len(journal)
  BY <1>1
<1>3. Covers(active', journal', leaf' - base', m)
  BY <1>2 DEF TailRows, Covers, ShownKept, Grows
<1>4. m \in leaf'..Len(journal') /\ (leaf' = 0 => m = 0)
  BY <1>1 DEF TailRows, ShownKept
<1> QED
  BY <1>3, <1>4 DEF TailRows

\* How a recovery may change: it runs on, ends, is asked for, or is answered.
RecoveryFollows ==
    \/ SameRequest(recovery', recovery)
    \/ recovery'.at = "idle"
    \/ Asks(recovery', leaf', base')
RecoveryReads ==
    /\ recovery.at = "asked" /\ recovery'.at = "read" /\ recovery'.got = Snapshot(recovery.since)
    /\ recovery'.since = recovery.since /\ recovery'.base = recovery.base
    /\ recovery'.moved = recovery.moved /\ recovery'.pending = recovery.pending

\* What a recovery asks of the tail holds while it is the same recovery.
LEMMA AskedSame ==
  ASSUME NEW m, TailAsked(m), SameRequest(recovery', recovery), leaf' = leaf
  PROVE  TailAsked(m)'
BY DEF TailAsked, SameRequest

\* The tail reaches as far as before.
LEMMA TailKept ==
  ASSUME PageTypeOK, Book, ShownKept, Grows, TailReaches, RecoveryFollows
  PROVE  TailReaches'
<1>1. PICK m \in Nat : TailRows(m) /\ TailAsked(m)
  BY DEF TailReaches
<1>2. TailRows(m)'
  BY <1>1, RowsGrow
<1>3. TailAsked(m)'
  <2>1. CASE SameRequest(recovery', recovery)
    BY <1>1, <2>1, AskedSame DEF ShownKept
  <2>2. CASE recovery'.at = "idle"
    BY <2>2 DEF TailAsked
  <2>3. CASE Asks(recovery', leaf', base')
    <3>1. recovery'.at = "asked" /\ recovery'.since = leaf
      BY <2>3 DEF Asks, ShownKept
    <3> QED
      BY <1>1, <3>1 DEF TailAsked, TailRows, ShownKept
  <2> QED
    BY <2>1, <2>2, <2>3 DEF RecoveryFollows
<1> QED
  BY <1>2, <1>3 DEF TailReaches

AnchorsKept == stable' = stable /\ leaf' = leaf /\ base' = base

\* The answers in flight still say what they said.
LEMMA FlightKept ==
  ASSUME PageTypeOK, PageTypeOK', Book, AnchorsKept, Grows, Flight, RecoveryFollows,
         initial' = initial \/ initial'.at = "done"
  PROVE  Flight'
<1>1. /\ journal \in Seq(Message) /\ Len(stable) \in Nat /\ leaf \in Nat /\ base \in Nat
      /\ recovery \in RecoveryRequest /\ initial \in InitialRequest
  BY Numbers DEF PageTypeOK, ServerTypeOK, RequestsTypeOK
<1>2. (initial.at = "read" => WindowIsSound(initial.got, 0, journal))'
  <2>1. CASE initial' = initial
    <3>1. initial.got \in Window
      BY <1>1 DEF InitialRequest
    <3>2. initial.at = "read" => WindowIsSound(initial.got, 0, journal')
      BY <1>1, <3>1, SoundGrows DEF Flight
    <3> QED
      BY <2>1, <3>2 DEF WindowIsSound
  <2>2. CASE initial'.at = "done"
    BY <2>2
  <2> QED
    BY <2>1, <2>2
<1>3. CASE SameRequest(recovery', recovery)
  <2>1. recovery.got \in Window /\ recovery.since \in Nat
    BY <1>1 DEF RecoveryRequest
  <2>2. recovery.at = "read" => WindowIsSound(recovery.got, recovery.since, journal')
    BY <1>1, <2>1, SoundGrows DEF Flight
  <2>3. (recovery.at = "read" => WindowIsSound(recovery.got, recovery.since, journal))'
    BY <1>3, <2>2 DEF SameRequest, WindowIsSound
  <2>4. (/\ recovery.at # "idle" /\ recovery.since # 0 => recovery.since = leaf /\ recovery.base = base
         /\ recovery.at # "idle" /\ recovery.since = 0 => Len(stable) + base = leaf)'
    BY <1>3 DEF Flight, SameRequest, AnchorsKept
  <2> QED
    BY <1>2, <2>3, <2>4 DEF Flight
<1>4. CASE recovery'.at = "idle"
  BY <1>2, <1>4 DEF Flight
<1>5. CASE Asks(recovery', leaf', base')
  <2>1. recovery'.at = "asked" /\ recovery'.since = leaf' /\ recovery'.base = base'
    BY <1>5 DEF Asks
  <2>2. leaf' = 0 => Len(stable') + base' = leaf'
    BY <1>1 DEF Book, AnchorsKept
  <2> QED
    BY <1>2, <2>1, <2>2 DEF Flight
<1> QED
  BY <1>3, <1>4, <1>5 DEF RecoveryFollows

-----------------------------------------------------------------------------
(* The session acts: the page keeps what it has, and may be told.          *)

NewEntries ==
    \A x \in Len(journal) + 1..Len(journal') :
        journal'[x][1] = replying \/ ~Begun(journal'[x][1])

\* A message that is new is written once.
LEMMA OnceMore ==
  ASSUME journal \in Seq(Message), Once(journal), NEW m \in Message, Written(m),
         \A i \in 1..Len(journal) : journal[i] # m
  PROVE  /\ Grows /\ Once(journal') /\ journal' # <<>>
         /\ \A i \in 1..Len(journal') : i \in 1..Len(journal) \/ i = Len(journal) + 1
<1>1. /\ journal' \in Seq(Message) /\ Len(journal') = Len(journal) + 1 /\ Len(journal) \in Nat
      /\ journal'[Len(journal) + 1] = m
      /\ \A i \in 1..Len(journal) : journal'[i] = journal[i]
  BY DEF Written
<1>2. \A i \in 1..Len(journal') : i \in 1..Len(journal) \/ i = Len(journal) + 1
  BY <1>1
<1>3. Grows /\ journal' # <<>>
  BY <1>1 DEF Grows
<1>4. Once(journal')
  BY <1>1, <1>2 DEF Once
<1> QED
  BY <1>2, <1>3, <1>4

\* A settled answer in flight stays one while only others are written.
LEMMA SettledKept ==
  ASSUME PageTypeOK, SettledAnswers, AnswersBegun, recovery' = recovery, active' = active,
         Grows, NewEntries, replying' # replying => ~Begun(replying')
  PROVE  SettledAnswers'
<1> SUFFICES ASSUME recovery.at = "read", ~recovery.moved, recovery.got.state = ReadyIdle,
                    NEW i \in 1..Len(active), IsAnswer(active[i])
             PROVE  /\ active[i].msg[1] # replying'
                    /\ \A x \in 1..Len(journal') :
                          journal'[x] = active[i].msg => x <= recovery.got.leaf
  BY DEF SettledAnswers, IsAnswer
<1>1. /\ active[i].msg[1] # replying
      /\ \A x \in 1..Len(journal) : journal[x] = active[i].msg => x <= recovery.got.leaf
  BY DEF SettledAnswers
<1>2. Begun(active[i].msg[1])
  BY DEF AnswersBegun
<1>3. ASSUME NEW x \in 1..Len(journal'), journal'[x] = active[i].msg PROVE x \in 1..Len(journal)
  <2>1. Len(journal) \in Nat /\ Len(journal') \in Nat
    BY DEF PageTypeOK, ServerTypeOK, Grows
  <2>2. x \notin Len(journal) + 1..Len(journal')
    BY <1>1, <1>2, <1>3 DEF NewEntries
  <2> QED
    BY <2>1, <2>2
<1> QED
  BY <1>1, <1>2, <1>3 DEF Grows

\* A step of the session keeps the parts that speak of what the page shows.
LEMMA SessionKeeps ==
  ASSUME PageTypeOK, PageTypeOK', PageInv, PageKept, Grows, StaysBegun
  PROVE  /\ Book' /\ TailReaches' /\ TailOnce' /\ Flight' /\ IdlePending'
         /\ (\A i \in 1..Len(active) : IsAnswer(active[i]) => Begun(active[i].msg[1]))'
<1>1. /\ recovery' = recovery /\ initial' = initial /\ ShownKept /\ active' = active
      /\ issued \in Nat /\ recovery \in RecoveryRequest
  BY DEF PageKept, RequestsKept, ShownKept, PageTypeOK, ServerTypeOK, RequestsTypeOK
<1>2. Book'
  BY <1>1, BookGrows DEF PageInv
<1>3. RecoveryFollows
  BY <1>1 DEF RecoveryFollows, SameRequest
<1>4. TailReaches'
  BY <1>1, <1>3, TailKept DEF PageInv
<1>5. Flight'
  BY <1>1, <1>3, FlightKept DEF PageInv, AnchorsKept, ShownKept
<1>6. TailOnce'
  <2>1. active \in Seq(PageItem)
    BY DEF PageTypeOK, ShownTypeOK
  <2>2. \A i \in 1..Len(active) : active[i].form = "opt" => active[i].msg[1] <= issued'
    <3>1. \A i \in 1..Len(active) : active[i].msg[1] \in Nat
      <4>1. \A i \in 1..Len(active) : active[i] \in PageItem
        BY <2>1
      <4>2. \A i \in PageItem : i.msg[1] \in Nat
        BY DEF PageItem, Message
      <4> QED
        BY <4>1, <4>2
    <3>2. issued' \in Nat /\ issued <= issued'
      BY DEF StaysBegun
    <3>3. \A i \in 1..Len(active) : active[i].form = "opt" => active[i].msg[1] <= issued
      BY DEF PageInv, TailOnce
    <3> QED
      BY <1>1, <3>1, <3>2, <3>3
  <2> QED
    BY <1>1, <2>2 DEF PageInv, TailOnce
<1>7. IdlePending'
  BY <1>1 DEF PageInv, IdlePending
<1>8. \A i \in 1..Len(active) : IsAnswer(active[i]) => Begun(active[i].msg[1])
  BY DEF PageInv, AnswersBegun
<1>9. \A t : Begun(t) => BegunNext(t)
  BY <1>1, StillBegun
<1>10. (\A i \in 1..Len(active) : IsAnswer(active[i]) => Begun(active[i].msg[1]))'
  BY <1>1, <1>8, <1>9 DEF IsAnswer, Begun, Waiting, BegunNext, WaitingNext
<1> QED
  BY <1>2, <1>4, <1>5, <1>6, <1>7, <1>10

\* A step of the session keeps the invariant, if the page is told of what it
\* owes.
LEMMA SessionStep ==
  ASSUME PageTypeOK, PageTypeOK', PageInv, PageKept, Grows, StaysBegun, NewEntries,
         JournalOnce', journal' = <<>> => sending' = sending,
         replying' # replying => ~Begun(replying'),
         NEW kind, NEW m \in Message, Published(kind, m),
         kind \in {"delta", "end"} => BegunNext(m[1]),
         replying' = 0 /\ status' = "ready" => kind \in {"completed", "ready"}
  PROVE  PageInv'
<1>1. /\ recovery' = recovery /\ initial' = initial /\ ShownKept /\ active' = active
      /\ connected' = connected /\ touched' = touched /\ leaf' = leaf
      /\ issued \in Nat /\ wire \in Seq(Event) /\ wire' \in Seq(Event) /\ connected \in BOOLEAN
      /\ journal \in Seq(Message)
  BY DEF PageKept, RequestsKept, ShownKept, PageTypeOK, ServerTypeOK, Published
<1>2. /\ Book' /\ TailReaches' /\ TailOnce' /\ Flight' /\ IdlePending'
      /\ (\A i \in 1..Len(active) : IsAnswer(active[i]) => Begun(active[i].msg[1]))'
  BY SessionKeeps
<1>3. SettledAnswers'
  BY <1>1, SettledKept DEF PageInv
<1>4. EmptyStart'
  <2>1. journal' = <<>> => journal = <<>>
    BY <1>1 DEF Grows
  <2>2. (initial.at # "done" /\ ~touched /\ leaf = 0 => active = <<>>)'
    BY <1>1 DEF PageInv, EmptyStart
  <2>3. (journal = <<>> => Untold)'
    BY <1>1, <2>1 DEF PageInv, EmptyStart, Untold
  <2> QED
    BY <2>2, <2>3 DEF EmptyStart
<1>5. CASE ~connected
  <2>1. connected' = FALSE /\ wire' = wire
    BY <1>1, <1>5 DEF Published
  <2>2. WireEnds' /\ Debt'
    BY <2>1 DEF WireEnds, Debt, Still
  <2>3. (\A i \in 1..Len(wire) : wire[i].kind \in {"delta", "end"} => Begun(wire[i].msg[1]))'
    <3>1. \A t : Begun(t) => BegunNext(t)
      BY <1>1, StillBegun
    <3> QED
      BY <2>1, <3>1 DEF PageInv, AnswersBegun, Begun, Waiting, BegunNext, WaitingNext
  <2>4. AnswersBegun'
    BY <1>2, <2>3 DEF AnswersBegun
  <2> QED
    BY <1>2, <1>3, <1>4, <2>2, <2>4 DEF PageInv
<1>6. CASE connected
  <2>1. /\ Len(wire') = Len(wire) + 1 /\ wire' # <<>> /\ Len(wire) \in Nat
        /\ wire'[Len(wire')] = [kind |-> kind, msg |-> m]
        /\ \A i \in 1..Len(wire) : wire'[i] = wire[i]
    BY <1>1, <1>6 DEF Published
  <2>2. Debt'
    BY <2>1 DEF Debt, Still
  <2>3. WireEnds'
    BY <2>1 DEF WireEnds
  <2>4. (\A i \in 1..Len(wire) : wire[i].kind \in {"delta", "end"} => Begun(wire[i].msg[1]))'
    <3>1. \A t : Begun(t) => BegunNext(t)
      BY <1>1, StillBegun
    <3>2. \A i \in 1..Len(wire) : wire[i].kind \in {"delta", "end"} => Begun(wire[i].msg[1])
      BY DEF PageInv, AnswersBegun
    <3>3. \A i \in 1..Len(wire') : i \in 1..Len(wire) \/ i = Len(wire')
      BY <2>1
    <3> QED
      BY <2>1, <3>1, <3>2, <3>3 DEF Begun, Waiting, BegunNext, WaitingNext
  <2>5. AnswersBegun'
    BY <1>2, <2>4 DEF AnswersBegun
  <2> QED
    BY <1>2, <1>3, <1>4, <2>2, <2>3, <2>5 DEF PageInv
<1> QED
  BY <1>1, <1>5, <1>6

\* A turn that has not begun may begin.
LEMMA BeginsOnce ==
  ASSUME PageTypeOK, PageTypeOK', PageInv, PageKept, NEW t \in Nat, Begins(t), ~Begun(t), BegunNext(t),
         StaysBegun, (sending.at = "asked" => sending.turn \in 1..issued)'
  PROVE  PageInv'
<1>1. /\ journal \in Seq(Message) /\ Once(journal) /\ issued \in Nat /\ open \in BOOLEAN
      /\ replying \in Nat /\ \A i \in 1..Len(journal) : Begun(journal[i][1])
      /\ replying = 0 /\ ~open
  BY DEF PageTypeOK, ServerTypeOK, PageInv, JournalOnce, Begins
<1>2. /\ <<t, 0>> \in Message /\ Written(<<t, 0>>) /\ replying' = t /\ part' = 0 /\ open' = open
      /\ status' = "ready" /\ Published("running", NoMessage) /\ NoMessage \in Message
      /\ <<t, 0>>[1] = t /\ <<t, 0>>[2] = 0
  BY DEF Begins, Message, NoMessage
<1>3. /\ Grows /\ Once(journal') /\ journal' # <<>>
      /\ \A i \in 1..Len(journal') : i \in 1..Len(journal) \/ i = Len(journal) + 1
  BY <1>1, <1>2, OnceMore
<1>4. /\ Len(journal') = Len(journal) + 1 /\ Len(journal) \in Nat
      /\ journal'[Len(journal) + 1] = <<t, 0>>
      /\ \A i \in 1..Len(journal) : journal'[i] = journal[i]
  BY <1>1, <1>2 DEF Written
<1>5. \A u : Begun(u) => BegunNext(u)
  BY <1>1, StillBegun
<1>6. JournalOnce'
  <2>1. \A i \in 1..Len(journal') : BegunNext(journal'[i][1])
    BY <1>1, <1>2, <1>3, <1>4, <1>5
  <2>2. replying' # 0 => BegunNext(replying')
    BY <1>2
  <2>3. \A i \in 1..Len(journal') : journal'[i][1] = t => journal'[i] = <<t, 0>>
    BY <1>1, <1>3, <1>4
  <2>4. \A i \in 1..Len(journal') : journal'[i][1] = replying' =>
           journal'[i][2] <= part' /\ (open' => journal'[i][2] # part')
    BY <1>1, <1>2, <2>3
  <2> QED
    BY <1>1, <1>2, <1>3, <2>1, <2>2, <2>4 DEF JournalOnce, Begun, Waiting, BegunNext,
       WaitingNext
<1>7. NewEntries
  <2>1. \A x \in Len(journal) + 1..Len(journal') : x = Len(journal) + 1
    BY <1>4
  <2> QED
    BY <1>2, <1>4, <2>1 DEF NewEntries
<1>8. replying' = 0 /\ status' = "ready" => "running" \in {"completed", "ready"}
  BY <1>2 DEF BegunNext
<1>9. replying' # replying => ~Begun(replying')
  BY <1>2
<1> QED
  BY <1>2, <1>3, <1>6, <1>7, <1>8, <1>9, SessionStep

\* A prompt from elsewhere keeps the invariant.
LEMMA KeepsOthersPrompt ==
  ASSUME PageTypeOK, PageTypeOK', PageInv, OthersPrompt
  PROVE  PageInv'
<1>1. PageKept /\ sending' = sending /\ issued' = issued + 1 /\ Begins(issued + 1)
  BY OthersPromptIs DEF PageTypeOK
<1>2. issued \in Nat /\ (sending.at = "asked" => sending.turn \in 1..issued)
  BY DEF PageTypeOK, ServerTypeOK, PageInv, JournalOnce
<1>3. Written(<<issued + 1, 0>>) /\ journal \in Seq(Message)
  BY <1>1 DEF Begins, PageTypeOK, ServerTypeOK
<1>4. journal' # <<>>
  BY <1>3 DEF Written
<1>5. ~Begun(issued + 1) /\ BegunNext(issued + 1) /\ issued + 1 \in Nat
  BY <1>1, <1>2, <1>4 DEF Begun, Waiting, BegunNext, WaitingNext
<1>6. StaysBegun /\ (sending.at = "asked" => sending.turn \in 1..issued)'
  BY <1>1, <1>2, <1>4 DEF StaysBegun, Waiting, WaitingNext
<1> QED
  BY <1>1, <1>5, <1>6, BeginsOnce

\* A prompt of this page that is taken keeps the invariant.
LEMMA KeepsAccept ==
  ASSUME PageTypeOK, PageTypeOK', PageInv, Accept
  PROVE  PageInv'
<1>1. /\ PageKept /\ issued' = issued /\ sending.at = "asked" /\ Begins(sending.turn)
      /\ sending' \in SendRequest /\ sending'.at \in {"ok", "failed"}
      /\ sending'.turn = sending.turn
  BY AcceptIs DEF PageTypeOK
<1>2. issued \in Nat /\ sending.turn \in 1..issued /\ sending.turn \in Nat
  BY <1>1 DEF PageTypeOK, ServerTypeOK, PageInv, JournalOnce
<1>3. Written(<<sending.turn, 0>>) /\ journal \in Seq(Message)
  BY <1>1 DEF Begins, PageTypeOK, ServerTypeOK
<1>4. journal' # <<>>
  BY <1>3 DEF Written
<1> DEFINE t == sending.turn
<1>5. ~Begun(t)
  BY <1>1 DEF Begun, Waiting, BegunNext, WaitingNext
<1>6. StaysBegun /\ (sending.at = "asked" => sending.turn \in 1..issued)'
  BY <1>1, <1>2, <1>4 DEF StaysBegun, Waiting, WaitingNext
<1>7. \A u \in 1..issued : BegunNext(u)
  BY <1>1, <1>2, <1>4 DEF Begun, Waiting, BegunNext, WaitingNext
<1> QED
  BY <1>1, <1>2, <1>5, <1>6, <1>7, BeginsOnce

\* An answer that begins keeps it: a settled answer in flight was not read in
\* its turn.
LEMMA KeepsBeginAnswer ==
  ASSUME PageTypeOK, PageTypeOK', PageInv, BeginAnswer
  PROVE  PageInv'
<1>1. /\ PageKept /\ sending' = sending /\ issued' = issued
      /\ replying # 0 /\ ~open /\ part' = part + 1 /\ open' = TRUE
      /\ journal' = journal /\ status' = status /\ replying' = replying
      /\ <<replying, part + 1>> \in Message
      /\ Published("delta", <<replying, part + 1>>)
  BY BeginAnswerIs DEF PageTypeOK
<1>2. /\ issued \in Nat /\ journal \in Seq(Message) /\ part \in Nat /\ replying \in Nat
      /\ JournalOnce
  BY DEF PageTypeOK, ServerTypeOK, PageInv
<1>3. Grows /\ StaysBegun /\ NewEntries
  BY <1>1, <1>2 DEF Grows, StaysBegun, NewEntries, Waiting, WaitingNext
<1>4. \A u : Begun(u) => BegunNext(u)
  BY <1>2, <1>3, StillBegun
<1>5. BegunNext(<<replying, part + 1>>[1])
  BY <1>1, <1>2, <1>4 DEF JournalOnce
<1>6. JournalOnce'
  <2>1. \A i \in 1..Len(journal) : Begun(journal[i][1]) /\ (journal[i][1] = replying => journal[i][2] <= part)
    BY <1>2 DEF JournalOnce
  <2>2. \A i \in 1..Len(journal) : journal[i][1] = replying =>
           journal[i][2] <= part + 1 /\ journal[i][2] # part + 1
    <3>1. \A i \in 1..Len(journal) : journal[i][2] \in Nat
      BY <1>2 DEF Message
    <3> QED
      BY <1>2, <2>1, <3>1
  <2>3. /\ Once(journal) /\ (sending.at = "asked" => sending.turn \in 1..issued)
        /\ (sending.at = "ok" => journal # <<>>) /\ (replying # 0 => Begun(replying))
    BY <1>2 DEF JournalOnce
  <2>4. (\A i \in 1..Len(journal) : Begun(journal[i][1]))' /\ (replying # 0 => Begun(replying))'
    BY <1>1, <1>4, <2>1, <2>3 DEF Begun, Waiting, BegunNext, WaitingNext
  <2> QED
    BY <1>1, <2>2, <2>3, <2>4 DEF JournalOnce
<1> QED
  BY <1>1, <1>3, <1>5, <1>6, SessionStep

\* An answer that ends keeps it: its message is new.
LEMMA KeepsEndAnswer ==
  ASSUME PageTypeOK, PageTypeOK', PageInv, EndAnswer
  PROVE  PageInv'
<1> DEFINE m == <<replying, part>>
<1>1. /\ PageKept /\ sending' = sending /\ issued' = issued
      /\ open /\ open' = FALSE /\ part' = part /\ status' = status /\ replying' = replying
      /\ m \in Message /\ Written(m) /\ Published("end", m)
  BY EndAnswerIs DEF PageTypeOK
<1>2. /\ issued \in Nat /\ journal \in Seq(Message) /\ part \in Nat /\ replying \in Nat
      /\ JournalOnce
  BY DEF PageTypeOK, ServerTypeOK, PageInv
<1>3. \A i \in 1..Len(journal) : journal[i] # m
  BY <1>1, <1>2 DEF JournalOnce
<1>4. replying # 0 /\ Begun(replying) /\ Once(journal)
  BY <1>1, <1>2 DEF JournalOnce
<1>5. m[1] = replying /\ m[2] = part
  OBVIOUS
<1> HIDE DEF m
<1>6. /\ Grows /\ Once(journal') /\ journal' # <<>>
      /\ \A i \in 1..Len(journal') : i \in 1..Len(journal) \/ i = Len(journal) + 1
  BY <1>1, <1>2, <1>3, <1>4, OnceMore
<1>7. /\ Len(journal') = Len(journal) + 1 /\ Len(journal) \in Nat
      /\ journal'[Len(journal) + 1] = m
      /\ \A i \in 1..Len(journal) : journal'[i] = journal[i]
  BY <1>1, <1>2 DEF Written
<1>8. StaysBegun
  BY <1>1, <1>2, <1>6 DEF StaysBegun, Waiting, WaitingNext
<1>9. \A u : Begun(u) => BegunNext(u)
  BY <1>2, <1>8, StillBegun
<1>10. NewEntries
  <2>1. \A x \in Len(journal) + 1..Len(journal') : x = Len(journal) + 1
    BY <1>7
  <2> QED
    BY <1>5, <1>7, <2>1 DEF NewEntries
<1>11. JournalOnce'
  <2>1. \A i \in 1..Len(journal') : BegunNext(journal'[i][1])
    BY <1>2, <1>4, <1>5, <1>6, <1>7, <1>9 DEF JournalOnce
  <2>2. \A i \in 1..Len(journal') : journal'[i][1] = replying => journal'[i][2] <= part
    BY <1>2, <1>5, <1>6, <1>7 DEF JournalOnce
  <2>3. sending.at = "asked" => sending.turn \in 1..issued
    BY <1>2 DEF JournalOnce
  <2>4. (\A i \in 1..Len(journal) : Begun(journal[i][1]))'
    BY <2>1 DEF Begun, Waiting, BegunNext, WaitingNext
  <2>5. (replying # 0 => Begun(replying))'
    BY <1>1, <1>4, <1>9 DEF Begun, Waiting, BegunNext, WaitingNext
  <2> QED
    BY <1>1, <1>4, <1>6, <2>2, <2>3, <2>4, <2>5 DEF JournalOnce
<1>12. BegunNext(m[1])
  BY <1>4, <1>5, <1>9
<1> QED
  BY <1>1, <1>4, <1>6, <1>8, <1>10, <1>11, <1>12, SessionStep

\* The end of a turn, a crash and a restart keep it: the page hears of them,
\* or has lost its stream.
LEMMA KeepsStatusTurns ==
  ASSUME PageTypeOK, PageTypeOK', PageInv, Settle \/ Crash \/ WorkerRestarts \/ BecomeReady
  PROVE  PageInv'
<1>1. /\ PageKept /\ sending' = sending /\ issued' = issued
      /\ journal' = journal /\ part' = part
  BY StatusTurnsIs DEF PageTypeOK
<1>2. PICK kind \in {"completed", "failed", "initializing", "ready"} :
         Published(kind, NoMessage) /\ StatusTurns(kind)
  BY StatusTurnsIs DEF PageTypeOK
<1>3. /\ issued \in Nat /\ journal \in Seq(Message) /\ part \in Nat /\ replying \in Nat
      /\ JournalOnce /\ NoMessage \in Message
  BY DEF PageTypeOK, ServerTypeOK, PageInv, NoMessage, Message
<1>4. Grows /\ StaysBegun /\ NewEntries
  BY <1>1, <1>3 DEF Grows, StaysBegun, NewEntries, Waiting, WaitingNext
<1>5. replying' = replying \/ replying' = 0
  BY <1>2 DEF StatusTurns
<1>6. replying' # replying => ~Begun(replying')
  BY <1>5 DEF Begun
<1>7. replying' = 0 /\ status' = "ready" => kind \in {"completed", "ready"}
  BY <1>2 DEF StatusTurns
<1>8. JournalOnce'
  <2>1. /\ Once(journal) /\ (sending.at = "asked" => sending.turn \in 1..issued)
        /\ (sending.at = "ok" => journal # <<>>) /\ (replying # 0 => Begun(replying))
        /\ \A i \in 1..Len(journal) : Begun(journal[i][1])
        /\ (replying = 0 => ~open)
        /\ \A i \in 1..Len(journal) : journal[i][1] = replying =>
              journal[i][2] <= part /\ (open => journal[i][2] # part)
    BY <1>3 DEF JournalOnce
  <2>2. \A i \in 1..Len(journal) : journal[i][1] # 0
    BY <1>3, <2>1 DEF Begun
  <2>3. (\A i \in 1..Len(journal) : Begun(journal[i][1]))'
    BY <1>1, <2>1 DEF Begun, Waiting
  <2>4. (replying # 0 => Begun(replying))'
    BY <1>1, <1>5, <2>1 DEF Begun, Waiting
  <2>5. /\ replying' = 0 => ~open'
        /\ open' => open /\ replying' = replying
    <3>1. ~open => ~open'
      BY <1>2 DEF StatusTurns
    <3>2. replying' = 0 => replying = 0 \/ ~open'
      BY <1>2 DEF StatusTurns
    <3>3. open' => replying' = replying
      BY <1>2 DEF StatusTurns
    <3> QED
      BY <2>1, <3>1, <3>2, <3>3
  <2>6. \A i \in 1..Len(journal) : journal[i][1] = replying' =>
              journal[i][2] <= part /\ (open' => journal[i][2] # part)
    BY <1>5, <2>1, <2>2, <2>5
  <2> QED
    BY <1>1, <2>1, <2>3, <2>4, <2>5, <2>6 DEF JournalOnce
<1>9. kind \notin {"delta", "end"}
  OBVIOUS
<1> QED
  BY <1>1, <1>2, <1>3, <1>4, <1>6, <1>7, <1>8, <1>9, SessionStep

-----------------------------------------------------------------------------
(* The page asks and is answered, and shows what it showed.                *)

\* A prompt that was not taken is begun no sooner.
SendingKept ==
    \/ sending' = sending
    \/ /\ sending.at = "asked" /\ sending'.at = "failed"
       /\ sending'.turn = sending.turn /\ sending'.hit = sending.hit

\* While the session does nothing, what it has written stays.
LEMMA ServerStill ==
  ASSUME PageTypeOK, JournalOnce, ServerKept, SendingKept
  PROVE  /\ Grows /\ StaysBegun /\ JournalOnce' /\ \A t : Begun(t) => BegunNext(t)
<1>1. journal \in Seq(Message) /\ issued \in Nat
  BY DEF PageTypeOK, ServerTypeOK
<1>2. \A t : WaitingNext(t) => Waiting(t)
  BY DEF SendingKept, Waiting, WaitingNext
<1>3. Grows /\ StaysBegun
  BY <1>1, <1>2 DEF ServerKept, Grows, StaysBegun
<1>4. \A t : Begun(t) => BegunNext(t)
  BY <1>1, <1>3, StillBegun
<1>5. (sending.at = "asked" => sending.turn \in 1..issued)' /\ (sending.at = "ok" => journal # <<>>)'
  BY DEF SendingKept, JournalOnce, ServerKept
<1>6. (\A i \in 1..Len(journal) : Begun(journal[i][1]))' /\ (replying # 0 => Begun(replying))'
  BY <1>4 DEF JournalOnce, ServerKept, Begun, Waiting, BegunNext, WaitingNext
<1>7. JournalOnce'
  BY <1>5, <1>6 DEF JournalOnce, ServerKept
<1> QED
  BY <1>3, <1>4, <1>7

\* Of the wire some may be gone.
WireShrinks ==
    /\ wire' \in Seq(Event) /\ Len(wire') <= Len(wire)
    /\ \A i \in 1..Len(wire') : wire'[i] = wire[i]

\* A step that changes only requests keeps the parts that speak of neither.
LEMMA RequestKeeps ==
  ASSUME PageTypeOK, PageTypeOK', PageInv, ServerKept, ShownKept, SendingKept,
         touched' = touched, initial'.at # "done" => initial.at # "done", WireShrinks
  PROVE  Grows /\ JournalOnce' /\ AnswersBegun' /\ Book' /\ TailOnce' /\ EmptyStart'
<1>1. /\ Grows /\ JournalOnce' /\ \A t : Begun(t) => BegunNext(t)
  BY ServerStill DEF PageInv
<1>2. active' = active /\ journal' = journal /\ leaf' = leaf /\ issued' = issued
  BY DEF ShownKept, ServerKept
<1>3. Book'
  BY <1>1, BookGrows DEF PageInv
<1>4. TailOnce'
  BY <1>2 DEF PageInv, TailOnce
<1>5. EmptyStart'
  <2>1. Untold => Untold'
    BY <1>2 DEF Untold, SendingKept
  <2>2. (journal = <<>> => Untold)'
    BY <1>2, <2>1 DEF PageInv, EmptyStart
  <2>3. (initial.at # "done" /\ ~touched /\ leaf = 0 => active = <<>>)'
    BY <1>2 DEF PageInv, EmptyStart
  <2> QED
    BY <2>2, <2>3 DEF EmptyStart
<1>6. AnswersBegun'
  <2>1. (\A i \in 1..Len(active) : IsAnswer(active[i]) => Begun(active[i].msg[1]))'
    BY <1>1, <1>2 DEF PageInv, AnswersBegun, IsAnswer, Begun, Waiting, BegunNext, WaitingNext
  <2>2. \A i \in 1..Len(wire') : i \in 1..Len(wire) /\ wire'[i] = wire[i]
    <3>1. Len(wire) \in Nat /\ Len(wire') \in Nat
      BY DEF PageTypeOK, ServerTypeOK, WireShrinks
    <3> QED
      BY <3>1 DEF WireShrinks
  <2>3. (\A i \in 1..Len(wire) : wire[i].kind \in {"delta", "end"} => Begun(wire[i].msg[1]))'
    BY <1>1, <2>2 DEF PageInv, AnswersBegun, Begun, Waiting, BegunNext, WaitingNext
  <2> QED
    BY <2>1, <2>3 DEF AnswersBegun
<1> QED
  BY <1>1, <1>3, <1>4, <1>5, <1>6

\* A settled answer in flight stays one while nothing is added.
LEMMA SettledStays ==
  ASSUME SettledAnswers, active' = active, replying' = replying, journal' = journal,
         recovery'.at = "read" =>
            recovery.at = "read" /\ recovery'.got = recovery.got /\ (recovery.moved => recovery'.moved)
  PROVE  SettledAnswers'
BY DEF SettledAnswers, IsAnswer

\* A recovery that runs on, that is over, or that has just been asked for.
LEMMA AskingKeeps ==
  ASSUME PageTypeOK, PageTypeOK', PageInv, ServerKept, ShownKept, SendingKept,
         touched' = touched, initial' = initial \/ initial'.at = "done", WireShrinks,
         RecoveryFollows, SameRequest(recovery', recovery) => (recovery.moved => recovery'.moved)
  PROVE  /\ JournalOnce' /\ AnswersBegun' /\ Book' /\ TailOnce' /\ EmptyStart'
         /\ TailReaches' /\ Flight' /\ SettledAnswers'
<1>1. Grows /\ JournalOnce' /\ AnswersBegun' /\ Book' /\ TailOnce' /\ EmptyStart'
  BY RequestKeeps
<1>2. TailReaches' /\ Flight'
  BY <1>1, TailKept, FlightKept DEF PageInv, AnchorsKept, ShownKept
<1>3. SettledAnswers'
  BY SettledStays DEF PageInv, ServerKept, ShownKept, RecoveryFollows, SameRequest, Asks
<1> QED
  BY <1>1, <1>2, <1>3

\* A recovery that is unchanged is the same.
LEMMA SameIsSame ==
  ASSUME PageTypeOK, recovery' = recovery
  PROVE  RecoveryFollows /\ SameRequest(recovery', recovery)
BY DEF RecoveryFollows, SameRequest, PageTypeOK, RequestsTypeOK

\* A wire that is unchanged has lost nothing.
LEMMA WireSame ==
  ASSUME PageTypeOK, wire' = wire
  PROVE  WireShrinks
BY DEF WireShrinks, PageTypeOK, ServerTypeOK

\* What is owed, but for the probe, when only the probe has changed.
LEMMA DebtSame ==
  ASSUME PageTypeOK, ServerKept, ShownKept, SendingKept, WireKept, recovery' = recovery,
         syncError => syncError'
  PROVE  /\ Still' <=> Still
         /\ RecoveryCarries => RecoveryCarries'
         /\ Excused => Excused'
         /\ WireEnds => WireEnds'
         /\ IdlePending => IdlePending'
<1>1. Snapshot(recovery.since) = Snapshot(recovery.since)'
  BY DEF Snapshot, RuntimeState, ServerKept
<1>2. Still' <=> Still
  BY DEF Still, ServerKept, WireKept
<1>3. RecoveryCarries => RecoveryCarries'
  BY <1>1 DEF RecoveryCarries
<1>4. Untold => Untold'
  BY DEF Untold, SendingKept, ShownKept
<1>5. Complete => Complete'
  BY <1>4 DEF Complete, ShownKept, ServerKept
<1>6. sending.at \in {"asked", "failed"} /\ sending.hit => sending'.at \in {"asked", "failed"} /\ sending'.hit
  BY DEF SendingKept
<1>7. Excused => Excused'
  BY <1>5, <1>6 DEF Excused
<1>8. WireEnds => WireEnds'
  BY DEF WireEnds, ServerKept, WireKept
<1> QED
  BY <1>2, <1>3, <1>7, <1>8 DEF IdlePending

\* A prompt that is refused keeps the invariant.
LEMMA KeepsReject ==
  ASSUME PageTypeOK, PageTypeOK', PageInv, Reject
  PROVE  PageInv'
<1>1. PageKept /\ ServerKept /\ WireKept /\ SendingKept
  BY RejectIs DEF PageTypeOK, SendingKept
<1>2. /\ ShownKept /\ recovery' = recovery /\ initial' = initial /\ touched' = touched
      /\ probe' = probe /\ syncError' = syncError
  BY <1>1 DEF PageKept, RequestsKept
<1>3. /\ JournalOnce' /\ AnswersBegun' /\ Book' /\ TailOnce' /\ EmptyStart'
      /\ TailReaches' /\ Flight' /\ SettledAnswers'
  BY <1>1, <1>2, AskingKeeps, SameIsSame, WireSame DEF WireKept
<1>4. /\ Still' => Still
      /\ RecoveryCarries => RecoveryCarries'
      /\ Excused => Excused'
      /\ WireEnds' /\ IdlePending'
  BY <1>1, <1>2, DebtSame DEF PageInv
<1>5. Debt'
  BY <1>2, <1>4 DEF PageInv, Debt, ProbeCarries
<1> QED
  BY <1>3, <1>4, <1>5 DEF PageInv

\* Only the probe changes.
ProbeOnly ==
    /\ ServerKept /\ ShownKept /\ sending' = sending /\ touched' = touched
    /\ initial' = initial /\ recovery' = recovery /\ syncError' = syncError

\* A step of the probe alone keeps the parts that do not speak of it.
LEMMA ProbeOnlyKeeps ==
  ASSUME PageTypeOK, PageTypeOK', PageInv, ProbeOnly, WireShrinks
  PROVE  /\ JournalOnce' /\ AnswersBegun' /\ Book' /\ TailOnce' /\ EmptyStart'
         /\ TailReaches' /\ Flight' /\ SettledAnswers' /\ IdlePending'
<1>1. SendingKept /\ RecoveryFollows
  BY SameIsSame DEF ProbeOnly, SendingKept
<1>2. IdlePending'
  BY DEF ProbeOnly, PageInv, IdlePending
<1> QED
  BY <1>1, <1>2, AskingKeeps DEF ProbeOnly

\* It keeps the invariant, if the probe still carries what it carried.
LEMMA ProbeOnlyOwes ==
  ASSUME PageTypeOK, PageTypeOK', PageInv, ProbeOnly, WireKept,
         Still /\ ProbeCarries => ProbeCarries'
  PROVE  PageInv'
<1>1. SendingKept
  BY DEF ProbeOnly, SendingKept
<1>2. /\ Still' => Still
      /\ RecoveryCarries => RecoveryCarries'
      /\ Excused => Excused'
      /\ WireEnds'
  BY <1>1, DebtSame DEF PageInv, ProbeOnly
<1>3. Debt'
  BY <1>2 DEF PageInv, Debt
<1>4. WireShrinks
  BY WireSame DEF WireKept
<1> QED
  BY <1>2, <1>3, <1>4, ProbeOnlyKeeps DEF PageInv

\* A stream that breaks keeps the invariant: a page without a stream is owed
\* nothing.
LEMMA KeepsCut ==
  ASSUME PageTypeOK, PageTypeOK', PageInv, Cut
  PROVE  PageInv'
<1>1. UNCHANGED server /\ UNCHANGED shown /\ UNCHANGED anchor
  BY DEF Cut
<1>2. /\ issued' = issued /\ touched' = touched /\ initial' = initial /\ recovery' = recovery
      /\ probe' = probe /\ sending' = sending /\ syncError' = syncError /\ connected' = FALSE
  BY DEF Cut
<1>3. ProbeOnly
  BY <1>1, <1>2, Frames DEF ProbeOnly, ServerKept, ShownKept
<1>4. WireShrinks
  <2>1. wire \in Seq(Event)
    BY DEF PageTypeOK, ServerTypeOK
  <2>2. PICK n \in 0..Len(wire) : wire' = SubSeq(wire, 1, n)
    BY DEF Cut
  <2> QED
    BY <2>1, <2>2 DEF WireShrinks
<1>5. WireEnds' /\ Debt'
  BY <1>2 DEF WireEnds, Debt, Still
<1> QED
  BY <1>3, <1>4, <1>5, ProbeOnlyKeeps DEF PageInv

\* A stream that opens keeps it: its probe carries what is owed.
LEMMA KeepsConnect ==
  ASSUME PageTypeOK, PageTypeOK', PageInv, Connect
  PROVE  PageInv'
<1>1. UNCHANGED server /\ UNCHANGED shown /\ UNCHANGED anchor
  BY DEF Connect
<1>2. /\ issued' = issued /\ touched' = touched /\ initial' = initial /\ recovery' = recovery
      /\ sending' = sending /\ syncError' = syncError /\ wire' = wire /\ wire = <<>>
      /\ probe' = [NotAsking EXCEPT !.at = "asked", !.force = TRUE]
  BY DEF Connect
<1>3. ProbeOnly
  BY <1>1, <1>2, Frames DEF ProbeOnly, ServerKept, ShownKept
<1>4. probe'.at = "asked" /\ probe'.force = TRUE
  BY <1>2 DEF NotAsking
<1>5. WireEnds' /\ Debt'
  BY <1>2, <1>4 DEF WireEnds, Debt, ProbeCarries
<1> QED
  BY <1>2, <1>3, <1>5, ProbeOnlyKeeps, WireSame DEF PageInv

\* A look at the state keeps it, unless it supersedes the probe of a new
\* stream.
LEMMA KeepsLook ==
  ASSUME PageTypeOK, PageTypeOK', PageInv, Look, slips' = {}
  PROVE  PageInv'
<1>1. UNCHANGED server /\ UNCHANGED shown /\ UNCHANGED anchor
  BY DEF Look
<1>2. /\ issued' = issued /\ touched' = touched /\ initial' = initial /\ recovery' = recovery
      /\ sending' = sending /\ syncError' = syncError /\ WireKept
  BY DEF Look, WireKept
<1>3. ProbeOnly
  BY <1>1, <1>2, Frames DEF ProbeOnly, ServerKept, ShownKept
<1>4. PICK force \in BOOLEAN :
         /\ probe' = [NotAsking EXCEPT !.at = "asked", !.force = force]
         /\ slips' = IF probe.force /\ ~force THEN slips \cup {"superseded"} ELSE slips
  BY DEF Look
<1>5. probe'.at = "asked" /\ probe'.force = force
  BY <1>4 DEF NotAsking
<1>6. probe.force => force
  BY <1>4
<1>7. ProbeCarries => ProbeCarries'
  BY <1>5, <1>6 DEF ProbeCarries
<1> QED
  BY <1>2, <1>3, <1>7, ProbeOnlyOwes

\* The state's answer keeps it.
LEMMA KeepsStateAnswers ==
  ASSUME PageTypeOK, PageTypeOK', PageInv, StateAnswers
  PROVE  PageInv'
<1>1. UNCHANGED server /\ UNCHANGED shown /\ UNCHANGED anchor
  BY DEF StateAnswers
<1>2. /\ issued' = issued /\ touched' = touched /\ initial' = initial /\ recovery' = recovery
      /\ sending' = sending /\ syncError' = syncError /\ WireKept
      /\ probe.at = "asked" /\ probe' = [probe EXCEPT !.at = "read", !.got = RuntimeState]
  BY DEF StateAnswers, WireKept
<1>3. ProbeOnly
  BY <1>1, <1>2, Frames DEF ProbeOnly, ServerKept, ShownKept
<1>4. probe'.at = "read" /\ probe'.force = probe.force /\ probe'.got = RuntimeState
  BY <1>2 DEF PageTypeOK, RequestsTypeOK, ProbeRequest
<1>5. Still /\ ProbeCarries => ProbeCarries'
  BY <1>4 DEF ProbeCarries, Still, RuntimeState
<1> QED
  BY <1>2, <1>3, <1>5, ProbeOnlyOwes

\* The first snapshot is read: what it says is sound.
LEMMA KeepsReadInitial ==
  ASSUME PageTypeOK, PageTypeOK', PageInv, ReadInitial
  PROVE  PageInv'
<1>1. UNCHANGED server /\ UNCHANGED shown /\ UNCHANGED anchor
  BY DEF ReadInitial
<1>2. /\ issued' = issued /\ touched' = touched /\ recovery' = recovery /\ probe' = probe
      /\ sending' = sending /\ syncError' = syncError /\ WireKept
      /\ initial.at = "asked" /\ initial' = [at |-> "read", got |-> Snapshot(0)]
  BY DEF ReadInitial, WireKept
<1>3. ServerKept /\ ShownKept /\ SendingKept
  BY <1>1, <1>2, Frames DEF ServerKept, ShownKept, SendingKept
<1>4. initial'.at = "read" /\ initial'.got = Snapshot(0)
  BY <1>2
<1>5. Grows /\ JournalOnce' /\ AnswersBegun' /\ Book' /\ TailOnce' /\ EmptyStart'
  BY <1>2, <1>3, <1>4, RequestKeeps, WireSame DEF WireKept
<1>6. TailReaches'
  BY <1>2, <1>3, <1>5, TailKept, SameIsSame DEF PageInv
<1>7. SettledAnswers'
  BY <1>2, <1>3, SettledStays DEF PageInv, ServerKept, ShownKept
<1>8. WindowIsSound(Snapshot(0), 0, journal)
  <2>1. 0 \in Nat /\ ServerTypeOK /\ Len(journal) \in Nat
    BY DEF PageTypeOK, ServerTypeOK
  <2>2. CASE status = "ready"
    <3>1. RuntimeState.status = "ready"
      BY <2>2 DEF RuntimeState
    <3> QED
      BY <2>1, <2>2, <3>1, SnapshotType DEF WindowIsSound
  <2>3. CASE status # "ready"
    BY <2>1, <2>3, SnapshotType DEF WindowIsSound
  <2> QED
    BY <2>2, <2>3
<1>9. Flight'
  BY <1>2, <1>3, <1>4, <1>8 DEF PageInv, Flight, ServerKept, ShownKept, WindowIsSound
<1>10. Debt' /\ WireEnds' /\ IdlePending'
  <2>1. ProbeCarries => ProbeCarries'
    BY <1>2 DEF ProbeCarries
  <2> QED
    BY <1>2, <1>3, <2>1, DebtSame DEF PageInv, Debt
<1> QED
  BY <1>5, <1>6, <1>7, <1>9, <1>10 DEF PageInv

\* A recovery is read: what it says is sound, and if the session is idle no
\* answer is to come.
LEMMA KeepsReadRecovery ==
  ASSUME PageTypeOK, PageTypeOK', PageInv, ReadRecovery
  PROVE  PageInv'
<1>1. UNCHANGED server /\ UNCHANGED shown /\ UNCHANGED anchor
  BY DEF ReadRecovery
<1>2. /\ issued' = issued /\ touched' = touched /\ initial' = initial /\ probe' = probe
      /\ sending' = sending /\ syncError' = syncError /\ WireKept
      /\ recovery.at = "asked"
      /\ recovery' = [recovery EXCEPT !.at = "read", !.got = Snapshot(recovery.since)]
  BY DEF ReadRecovery, WireKept
<1>3. ServerKept /\ ShownKept /\ SendingKept
  BY <1>1, <1>2, Frames DEF ServerKept, ShownKept, SendingKept
<1>4. /\ recovery \in RecoveryRequest /\ recovery.since \in Nat /\ ServerTypeOK
      /\ initial \in InitialRequest /\ Len(journal) \in Nat /\ leaf \in Nat
  BY DEF PageTypeOK, RequestsTypeOK, ServerTypeOK, ShownTypeOK, RecoveryRequest
<1> DEFINE got == Snapshot(recovery.since)
<1>5. /\ got \in Window /\ (got.leaf = 0 \/ got.leaf = Len(journal))
      /\ got.state = RuntimeState
  BY <1>4, SnapshotType
<1>6. /\ recovery'.at = "read" /\ recovery'.got = got /\ recovery'.since = recovery.since
      /\ recovery'.base = recovery.base /\ recovery'.moved = recovery.moved
      /\ recovery'.pending = recovery.pending
  BY <1>2, <1>4, <1>5, ReadIs
<1>7. recovery.since <= Len(journal)
  <2>1. recovery.since = 0 \/ recovery.since = leaf
    BY <1>2 DEF PageInv, Flight
  <2> QED
    BY <1>4, <2>1, Numbers DEF PageInv
<1>8. WindowIsSound(got, recovery.since, journal)
  <2>1. CASE status = "ready"
    <3>1. /\ got.leaf = Len(journal) /\ Len(got.entries) = Len(journal) - recovery.since
          /\ \A i \in 1..Len(got.entries) : got.entries[i] = journal[recovery.since + i]
      BY <1>4, <1>7, <2>1, SnapshotType
    <3>2. got.state.status = "ready"
      BY <1>5, <2>1 DEF RuntimeState
    <3> HIDE DEF got
    <3> QED
      BY <1>7, <3>1, <3>2 DEF WindowIsSound
  <2>2. CASE status # "ready"
    <3>1. got.leaf = 0 /\ got.entries = <<>>
      BY <1>4, <2>2, SnapshotType
    <3> HIDE DEF got
    <3> QED
      BY <3>1 DEF WindowIsSound
  <2> QED
    BY <2>1, <2>2
<1> HIDE DEF got
<1>9. Grows /\ JournalOnce' /\ AnswersBegun' /\ Book' /\ TailOnce' /\ EmptyStart'
  BY <1>2, <1>3, RequestKeeps, WireSame DEF WireKept
<1>10. TailReaches'
  <2>1. PICK m \in Nat : TailRows(m) /\ TailAsked(m)
    BY DEF PageInv, TailReaches
  <2>2. TailRows(m)'
    BY <1>3, <1>9, <2>1, RowsGrow DEF PageInv
  <2>3. m <= Len(journal) /\ (recovery.since = 0 => m = leaf)
    BY <1>2, <1>4, <2>1 DEF TailRows, TailAsked
  <2>4. TailAsked(m)'
    BY <1>3, <1>5, <1>6, <2>3 DEF TailAsked, ShownKept
  <2> QED
    BY <2>2, <2>4 DEF TailReaches
<1>11. Flight'
  <2>1. (recovery.at = "read" => WindowIsSound(recovery.got, recovery.since, journal))'
    BY <1>3, <1>6, <1>8 DEF WindowIsSound, ServerKept
  <2>2. (initial.at = "read" => WindowIsSound(initial.got, 0, journal))'
    BY <1>2, <1>3 DEF PageInv, Flight, WindowIsSound, ServerKept
  <2> QED
    BY <1>2, <1>3, <1>6, <2>1, <2>2 DEF PageInv, Flight, ShownKept
<1>12. SettledAnswers'
  <2> SUFFICES ASSUME got.state = ReadyIdle, NEW i \in 1..Len(active), IsAnswer(active[i])
               PROVE  /\ active[i].msg[1] # replying
                      /\ \A x \in 1..Len(journal) : journal[x] = active[i].msg => x <= got.leaf
    BY <1>3, <1>6 DEF SettledAnswers, ShownKept, ServerKept, IsAnswer
  <2>1. status = "ready" /\ replying = 0
    <3>1. RuntimeState.status = status /\ RuntimeState.streaming = (replying # 0)
      BY DEF RuntimeState
    <3>2. RuntimeState = ReadyIdle
      BY <1>5
    <3> QED
      BY <3>1, <3>2, Records
  <2>2. Begun(active[i].msg[1])
    BY DEF PageInv, AnswersBegun
  <2>3. got.leaf = Len(journal)
    BY <1>4, <2>1, SnapshotType DEF got
  <2> QED
    BY <1>4, <2>1, <2>2, <2>3 DEF Begun
<1>13. WireEnds'
  BY <1>2, <1>3 DEF PageInv, WireEnds, ServerKept, WireKept
<1>14. IdlePending'
  BY <1>6 DEF IdlePending
<1>15. Debt'
  <2>1. Still' => Still
    BY <1>2, <1>3 DEF Still, ServerKept, WireKept
  <2>2. ProbeCarries => ProbeCarries'
    BY <1>2 DEF ProbeCarries
  <2>3. got = Snapshot(recovery.since)'
    BY <1>3, <1>6 DEF got, Snapshot, RuntimeState, ServerKept
  <2>4. RecoveryCarries => RecoveryCarries'
    BY <1>2, <1>6, <2>3 DEF RecoveryCarries
  <2>5. Excused => Excused'
    BY <1>2, <1>3, <1>6 DEF Excused, Complete, Untold, ServerKept, ShownKept
  <2> QED
    BY <2>1, <2>2, <2>4, <2>5 DEF PageInv, Debt
<1> QED
  BY <1>9, <1>10, <1>11, <1>12, <1>13, <1>14, <1>15 DEF PageInv

\* A snapshot that fails keeps the invariant: the page says so, or another
\* recovery runs.
LEMMA KeepsSnapshotFails ==
  ASSUME PageTypeOK, PageTypeOK', PageInv, SnapshotFails
  PROVE  PageInv'
<1>1. UNCHANGED server /\ UNCHANGED shown /\ UNCHANGED anchor
  BY DEF SnapshotFails
<1>2. /\ issued' = issued /\ touched' = touched /\ probe' = probe
      /\ sending' = sending /\ syncError' = TRUE /\ WireKept
  BY DEF SnapshotFails, WireKept
<1>3. \/ recovery' = recovery /\ initial' = [at |-> "done", got |-> Unread]
      \/ /\ recovery.at = "asked" /\ recovery' = NextRecovery(leaf, base)
         /\ initial' = initial
  BY DEF SnapshotFails
<1>4. ServerKept /\ ShownKept /\ SendingKept /\ (initial' = initial \/ initial'.at = "done")
  BY <1>1, <1>2, <1>3, Frames DEF ServerKept, ShownKept, SendingKept
<1>5. recovery \in RecoveryRequest /\ leaf \in Nat /\ base \in Nat
  BY DEF PageTypeOK, RequestsTypeOK, ShownTypeOK
<1>6. ProbeCarries => ProbeCarries'
  BY <1>2 DEF ProbeCarries
<1>7. CASE recovery' = recovery
  <2>1. /\ JournalOnce' /\ AnswersBegun' /\ Book' /\ TailOnce' /\ EmptyStart'
        /\ TailReaches' /\ Flight' /\ SettledAnswers'
    BY <1>2, <1>4, <1>7, AskingKeeps, SameIsSame, WireSame DEF WireKept
  <2>2. /\ Still' => Still
        /\ RecoveryCarries => RecoveryCarries'
        /\ Excused => Excused'
        /\ WireEnds' /\ IdlePending'
    BY <1>2, <1>4, <1>7, DebtSame DEF PageInv
  <2>3. Debt'
    BY <1>6, <2>2 DEF PageInv, Debt
  <2> QED
    BY <2>1, <2>2, <2>3 DEF PageInv
<1>8. CASE recovery.at = "asked" /\ recovery' = NextRecovery(leaf, base)
  <2>1. recovery' = Idle \/ Asks(recovery', leaf, base)
    BY <1>5, <1>8, NextRecoveryIs
  <2>2. RecoveryFollows
    BY <1>4, <2>1, Records DEF RecoveryFollows, ShownKept
  <2>3. SameRequest(recovery', recovery) => (recovery.moved => recovery'.moved) \/ Asks(recovery', leaf, base)
    BY <1>8, <2>1, Records DEF SameRequest
  <2>4. /\ Grows /\ JournalOnce' /\ AnswersBegun' /\ Book' /\ TailOnce' /\ EmptyStart'
    BY <1>2, <1>4, RequestKeeps, WireSame DEF WireKept
  <2>5. TailReaches' /\ Flight'
    BY <1>4, <2>2, <2>4, TailKept, FlightKept DEF PageInv, AnchorsKept, ShownKept
  <2>6. SettledAnswers'
    BY <2>1, Records DEF SettledAnswers, Asks
  <2>7. WireEnds'
    BY <1>2, <1>4 DEF PageInv, WireEnds, ServerKept, WireKept
  <2>8. IdlePending'
    BY <2>1, Records DEF IdlePending, Asks
  <2>9. Debt'
    <3>1. CASE Asks(recovery', leaf, base)
      BY <3>1 DEF Debt, RecoveryCarries, Asks
    <3>2. CASE recovery' = Idle
      BY <1>2, <3>2, Records DEF Debt, Excused
    <3> QED
      BY <2>1, <3>1, <3>2
  <2> QED
    BY <2>4, <2>5, <2>6, <2>7, <2>8, <2>9 DEF PageInv
<1> QED
  BY <1>3, <1>7, <1>8

\* The state answers: a recovery is asked for, or the recovery stays.
LEMMA KeepsTakeState ==
  ASSUME PageTypeOK, PageTypeOK', PageInv, TakeState
  PROVE  PageInv'
<1>1. UNCHANGED server /\ UNCHANGED shown /\ UNCHANGED anchor
  BY DEF TakeState
<1> DEFINE asks == (probe.force \/ probe.got # known) /\ probe.got.status # "failed"
           mode == IF probe.got.status = "ready" /\ ~probe.got.streaming THEN "settle" ELSE "live"
<1>2. /\ issued' = issued /\ touched' = touched /\ initial' = initial
      /\ sending' = sending /\ syncError' = syncError /\ WireKept
      /\ probe.at = "read"
      /\ recovery' = IF asks THEN Recover(recovery, mode) ELSE recovery
  BY DEF TakeState, WireKept
<1>3. ServerKept /\ ShownKept /\ SendingKept
  BY <1>1, <1>2, Frames DEF ServerKept, ShownKept, SendingKept
<1>4. recovery \in RecoveryRequest /\ leaf \in Nat /\ base \in Nat /\ mode \in {"live", "settle"}
  BY DEF PageTypeOK, RequestsTypeOK, ShownTypeOK
<1>5. ProbeCarries => asks
  BY <1>2 DEF ProbeCarries
<1> HIDE DEF asks, mode
<1>6. CASE ~asks
  <2>1. recovery' = recovery
    BY <1>2, <1>6
  <2>2. /\ JournalOnce' /\ AnswersBegun' /\ Book' /\ TailOnce' /\ EmptyStart'
        /\ TailReaches' /\ Flight' /\ SettledAnswers'
    BY <1>2, <1>3, <2>1, AskingKeeps, SameIsSame, WireSame DEF WireKept
  <2>3. /\ Still' => Still
        /\ RecoveryCarries => RecoveryCarries'
        /\ Excused => Excused'
        /\ WireEnds' /\ IdlePending'
    BY <1>2, <1>3, <2>1, DebtSame DEF PageInv
  <2>4. Debt'
    BY <1>5, <1>6, <2>3 DEF PageInv, Debt
  <2> QED
    BY <2>2, <2>3, <2>4 DEF PageInv
<1>7. CASE asks
  <2>1. recovery' = Recover(recovery, mode)
    BY <1>2, <1>7
  <2>2. /\ recovery.at = "idle" => Asks(recovery', leaf, base)
        /\ recovery.at # "idle" => /\ SameRequest(recovery', recovery)
                                   /\ recovery'.moved = recovery.moved
                                   /\ recovery'.pending # "none"
    BY <1>4, <2>1, RecoverIs
  <2>3. RecoveryFollows
    BY <1>3, <2>2 DEF RecoveryFollows, ShownKept
  <2>4. SameRequest(recovery', recovery) => (recovery.moved => recovery'.moved)
    BY <2>2 DEF SameRequest, Asks
  <2>5. /\ JournalOnce' /\ AnswersBegun' /\ Book' /\ TailOnce' /\ EmptyStart'
        /\ TailReaches' /\ Flight' /\ SettledAnswers'
    BY <1>2, <1>3, <2>3, <2>4, AskingKeeps, WireSame DEF WireKept
  <2>6. WireEnds'
    BY <1>2, <1>3 DEF PageInv, WireEnds, ServerKept, WireKept
  <2>7. Debt'
    BY <2>2 DEF Debt, RecoveryCarries, Asks
  <2>8. IdlePending'
    BY <2>2 DEF IdlePending, Asks, SameRequest
  <2> QED
    BY <2>5, <2>6, <2>7, <2>8 DEF PageInv
<1> QED
  BY <1>6, <1>7

\* A probe that fails is one of the races.
LEMMA KeepsStateFails ==
  ASSUME StateFails PROVE slips' # {}
BY DEF StateFails

-----------------------------------------------------------------------------
(* The tail changes, but for its rows.                                     *)

RowsStay ==
    /\ base <= Len(active') /\ \A i \in 1..base : active'[i] = active[i]
    /\ \A i \in 1..Len(active) : active[i].form = "row" =>
          \E j \in 1..Len(active') : active'[j] = active[i]
    /\ \A j \in 1..Len(active') : active'[j].form = "row" =>
          \E i \in 1..Len(active) : active[i] = active'[j]

\* While the tail's rows stay, so do the book and what the tail covers.
LEMMA RowsStayBook ==
  ASSUME PageTypeOK, PageTypeOK', Book, RowsStay, AnchorsKept, journal' = journal
  PROVE  Book' /\ \A m : TailRows(m) => TailRows(m)'
<1>1. Book'
  BY DEF Book, RowsStay, AnchorsKept
<1>2. ASSUME NEW m, TailRows(m) PROVE TailRows(m)'
  <2>1. /\ Len(journal) \in Nat /\ leaf - base \in Nat
    BY Numbers
  <2>2. \A x : Item(journal[x], "row").form = "row"
    BY Items
  <2>3. Covers(active, journal, leaf - base, m)
    BY <1>2 DEF TailRows
  <2>4. \A i \in 1..Len(active') : active'[i].form = "row" =>
          \E x \in leaf - base + 1..m : active'[i] = Item(journal[x], "row")
    BY <2>3 DEF Covers, RowsStay
  <2>5. \A x \in leaf - base + 1..m : \E i \in 1..Len(active') : active'[i] = Item(journal[x], "row")
    BY <2>2, <2>3 DEF Covers, RowsStay
  <2>6. Covers(active', journal', leaf' - base', m)
    BY <2>4, <2>5 DEF Covers, AnchorsKept
  <2> QED
    BY <1>2, <2>6 DEF TailRows, AnchorsKept
<1> QED
  BY <1>1, <1>2

\* The counted part of the tail is rows.
LEMMA BaseIsRows ==
  ASSUME Book
  PROVE  \A i \in 1..base : active[i].form = "row"
BY Items DEF Book

\* An answer of the stream leaves the rows of the tail alone.
LEMMA StreamedStays ==
  ASSUME PageTypeOK, Book, TailOnce, NEW m \in Message, NEW form \in {"part", "text"},
         active' = Streamed(active, m, form)
  PROVE  /\ RowsStay /\ ShownOnce(active')
         /\ \A j \in 1..Len(active') :
               active'[j] = Item(m, form) \/ (j \in 1..Len(active) /\ active'[j] = active[j])
<1>1. active \in Seq(PageItem) /\ base \in Nat /\ Len(active) \in Nat /\ base <= Len(active)
  BY DEF PageTypeOK, ShownTypeOK, Book
<1>2. /\ active' \in Seq(PageItem) /\ Len(active') \in {Len(active), Len(active) + 1}
      /\ \A i \in 1..Len(active) :
            \/ active'[i] = active[i]
            \/ active[i] = Item(m, "part") /\ active'[i] = Item(m, form)
      /\ \A i \in Len(active) + 1..Len(active') : active'[i] = Item(m, form)
  BY <1>1, StreamedIs
<1>3. /\ Len(active') \in Nat /\ Len(active) <= Len(active')
      /\ \A j \in 1..Len(active') : j \in 1..Len(active) \/ j \in Len(active) + 1..Len(active')
  BY <1>1, <1>2
<1>4. Item(m, "part").form = "part" /\ Item(m, form).form = form /\ form \notin {"row", "opt"}
  BY Items
<1>5. \A i \in 1..Len(active) : active[i].form = "row" => active'[i] = active[i] /\ i \in 1..Len(active')
  BY <1>1, <1>2, <1>3, <1>4
<1>6. \A j \in 1..Len(active') :
         active'[j] = Item(m, form) \/ (j \in 1..Len(active) /\ active'[j] = active[j])
  BY <1>2, <1>3
<1>7. RowsStay
  <2>1. \A i \in 1..base : active[i].form = "row" /\ i \in 1..Len(active)
    BY <1>1, BaseIsRows
  <2>2. \A i \in 1..base : active'[i] = active[i]
    BY <1>5, <2>1
  <2>3. base <= Len(active')
    BY <1>1, <1>3
  <2>4. \A j \in 1..Len(active') : active'[j].form = "row" => \E i \in 1..Len(active) : active[i] = active'[j]
    BY <1>4, <1>6
  <2> QED
    BY <1>5, <2>2, <2>3, <2>4 DEF RowsStay
<1>8. ShownOnce(active')
  BY <1>4, <1>6 DEF ShownOnce, TailOnce
<1> QED
  BY <1>6, <1>7, <1>8

\* So does a failure.
LEMMA FailureStays ==
  ASSUME PageTypeOK, Book, TailOnce, active' = WithFailure
  PROVE  /\ RowsStay /\ ShownOnce(active')
         /\ \A j \in 1..Len(active') :
               active'[j] = Failure \/ (j \in 1..Len(active) /\ active'[j] = active[j])
<1>1. active \in Seq(PageItem) /\ base \in Nat /\ Len(active) \in Nat /\ base <= Len(active)
  BY DEF PageTypeOK, ShownTypeOK, Book
<1>2. FailureAdded /\ Failure.form = "error"
  BY <1>1, FailureIs
<1>3. /\ Len(active') \in Nat /\ Len(active) <= Len(active')
      /\ \A j \in 1..Len(active') : j \in 1..Len(active) \/ j \in Len(active) + 1..Len(active')
      /\ \A i \in 1..Len(active) : i \in 1..Len(active') /\ active'[i] = active[i]
  BY <1>1, <1>2 DEF FailureAdded
<1>4. \A j \in 1..Len(active') :
         active'[j] = Failure \/ (j \in 1..Len(active) /\ active'[j] = active[j])
  BY <1>2, <1>3 DEF FailureAdded
<1>5. RowsStay
  <2>1. \A i \in 1..base : i \in 1..Len(active)
    BY <1>1
  <2>2. \A i \in 1..base : active'[i] = active[i]
    BY <1>3, <2>1
  <2>3. base <= Len(active')
    BY <1>1, <1>3
  <2>4. \A j \in 1..Len(active') : active'[j].form = "row" => \E i \in 1..Len(active) : active[i] = active'[j]
    BY <1>2, <1>4
  <2> QED
    BY <1>3, <2>2, <2>3, <2>4 DEF RowsStay
<1>6. ShownOnce(active')
  BY <1>2, <1>4 DEF ShownOnce, TailOnce
<1> QED
  BY <1>4, <1>5, <1>6

\* What was shown once is, after some is taken away.
LEMMA WithoutOnce ==
  ASSUME NEW items \in Seq(PageItem), NEW seen, ShownOnce(items)
  PROVE  ShownOnce(Without(items, seen))
<1> DEFINE w == Without(items, seen)
<1>1. PICK f : Picks(f, w, items, seen)
  BY WithoutIs
<1>2. w \in Seq(PageItem) /\ Len(w) \in Nat
  BY WithoutType
<1> HIDE DEF w
<1>3. \A k \in 1..Len(w) : f[k] \in Nat /\ f[k] \in 1..Len(items) /\ w[k] = items[f[k]]
  <2>1. \A k \in 1..Len(w) : f[k] \in Nat /\ f[k] > 0 /\ f[k] <= Len(items) /\ w[k] = items[f[k]]
    BY <1>1 DEF Picks, Ascends
  <2> QED
    BY <2>1
<1>4. \A i, j \in 1..Len(w) : i < j => f[i] < f[j]
  BY <1>1 DEF Picks, Ascends
<1>5. ASSUME NEW i \in 1..Len(w), NEW j \in 1..Len(w), w[i] = w[j], w[i].form \in {"row", "opt"}
      PROVE  i = j
  <2>1. /\ f[i] \in 1..Len(items) /\ f[j] \in 1..Len(items) /\ f[i] \in Nat /\ f[j] \in Nat
        /\ items[f[i]] = items[f[j]] /\ items[f[i]].form \in {"row", "opt"}
    BY <1>3, <1>5
  <2>2. f[i] = f[j]
    BY <2>1 DEF ShownOnce
  <2> QED
    BY <1>2, <1>4, <2>1, <2>2
<1> QED
  BY <1>5 DEF ShownOnce, w

\* A prompt taken back leaves the rows of the tail alone.
LEMMA WithoutStays ==
  ASSUME PageTypeOK, Book, TailOnce, NEW m, active' = Without(active, {Item(m, "opt")})
  PROVE  /\ RowsStay /\ ShownOnce(active')
         /\ \A j \in 1..Len(active') : \E i \in 1..Len(active) : active'[j] = active[i]
<1> DEFINE seen == {Item(m, "opt")}
<1>1. active \in Seq(PageItem) /\ base \in Nat /\ Len(active) \in Nat /\ base <= Len(active)
  BY DEF PageTypeOK, ShownTypeOK, Book
<1>2. active' \in Seq(PageItem) /\ Range(active') = Range(active) \ seen
  BY <1>1, WithoutType, WithoutMembers
<1>3. \A i \in 1..Len(active) : active[i].form = "row" => active[i] \notin seen
  BY Items
<1> HIDE DEF seen
<1>4. \A i \in 1..base : i \in 1..Len(active') /\ active'[i] = active[i]
  <2>1. UnseenUpTo(base, active, seen)
    BY <1>1, <1>3, BaseIsRows DEF UnseenUpTo
  <2> QED
    BY <1>1, <2>1, WithoutHead DEF seen
<1>5. Len(active') \in Nat /\ \A x : x \in Range(active') <=> \E i \in 1..Len(active') : active'[i] = x
  <2> DEFINE t == active'
  <2>1. t \in Seq(PageItem)
    BY <1>2
  <2> HIDE DEF t
  <2>2. Len(t) \in Nat /\ \A x : x \in Range(t) <=> \E i \in 1..Len(t) : t[i] = x
    BY <2>1, Ranges
  <2> QED
    BY <2>2 DEF t
<1>6. \A x : x \in Range(active) <=> \E i \in 1..Len(active) : active[i] = x
  BY <1>1, Ranges
<1>7. base <= Len(active')
  <2>1. CASE base = 0
    BY <1>5, <2>1
  <2>2. CASE base # 0
    <3>1. base \in 1..base
      BY <1>1, <2>2
    <3>2. base \in 1..Len(active')
      BY <1>4, <3>1
    <3> QED
      BY <1>1, <1>5, <3>2
  <2> QED
    BY <2>1, <2>2
<1>8. \A i \in 1..Len(active) : active[i].form = "row" => \E j \in 1..Len(active') : active'[j] = active[i]
  BY <1>2, <1>3, <1>5, <1>6
<1>9. \A j \in 1..Len(active') : \E i \in 1..Len(active) : active'[j] = active[i]
  BY <1>2, <1>5, <1>6
<1>10. RowsStay
  BY <1>4, <1>7, <1>8, <1>9 DEF RowsStay
<1>11. ShownOnce(active')
  BY <1>1, WithoutOnce DEF TailOnce
<1> QED
  BY <1>9, <1>10, <1>11

-----------------------------------------------------------------------------
(* An event of the stream is handled.                                      *)

\* The wire without its first event, for the parts that speak of it.
LEMMA WireTaken ==
  ASSUME PageTypeOK, PageInv, Deliver
  PROVE  /\ WireEnds'
         /\ \A i \in 1..Len(wire') : wire'[i].kind \in {"delta", "end"} => Begun(wire'[i].msg[1])
         /\ wire[1].kind \in {"delta", "end"} => Begun(wire[1].msg[1])
         /\ Still' => wire[1].kind \in {"completed", "ready"}
<1>1. /\ ServerKept /\ connected' = connected
      /\ wire \in Seq(Event) /\ wire # <<>> /\ wire' \in Seq(Event)
      /\ Len(wire) = Len(wire') + 1
      /\ \A i \in 1..Len(wire') : wire'[i] = wire[i + 1]
  BY DeliverIs
<1>2. Len(wire') \in Nat /\ 1 \in 1..Len(wire) /\ \A i \in 1..Len(wire') : i + 1 \in 1..Len(wire)
  BY <1>1
<1>3. \A i \in 1..Len(wire) : wire[i].kind \in {"delta", "end"} => Begun(wire[i].msg[1])
  BY DEF PageInv, AnswersBegun
<1>4. WireEnds'
  <2>1. wire' # <<>> => Len(wire') \in 1..Len(wire')
    BY <1>1, <1>2
  <2>2. wire' # <<>> => wire'[Len(wire')] = wire[Len(wire)]
    BY <1>1, <2>1
  <2> QED
    BY <1>1, <2>2 DEF PageInv, WireEnds, ServerKept
<1>5. Still' => wire[1].kind \in {"completed", "ready"}
  <2>1. wire' = <<>> => Len(wire) = 1
    BY <1>1
  <2> QED
    BY <1>1, <2>1 DEF PageInv, WireEnds, Still, ServerKept
<1> QED
  BY <1>1, <1>2, <1>3, <1>4, <1>5

\* An event keeps the invariant, unless it is an answer that a snapshot has
\* given already: the last event of a session at rest asks for a recovery.
LEMMA KeepsDeliver ==
  ASSUME PageTypeOK, PageTypeOK', PageInv, Deliver, slips' = {}
  PROVE  PageInv'
<1>1. /\ ServerKept /\ AnchorsKept /\ initial' = initial /\ probe' = probe
      /\ SendingKept /\ syncError' = syncError /\ wire[1] \in Event
      /\ OnAnswer(wire[1].kind, wire[1].msg) \/ OnTurn(wire[1].kind) \/ OnStatus(wire[1].kind)
  BY DeliverIs DEF AnchorsKept, SendingKept
<1> DEFINE kind == wire[1].kind
           m == wire[1].msg
<1>2. /\ WireEnds'
      /\ \A i \in 1..Len(wire') : wire'[i].kind \in {"delta", "end"} => Begun(wire'[i].msg[1])
      /\ kind \in {"delta", "end"} => Begun(m[1])
      /\ Still' => kind \in {"completed", "ready"}
  BY WireTaken
<1>3. /\ active \in Seq(PageItem) /\ journal \in Seq(Message) /\ issued \in Nat
      /\ leaf \in Nat /\ base \in Nat /\ recovery \in RecoveryRequest /\ m \in Message
      /\ Book /\ TailOnce
  BY <1>1 DEF PageTypeOK, ServerTypeOK, ShownTypeOK, RequestsTypeOK, Event, PageInv
<1>4. Grows /\ JournalOnce' /\ \A t : Begun(t) => BegunNext(t)
  BY <1>1, ServerStill DEF PageInv
<1>5. (\A i \in 1..Len(wire) : wire[i].kind \in {"delta", "end"} => Begun(wire[i].msg[1]))'
  BY <1>2, <1>4 DEF Begun, Waiting, BegunNext, WaitingNext
<1>6. /\ SameRequest(Moved(recovery), recovery) /\ Moved(recovery).pending = recovery.pending
      /\ Moved(recovery).moved = (recovery.at # "idle") /\ Moved(recovery) \in RecoveryRequest
  BY <1>3, MovedIs DEF SameRequest
<1>7. ASSUME NEW r \in RecoveryRequest, NEW mode \in {"live", "settle"}
      PROVE  /\ r.at = "idle" => Asks(Recover(r, mode), leaf, base)
             /\ r.at # "idle" => /\ SameRequest(Recover(r, mode), r)
                                 /\ Recover(r, mode).moved = r.moved
                                 /\ Recover(r, mode).pending # "none"
  BY <1>3, RecoverIs
<1> HIDE DEF kind, m
<1>8. CASE OnAnswer(kind, m) \/ (OnTurn(kind) /\ kind = "failed")
  <2>1. /\ recovery' = Moved(recovery) /\ touched' = TRUE
        /\ kind \in {"delta", "end", "failed"}
    BY <1>8 DEF OnAnswer, OnTurn
  <2>2. /\ RowsStay /\ ShownOnce(active')
        /\ \A j \in 1..Len(active') :
              \/ j \in 1..Len(active) /\ active'[j] = active[j]
              \/ kind = "failed" /\ active'[j] = Failure
              \/ /\ kind \in {"delta", "end"}
                 /\ active'[j].msg = m /\ active'[j].form \in {"part", "text"}
    <3>1. CASE OnAnswer(kind, m)
      <4> DEFINE form == IF kind = "delta" THEN "part" ELSE "text"
      <4>1. /\ active' = Streamed(active, m, form) /\ kind \in {"delta", "end"}
            /\ form \in {"part", "text"}
        BY <3>1 DEF OnAnswer
      <4> HIDE DEF form
      <4>2. /\ RowsStay /\ ShownOnce(active')
            /\ \A j \in 1..Len(active') :
                  active'[j] = Item(m, form) \/ (j \in 1..Len(active) /\ active'[j] = active[j])
        BY <1>3, <4>1, StreamedStays
      <4> QED
        BY <4>1, <4>2, Items
    <3>2. CASE OnTurn(kind) /\ kind = "failed"
      <4>1. active' = WithFailure
        BY <3>2 DEF OnTurn
      <4> QED
        BY <1>3, <3>2, <4>1, FailureStays
    <3> QED
      BY <1>8, <3>1, <3>2
  <2>12. Failure.form = "error"
    BY Items DEF Failure
  <2>3. Book' /\ \A k : TailRows(k) => TailRows(k)'
    BY <1>1, <1>3, <2>2, RowsStayBook DEF ServerKept
  <2>4. TailReaches'
    <3>1. PICK k \in Nat : TailRows(k) /\ TailAsked(k)
      BY DEF PageInv, TailReaches
    <3>2. TailAsked(k)'
      BY <1>1, <1>6, <2>1, <3>1, AskedSame DEF AnchorsKept
    <3> QED
      BY <2>3, <3>1, <3>2 DEF TailReaches
  <2>5. TailOnce'
    BY <1>1, <2>2, <2>12 DEF PageInv, TailOnce, ServerKept
  <2>6. Flight'
    BY <1>1, <1>3, <1>4, <1>6, <2>1, FlightKept DEF PageInv, RecoveryFollows
  <2>7. EmptyStart'
    <3>1. CASE kind = "failed"
      <4>1. Untold => Untold'
        BY <1>1, <2>2, <3>1 DEF Untold, SendingKept
      <4> QED
        BY <1>1, <2>1, <4>1 DEF PageInv, EmptyStart, ServerKept
    <3>2. CASE kind # "failed"
      BY <1>1, <1>2, <2>1, <3>2 DEF EmptyStart, Begun, ServerKept
    <3> QED
      BY <3>1, <3>2
  <2>8. SettledAnswers'
    BY <1>6, <2>1 DEF SettledAnswers, SameRequest
  <2>9. (\A i \in 1..Len(active) : IsAnswer(active[i]) => Begun(active[i].msg[1]))'
    <3>1. \A j \in 1..Len(active') : IsAnswer(active'[j]) => Begun(active'[j].msg[1])
      BY <1>2, <2>2, <2>12 DEF PageInv, AnswersBegun, IsAnswer
    <3> QED
      BY <1>4, <3>1 DEF IsAnswer, Begun, Waiting, BegunNext, WaitingNext
  <2>10. Debt'
    BY <1>2, <2>1 DEF Debt
  <2>11. IdlePending'
    BY <1>6, <2>1 DEF PageInv, IdlePending, SameRequest
  <2> QED
    BY <1>2, <1>4, <1>5, <2>3, <2>4, <2>5, <2>6, <2>7, <2>8, <2>9, <2>10, <2>11
       DEF PageInv, AnswersBegun
<1>9. CASE OnStatus(kind) \/ (OnTurn(kind) /\ kind # "failed")
  <2>1. active' = active /\ (touched' = TRUE \/ touched' = touched)
    BY <1>9 DEF OnTurn, OnStatus
  <2>2. /\ \/ SameRequest(recovery', recovery)
           \/ recovery.at = "idle" /\ Asks(recovery', leaf, base)
        /\ SameRequest(recovery', recovery) => (recovery.moved => recovery'.moved)
        /\ kind \in {"completed", "ready"} => recovery'.pending # "none" \/ Asks(recovery', leaf, base)
        /\ IdlePending'
    <3>1. CASE kind = "completed"
      <4>1. recovery' = Recover(Moved(recovery), "settle")
        BY <1>9, <3>1 DEF OnTurn, OnStatus
      <4> DEFINE r == Moved(recovery)
      <4>2. /\ r.at = "idle" => Asks(recovery', leaf, base)
            /\ r.at # "idle" => /\ SameRequest(recovery', r)
                                /\ recovery'.moved = r.moved
                                /\ recovery'.pending # "none"
        BY <1>6, <1>7, <4>1
      <4>3. r.at = recovery.at /\ (recovery.at # "idle" => r.moved)
        BY <1>6 DEF SameRequest
      <4>4. SameRequest(r, recovery)
        BY <1>6
      <4> HIDE DEF r
      <4> QED
        BY <4>2, <4>3, <4>4 DEF SameRequest, Asks, IdlePending
    <3>2. CASE kind = "ready"
      <4>1. recovery' = Recover(recovery, "live")
        BY <1>9, <3>2 DEF OnTurn, OnStatus
      <4>2. /\ recovery.at = "idle" => Asks(recovery', leaf, base)
            /\ recovery.at # "idle" => /\ SameRequest(recovery', recovery)
                                       /\ recovery'.moved = recovery.moved
                                       /\ recovery'.pending # "none"
        BY <1>3, <1>7, <4>1
      <4> QED
        BY <4>2 DEF SameRequest, Asks, IdlePending
    <3>3. CASE kind \notin {"completed", "ready"}
      <4>1. recovery' = Moved(recovery) \/ recovery' = recovery
        BY <1>9, <3>3 DEF OnTurn, OnStatus
      <4> QED
        BY <1>3, <1>6, <3>3, <4>1 DEF SameRequest, PageInv, IdlePending
    <3> QED
      BY <3>1, <3>2, <3>3
  <2>3. RecoveryFollows
    BY <1>1, <2>2 DEF RecoveryFollows, AnchorsKept
  <2>4. ShownKept
    BY <1>1, <2>1 DEF ShownKept, AnchorsKept
  <2>5. Book'
    BY <1>3, <1>4, <2>4, BookGrows
  <2>6. TailReaches' /\ Flight'
    BY <1>1, <1>3, <1>4, <2>3, <2>4, TailKept, FlightKept DEF PageInv
  <2>7. TailOnce'
    BY <1>1, <2>1 DEF PageInv, TailOnce, ServerKept
  <2>8. EmptyStart'
    BY <1>1, <2>1 DEF PageInv, EmptyStart, Untold, ServerKept, SendingKept, AnchorsKept
  <2>9. SettledAnswers'
    BY <1>1, <2>1, <2>2, SettledStays DEF PageInv, ServerKept, SameRequest, Asks
  <2>10. (\A i \in 1..Len(active) : IsAnswer(active[i]) => Begun(active[i].msg[1]))'
    BY <1>4, <2>1 DEF PageInv, AnswersBegun, IsAnswer, Begun, Waiting, BegunNext, WaitingNext
  <2>11. Debt'
    BY <1>2, <2>2 DEF Debt, RecoveryCarries, Asks
  <2> QED
    BY <1>2, <1>4, <1>5, <2>2, <2>5, <2>6, <2>7, <2>8, <2>9, <2>10, <2>11
       DEF PageInv, AnswersBegun
<1> QED
  BY <1>1, <1>8, <1>9 DEF kind, m

-----------------------------------------------------------------------------
(* A prompt is typed, and answered.                                        *)

\* What sending a prompt changes.
LEMMA SendIs ==
  ASSUME PageTypeOK, Send
  PROVE  /\ journal' = journal /\ status' = status /\ replying' = replying
         /\ part' = part /\ open' = open /\ issued' = issued + 1 /\ WireKept /\ AnchorsKept
         /\ initial' = initial /\ probe' = probe /\ syncError' = syncError
         /\ sending.at = "none" /\ sending'.at = "asked" /\ sending'.turn = issued + 1
         /\ sending'.hit = (recovery.at # "idle")
         /\ active' = Append(active, Item(<<issued + 1, 0>>, "opt"))
         /\ recovery' = Moved(recovery) /\ touched' = TRUE
<1>1. /\ UNCHANGED server /\ UNCHANGED anchor
      /\ wire' = wire /\ connected' = connected /\ stable' = stable
      /\ issued' = issued + 1 /\ initial' = initial /\ probe' = probe /\ syncError' = syncError
      /\ sending.at = "none"
      /\ sending' = [at |-> "asked", turn |-> issued + 1, hit |-> recovery.at # "idle"]
      /\ active' = Append(active, Item(<<issued + 1, 0>>, "opt"))
      /\ recovery' = Moved(recovery) /\ touched' = TRUE
  BY DEF Send
<1>2. /\ sending'.at = "asked" /\ sending'.turn = issued + 1
      /\ sending'.hit = (recovery.at # "idle")
  BY <1>1
<1>3. AnchorsKept /\ WireKept
  BY <1>1, Frames DEF AnchorsKept, WireKept
<1> QED
  BY <1>1, <1>2, <1>3, Frames

\* A prompt that is typed keeps the invariant: a recovery under way is marked.
LEMMA KeepsSend ==
  ASSUME PageTypeOK, PageTypeOK', PageInv, Send
  PROVE  PageInv'
<1> DEFINE item == Item(<<issued + 1, 0>>, "opt")
<1>1. /\ journal' = journal /\ status' = status /\ replying' = replying
      /\ part' = part /\ open' = open /\ issued' = issued + 1 /\ WireKept /\ AnchorsKept
      /\ initial' = initial /\ probe' = probe /\ syncError' = syncError
      /\ sending.at = "none" /\ sending'.at = "asked" /\ sending'.turn = issued + 1
      /\ sending'.hit = (recovery.at # "idle")
      /\ active' = Append(active, item)
      /\ recovery' = Moved(recovery) /\ touched' = TRUE
  BY SendIs
<1>2. /\ active \in Seq(PageItem) /\ journal \in Seq(Message) /\ issued \in Nat
      /\ recovery \in RecoveryRequest /\ base \in Nat /\ base <= Len(active) /\ Len(active) \in Nat
      /\ Book /\ TailOnce /\ JournalOnce
  BY DEF PageTypeOK, ServerTypeOK, ShownTypeOK, RequestsTypeOK, PageInv, Book
<1>3. item.form = "opt" /\ item.msg = <<issued + 1, 0>> /\ item.msg[1] = issued + 1
  BY Items
<1>4. /\ SameRequest(recovery', recovery) /\ recovery'.pending = recovery.pending
      /\ recovery'.moved = (recovery.at # "idle")
  BY <1>1, <1>2, MovedIs
<1> HIDE DEF item
<1>5. /\ Len(active') = Len(active) + 1 /\ active'[Len(active) + 1] = item
      /\ \A i \in 1..Len(active) : active'[i] = active[i] /\ i \in 1..Len(active')
      /\ \A j \in 1..Len(active') : j \in 1..Len(active) \/ j = Len(active) + 1
  <2>1. Len(active') = Len(active) + 1
    BY <1>1, <1>2
  <2>2. active'[Len(active) + 1] = item /\ \A i \in 1..Len(active) : active'[i] = active[i]
    BY <1>1, <1>2
  <2> QED
    BY <1>2, <2>1, <2>2
<1>6. active = <<>> => active' = <<item>>
  BY <1>1
<1>7. Grows /\ StaysBegun
  BY <1>1, <1>2 DEF Grows, StaysBegun, WaitingNext, Waiting
<1>8. \A t : Begun(t) => BegunNext(t)
  BY <1>2, <1>7, StillBegun
<1>9. JournalOnce'
  <2>1. (\A i \in 1..Len(journal) : Begun(journal[i][1]))' /\ (replying # 0 => Begun(replying))'
    BY <1>1, <1>2, <1>8 DEF JournalOnce, Begun, Waiting, BegunNext, WaitingNext
  <2>2. (sending.at = "asked" => sending.turn \in 1..issued)' /\ (sending.at = "ok" => journal # <<>>)'
    BY <1>1, <1>2
  <2>3. /\ Once(journal) /\ (replying = 0 => ~open)
        /\ \A i \in 1..Len(journal) : journal[i][1] = replying =>
              journal[i][2] <= part /\ (open => journal[i][2] # part)
    BY <1>2 DEF JournalOnce
  <2> QED
    BY <1>1, <2>1, <2>2, <2>3 DEF JournalOnce
<1>10. AnswersBegun'
  <2>1. (\A i \in 1..Len(wire) : wire[i].kind \in {"delta", "end"} => Begun(wire[i].msg[1]))'
    BY <1>1, <1>8 DEF PageInv, AnswersBegun, WireKept, Begun, Waiting, BegunNext, WaitingNext
  <2>2. \A j \in 1..Len(active') : IsAnswer(active'[j]) => Begun(active'[j].msg[1])
    BY <1>3, <1>5 DEF PageInv, AnswersBegun, IsAnswer
  <2>3. (\A i \in 1..Len(active) : IsAnswer(active[i]) => Begun(active[i].msg[1]))'
    BY <1>8, <2>2 DEF IsAnswer, Begun, Waiting, BegunNext, WaitingNext
  <2> QED
    BY <2>1, <2>3 DEF AnswersBegun
<1>11. RowsStay
  <2>1. \A i \in 1..base : i \in 1..Len(active)
    BY <1>2
  <2>2. base <= Len(active')
    BY <1>2, <1>5
  <2> QED
    BY <1>3, <1>5, <2>1, <2>2 DEF RowsStay
<1>12. Book' /\ \A k : TailRows(k) => TailRows(k)'
  BY <1>1, <1>2, <1>11, RowsStayBook
<1>13. TailReaches'
  <2>1. PICK k \in Nat : TailRows(k) /\ TailAsked(k)
    BY DEF PageInv, TailReaches
  <2>2. TailAsked(k)'
    BY <1>1, <1>4, <2>1, AskedSame DEF AnchorsKept
  <2> QED
    BY <1>12, <2>1, <2>2 DEF TailReaches
<1>14. TailOnce'
  <2>1. \A i \in 1..Len(active) : active[i].msg[1] \in Nat
    <3>1. \A i \in 1..Len(active) : active[i] \in PageItem
      BY <1>2
    <3>2. \A i \in PageItem : i.msg[1] \in Nat
      BY DEF PageItem, Message
    <3> QED
      BY <3>1, <3>2
  <2>2. \A i \in 1..Len(active) : active[i].form = "opt" => active[i].msg[1] <= issued
    BY <1>2 DEF TailOnce
  <2>3. \A i \in 1..Len(active) : active[i] # item
    BY <1>2, <1>3, <2>1, <2>2
  <2>4. ShownOnce(active')
    BY <1>2, <1>5, <2>3 DEF ShownOnce, TailOnce
  <2>5. \A j \in 1..Len(active') : active'[j].form = "opt" => active'[j].msg[1] <= issued + 1
    BY <1>2, <1>3, <1>5, <2>1, <2>2
  <2> QED
    BY <1>1, <2>4, <2>5 DEF TailOnce
<1>15. Flight'
  BY <1>1, <1>2, <1>4, <1>7, FlightKept DEF PageInv, RecoveryFollows
<1>16. Untold => Untold'
  BY <1>1, <1>6 DEF Untold, item
<1>17. EmptyStart'
  BY <1>1, <1>16 DEF PageInv, EmptyStart
<1>18. SettledAnswers'
  BY <1>4 DEF SettledAnswers, SameRequest
<1>19. WireEnds'
  BY <1>1 DEF PageInv, WireEnds, WireKept
<1>20. IdlePending'
  BY <1>4 DEF PageInv, IdlePending, SameRequest
<1>21. Debt'
  <2>1. Still' => Still
    BY <1>1 DEF Still, WireKept
  <2>2. ProbeCarries => ProbeCarries'
    BY <1>1 DEF ProbeCarries
  <2>3. CASE recovery.at # "idle"
    <3>1. Excused'
      BY <1>1, <1>4, <2>3 DEF Excused
    <3> QED
      BY <3>1 DEF Debt
  <2>4. CASE recovery.at = "idle"
    <3>1. RecoveryCarries => RecoveryCarries'
      BY <1>4, <2>4 DEF RecoveryCarries
    <3>2. Complete => Complete'
      BY <1>1, <1>16 DEF Complete, AnchorsKept
    <3>3. Excused => Excused'
      BY <1>1, <1>4, <2>4, <3>2 DEF Excused, SameRequest
    <3> QED
      BY <2>1, <2>2, <3>1, <3>3 DEF PageInv, Debt
  <2> QED
    BY <2>3, <2>4
<1> QED
  BY <1>9, <1>10, <1>12, <1>13, <1>14, <1>15, <1>17, <1>18, <1>19, <1>20, <1>21 DEF PageInv

\* What the answer to a prompt changes.
LEMMA TakeReplyIs ==
  ASSUME PageTypeOK, TakeReply, slips' = {}
  PROVE  /\ ServerKept /\ WireKept /\ AnchorsKept /\ touched' = touched /\ initial' = initial
         /\ recovery' = recovery /\ probe' = probe /\ syncError' = syncError
         /\ sending.at \in {"ok", "failed"} /\ sending' = NotSending /\ sending'.at = "none"
         /\ sending.at = "ok" => active' = active
         /\ sending.at = "failed" =>
               ~sending.hit /\ active' = Without(active, {Item(<<sending.turn, 0>>, "opt")})
<1>1. /\ UNCHANGED server /\ UNCHANGED anchor /\ issued' = issued
      /\ wire' = wire /\ connected' = connected /\ stable' = stable
      /\ touched' = touched /\ initial' = initial /\ recovery' = recovery /\ probe' = probe
      /\ syncError' = syncError
      /\ sending.at \in {"ok", "failed"} /\ sending' = NotSending
  BY DEF TakeReply
<1>2. ServerKept /\ WireKept /\ AnchorsKept
  BY <1>1, Frames DEF ServerKept, WireKept, AnchorsKept
<1>3. CASE sending.at = "ok"
  BY <1>1, <1>2, <1>3, Records DEF TakeReply
<1>4. CASE sending.at # "ok"
  <2>1. /\ active' = Without(active, {Item(<<sending.turn, 0>>, "opt")})
        /\ slips' = IF sending.hit THEN slips \cup {"dropped"} ELSE slips
    BY <1>4 DEF TakeReply
  <2> QED
    BY <1>1, <1>2, <1>4, <2>1, Records
<1> QED
  BY <1>3, <1>4

\* It keeps the invariant, unless it takes back a prompt that had stopped a
\* recovery.
LEMMA KeepsTakeReply ==
  ASSUME PageTypeOK, PageTypeOK', PageInv, TakeReply, slips' = {}
  PROVE  PageInv'
<1>1. /\ ServerKept /\ WireKept /\ AnchorsKept /\ touched' = touched /\ initial' = initial
      /\ recovery' = recovery /\ probe' = probe /\ syncError' = syncError
      /\ sending.at \in {"ok", "failed"} /\ sending'.at = "none"
      /\ sending.at = "ok" => active' = active
      /\ sending.at = "failed" =>
            ~sending.hit /\ active' = Without(active, {Item(<<sending.turn, 0>>, "opt")})
  BY TakeReplyIs
<1>2. /\ active \in Seq(PageItem) /\ journal \in Seq(Message) /\ issued \in Nat
      /\ recovery \in RecoveryRequest /\ base \in Nat /\ base <= Len(active) /\ Len(active) \in Nat
      /\ Book /\ TailOnce /\ JournalOnce
  BY DEF PageTypeOK, ServerTypeOK, ShownTypeOK, RequestsTypeOK, PageInv, Book
<1>3. /\ RowsStay /\ ShownOnce(active')
      /\ \A j \in 1..Len(active') : \E i \in 1..Len(active) : active'[j] = active[i]
  <2>1. CASE sending.at = "ok"
    <3>1. active' = active
      BY <1>1, <2>1
    <3> QED
      BY <1>2, <3>1 DEF RowsStay, TailOnce
  <2>2. CASE sending.at = "failed"
    BY <1>1, <1>2, <2>2, WithoutStays
  <2> QED
    BY <1>1, <2>1, <2>2
<1>4. Grows /\ StaysBegun
  BY <1>1, <1>2 DEF Grows, StaysBegun, WaitingNext, Waiting, ServerKept
<1>5. \A t : Begun(t) => BegunNext(t)
  BY <1>2, <1>4, StillBegun
<1>6. JournalOnce'
  <2>1. (\A i \in 1..Len(journal) : Begun(journal[i][1]))' /\ (replying # 0 => Begun(replying))'
    BY <1>1, <1>2, <1>5 DEF JournalOnce, ServerKept, Begun, Waiting, BegunNext, WaitingNext
  <2>2. /\ Once(journal) /\ (replying = 0 => ~open)
        /\ \A i \in 1..Len(journal) : journal[i][1] = replying =>
              journal[i][2] <= part /\ (open => journal[i][2] # part)
    BY <1>2 DEF JournalOnce
  <2> QED
    BY <1>1, <2>1, <2>2 DEF JournalOnce, ServerKept
<1>7. AnswersBegun'
  <2>1. (\A i \in 1..Len(wire) : wire[i].kind \in {"delta", "end"} => Begun(wire[i].msg[1]))'
    BY <1>1, <1>5 DEF PageInv, AnswersBegun, WireKept, Begun, Waiting, BegunNext, WaitingNext
  <2>2. \A j \in 1..Len(active') : IsAnswer(active'[j]) => Begun(active'[j].msg[1])
    BY <1>3 DEF PageInv, AnswersBegun, IsAnswer
  <2>3. (\A i \in 1..Len(active) : IsAnswer(active[i]) => Begun(active[i].msg[1]))'
    BY <1>5, <2>2 DEF IsAnswer, Begun, Waiting, BegunNext, WaitingNext
  <2> QED
    BY <2>1, <2>3 DEF AnswersBegun
<1>8. Book' /\ \A k : TailRows(k) => TailRows(k)'
  BY <1>1, <1>2, <1>3, RowsStayBook DEF ServerKept
<1>9. TailReaches'
  <2>1. PICK k \in Nat : TailRows(k) /\ TailAsked(k)
    BY DEF PageInv, TailReaches
  <2>2. TailAsked(k)'
    BY <1>1, <2>1 DEF TailAsked, AnchorsKept
  <2> QED
    BY <1>8, <2>1, <2>2 DEF TailReaches
<1>10. TailOnce'
  BY <1>1, <1>2, <1>3 DEF TailOnce, ServerKept
<1>11. Flight'
  BY <1>1, <1>2, <1>4, FlightKept, SameIsSame DEF PageInv
<1>12. Untold => Untold'
  <2> SUFFICES ASSUME Untold, NEW j \in 1..Len(active') PROVE active'[j] = Failure
    BY <1>1 DEF Untold
  <2>1. PICK i \in 1..Len(active) : active'[j] = active[i]
    BY <1>3
  <2>2. CASE sending.at = "ok"
    BY <2>1, <2>2 DEF Untold
  <2>3. CASE sending.at = "failed"
    <3>1. active' \in Seq(PageItem)
      BY DEF PageTypeOK, ShownTypeOK
    <3>2. Range(active') = Range(active) \ {Item(<<sending.turn, 0>>, "opt")}
      BY <1>1, <1>2, <2>3, WithoutMembers
    <3>3. active'[j] # Item(<<sending.turn, 0>>, "opt")
      BY <3>1, <3>2, Ranges
    <3> QED
      BY <2>1, <3>3 DEF Untold
  <2> QED
    BY <1>1, <2>2, <2>3
<1>13. EmptyStart'
  <2>1. active = <<>> => active' = <<>>
    <3>1. active = <<>> => ~(Len(active') >= 1)
      BY <1>3
    <3> QED
      BY <3>1 DEF PageTypeOK, ShownTypeOK
  <2> QED
    BY <1>1, <1>12, <2>1 DEF PageInv, EmptyStart, ServerKept, AnchorsKept
<1>14. SettledAnswers'
  BY <1>1, <1>3 DEF PageInv, SettledAnswers, IsAnswer, ServerKept
<1>15. WireEnds' /\ IdlePending'
  BY <1>1 DEF PageInv, WireEnds, WireKept, ServerKept, IdlePending
<1>16. Debt'
  <2>1. Still' => Still
    BY <1>1 DEF Still, WireKept, ServerKept
  <2>2. ProbeCarries => ProbeCarries'
    BY <1>1 DEF ProbeCarries
  <2>3. Snapshot(recovery.since)' = Snapshot(recovery.since)
    BY <1>1 DEF Snapshot, RuntimeState, ServerKept
  <2>4. RecoveryCarries => RecoveryCarries'
    BY <1>1, <2>3 DEF RecoveryCarries
  <2>5. Complete => Complete'
    BY <1>1, <1>12 DEF Complete, AnchorsKept, ServerKept
  <2>6. Excused => Excused'
    BY <1>1, <2>5 DEF Excused
  <2> QED
    BY <2>1, <2>2, <2>4, <2>6 DEF PageInv, Debt
<1> QED
  BY <1>6, <1>7, <1>8, <1>9, <1>10, <1>11, <1>13, <1>14, <1>15, <1>16 DEF PageInv

-----------------------------------------------------------------------------
(* A snapshot's answer is taken.                                           *)

\* The two parts of a sequence.
LEMMA Halves ==
  ASSUME NEW T, NEW s \in Seq(T), NEW n \in 0..Len(s)
  PROVE  /\ SubSeq(s, 1, n) \in Seq(T) /\ Len(SubSeq(s, 1, n)) = n
         /\ \A i \in 1..n : SubSeq(s, 1, n)[i] = s[i]
         /\ SubSeq(s, n + 1, Len(s)) \in Seq(T)
         /\ Len(SubSeq(s, n + 1, Len(s))) = Len(s) - n
         /\ \A i \in 1..Len(s) - n : SubSeq(s, n + 1, Len(s))[i] = s[n + i]
<1>1. Len(s) \in Nat /\ n \in Nat
  OBVIOUS
<1>2. \A i \in 1..n : i \in 1..Len(s)
  BY <1>1
<1>3. \A i \in n + 1..Len(s) : i \in 1..Len(s)
  BY <1>1
<1> QED
  BY <1>1, <1>2, <1>3

\* Rows of the journal are each there once.
LEMMA RowsOnce ==
  ASSUME journal \in Seq(Message), Once(journal), NEW q \in Nat,
         NEW items \in Seq(PageItem), RowsAfter(q, items, journal)
  PROVE  OnlyRows(items) /\ ShownOnce(items)
<1>1. /\ Len(items) \in Nat /\ Len(journal) \in Nat /\ q + Len(items) <= Len(journal)
      /\ \A i \in 1..Len(items) : items[i] = Item(journal[q + i], "row")
  BY DEF RowsAfter
<1>2. OnlyRows(items)
  BY <1>1, Items DEF OnlyRows
<1>3. ASSUME NEW i \in 1..Len(items), NEW j \in 1..Len(items), items[i] = items[j]
      PROVE  i = j
  <2>1. journal[q + i] = journal[q + j]
    BY <1>1, <1>3, Items
  <2>2. q + i \in 1..Len(journal) /\ q + j \in 1..Len(journal)
    BY <1>1
  <2>3. q + i = q + j
    BY <2>1, <2>2 DEF Once
  <2> QED
    BY <1>1, <2>3
<1> QED
  BY <1>2, <1>3 DEF ShownOnce

RowsSince(got, since, rows) ==
    /\ RowsAfter(since, rows, journal) /\ got.leaf <= Len(journal)
    /\ got.leaf # 0 => since + Len(rows) = got.leaf /\ got.state.status = "ready"
    /\ got.leaf = 0 => Len(rows) = 0
    /\ Len(got.entries) = Len(rows)
    /\ \A i \in 1..Len(rows) : got.entries[i] = journal[since + i]

\* What a sound answer holds, as rows.
LEMMA SoundRows ==
  ASSUME journal \in Seq(Message), NEW got \in Window, NEW since \in Nat,
         since <= Len(journal), WindowIsSound(got, since, journal),
         NEW rows \in Seq(PageItem), rows = Rows(got.entries)
  PROVE  RowsSince(got, since, rows)
<1>1. /\ got.entries \in Seq(Message) /\ got.leaf \in Nat /\ Len(got.entries) \in Nat
      /\ Len(journal) \in Nat
  BY DEF Window
<1>2. /\ Len(rows) = Len(got.entries)
      /\ \A i \in 1..Len(rows) : rows[i] = Item(got.entries[i], "row")
  BY <1>1, RowsType
<1>3. CASE got.leaf = 0 /\ got.entries = <<>>
  <2>1. Len(rows) = 0
    BY <1>2, <1>3
  <2> QED
    BY <1>1, <1>2, <1>3, <2>1 DEF RowsAfter, RowsSince
<1>4. CASE /\ since <= got.leaf /\ got.leaf <= Len(journal) /\ got.state.status = "ready"
           /\ Len(got.entries) = got.leaf - since
           /\ \A i \in 1..Len(got.entries) : got.entries[i] = journal[since + i]
  <2>1. since + Len(rows) = got.leaf /\ (got.leaf = 0 => Len(rows) = 0)
    BY <1>1, <1>2, <1>4
  <2>2. \A i \in 1..Len(rows) : rows[i] = Item(journal[since + i], "row")
    BY <1>2, <1>4
  <2> QED
    BY <1>1, <1>2, <1>4, <2>1, <2>2 DEF RowsAfter, RowsSince
<1> QED
  BY <1>3, <1>4 DEF WindowIsSound

\* No item but a row is new; and, the items that were there keep their message.
NoneNew ==
    \A i \in 1..Len(active') : active'[i].form # "row" =>
        \E j \in 1..Len(active) : active'[i] = active[j]
MessagesStay == \A i \in 1..Len(active) : i \in 1..Len(active') /\ active'[i].msg = active[i].msg

MergeKeeps(t, items, rows) ==
    /\ t \in Seq(PageItem) /\ ShownOnce(t)
    /\ \A i \in 1..Len(t) : t[i] \in Range(rows) \/ (i \in 1..Len(items) /\ t[i] = items[i])
    /\ \A i \in 1..Len(t) : t[i].form # "row" => i \in 1..Len(items) /\ t[i] = items[i]
    /\ \A i \in 1..Len(items) : i \in 1..Len(t) /\ t[i].msg = items[i].msg

\* A merge brings no item but rows.
LEMMA MergedNone ==
  ASSUME NEW t, NEW items \in Seq(PageItem), NEW rows \in Seq(PageItem), OnlyRows(rows),
         Merges(t, items, rows)
  PROVE  MergeKeeps(t, items, rows)
<1>1. /\ t \in Seq(PageItem) /\ Len(t) \in Nat /\ Len(items) \in Nat /\ Len(t) >= Len(items)
      /\ ShownOnce(t)
  BY DEF Merges
<1>2. \A i \in 1..Len(t) : t[i] \in Range(rows) \/ (i \in 1..Len(items) /\ t[i] = items[i])
  <2> TAKE i \in 1..Len(t)
  <2>1. i \in 1..Len(items) \/ i \in Len(items) + 1..Len(t)
    BY <1>1
  <2> QED
    BY <2>1 DEF Merges
<1>3. \A x \in Range(rows) : x.form = "row"
  BY Ranges DEF OnlyRows
<1>4. \A i \in 1..Len(items) : i \in 1..Len(t) /\ t[i].msg = items[i].msg
  BY <1>1 DEF Merges
<1> QED
  BY <1>1, <1>2, <1>3, <1>4 DEF MergeKeeps

\* A window with no entry changes nothing while nothing has been loaded.
LEMMA EmptyWindow ==
  ASSUME PageTypeOK, Book, leaf = 0, NEW keepTail \in BOOLEAN,
         IF stable \o active # <<>>
               THEN stable' = stable /\ active' = active
               ELSE WindowTaken(<<>>, 0, keepTail)
  PROVE  stable' = stable /\ active' = active
<1>1. stable = <<>> /\ active \in Seq(PageItem)
  BY DEF Book, PageTypeOK, ShownTypeOK
<1>2. CASE active # <<>>
  <2>1. stable \o active # <<>>
    <3>1. Len(active) # 0 /\ Len(stable \o active) = Len(active)
      BY <1>1, <1>2
    <3> QED
      BY <3>1
  <2> QED
    BY <2>1
<1>3. CASE active = <<>>
  <2>1. stable \o active = <<>>
    BY <1>1, <1>3
  <2>2. <<>> \in Seq(PageItem) /\ SubSeq(<<>>, 1, 0) = <<>> /\ SubSeq(<<>>, 0 + 1, Len(<<>>)) = <<>>
    OBVIOUS
  <2>3. Merge(<<>>, <<>>) = <<>>
    <3>1. OnlyRows(<<>>) /\ ShownOnce(<<>>)
      BY DEF OnlyRows, ShownOnce
    <3>2. Merges(Merge(<<>>, <<>>), <<>>, <<>>)
      BY <2>2, <3>1, MergeIs
    <3> DEFINE t == Merge(<<>>, <<>>)
    <3>3. Merges(t, <<>>, <<>>)
      BY <3>2
    <3> HIDE DEF t
    <3>4. t \in Seq(PageItem) /\ \A i \in 0 + 1..Len(t) : t[i] \in Range(<<>>)
      BY <3>3 DEF Merges
    <3>5. Range(<<>>) = {}
      BY DEF Range
    <3>6. Len(t) = 0
      <4>1. Len(t) \in Nat
        BY <3>4
      <4>2. Len(t) # 0 => Len(t) \in 0 + 1..Len(t)
        BY <4>1
      <4> QED
        BY <3>4, <3>5, <4>2
    <3>7. t = <<>>
      BY <3>4, <3>6
    <3> QED
      BY <3>7 DEF t
  <2> QED
    BY <1>1, <1>3, <2>1, <2>2, <2>3 DEF WindowTaken
<1> QED
  BY <1>2, <1>3

\* What a window is, when it is taken and counts: the rows up to its leaf.
RowsUpTo(k) ==
    /\ leaf' = k /\ k \in Nat /\ k <= Len(journal) /\ Len(stable') + base' = k
    /\ Book' /\ TailRows(k)' /\ ShownOnce(active') /\ NoneNew
WindowCounts(got, rows) ==
    /\ base' <= Len(active')
    /\ stable' \o SubSeq(active', 1, base') = rows
    /\ \A i \in base' + 1..Len(active') : active'[i].msg \notin Range(got.entries)

\* What it is for a window to be anchored, position by position.
LEMMA AnchoredIs ==
  ASSUME PageTypeOK', NEW got \in Window, Anchored(got)
  PROVE  WindowCounts(got, Rows(got.entries))
<1> DEFINE t == active'
           b == base'
           rest == SubSeq(t, b + 1, Len(t))
<1>1. t \in Seq(PageItem) /\ b \in Nat /\ b <= Len(t) /\ Len(t) \in Nat
  BY DEF PageTypeOK, ShownTypeOK, Anchored
<1>2. stable' \o SubSeq(t, 1, b) = Rows(got.entries)
  BY DEF Anchored
<1>3. Range(Messages(rest)) \cap Range(got.entries) = {}
  BY DEF Anchored
<1> HIDE DEF t, b
<1>4. Len(rest) = Len(t) - b /\ \A i \in 1..Len(t) - b : rest[i] = t[b + i]
  <2>1. b \in 0..Len(t)
    BY <1>1
  <2> QED
    BY <1>1, <2>1, Halves
<1> HIDE DEF rest
<1>5. ASSUME NEW i \in b + 1..Len(t) PROVE t[i].msg \notin Range(got.entries)
  <2>1. i - b \in 1..Len(rest) /\ t[i] = rest[i - b]
    <3>1. i - b \in 1..Len(t) - b /\ b + (i - b) = i
      BY <1>1
    <3> QED
      BY <1>4, <3>1
  <2>2. t[i].msg \in Range(Messages(rest))
    BY <2>1 DEF Range, Messages
  <2> QED
    BY <1>3, <2>2
<1> QED
  BY <1>1, <1>2, <1>5 DEF WindowCounts, t, b

\* The rows of a window that counts are where the book says.
LEMMA CountedRows ==
  ASSUME PageTypeOK', NEW rows \in Seq(PageItem), NEW got, WindowCounts(got, rows)
  PROVE  /\ Len(rows) = Len(stable') + base'
         /\ \A i \in 1..Len(stable') : stable'[i] = rows[i]
         /\ \A i \in 1..base' : active'[i] = rows[Len(stable') + i]
<1> DEFINE t == active'
           s == stable'
           b == base'
           head == SubSeq(t, 1, b)
<1>1. /\ t \in Seq(PageItem) /\ s \in Seq(PageItem) /\ b \in Nat /\ b <= Len(t)
      /\ Len(t) \in Nat /\ Len(s) \in Nat
  BY DEF PageTypeOK, ShownTypeOK, WindowCounts
<1>2. s \o head = rows
  BY DEF WindowCounts
<1> HIDE DEF t, s, b
<1>3. head \in Seq(PageItem) /\ Len(head) = b /\ \A i \in 1..b : head[i] = t[i]
  <2>1. b \in 0..Len(t)
    BY <1>1
  <2> QED
    BY <1>1, <2>1, Halves
<1> HIDE DEF head
<1>4. Follows(rows, s, head)
  BY <1>1, <1>2, <1>3, Concatenated
<1>5. /\ Len(rows) = Len(s) + b /\ \A i \in 1..Len(s) : s[i] = rows[i]
      /\ \A i \in 1..b : t[i] = rows[Len(s) + i]
  BY <1>3, <1>4 DEF Follows
<1> QED
  BY <1>5 DEF t, s, b

\* What the tail gets of a window.
LEMMA WindowTail ==
  ASSUME PageTypeOK, PageTypeOK', NEW rows \in Seq(PageItem), OnlyRows(rows), ShownOnce(rows),
         NEW n \in 0..Len(rows), NEW keepTail \in BOOLEAN, WindowTaken(rows, n, keepTail),
         ShownOnce(active), base' = Len(rows) - n
  PROVE  /\ Len(stable') = n /\ ShownOnce(active') /\ NoneNew
         /\ \A i \in 1..Len(active') :
              \/ active'[i] \in Range(rows)
              \/ i \in 1..Len(active) /\ active'[i] = active[i]
         /\ keepTail => MessagesStay
         /\ ~keepTail => Len(active') = base'
<1> DEFINE tail == SubSeq(rows, n + 1, Len(rows))
           t == active'
<1>1. /\ tail \in Seq(PageItem) /\ Len(tail) = Len(rows) - n
      /\ \A i \in 1..Len(rows) - n : tail[i] = rows[n + i]
      /\ Len(rows) \in Nat /\ Len(tail) \in Nat
  BY Halves
<1>2. Len(stable') = n
  BY Halves DEF WindowTaken
<1>3. t = IF keepTail THEN Merge(active, tail) ELSE tail
  BY DEF WindowTaken
<1> HIDE DEF tail, t
<1>4. \A i \in 1..Len(tail) : n + i \in 1..Len(rows)
  BY <1>1
<1>5. OnlyRows(tail) /\ ShownOnce(tail) /\ Range(tail) \subseteq Range(rows)
  <2>1. OnlyRows(tail)
    BY <1>1, <1>4 DEF OnlyRows
  <2>2. ASSUME NEW i \in 1..Len(tail), NEW j \in 1..Len(tail), tail[i] = tail[j] PROVE i = j
    <3>1. rows[n + i] = rows[n + j] /\ n + i \in 1..Len(rows) /\ n + j \in 1..Len(rows)
      BY <1>1, <1>4, <2>2
    <3>2. n + i = n + j
      BY <3>1 DEF ShownOnce, OnlyRows
    <3> QED
      BY <1>1, <3>2
  <2>3. \A x \in Range(tail) : x \in Range(rows)
    BY <1>1, <1>4, Ranges
  <2> QED
    BY <2>1, <2>2, <2>3 DEF ShownOnce
<1>6. active \in Seq(PageItem)
  BY DEF PageTypeOK, ShownTypeOK
<1>7. CASE keepTail
  <2>1. Merges(t, active, tail)
    BY <1>1, <1>3, <1>5, <1>6, <1>7, MergeIs
  <2>2. /\ ShownOnce(t)
        /\ \A i \in 1..Len(t) : t[i] \in Range(tail) \/ (i \in 1..Len(active) /\ t[i] = active[i])
        /\ \A i \in 1..Len(t) : t[i].form # "row" => i \in 1..Len(active) /\ t[i] = active[i]
        /\ \A i \in 1..Len(active) : i \in 1..Len(t) /\ t[i].msg = active[i].msg
    <3>1. MergeKeeps(t, active, tail)
      BY <1>1, <1>5, <1>6, <2>1, MergedNone
    <3> QED
      BY <3>1 DEF MergeKeeps
  <2>3. NoneNew /\ MessagesStay
    BY <2>2 DEF NoneNew, MessagesStay, t
  <2> QED
    BY <1>2, <1>5, <1>7, <2>2, <2>3 DEF t
<1>8. CASE ~keepTail
  <2>1. t = tail
    BY <1>3, <1>8
  <2>2. \A i \in 1..Len(t) : t[i] \in Range(rows) /\ t[i].form = "row"
    BY <1>5, <1>1, <2>1, Ranges DEF OnlyRows
  <2>3. NoneNew
    BY <2>2 DEF NoneNew, t
  <2> QED
    BY <1>1, <1>2, <1>5, <1>8, <2>1, <2>2, <2>3 DEF t
<1> QED
  BY <1>7, <1>8

\* The rows that stand in front of a window's.
LEMMA WindowFits ==
  ASSUME PageTypeOK, PageTypeOK', ServerKept, JournalOnce, Book, ShownOnce(active),
         Covers(active, journal, leaf - base, leaf),
         NEW got \in Window, WindowIsSound(got, 0, journal), leaf <= got.leaf,
         got.state.status = "ready" => Anchored(got),
         NEW keepTail \in BOOLEAN, TakeWindow(got, keepTail)
  PROVE  /\ RowsUpTo(got.leaf)
         /\ got.leaf = 0 => ShownKept
         /\ got.leaf # 0 /\ keepTail => MessagesStay
         /\ got.leaf # 0 /\ ~keepTail => Len(active') = base'
         /\ ~got.state.streaming => base' = 0
<1> DEFINE rows == Rows(got.entries)
           k == got.leaf
<1>1. /\ journal \in Seq(Message) /\ Once(journal) /\ journal' = journal /\ k \in Nat
      /\ got.entries \in Seq(Message) /\ active \in Seq(PageItem) /\ Len(journal) \in Nat
      /\ leaf \in Nat /\ base \in Nat /\ Len(stable) \in Nat /\ ShownTypeOK
  BY Numbers DEF PageTypeOK, ServerTypeOK, ShownTypeOK, JournalOnce, ServerKept, Window
<1>2. rows \in Seq(PageItem) /\ Len(rows) \in Nat
  BY <1>1, RowsType
<1>3. PICK n \in 0..Len(rows) :
        /\ leaf' = k /\ base' = Len(rows) - n
        /\ ~got.state.streaming => n = Len(rows)
        /\ IF rows = <<>> /\ stable \o active # <<>>
           THEN stable' = stable /\ active' = active
           ELSE WindowTaken(rows, n, keepTail)
  BY <1>1, TakeWindowIs
<1>4. Anchored(got) => WindowCounts(got, rows)
  BY AnchoredIs
<1> HIDE DEF rows
<1>5. /\ RowsAfter(0, rows, journal) /\ k <= Len(journal) /\ Len(rows) = k
      /\ k # 0 => got.state.status = "ready"
      /\ Len(got.entries) = Len(rows)
      /\ \A i \in 1..Len(rows) : got.entries[i] = journal[0 + i]
  <2>1. RowsSince(got, 0, rows)
    BY <1>1, <1>2, SoundRows DEF rows
  <2> QED
    BY <1>1, <1>2, <2>1 DEF RowsSince
<1>6. ~got.state.streaming => base' = 0
  BY <1>2, <1>3
<1>7. CASE k = 0
  <2>1. leaf = 0 /\ n = 0 /\ rows = <<>> /\ base' = 0 /\ leaf' = 0
    <3>1. leaf = 0
      BY <1>1, <1>7
    <3>2. Len(rows) = 0 /\ n = 0
      BY <1>5, <1>7
    <3>3. rows = <<>>
      BY <1>2, <3>2
    <3>4. base' = 0 /\ leaf' = 0
      BY <1>3, <1>7, <3>2
    <3> QED
      BY <3>1, <3>2, <3>3, <3>4
  <2>2. stable = <<>> /\ base = 0
    BY <1>1, <2>1 DEF Book
  <2>3. stable' = stable /\ active' = active
    BY <1>3, <2>1, EmptyWindow
  <2>4. ShownKept
    BY <2>1, <2>2, <2>3 DEF ShownKept
  <2>5. Book'
    BY <1>1, <2>4 DEF Book, RowsAfter, ShownKept
  <2>6. TailRows(0)'
    <3>1. Covers(active', journal', leaf' - base', 0)
      BY <1>1, <2>1, <2>2, <2>3
    <3>2. 0 \in leaf'..Len(journal')
      BY <1>1, <2>1
    <3> QED
      BY <3>1, <3>2 DEF TailRows
  <2>7. NoneNew /\ ShownOnce(active')
    BY <2>3 DEF NoneNew
  <2>8. Len(stable') + base' = 0
    BY <2>1, <2>2, <2>3
  <2>9. RowsUpTo(k)
    BY <1>1, <1>7, <2>1, <2>5, <2>6, <2>7, <2>8 DEF RowsUpTo
  <2> QED
    BY <1>6, <1>7, <2>4, <2>9
<1>8. CASE k # 0
  <2>1. WindowTaken(rows, n, keepTail) /\ WindowCounts(got, rows)
    <3>1. rows # <<>>
      BY <1>2, <1>5, <1>8
    <3> QED
      BY <1>3, <1>4, <1>5, <1>8, <3>1
  <2>2. OnlyRows(rows) /\ ShownOnce(rows)
    BY <1>1, <1>2, <1>5, RowsOnce
  <2>3. /\ Len(stable') = n /\ ShownOnce(active') /\ NoneNew
        /\ \A i \in 1..Len(active') :
             \/ active'[i] \in Range(rows)
             \/ i \in 1..Len(active) /\ active'[i] = active[i]
        /\ keepTail => MessagesStay
        /\ ~keepTail => Len(active') = base'
    BY <1>2, <1>3, <2>1, <2>2, WindowTail
  <2>4. /\ Len(rows) = Len(stable') + base'
        /\ \A i \in 1..Len(stable') : stable'[i] = rows[i]
        /\ \A i \in 1..base' : active'[i] = rows[Len(stable') + i]
    BY <1>2, <2>1, CountedRows
  <2> DEFINE t == active'
             s == stable'
             b == base'
  <2>5. /\ t \in Seq(PageItem) /\ s \in Seq(PageItem) /\ b \in Nat /\ Len(t) \in Nat
        /\ Len(s) \in Nat /\ b <= Len(t)
    BY <2>1 DEF PageTypeOK, ShownTypeOK, WindowCounts
  <2>6. \A i \in 1..k : rows[i] = Item(journal[i], "row")
    BY <1>5 DEF RowsAfter
  <2>7. /\ Len(s) = n /\ k = Len(s) + b
        /\ \A i \in 1..Len(s) : s[i] = Item(journal[i], "row")
        /\ \A i \in 1..b : t[i] = Item(journal[Len(s) + i], "row")
    <3>1. \A i \in 1..Len(s) : i \in 1..k
      BY <1>5, <2>4, <2>5
    <3>2. \A i \in 1..b : Len(s) + i \in 1..k
      BY <1>5, <2>4, <2>5
    <3> QED
      BY <1>5, <2>3, <2>4, <2>6, <3>1, <3>2
  <2>8. /\ Len(s) \in Nat /\ b \in Nat /\ Len(t) \in Nat /\ k \in Nat /\ Len(journal) \in Nat
         /\ b <= Len(t) /\ k = Len(s) + b /\ k <= Len(journal)
    BY <1>1, <1>5, <2>5, <2>7
  <2>9. Book'
    <3>1. b <= Len(t) /\ k <= Len(s) + b /\ Len(s) + b <= Len(journal) /\ k - b = Len(s)
      BY <2>8
    <3>2. RowsAfter(0, s, journal)
      BY <2>5, <2>7, <3>1 DEF RowsAfter
    <3> QED
      BY <1>1, <1>3, <1>8, <2>7, <3>1, <3>2 DEF Book
  <2>10. ASSUME NEW i \in 1..Len(t), t[i].form = "row"
        PROVE  \E x \in Len(s) + 1..k : t[i] = Item(journal[x], "row")
    <3>1. CASE i \in 1..b
      <4>1. Len(s) + i \in Len(s) + 1..k
        <5> HIDE DEF t, s, b, k
        <5> QED
          BY <2>8, <3>1
      <4> QED
        BY <2>7, <3>1, <4>1
    <3>2. CASE i \in b + 1..Len(t)
      <4>1. t[i].msg \notin Range(got.entries)
        BY <2>1, <3>2 DEF WindowCounts
      <4>2. \E x \in 1..k : t[i] = Item(journal[x], "row")
        <5>1. CASE t[i] \in Range(rows)
          BY <1>2, <1>5, <2>6, <5>1, Ranges
        <5>2. CASE i \in 1..Len(active) /\ t[i] = active[i]
          <6>1. PICK x \in leaf - base + 1..leaf : active[i] = Item(journal[x], "row")
            BY <2>10, <5>2 DEF Covers
          <6>2. x \in 1..k
            BY <1>1, Numbers
          <6> QED
            BY <5>2, <6>1, <6>2
        <5> QED
          BY <2>3, <5>1, <5>2
      <4>3. PICK x \in 1..k : t[i] = Item(journal[x], "row")
        BY <4>2
      <4>4. got.entries[x] = t[i].msg /\ x \in 1..Len(got.entries)
        BY <1>5, <4>3, Items
      <4> QED
        BY <1>1, <4>1, <4>4, Ranges
    <3>3. i \in 1..b \/ i \in b + 1..Len(t)
      <4> HIDE DEF t, s, b, k
      <4> QED
        BY <2>8
    <3> QED
      BY <3>1, <3>2, <3>3
  <2>11. TailRows(k)'
    <3>1. ASSUME NEW x \in Len(s) + 1..k
          PROVE  \E i \in 1..Len(t) : t[i] = Item(journal[x], "row")
      <4>1. x - Len(s) \in 1..b /\ x - Len(s) \in 1..Len(t) /\ Len(s) + (x - Len(s)) = x
        <5> HIDE DEF t, s, b, k
        <5> QED
          BY <2>8
      <4> QED
        BY <2>7, <4>1
    <3>2. Covers(t, journal, Len(s), k)
      BY <2>10, <3>1 DEF Covers
    <3>3. k - b = Len(s) /\ k \in k..Len(journal)
      <4> HIDE DEF t, s, b, k
      <4> QED
        BY <2>8
    <3> QED
      BY <1>1, <1>3, <1>8, <3>2, <3>3 DEF TailRows
  <2>12. RowsUpTo(k)
    BY <1>1, <1>3, <1>5, <2>3, <2>7, <2>9, <2>11 DEF RowsUpTo
  <2> QED
    BY <1>6, <1>8, <2>3, <2>12
<1> QED
  BY <1>7, <1>8

\* The tail after an answer is taken holds nothing that was not sent or begun.
LEMMA TailTaken ==
  ASSUME PageTypeOK, PageTypeOK', PageInv, ServerKept, WireKept, sending' = sending,
         ShownOnce(active'), NoneNew
  PROVE  /\ Grows /\ JournalOnce' /\ AnswersBegun' /\ TailOnce' /\ WireEnds'
         /\ \A j \in 1..Len(active') : active'[j].form # "row" =>
               \E i \in 1..Len(active) : active'[j] = active[i]
<1>1. SendingKept
  BY DEF SendingKept
<1>2. Grows /\ JournalOnce' /\ \A t : Begun(t) => BegunNext(t)
  BY <1>1, ServerStill DEF PageInv
<1>3. AnswersBegun'
  <2>1. (\A i \in 1..Len(wire) : wire[i].kind \in {"delta", "end"} => Begun(wire[i].msg[1]))'
    BY <1>2 DEF PageInv, AnswersBegun, WireKept, Begun, Waiting, BegunNext, WaitingNext
  <2>2. \A j \in 1..Len(active') : IsAnswer(active'[j]) => Begun(active'[j].msg[1])
    BY DEF PageInv, AnswersBegun, IsAnswer, NoneNew
  <2>3. (\A i \in 1..Len(active) : IsAnswer(active[i]) => Begun(active[i].msg[1]))'
    BY <1>2, <2>2 DEF IsAnswer, Begun, Waiting, BegunNext, WaitingNext
  <2> QED
    BY <2>1, <2>3 DEF AnswersBegun
<1>4. TailOnce'
  BY DEF PageInv, TailOnce, NoneNew, ServerKept
<1>5. WireEnds'
  BY DEF PageInv, WireEnds, WireKept, ServerKept
<1> QED
  BY <1>2, <1>3, <1>4, <1>5 DEF NoneNew

\* The first window, taken while nothing has been loaded.
LEMMA InitialIs ==
  ASSUME PageTypeOK, PageTypeOK', PageInv, TakeInitial, slips' = {},
         NEW got \in Window, got = initial.got, NEW keepTail \in BOOLEAN,
         keepTail = (initial.got.state.streaming \/ touched)
  PROVE  /\ leaf = 0 /\ RowsUpTo(got.leaf)
         /\ got.leaf = 0 => ShownKept
         /\ got.leaf # 0 /\ keepTail => MessagesStay
<1>1. /\ ServerKept /\ initial.at = "read"
      /\ TakeWindow(got, keepTail)
      /\ slips' = slips \cup WindowSlips(got, leaf # 0)
  BY TakeInitialIs
<1>2. WindowSlips(got, leaf # 0) = {}
  BY <1>1
<1>3. leaf = 0 /\ (got.state.status = "ready" => Anchored(got))
  BY <1>2 DEF WindowSlips
<1>4. /\ WindowIsSound(got, 0, journal) /\ JournalOnce /\ Book /\ ShownOnce(active)
      /\ leaf <= got.leaf
  BY <1>1, <1>3 DEF PageInv, Flight, TailOnce, Window
<1>5. Covers(active, journal, leaf - base, leaf)
  <2>1. PICK m \in Nat : TailRows(m)
    BY DEF PageInv, TailReaches
  <2>2. m = leaf /\ Covers(active, journal, leaf - base, m)
    BY <1>3, <2>1 DEF TailRows
  <2> QED
    BY <2>2
<1> QED
  BY <1>1, <1>3, <1>4, <1>5, WindowFits

\* The first snapshot keeps the invariant, unless it is stale or finds answers
\* that came before it.
LEMMA KeepsTakeInitial ==
  ASSUME PageTypeOK, PageTypeOK', PageInv, TakeInitial, slips' = {}
  PROVE  PageInv'
<1>1. PICK got \in Window, k \in Nat, keepTail \in BOOLEAN :
        /\ got = initial.got /\ k = got.leaf
        /\ keepTail = (initial.got.state.streaming \/ touched)
  BY TakeInitialIs DEF Window
<1>2. /\ ServerKept /\ WireKept /\ touched' = touched /\ recovery' = recovery
      /\ probe' = probe /\ sending' = sending /\ syncError' = syncError
      /\ initial.at = "read" /\ initial'.at = "done"
  BY TakeInitialIs
<1>3. leaf = 0 /\ RowsUpTo(k) /\ (k = 0 => ShownKept)
  BY <1>1, InitialIs
<1>4. /\ leaf' = k /\ k <= Len(journal) /\ Len(stable') + base' = k
      /\ Book' /\ TailRows(k)' /\ ShownOnce(active') /\ NoneNew
      /\ k = 0 => ShownKept
  BY <1>3 DEF RowsUpTo
<1>5. Grows /\ JournalOnce' /\ AnswersBegun' /\ TailOnce' /\ WireEnds'
  BY <1>2, <1>4, TailTaken
<1>6. ~(recovery.at # "idle" /\ recovery.since # 0)
  BY <1>3 DEF PageInv, Flight
<1>7. TailReaches'
  <2>1. TailAsked(k)'
    BY <1>2, <1>4, <1>6 DEF TailAsked
  <2> QED
    BY <1>4, <2>1 DEF TailReaches
<1>8. Flight'
  BY <1>2, <1>4, <1>6 DEF PageInv, Flight, ServerKept, WindowIsSound
<1>9. EmptyStart'
  <2>1. (journal = <<>> => Untold)'
    <3> SUFFICES ASSUME journal' = <<>> PROVE Untold'
      OBVIOUS
    <3>1. journal = <<>> /\ k = 0
      BY <1>1, <1>2, <1>4 DEF ServerKept
    <3> QED
      BY <1>2, <1>4, <3>1 DEF PageInv, EmptyStart, Untold, ShownKept
  <2> QED
    BY <1>2, <2>1 DEF EmptyStart
<1>10. SettledAnswers'
  BY <1>2, <1>4 DEF PageInv, SettledAnswers, IsAnswer, ServerKept, NoneNew
<1>11. IdlePending'
  BY <1>2 DEF PageInv, IdlePending
<1>12. Debt'
  <2>1. Still' => Still
    BY <1>2 DEF Still, WireKept, ServerKept
  <2>2. ProbeCarries => ProbeCarries'
    BY <1>2 DEF ProbeCarries
  <2>3. Snapshot(recovery.since)' = Snapshot(recovery.since)
    BY <1>2 DEF Snapshot, RuntimeState, ServerKept
  <2>4. RecoveryCarries => RecoveryCarries'
    BY <1>2, <2>3 DEF RecoveryCarries
  <2>5. Complete => Complete'
    <3> SUFFICES ASSUME Complete PROVE Complete'
      OBVIOUS
    <3>1. stable = <<>> /\ Len(journal) = 0
      BY <1>3 DEF PageInv, Book, Complete
    <3>2. k = 0
      BY <1>1, <1>4, <3>1
    <3> QED
      BY <1>2, <1>4, <3>2 DEF Complete, Untold, ShownKept, ServerKept
  <2>6. Excused => Excused'
    BY <1>2, <2>5 DEF Excused
  <2> QED
    BY <2>1, <2>2, <2>4, <2>6 DEF PageInv, Debt
<1> QED
  BY <1>4, <1>5, <1>7, <1>8, <1>9, <1>10, <1>11, <1>12 DEF PageInv

\* What a recovery leaves behind, whichever way its answer is taken.
Recovered ==
    /\ Book' /\ (\E m \in Nat : TailRows(m)') /\ ShownOnce(active') /\ NoneNew /\ EmptyStart'
    /\ recovery.moved => ShownKept /\ syncError' = syncError
    /\ (Still /\ ~recovery.moved /\ recovery.got = Snapshot(recovery.since)) => Complete'

\* What a recovery leaves behind keeps the invariant.
LEMMA RecoveredKeeps ==
  ASSUME PageTypeOK, PageTypeOK', PageInv, TakeRecovery, Recovered
  PROVE  PageInv'
<1>1. /\ ServerKept /\ WireKept /\ initial' = initial /\ probe' = probe /\ sending' = sending
      /\ recovery.at = "read" /\ recovery' = NextRecovery(leaf', base')
  BY TakeRecoveryIs
<1>2. /\ recovery \in RecoveryRequest /\ leaf' \in Nat /\ base' \in Nat /\ Len(stable') \in Nat
  BY DEF PageTypeOK, RequestsTypeOK, ShownTypeOK
<1>3. /\ recovery.pending = "none" => recovery' = Idle
      /\ recovery.pending # "none" => Asks(recovery', leaf', base')
  BY <1>1, <1>2, NextRecoveryIs
<1>4. /\ recovery.pending = "none" => recovery'.at = "idle" /\ recovery'.pending = "none" /\ ~recovery'.moved
      /\ recovery.pending # "none" =>
            /\ recovery'.at = "asked" /\ recovery'.since = leaf' /\ recovery'.base = base'
            /\ ~recovery'.moved
  BY <1>3, Records DEF Asks
<1>5. Grows /\ JournalOnce' /\ AnswersBegun' /\ TailOnce' /\ WireEnds'
  BY <1>1, TailTaken DEF Recovered
<1>6. TailReaches'
  <2>1. PICK m \in Nat : TailRows(m)'
    BY DEF Recovered
  <2>2. TailAsked(m)'
    BY <1>4, <2>1 DEF TailAsked, TailRows
  <2> QED
    BY <2>1, <2>2 DEF TailReaches
<1>7. Flight'
  <2>1. leaf' = 0 => Len(stable') + base' = leaf'
    <3> SUFFICES ASSUME leaf' = 0 PROVE Len(stable') + base' = 0
      OBVIOUS
    <3>1. stable' = <<>> /\ (base' # 0 => Len(stable') + base' = 0)
      BY DEF Recovered, Book
    <3>2. Len(stable') = 0
      BY <3>1
    <3>3. CASE base' = 0
      BY <3>2, <3>3
    <3>4. CASE base' # 0
      BY <3>1, <3>4
    <3> QED
      BY <3>3, <3>4
  <2>2. (initial.at = "read" => WindowIsSound(initial.got, 0, journal))'
    BY <1>1 DEF PageInv, Flight, ServerKept, WindowIsSound
  <2> QED
    BY <1>4, <2>1, <2>2 DEF Flight
<1>8. SettledAnswers' /\ IdlePending'
  BY <1>4 DEF SettledAnswers, IdlePending
<1>9. Debt'
  <2> SUFFICES ASSUME Still' PROVE (ProbeCarries \/ RecoveryCarries \/ Excused)'
    BY DEF Debt
  <2>1. Still
    BY <1>1 DEF Still, WireKept, ServerKept
  <2>2. CASE ProbeCarries
    BY <1>1, <2>2 DEF ProbeCarries
  <2>3. CASE recovery.pending # "none"
    BY <1>4, <2>3 DEF RecoveryCarries
  <2>4. CASE recovery.pending = "none" /\ RecoveryCarries
    <3>1. ~recovery.moved /\ recovery.got = Snapshot(recovery.since)
      BY <1>1, <2>4 DEF RecoveryCarries
    <3>2. Complete'
      BY <2>1, <3>1 DEF Recovered
    <3> QED
      BY <1>4, <2>4, <3>2 DEF Excused
  <2>5. CASE recovery.pending = "none" /\ Excused
    <3>1. recovery.moved
      BY <1>1, <2>5 DEF Excused
    <3>2. ShownKept /\ syncError' = syncError
      BY <3>1 DEF Recovered
    <3>3. Complete => Complete'
      BY <1>1, <3>2 DEF Complete, Untold, ShownKept, ServerKept
    <3> QED
      BY <1>1, <1>4, <2>5, <3>2, <3>3 DEF Excused
  <2> QED
    BY <2>1, <2>2, <2>3, <2>4, <2>5 DEF PageInv, Debt
<1> QED
  BY <1>5, <1>6, <1>7, <1>8, <1>9 DEF PageInv, Recovered

\* A recovery whose answer changes nothing that is shown.
LEMMA ShownRecovered ==
  ASSUME PageTypeOK, PageInv, TakeRecovery, ShownKept
  PROVE  Book' /\ (\E m \in Nat : TailRows(m)') /\ ShownOnce(active') /\ NoneNew /\ EmptyStart'
<1>1. ServerKept /\ initial' = initial /\ touched' = touched /\ sending' = sending /\ Book
  BY TakeRecoveryIs DEF PageInv
<1>2. Grows
  BY <1>1 DEF Grows, ServerKept, PageTypeOK, ServerTypeOK
<1>3. Book'
  BY <1>1, <1>2, BookGrows
<1>4. \E m \in Nat : TailRows(m)'
  BY <1>1, <1>2, RowsGrow DEF PageInv, TailReaches
<1>5. ShownOnce(active') /\ NoneNew
  BY DEF PageInv, TailOnce, ShownKept, NoneNew
<1>6. EmptyStart'
  BY <1>1 DEF PageInv, EmptyStart, Untold, ShownKept, ServerKept
<1> QED
  BY <1>3, <1>4, <1>5, <1>6

\* What the answer says, when the session has been at rest since it was read.
LEMMA StillAnswers ==
  ASSUME PageTypeOK, Still, recovery.got = Snapshot(recovery.since)
  PROVE  recovery.got.leaf = Len(journal) /\ recovery.got.state.streaming = FALSE
<1>1. ServerTypeOK /\ recovery.since \in Nat /\ status = "ready" /\ replying = 0
  BY DEF PageTypeOK, RequestsTypeOK, RecoveryRequest, Still
<1>2. Snapshot(recovery.since).leaf = Len(journal) /\ Snapshot(recovery.since).state = RuntimeState
  BY <1>1, SnapshotType
<1>3. RuntimeState.streaming = (replying # 0)
  BY DEF RuntimeState
<1>4. RuntimeState.streaming = FALSE
  BY <1>1, <1>3
<1> QED
  BY <1>2, <1>4

\* An answer that comes too late changes nothing.
LEMMA LateRecovered ==
  ASSUME PageTypeOK, PageInv, TakeRecovery, ComesTooLate
  PROVE  Recovered
<1>1. ShownKept /\ recovery.moved /\ syncError' = syncError
  BY DEF ComesTooLate
<1> QED
  BY <1>1, ShownRecovered DEF Recovered

\* A settled recovery that finds a turn running changes nothing.
LEMMA RunRecovered ==
  ASSUME PageTypeOK, PageInv, TakeRecovery, ~recovery.moved, TurnsRunOn
  PROVE  Recovered
<1>1. ShownKept /\ recovery.got.state.streaming
  BY DEF TurnsRunOn
<1>2. ~(Still /\ recovery.got = Snapshot(recovery.since))
  BY <1>1, StillAnswers
<1> QED
  BY <1>1, <1>2, ShownRecovered DEF Recovered

\* The latest window, asked for while nothing had been loaded.
LEMMA ComesIs ==
  ASSUME PageTypeOK, PageTypeOK', PageInv, TakeRecovery, WindowComes, slips' = {},
         NEW got \in Window, got = recovery.got
  PROVE  /\ leaf <= got.leaf /\ RowsUpTo(got.leaf)
         /\ got.leaf = 0 => ShownKept
         /\ got.leaf # 0 /\ got.state.streaming => MessagesStay
         /\ got.leaf # 0 /\ ~got.state.streaming => Len(active') = base'
         /\ ~got.state.streaming => base' = 0
<1>1. /\ ServerKept /\ recovery.at = "read" /\ recovery.since = 0
      /\ got.state.streaming \in BOOLEAN
      /\ TakeWindow(got, got.state.streaming)
      /\ slips' = slips \cup WindowSlips(got, got.leaf < leaf)
  BY TakeRecoveryIs DEF WindowComes
<1>2. WindowSlips(got, got.leaf < leaf) = {}
  BY <1>1
<1>3. leaf <= got.leaf /\ (got.state.status = "ready" => Anchored(got))
  <2>1. ~(got.leaf < leaf) /\ (got.state.status = "ready" => Anchored(got))
    BY <1>2 DEF WindowSlips
  <2> QED
    BY <2>1 DEF PageTypeOK, ShownTypeOK, Window
<1>4. WindowIsSound(got, 0, journal) /\ JournalOnce /\ Book /\ ShownOnce(active)
  BY <1>1 DEF PageInv, Flight, TailOnce
<1>5. Covers(active, journal, leaf - base, leaf)
  <2>1. PICK m \in Nat : TailRows(m) /\ TailAsked(m)
    BY DEF PageInv, TailReaches
  <2>2. m = leaf
    BY <1>1, <2>1 DEF TailAsked
  <2> QED
    BY <2>1, <2>2 DEF TailRows
<1> QED
  BY <1>1, <1>3, <1>4, <1>5, WindowFits

\* The latest window leaves what a recovery has to leave.
LEMMA ComesRecovered ==
  ASSUME PageTypeOK, PageTypeOK', PageInv, TakeRecovery, ~recovery.moved, WindowComes, slips' = {}
  PROVE  Recovered
<1>1. PICK got \in Window, k \in Nat : got = recovery.got /\ k = got.leaf
  BY TakeRecoveryIs DEF Window
<1>2. ServerKept /\ initial' = initial /\ touched' = touched /\ sending' = sending
  BY TakeRecoveryIs
<1>3. /\ RowsUpTo(k)
      /\ k = 0 => ShownKept
      /\ k # 0 /\ ~got.state.streaming => Len(active') = base'
      /\ ~got.state.streaming => base' = 0
  BY <1>1, ComesIs
<1>4. /\ leaf' = k /\ k <= Len(journal) /\ Len(stable') + base' = k
      /\ Book' /\ TailRows(k)' /\ ShownOnce(active') /\ NoneNew
  BY <1>3 DEF RowsUpTo
<1>5. EmptyStart'
  <2>1. CASE k = 0
    BY <1>2, <1>3, <2>1 DEF PageInv, EmptyStart, Untold, ShownKept, ServerKept
  <2>2. CASE k # 0
    <3>1. journal' # <<>>
      BY <1>1, <1>2, <1>4, <2>2 DEF ServerKept
    <3> QED
      BY <1>4, <2>2, <3>1 DEF EmptyStart
  <2> QED
    BY <2>1, <2>2
<1>6. ASSUME Still, recovery.got = Snapshot(recovery.since) PROVE Complete'
  <2>1. k = Len(journal) /\ ~got.state.streaming /\ base' = 0
    BY <1>1, <1>3, <1>6, StillAnswers
  <2>2. Len(stable') \in Nat /\ active' \in Seq(PageItem)
    BY DEF PageTypeOK, ShownTypeOK
  <2>3. Len(stable') = Len(journal')
    BY <1>1, <1>2, <1>4, <2>1, <2>2 DEF ServerKept
  <2>4. Untold'
    <3>1. CASE k = 0
      <4>1. journal' = <<>>
        <5>1. journal \in Seq(Message) /\ Len(journal) = 0
          BY <2>1, <3>1 DEF PageTypeOK, ServerTypeOK
        <5>2. journal = <<>>
          BY <5>1
        <5> QED
          BY <1>2, <5>2 DEF ServerKept
      <4> QED
        BY <1>5, <4>1 DEF EmptyStart
    <3>2. CASE k # 0
      <4>1. Len(active') = 0
        BY <1>3, <2>1, <3>2
      <4> QED
        BY <2>2, <4>1 DEF Untold
    <3> QED
      BY <3>1, <3>2
  <2> QED
    BY <2>1, <2>3, <2>4 DEF Complete
<1> QED
  BY <1>1, <1>4, <1>5, <1>6 DEF Recovered

\* While a turn runs, the rows since the leaf join the tail.
LEMMA JoinIs ==
  ASSUME PageTypeOK, PageTypeOK', PageInv, TakeRecovery, RowsJoin
  PROVE  /\ Book' /\ (\E m \in Nat : TailRows(m)') /\ ShownOnce(active') /\ NoneNew
         /\ MessagesStay
<1>1. PICK got \in Window, k \in Nat, since \in Nat :
        got = recovery.got /\ k = got.leaf /\ since = recovery.since
  BY TakeRecoveryIs DEF Window, PageTypeOK, RequestsTypeOK, RecoveryRequest
<1> DEFINE rows == Rows(got.entries)
           t == active'
<1>2. /\ ServerKept /\ recovery.at = "read" /\ since # 0 /\ stable' = stable
      /\ leaf' = leaf /\ base' = base /\ t = Merge(active, rows)
  BY <1>1, TakeRecoveryIs DEF RowsJoin
<1>3. since = leaf /\ WindowIsSound(got, since, journal) /\ Book /\ JournalOnce /\ ShownOnce(active)
  BY <1>1, <1>2 DEF PageInv, Flight, TailOnce
<1>4. /\ journal \in Seq(Message) /\ Once(journal) /\ active \in Seq(PageItem)
      /\ leaf <= Len(journal) /\ Len(journal) \in Nat /\ leaf \in Nat /\ base \in Nat
      /\ leaf - base \in Nat /\ Len(active) \in Nat /\ base <= Len(active)
      /\ got.entries \in Seq(Message) /\ t \in Seq(PageItem) /\ Len(t) \in Nat
  BY <1>3, Numbers DEF PageTypeOK, ServerTypeOK, ShownTypeOK, JournalOnce, Book, Window
<1>5. rows \in Seq(PageItem)
  BY <1>4, RowsType
<1>6. PICK m \in Nat : TailRows(m) /\ TailAsked(m)
  BY DEF PageInv, TailReaches
<1>7. /\ m \in leaf..Len(journal) /\ Covers(active, journal, leaf - base, m)
      /\ k # 0 => m <= k
  BY <1>1, <1>2, <1>6 DEF TailRows, TailAsked
<1>8. /\ RowsAfter(leaf, rows, journal) /\ k <= Len(journal)
      /\ k # 0 => leaf + Len(rows) = k
      /\ k = 0 => Len(rows) = 0
  <2>1. RowsSince(got, since, rows)
    BY <1>1, <1>3, <1>4, <1>5, SoundRows
  <2> HIDE DEF rows
  <2> QED
    BY <1>1, <1>3, <2>1 DEF RowsSince
<1> HIDE DEF rows, t
<1>9. OnlyRows(rows) /\ ShownOnce(rows)
  BY <1>4, <1>5, <1>8, RowsOnce
<1>10. Merges(t, active, rows)
  BY <1>2, <1>3, <1>4, <1>5, <1>9, MergeIs
<1>11. MergeKeeps(t, active, rows)
  BY <1>4, <1>5, <1>9, <1>10, MergedNone
<1>12. ShownOnce(active') /\ NoneNew /\ MessagesStay
  BY <1>11 DEF MergeKeeps, NoneNew, MessagesStay, t
<1>13. \A i \in 1..Len(active) : active[i].form # "opt" => i \in 1..Len(t) /\ t[i] = active[i]
  BY <1>10, <1>11 DEF Merges, MergeKeeps
<1>14. \A i \in 1..base : t[i] = active[i]
  <2>1. \A i \in 1..base : active[i].form = "row"
    BY <1>3, BaseIsRows
  <2>2. \A i \in 1..base : i \in 1..Len(active)
    BY <1>4
  <2> QED
    BY <1>13, <2>1, <2>2
<1>15. Book'
  <2>1. base <= Len(t)
    BY <1>4, <1>10 DEF Merges
  <2> QED
    BY <1>2, <1>3, <1>14, <2>1 DEF Book, ServerKept, t
<1>16. Len(rows) \in Nat /\ \A i \in 1..Len(rows) : rows[i] = Item(journal[leaf + i], "row")
  BY <1>5, <1>8 DEF RowsAfter
<1>17. PICK n \in Nat : (k = 0 => n = m) /\ (k # 0 => n = k)
  OBVIOUS
<1>18. /\ n \in leaf..Len(journal) /\ m <= n
       /\ \A i \in 1..Len(rows) : leaf + i \in leaf - base + 1..n
       /\ \A x \in m + 1..n : x - leaf \in 1..Len(rows) /\ leaf + (x - leaf) = x
  <2>1. CASE k = 0
    BY <1>4, <1>7, <1>8, <1>17, <2>1
  <2>2. CASE k # 0
    BY <1>4, <1>7, <1>8, <1>16, <1>17, <2>2
  <2> QED
    BY <2>1, <2>2
<1>19. ASSUME NEW i \in 1..Len(t), t[i].form = "row"
       PROVE  \E x \in leaf - base + 1..n : t[i] = Item(journal[x], "row")
  <2>1. CASE t[i] \in Range(rows)
    BY <1>5, <1>16, <1>18, <2>1, Ranges
  <2>2. CASE i \in 1..Len(active) /\ t[i] = active[i]
    <3>1. PICK x \in leaf - base + 1..m : active[i] = Item(journal[x], "row")
      BY <1>7, <1>19, <2>2 DEF Covers
    <3>2. x \in leaf - base + 1..n
      BY <1>4, <1>18
    <3> QED
      BY <2>2, <3>1, <3>2
  <2> QED
    BY <1>11, <2>1, <2>2 DEF MergeKeeps
<1>20. ASSUME NEW x \in leaf - base + 1..n
       PROVE  \E i \in 1..Len(t) : t[i] = Item(journal[x], "row")
  <2>1. CASE x \in leaf - base + 1..m
    <3>1. PICK i \in 1..Len(active) : active[i] = Item(journal[x], "row")
      BY <1>7, <2>1 DEF Covers
    <3>2. active[i].form # "opt"
      BY <3>1, Items
    <3> QED
      BY <1>13, <3>1, <3>2
  <2>2. CASE x \in m + 1..n
    <3>1. x - leaf \in 1..Len(rows) /\ rows[x - leaf] = Item(journal[x], "row")
      BY <1>16, <1>18, <2>2
    <3>2. Item(journal[x], "row") \in Range(t)
      BY <1>5, <1>10, <3>1, Ranges DEF Merges
    <3> QED
      BY <1>4, <3>2, Ranges
  <2>3. x \in leaf - base + 1..m \/ x \in m + 1..n
    BY <1>4, <1>7, <1>18
  <2> QED
    BY <2>1, <2>2, <2>3
<1>21. TailRows(n)'
  <2>1. Covers(t, journal, leaf - base, n)
    BY <1>19, <1>20 DEF Covers
  <2>2. leaf # 0
    BY <1>2, <1>3
  <2> QED
    BY <1>2, <1>18, <2>1, <2>2 DEF TailRows, ServerKept, t
<1> QED
  BY <1>12, <1>15, <1>17, <1>21

\* Rows that join the tail do.
LEMMA JoinRecovered ==
  ASSUME PageTypeOK, PageTypeOK', PageInv, TakeRecovery, ~recovery.moved, RowsJoin
  PROVE  Recovered
<1>1. ServerKept /\ recovery.at = "read" /\ recovery.since = leaf /\ leaf # 0 /\ leaf' = leaf
  BY TakeRecoveryIs DEF PageInv, Flight, RowsJoin
<1>2. EmptyStart'
  <2>1. journal # <<>>
    BY <1>1, Numbers DEF PageInv
  <2> QED
    BY <1>1, <2>1 DEF EmptyStart, ServerKept
<1>3. ~(Still /\ recovery.got = Snapshot(recovery.since))
  BY StillAnswers DEF RowsJoin
<1> QED
  BY <1>2, <1>3, JoinIs DEF Recovered

\* A tail that has settled: the history goes on as far as the tail did.
Settled(k, m) ==
    /\ base' = 0 /\ active' = <<>> /\ leaf' # 0 /\ leaf' <= Len(stable')
    /\ RowsAfter(0, stable', journal)
    /\ Len(stable) <= Len(stable') /\ k <= Len(stable') /\ m <= Len(stable')
    /\ k = 0 => OnlyRows(active)

\* The counted part of the tail has no row that is new.
LEMMA KeptIs ==
  ASSUME PageTypeOK, JournalOnce, Book, recovery.base = base,
         NEW rows \in Seq(PageItem), RowsAfter(leaf, rows, journal)
  PROVE  /\ KeptBase(rows) \in Seq(PageItem) /\ Len(KeptBase(rows)) = base
         /\ \A i \in 1..base : KeptBase(rows)[i] = Item(journal[leaf - base + i], "row")
<1> DEFINE head == SubSeq(active, 1, base)
<1>1. /\ journal \in Seq(Message) /\ Once(journal) /\ active \in Seq(PageItem)
      /\ leaf <= Len(journal) /\ Len(journal) \in Nat /\ leaf \in Nat /\ base \in Nat
      /\ leaf - base \in Nat /\ Len(active) \in Nat /\ base <= Len(active)
  BY Numbers DEF PageTypeOK, ServerTypeOK, ShownTypeOK, JournalOnce, Book
<1>2. head \in Seq(PageItem) /\ Len(head) = base /\ \A i \in 1..base : head[i] = active[i]
  <2>1. base \in 0..Len(active)
    BY <1>1
  <2> QED
    BY <1>1, <2>1, Halves
<1>3. KeptBase(rows) = Without(head, Range(rows))
  BY <1>1 DEF KeptBase
<1> HIDE DEF head
<1>4. \A i \in 1..base : head[i] = Item(journal[leaf - base + i], "row")
  BY <1>2 DEF Book
<1>5. ASSUME NEW i \in 1..base PROVE head[i] \notin Range(rows)
  <2> SUFFICES ASSUME head[i] \in Range(rows) PROVE FALSE
    OBVIOUS
  <2>1. PICK j \in 1..Len(rows) : rows[j] = head[i]
    BY Ranges
  <2>2. journal[leaf - base + i] = journal[leaf + j]
    BY <1>4, <2>1, Items DEF RowsAfter
  <2>3. /\ leaf - base + i \in 1..Len(journal) /\ leaf + j \in 1..Len(journal)
        /\ leaf - base + i # leaf + j
    <3>1. Len(rows) \in Nat /\ leaf + Len(rows) <= Len(journal)
      BY DEF RowsAfter
    <3> QED
      BY <1>1, <3>1
  <2> QED
    BY <1>1, <2>2, <2>3 DEF Once
<1>6. SeenUpTo(0, head, Range(rows))
  <2>1. \A j \in 0 + 1..Len(head) : j \in 1..base
    BY <1>1, <1>2
  <2> QED
    BY <1>1, <1>2, <1>5, <2>1 DEF SeenUpTo
<1> DEFINE w == Without(head, Range(rows))
<1>7. /\ w \in Seq(PageItem) /\ Len(w) = Len(head) - 0
      /\ \A n \in 1..Len(head) - 0 : w[n] = head[0 + n]
  BY <1>2, <1>6, WithoutType, WithoutPrefix
<1> HIDE DEF w
<1>8. w \in Seq(PageItem) /\ Len(w) = base /\ \A n \in 1..base : w[n] = head[n]
  BY <1>1, <1>2, <1>7
<1> QED
  BY <1>3, <1>4, <1>8 DEF w

\* One part of the journal's rows after another.
LEMMA RowsJoined ==
  ASSUME NEW ms \in Seq(Message), NEW s \in Seq(PageItem), NEW t \in Seq(PageItem), NEW q \in Nat,
         NEW p \in Nat, p = q + Len(s), RowsAfter(q, s, ms), RowsAfter(p, t, ms)
  PROVE  /\ s \o t \in Seq(PageItem) /\ Len(s \o t) = Len(s) + Len(t)
         /\ RowsAfter(q, s \o t, ms)
<1> DEFINE u == s \o t
<1>1. u \in Seq(PageItem) /\ Follows(u, s, t)
  BY Concatenated
<1> HIDE DEF u
<1>2. /\ Len(s) \in Nat /\ Len(t) \in Nat /\ Len(ms) \in Nat /\ Len(u) = Len(s) + Len(t)
      /\ p + Len(t) <= Len(ms)
  BY <1>1 DEF Follows, RowsAfter
<1>3. ASSUME NEW i \in 1..Len(u) PROVE u[i] = Item(ms[q + i], "row")
  <2>1. CASE i \in 1..Len(s)
    BY <1>1, <2>1 DEF Follows, RowsAfter
  <2>2. CASE i \in Len(s) + 1..Len(u)
    <3>1. i - Len(s) \in 1..Len(t) /\ u[i] = t[i - Len(s)]
      BY <1>1, <2>2 DEF Follows
    <3>2. t[i - Len(s)] = Item(ms[p + (i - Len(s))], "row")
      BY <3>1 DEF RowsAfter
    <3>3. p + (i - Len(s)) = q + i
      BY <1>2
    <3> QED
      BY <3>1, <3>2, <3>3
  <2> QED
    BY <1>2, <2>1, <2>2
<1>4. RowsAfter(q, u, ms)
  BY <1>2, <1>3 DEF RowsAfter
<1> QED
  BY <1>1, <1>2, <1>4 DEF u

\* A tail settles: its counted rows and the new ones, or, with no new row, the
\* tail as it stands.
LEMMA SettlesIs ==
  ASSUME PageTypeOK, PageTypeOK', PageInv, TakeRecovery, TailSettles, slips' = {},
         NEW k \in Nat, k = recovery.got.leaf, NEW m \in Nat, TailRows(m), TailAsked(m)
  PROVE  Settled(k, m)
<1>1. PICK got \in Window, since \in Nat :
        got = recovery.got /\ k = got.leaf /\ since = recovery.since
  BY TakeRecoveryIs DEF Window, PageTypeOK, RequestsTypeOK, RecoveryRequest
<1> DEFINE rows == Rows(got.entries)
<1>2. /\ ServerKept /\ recovery.at = "read" /\ since # 0 /\ TakeSettled(got)
  BY <1>1, TakeRecoveryIs DEF TailSettles
<1>3. /\ since = leaf /\ recovery.base = base /\ WindowIsSound(got, since, journal) /\ Book
      /\ JournalOnce /\ ShownOnce(active)
  BY <1>1, <1>2 DEF PageInv, Flight, TailOnce
<1>4. /\ journal \in Seq(Message) /\ Once(journal) /\ active \in Seq(PageItem)
      /\ stable \in Seq(PageItem) /\ Len(stable) \in Nat
      /\ leaf <= Len(journal) /\ Len(journal) \in Nat /\ leaf \in Nat /\ base \in Nat
      /\ leaf - base \in Nat /\ leaf - base <= Len(stable)
      /\ got.entries \in Seq(Message) /\ RowsAfter(0, stable, journal)
  BY <1>3, Numbers DEF PageTypeOK, ServerTypeOK, ShownTypeOK, JournalOnce, Book, Window
<1>5. rows \in Seq(PageItem) /\ Len(rows) \in Nat
  BY <1>4, RowsType
<1>6. /\ RowsAfter(leaf, rows, journal) /\ k <= Len(journal)
      /\ k # 0 => leaf + Len(rows) = k
      /\ k = 0 => Len(rows) = 0
  <2>1. RowsSince(got, since, rows)
    BY <1>1, <1>3, <1>4, <1>5, SoundRows
  <2> HIDE DEF rows
  <2> QED
    BY <1>1, <1>3, <2>1 DEF RowsSince
<1>7. /\ m \in leaf..Len(journal) /\ Covers(active, journal, leaf - base, m)
      /\ k # 0 => m <= k
  BY <1>1, <1>2 DEF TailRows, TailAsked
<1>8. /\ stable' = AppendUnique(stable, IF rows = <<>> THEN active ELSE KeptBase(rows) \o rows)
      /\ active' = <<>> /\ base' = 0
      /\ leaf' = IF k = 0 THEN leaf ELSE k
      /\ rows = <<>> => /\ \A i \in Range(active) : i.form = "row"
                        /\ ~Misplaced(active)
  BY <1>1, <1>2, <1>3 DEF TakeSettled
<1> HIDE DEF rows
<1>9. CASE rows = <<>>
  <2>1. leaf' = leaf /\ (k = 0 \/ k = leaf)
    BY <1>1, <1>4, <1>5, <1>6, <1>8, <1>9
  <2>2. OnlyRows(active) /\ ~Misplaced(active)
    BY <1>4, <1>8, <1>9, Ranges DEF OnlyRows
  <2>3. leaf - base <= m /\ m <= Len(journal)
    BY <1>4, <1>7
  <2>4. Len(active) = m - (leaf - base) /\ RowsAfter(leaf - base, active, journal)
    BY <1>3, <1>4, <1>7, <2>2, <2>3, InOrder
  <2>5. stable' = AppendUnique(stable, active)
    BY <1>8, <1>9
  <2>6. /\ Len(AppendUnique(stable, active)) =
             IF leaf - base + Len(active) > Len(stable) THEN leaf - base + Len(active) ELSE Len(stable)
        /\ RowsAfter(0, AppendUnique(stable, active), journal)
    BY <1>4, <2>4, JoinsOn
  <2>7. leaf - base + Len(active) = m
    BY <1>4, <2>4
  <2>8. Len(stable') = IF m > Len(stable) THEN m ELSE Len(stable)
    <3>1. /\ Len(stable') = Len(AppendUnique(stable, active))
          /\ leaf - base + Len(active) = m
      BY <2>5, <2>7
    <3> QED
      BY <2>6, <3>1
  <2>9. Len(stable) <= Len(stable') /\ m <= Len(stable') /\ leaf <= Len(stable') /\ k <= Len(stable')
    <3>1. leaf <= m /\ k <= leaf /\ m \in Nat /\ Len(stable) \in Nat
      BY <1>4, <1>7, <2>1
    <3>2. m <= Len(stable') /\ Len(stable) <= Len(stable') /\ Len(stable') \in Nat
      BY <2>8, <3>1
    <3> QED
      BY <1>4, <3>1, <3>2
  <2> QED
    BY <1>2, <1>3, <1>8, <2>1, <2>2, <2>5, <2>6, <2>9 DEF Settled
<1>10. CASE rows # <<>>
  <2>1. k # 0 /\ leaf' = k /\ leaf + Len(rows) = k
    <3>1. Len(rows) # 0
      BY <1>5, <1>10
    <3> QED
      BY <1>6, <1>8, <3>1
  <2> DEFINE kept == KeptBase(rows)
             more == kept \o rows
  <2>2. /\ kept \in Seq(PageItem) /\ Len(kept) = base
        /\ \A i \in 1..base : kept[i] = Item(journal[leaf - base + i], "row")
    BY <1>3, <1>5, <1>6, KeptIs
  <2>3. stable' = AppendUnique(stable, more)
    BY <1>8, <1>10
  <2> HIDE DEF kept
  <2>4. leaf - base + Len(kept) = leaf
    BY <1>4, <2>2
  <2>5. more \in Seq(PageItem) /\ Len(more) = base + Len(rows) /\ RowsAfter(leaf - base, more, journal)
    <3>1. PICK q \in Nat : q = leaf - base
      BY <1>4
    <3>2. RowsAfter(q, kept, journal)
      BY <1>4, <2>2, <2>4, <3>1 DEF RowsAfter
    <3>3. leaf = q + Len(kept)
      BY <2>4, <3>1
    <3>4. /\ more \in Seq(PageItem) /\ Len(more) = Len(kept) + Len(rows)
          /\ RowsAfter(q, more, journal)
      BY <1>4, <1>5, <1>6, <2>2, <3>2, <3>3, RowsJoined
    <3> QED
      BY <2>2, <3>1, <3>4
  <2> HIDE DEF more
  <2>6. /\ Len(AppendUnique(stable, more)) =
             IF leaf - base + Len(more) > Len(stable) THEN leaf - base + Len(more) ELSE Len(stable)
        /\ RowsAfter(0, AppendUnique(stable, more), journal)
    BY <1>4, <2>5, JoinsOn
  <2>7. leaf - base + Len(more) = k
    BY <1>4, <1>5, <2>1, <2>5
  <2>8. Len(stable') = IF k > Len(stable) THEN k ELSE Len(stable)
    <3>1. /\ Len(stable') = Len(AppendUnique(stable, more))
          /\ leaf - base + Len(more) = k
      BY <2>3, <2>7
    <3> QED
      BY <2>6, <3>1
  <2>9. Len(stable) <= Len(stable') /\ m <= Len(stable') /\ k <= Len(stable')
    <3>1. m <= k /\ m \in Nat /\ Len(stable) \in Nat
      BY <1>4, <1>7, <2>1
    <3>2. k <= Len(stable') /\ Len(stable) <= Len(stable') /\ Len(stable') \in Nat
      BY <2>8, <3>1
    <3> QED
      BY <3>1, <3>2
  <2> QED
    BY <1>8, <2>1, <2>3, <2>6, <2>9 DEF Settled
<1> QED
  BY <1>9, <1>10

\* A tail that settles leaves what a recovery has to leave.
LEMMA SettlesRecovered ==
  ASSUME PageTypeOK, PageTypeOK', PageInv, TakeRecovery, ~recovery.moved, TailSettles, slips' = {}
  PROVE  Recovered
<1>1. PICK k \in Nat : k = recovery.got.leaf
  BY TakeRecoveryIs DEF Window
<1>2. PICK m \in Nat : TailRows(m) /\ TailAsked(m)
  BY DEF PageInv, TailReaches
<1>3. /\ base' = 0 /\ active' = <<>> /\ leaf' # 0 /\ leaf' <= Len(stable')
      /\ RowsAfter(0, stable', journal) /\ k <= Len(stable')
  BY <1>1, <1>2, SettlesIs DEF Settled
<1>4. /\ ServerKept /\ recovery.at = "read" /\ recovery.since = leaf /\ leaf # 0
  BY TakeRecoveryIs DEF PageInv, Flight, TailSettles
<1>5. /\ leaf' \in Nat /\ Len(stable') \in Nat /\ Len(journal) \in Nat /\ Len(active') = 0
      /\ Len(stable') <= Len(journal)
  BY <1>3 DEF PageTypeOK, ServerTypeOK, ShownTypeOK, RowsAfter
<1>6. Book'
  BY <1>3, <1>4, <1>5 DEF Book, ServerKept
<1>7. \E n \in Nat : TailRows(n)'
  <2>1. PICK n \in Nat : n = leaf'
    BY <1>5
  <2>2. n - 0 = n /\ n <= Len(journal)
    <3>1. n <= Len(stable') /\ Len(stable') <= Len(journal)
      BY <1>3, <1>5, <2>1
    <3>2. Len(stable') \in Nat /\ Len(journal) \in Nat
      BY <1>5
    <3> QED
      BY <3>1, <3>2
  <2>3. Covers(active', journal', n, n)
    <3>1. ~\E x \in n + 1..n : TRUE
      OBVIOUS
    <3>2. ~\E x \in 1..Len(active') : TRUE
      BY <1>5
    <3> QED
      BY <3>1, <3>2 DEF Covers
  <2>4. n \in leaf'..Len(journal') /\ (leaf' = 0 => n = 0)
    BY <1>4, <1>5, <2>1, <2>2 DEF ServerKept
  <2>5. Covers(active', journal', leaf' - base', n)
    BY <1>3, <2>1, <2>2, <2>3
  <2>6. TailRows(n)'
    BY <2>4, <2>5 DEF TailRows
  <2> QED
    BY <2>6
<1>8. ShownOnce(active') /\ NoneNew
  BY <1>5 DEF ShownOnce, NoneNew
<1>9. EmptyStart'
  <2>1. journal # <<>>
    BY <1>4, Numbers DEF PageInv
  <2> QED
    BY <1>3, <1>4, <2>1 DEF EmptyStart, ServerKept
<1>10. ASSUME Still, recovery.got = Snapshot(recovery.since) PROVE Complete'
  <2>1. k = Len(journal)
    BY <1>1, <1>10, StillAnswers
  <2>2. Len(stable') = Len(journal')
    BY <1>3, <1>4, <1>5, <2>1 DEF ServerKept
  <2> QED
    BY <1>3, <2>2 DEF Complete, Untold
<1> QED
  BY <1>5, <1>6, <1>7, <1>8, <1>9, <1>10 DEF Recovered

\* A recovery's answer keeps the invariant, unless one of the races has
\* happened.
LEMMA KeepsTakeRecovery ==
  ASSUME PageTypeOK, PageTypeOK', PageInv, TakeRecovery, slips' = {}
  PROVE  PageInv'
<1>1. ComesTooLate \/ IsTaken
  BY TakeRecoveryIs
<1>2. Recovered
  BY <1>1, LateRecovered, RunRecovered, ComesRecovered, JoinRecovered, SettlesRecovered
     DEF IsTaken
<1> QED
  BY <1>2, RecoveredKeeps

-----------------------------------------------------------------------------
(* The page is faithful.                                                   *)

IInv == PageTypeOK /\ (slips = {} => PageInv)

\* The page starts with nothing loaded and nothing owed.
LEMMA InvInit ==
  ASSUME PageInit
  PROVE  PageInv
<1>1. PageTypeOK
  BY TypeInit
<1>2. /\ journal = <<>> /\ replying = 0 /\ open = FALSE /\ wire = <<>> /\ connected = FALSE
      /\ stable = <<>> /\ active = <<>> /\ leaf = 0 /\ base = 0 /\ initial.at = "asked"
      /\ recovery = Idle /\ sending = NotSending /\ issued = 0
  BY DEF PageInit
<1>3. /\ recovery.at = "idle" /\ recovery.pending = "none" /\ ~recovery.moved
      /\ sending.at = "none"
  BY <1>2, Records
<1>4. Len(journal) = 0 /\ Len(stable) = 0 /\ Len(active) = 0 /\ Len(wire) = 0
  BY <1>2
<1>5. JournalOnce
  BY <1>2, <1>3, <1>4 DEF JournalOnce, Once
<1>6. AnswersBegun
  BY <1>4 DEF AnswersBegun
<1>7. Book
  BY <1>2, <1>4 DEF Book, RowsAfter
<1>8. TailReaches
  <2>1. Covers(active, journal, leaf - base, 0)
    BY <1>2, <1>4 DEF Covers
  <2>2. TailRows(0)
    BY <1>2, <1>4, <2>1 DEF TailRows
  <2>3. TailAsked(0)
    BY <1>3 DEF TailAsked
  <2> QED
    BY <2>2, <2>3 DEF TailReaches
<1>9. TailOnce
  BY <1>4 DEF TailOnce, ShownOnce
<1>10. Flight
  BY <1>2, <1>3 DEF Flight
<1>11. EmptyStart
  BY <1>2 DEF EmptyStart, Untold
<1>12. SettledAnswers /\ WireEnds /\ Debt /\ IdlePending
  BY <1>2, <1>3 DEF SettledAnswers, WireEnds, Debt, Still, IdlePending
<1> QED
  BY <1>5, <1>6, <1>7, <1>8, <1>9, <1>10, <1>11, <1>12 DEF PageInv

\* What has happened is not forgotten.
LEMMA SlipsStay ==
  ASSUME [PageNext]_pageVars
  PROVE  slips' = {} => slips = {}
<1>1. UNCHANGED pageVars => slips' = slips
  BY DEF pageVars
<1>2. Turn => slips' = slips
  BY DEF Turn, BeginAnswer, EndAnswer, Settle, BecomeReady, Starting, pageFields
<1>3. Answers => slips' = slips
  BY DEF Answers, ReadInitial, ReadRecovery, StateAnswers, Accept, Reject, pageFields
<1>4. Handlers => \E s : slips' = slips \cup s
  <2>1. TakeInitial => slips' = slips \cup WindowSlips(initial.got, leaf # 0)
    BY DEF TakeInitial
  <2>2. TakeRecovery => \E s : slips' = slips \cup s
    <3> SUFFICES ASSUME TakeRecovery PROVE \E s : slips' = slips \cup s
      OBVIOUS
    <3>1. CASE slips' = slips
      <4>1. slips' = slips \cup {}
        BY <3>1
      <4> QED
        BY <4>1
    <3>2. \/ slips' = slips
          \/ slips' = slips \cup WindowSlips(recovery.got, recovery.got.leaf < leaf)
          \/ TakeSettled(recovery.got)
      BY DEF TakeRecovery
    <3>3. CASE TakeSettled(recovery.got)
      <4> DEFINE kept == IF \E i \in Range(active) : i.form # "row" THEN {"kept"} ELSE {}
                 placed == IF Misplaced(active) THEN {"misplaced"} ELSE {}
      <4>1. slips' = slips \/ slips' = slips \cup kept \cup placed
        BY <3>3 DEF TakeSettled
      <4>2. slips' = slips \cup (kept \cup placed) \/ slips' = slips
        BY <4>1
      <4> HIDE DEF kept, placed
      <4> QED
        BY <3>1, <4>2
    <3> QED
      BY <3>1, <3>2, <3>3
  <2>3. TakeState => slips' = slips \cup {}
    BY DEF TakeState
  <2>4. TakeReply => slips' = slips \cup {} \/ slips' = slips \cup {"dropped"}
    BY DEF TakeReply
  <2> QED
    BY <2>1, <2>2, <2>3, <2>4 DEF Handlers
<1>5. Faults => slips' = slips \/ slips' = slips \cup {"blind"}
  BY DEF Faults, Cut, Crash, SnapshotFails, StateFails, pageFields
<1>6. OthersPrompt \/ WorkerRestarts \/ Connect \/ Send => slips' = slips
  BY DEF OthersPrompt, WorkerRestarts, Starting, Connect, Send, pageFields
<1>7. Look => slips' = slips \/ slips' = slips \cup {"superseded"}
  BY DEF Look
<1>8. Deliver => slips' = slips \/ slips' = slips \cup {"late"}
  BY DEF Deliver, OnAnswer, OnTurn, OnStatus
<1> QED
  BY <1>1, <1>2, <1>3, <1>4, <1>5, <1>6, <1>7, <1>8 DEF PageNext

\* Every step keeps the invariant, or is one of the races.
LEMMA InvStep ==
  ASSUME IInv, [PageNext]_pageVars
  PROVE  IInv'
<1>1. PageTypeOK /\ PageTypeOK'
  BY TypeStep DEF IInv
<1> SUFFICES ASSUME slips' = {} PROVE PageInv'
  BY <1>1 DEF IInv
<1>2. PageInv
  BY SlipsStay DEF IInv
<1>3. CASE UNCHANGED pageVars
  <2>1. /\ ServerKept /\ ShownKept /\ WireKept /\ touched' = touched /\ initial' = initial
        /\ recovery' = recovery /\ probe' = probe /\ sending' = sending /\ syncError' = syncError
    <3>1. UNCHANGED server /\ UNCHANGED shown /\ UNCHANGED anchor
      BY <1>3 DEF pageVars
    <3> QED
      BY <1>3, <3>1, Frames DEF pageVars, ServerKept, ShownKept, WireKept
  <2> QED
    BY <1>1, <1>2, <2>1, ProbeOnlyOwes DEF ProbeOnly, ProbeCarries
<1>4. CASE Turn
  BY <1>1, <1>2, <1>4, KeepsBeginAnswer, KeepsEndAnswer, KeepsStatusTurns DEF Turn
<1>5. CASE Answers
  BY <1>1, <1>2, <1>5, KeepsReadInitial, KeepsReadRecovery, KeepsStateAnswers, KeepsAccept,
     KeepsReject DEF Answers
<1>6. CASE Handlers
  BY <1>1, <1>2, <1>6, KeepsTakeInitial, KeepsTakeRecovery, KeepsTakeState, KeepsTakeReply
     DEF Handlers
<1>7. CASE Faults
  BY <1>1, <1>2, <1>7, KeepsCut, KeepsStatusTurns, KeepsSnapshotFails, KeepsStateFails
     DEF Faults
<1>8. CASE OthersPrompt \/ WorkerRestarts \/ Connect \/ Deliver \/ Look \/ Send
  BY <1>1, <1>2, <1>8, KeepsOthersPrompt, KeepsStatusTurns, KeepsConnect, KeepsDeliver,
     KeepsLook, KeepsSend
<1> QED
  BY <1>3, <1>4, <1>5, <1>6, <1>7, <1>8 DEF PageNext

\* At rest nothing is on its way, so what is owed has come.
LEMMA RestIsFaithful ==
  ASSUME PageTypeOK, PageInv, Quiet, ~syncError
  PROVE  stable = Rows(journal) /\ Range(active) \subseteq {Failure}
<1>1. /\ Still /\ recovery.at = "idle" /\ probe.at = "none" /\ sending.at = "none"
  BY DEF Quiet, Still
<1>2. ~ProbeCarries
  BY <1>1 DEF ProbeCarries
<1>3. ~RecoveryCarries
  BY <1>1 DEF RecoveryCarries, PageInv, IdlePending
<1>4. Complete
  BY <1>1, <1>2, <1>3 DEF PageInv, Debt, Excused
<1>5. Len(stable) = Len(journal) /\ RowsAfter(0, stable, journal)
  BY <1>4 DEF Complete, PageInv, Book
<1>6. stable \in Seq(PageItem) /\ journal \in Seq(Message) /\ Len(journal) \in Nat
  BY DEF PageTypeOK, ServerTypeOK, ShownTypeOK
<1> DEFINE rows == Rows(journal)
<1>7. /\ rows \in Seq(PageItem) /\ Len(rows) = Len(journal)
      /\ \A i \in 1..Len(journal) : rows[i] = Item(journal[i], "row")
  BY <1>6, RowsType
<1> HIDE DEF rows
<1>8. \A i \in 1..Len(journal) : stable[i] = rows[i]
  BY <1>5, <1>7 DEF RowsAfter
<1>9. stable = rows
  BY <1>5, <1>6, <1>7, <1>8
<1>10. Range(active) \subseteq {Failure}
  <2>1. active \in Seq(PageItem) /\ \A i \in 1..Len(active) : active[i] = Failure
    BY <1>1, <1>4 DEF Complete, Untold, PageTypeOK, ShownTypeOK
  <2> QED
    BY <2>1, Ranges
<1>11. stable = Rows(journal)
  BY <1>9 DEF rows
<1> QED
  BY <1>10, <1>11

\* A page at rest that reports no error shows every stored message once, whole and
\* in order, with no tail left but failures it reports, unless one of the
\* unguarded races has happened (use-live-task-runtime.ts:347-514).
THEOREM PageIsFaithful == PageSpec => []QuietIsFaithful
<1>1. PageInit => IInv
  BY TypeInit, InvInit DEF IInv
<1>2. IInv /\ [PageNext]_pageVars => IInv'
  BY InvStep
<1>3. IInv => QuietIsFaithful
  BY RestIsFaithful DEF IInv, QuietIsFaithful
<1> QED
  BY <1>1, <1>2, <1>3, PTL DEF PageSpec

-----------------------------------------------------------------------------
(* Nothing vanishes.                                                       *)

ShowsNext(m) ==
    \/ \E i \in 1..Len(stable') : stable'[i].msg = m
    \/ \E i \in 1..Len(active') : active'[i].msg = m
AllStays ==
    /\ \A i \in 1..Len(stable) : ShowsNext(stable[i].msg)
    /\ \A i \in 1..Len(active) :
          active[i].form # "opt" /\ active[i].msg \in Range(journal) => ShowsNext(active[i].msg)
Vanishes ==
    \E i \in 1..Len(stable \o active) :
        /\ (stable \o active)[i].form # "opt"
        /\ (stable \o active)[i].msg \in Range(journal)
        /\ (stable \o active)[i].msg \notin Range(Messages(stable' \o active'))

\* If every item's message is shown next, none vanishes.
LEMMA AllStaysShown ==
  ASSUME PageTypeOK, PageTypeOK', AllStays
  PROVE  ~Vanishes
<1>1. ASSUME NEW m, ShowsNext(m) PROVE m \in Range(Messages(stable' \o active'))
  <2> DEFINE s == stable'
             t == active'
             u == s \o t
  <2>1. s \in Seq(PageItem) /\ t \in Seq(PageItem)
    BY DEF PageTypeOK, ShownTypeOK
  <2>2. (\E i \in 1..Len(s) : s[i].msg = m) \/ (\E i \in 1..Len(t) : t[i].msg = m)
    BY <1>1 DEF ShowsNext
  <2> HIDE DEF s, t
  <2>3. u \in Seq(PageItem) /\ Follows(u, s, t)
    BY <2>1, Concatenated
  <2> HIDE DEF u
  <2>4. Len(u) \in Nat /\ Len(s) \in Nat /\ Len(t) \in Nat /\ Len(u) = Len(s) + Len(t)
    BY <2>1, <2>3 DEF Follows
  <2>5. \E i \in 1..Len(u) : u[i].msg = m
    <3>1. CASE \E i \in 1..Len(s) : s[i].msg = m
      <4>1. PICK i \in 1..Len(s) : s[i].msg = m
        BY <3>1
      <4>2. i \in 1..Len(u) /\ u[i] = s[i]
        BY <2>3, <2>4 DEF Follows
      <4> QED
        BY <4>1, <4>2
    <3>2. CASE \E i \in 1..Len(t) : t[i].msg = m
      <4>1. PICK i \in 1..Len(t) : t[i].msg = m
        BY <3>2
      <4>2. Len(s) + i \in 1..Len(u) /\ u[Len(s) + i] = t[i]
        BY <2>3 DEF Follows
      <4> QED
        BY <4>1, <4>2
    <3> QED
      BY <2>2, <3>1, <3>2
  <2>6. m \in Range(Messages(u))
    BY <2>5 DEF Range, Messages
  <2> QED
    BY <2>6 DEF u, s, t
<1> SUFFICES ASSUME Vanishes PROVE FALSE
  OBVIOUS
<1> DEFINE u == stable \o active
<1>2. stable \in Seq(PageItem) /\ active \in Seq(PageItem)
  BY DEF PageTypeOK, ShownTypeOK
<1>3. u \in Seq(PageItem) /\ Follows(u, stable, active)
  BY <1>2, Concatenated
<1>4. PICK i \in 1..Len(u) :
        /\ u[i].form # "opt" /\ u[i].msg \in Range(journal)
        /\ u[i].msg \notin Range(Messages(stable' \o active'))
  BY DEF Vanishes
<1> HIDE DEF u
<1>5. CASE i \in 1..Len(stable)
  <2>1. u[i] = stable[i]
    BY <1>3, <1>5 DEF Follows
  <2> QED
    BY <1>1, <1>4, <1>5, <2>1 DEF AllStays
<1>6. CASE i \in Len(stable) + 1..Len(u)
  <2>1. i - Len(stable) \in 1..Len(active) /\ u[i] = active[i - Len(stable)]
    BY <1>3, <1>6 DEF Follows
  <2> QED
    BY <1>1, <1>4, <2>1 DEF AllStays
<1> QED
  BY <1>2, <1>3, <1>5, <1>6

\* An item keeps its place, or its message is there again.
LEMMA PlaceStays ==
  ASSUME PageTypeOK', stable' = stable, MessagesStay
  PROVE  AllStays
BY DEF MessagesStay, AllStays, ShowsNext

\* What the page has loaded, it shows.
LEMMA LoadedShows ==
  ASSUME PageTypeOK', Book', journal' = journal, NEW x \in Nat, x # 0,
         x <= Len(stable') \/ (x <= leaf' /\ Len(stable') + base' = leaf')
  PROVE  ShowsNext(journal[x])
<1> DEFINE s == stable'
           t == active'
           l == leaf'
           b == base'
<1>1. /\ s \in Seq(PageItem) /\ t \in Seq(PageItem) /\ l \in Nat /\ b \in Nat
      /\ Len(s) \in Nat /\ Len(t) \in Nat
  BY DEF PageTypeOK, ShownTypeOK
<1>2. /\ b <= Len(t) /\ \A i \in 1..Len(s) : s[i] = Item(journal[0 + i], "row")
      /\ \A i \in 1..b : t[i] = Item(journal[l - b + i], "row")
  BY DEF Book, RowsAfter
<1>3. x <= Len(s) \/ (x <= l /\ Len(s) + b = l)
  OBVIOUS
<1> HIDE DEF s, t, l, b
<1>4. CASE x <= Len(s)
  <2>1. x \in 1..Len(s)
    BY <1>1, <1>4
  <2>2. s[x].msg = journal[x]
    BY <1>2, <2>1, Items
  <2> QED
    BY <2>1, <2>2 DEF ShowsNext, s
<1>5. CASE ~(x <= Len(s)) /\ x <= l /\ Len(s) + b = l
  <2>1. x - Len(s) \in 1..b /\ l - b + (x - Len(s)) = x
    BY <1>1, <1>5
  <2>2. x - Len(s) \in 1..Len(t)
    BY <1>1, <1>2, <2>1
  <2>3. t[x - Len(s)].msg = journal[x]
    BY <1>2, <2>1, Items
  <2> QED
    BY <2>2, <2>3 DEF ShowsNext, t
<1> QED
  BY <1>3, <1>4, <1>5

\* An event keeps every item's message.
LEMMA DeliverStays ==
  ASSUME PageTypeOK, PageTypeOK', Deliver
  PROVE  AllStays
<1>1. /\ stable' = stable /\ wire[1] \in Event
      /\ OnAnswer(wire[1].kind, wire[1].msg) \/ OnTurn(wire[1].kind) \/ OnStatus(wire[1].kind)
  BY DeliverIs
<1>2. active \in Seq(PageItem) /\ wire[1].msg \in Message
  BY <1>1 DEF PageTypeOK, ShownTypeOK, Event
<1>3. MessagesStay
  <2>1. CASE active' = active
    BY <2>1 DEF MessagesStay
  <2>2. CASE OnAnswer(wire[1].kind, wire[1].msg)
    <3>1. PICK form \in {"part", "text"}, m \in Message : active' = Streamed(active, m, form)
      BY <1>2, <2>2 DEF OnAnswer
    <3> DEFINE t == Streamed(active, m, form)
    <3>2. /\ t \in Seq(PageItem) /\ Len(t) \in {Len(active), Len(active) + 1}
          /\ \A i \in 1..Len(active) :
               \/ t[i] = active[i]
               \/ active[i] = Item(m, "part") /\ t[i] = Item(m, form)
      BY <1>2, StreamedIs
    <3> HIDE DEF t
    <3>3. \A i \in 1..Len(active) : i \in 1..Len(t) /\ t[i].msg = active[i].msg
      BY <1>2, <3>2, Items
    <3> QED
      BY <3>1, <3>3 DEF MessagesStay, t
  <2>3. CASE OnTurn(wire[1].kind) \/ OnStatus(wire[1].kind)
    <3>1. active' = active \/ active' = WithFailure
      BY <2>3 DEF OnTurn, OnStatus
    <3>2. FailureAdded
      BY <1>2, <3>1, FailureIs
    <3> QED
      BY <1>2, <3>2 DEF FailureAdded, MessagesStay
  <2> QED
    BY <1>1, <2>2, <2>3
<1> QED
  BY <1>1, <1>3, PlaceStays

\* A prompt that is typed keeps every item.
LEMMA SendStays ==
  ASSUME PageTypeOK, PageTypeOK', Send
  PROVE  AllStays
<1>1. stable' = stable /\ active' = Append(active, Item(<<issued + 1, 0>>, "opt"))
  BY SendIs DEF AnchorsKept
<1>2. active \in Seq(PageItem)
  BY DEF PageTypeOK, ShownTypeOK
<1>3. MessagesStay
  BY <1>1, <1>2 DEF MessagesStay
<1> QED
  BY <1>1, <1>3, PlaceStays

\* A prompt that is taken back is all that goes.
LEMMA TakeReplyStays ==
  ASSUME PageTypeOK, PageTypeOK', TakeReply, slips' = {}
  PROVE  AllStays
<1>1. /\ stable' = stable
      /\ \/ active' = active
         \/ active' = Without(active, {Item(<<sending.turn, 0>>, "opt")})
  BY TakeReplyIs DEF AnchorsKept
<1>2. active \in Seq(PageItem)
  BY DEF PageTypeOK, ShownTypeOK
<1>3. CASE active' = active
  <2>1. MessagesStay
    BY <1>3 DEF MessagesStay
  <2> QED
    BY <1>1, <2>1, PlaceStays
<1>4. CASE active' = Without(active, {Item(<<sending.turn, 0>>, "opt")})
  <2> DEFINE seen == {Item(<<sending.turn, 0>>, "opt")}
             t == Without(active, seen)
  <2>1. t \in Seq(PageItem) /\ Range(t) = Range(active) \ seen
    BY <1>2, WithoutType, WithoutMembers
  <2>2. \A x \in seen : x.form = "opt"
    BY Items
  <2>3. active' = t
    BY <1>4
  <2> HIDE DEF t, seen
  <2>4. ASSUME NEW i \in 1..Len(active), active[i].form # "opt"
        PROVE  \E j \in 1..Len(t) : t[j].msg = active[i].msg
    <3>1. active[i] \in Range(t)
      BY <1>2, <2>1, <2>2, <2>4, Ranges
    <3> QED
      BY <2>1, <3>1, Ranges
  <2>5. \A i \in 1..Len(stable) : ShowsNext(stable[i].msg)
    BY <1>1 DEF ShowsNext
  <2> QED
    BY <2>3, <2>4, <2>5 DEF AllStays, ShowsNext
<1> QED
  BY <1>1, <1>3, <1>4

\* Everything shown is a row, up to a position that has been loaded, or an answer
\* that a snapshot has in front of that position.
LEMMA CoveredStays ==
  ASSUME PageTypeOK, PageTypeOK', JournalOnce, Book, Book', ServerKept, NEW m \in Nat, TailRows(m),
         NEW p \in Nat, p = Len(stable') \/ (p = leaf' /\ Len(stable') + base' = leaf'),
         Len(stable) <= p, m <= p,
         \A i \in 1..Len(active) : IsAnswer(active[i]) =>
            \A x \in 1..Len(journal) : journal[x] = active[i].msg => x <= p
  PROVE  AllStays
<1>1. /\ journal \in Seq(Message) /\ active \in Seq(PageItem) /\ Len(journal) \in Nat
      /\ Len(stable) \in Nat /\ leaf - base \in Nat /\ journal' = journal
  BY Numbers DEF PageTypeOK, ServerTypeOK, ShownTypeOK, ServerKept
<1>2. ASSUME NEW x \in Nat, x # 0, x <= p PROVE ShowsNext(journal[x])
  <2>1. x <= Len(stable') \/ (x <= leaf' /\ Len(stable') + base' = leaf')
    BY <1>2
  <2> QED
    BY <1>1, <1>2, <2>1, LoadedShows
<1>3. ASSUME NEW i \in 1..Len(stable) PROVE ShowsNext(stable[i].msg)
  <2>1. stable[i].msg = journal[i]
    BY Items DEF Book, RowsAfter
  <2>2. i \in Nat /\ i # 0 /\ i <= p
    BY <1>1
  <2> QED
    BY <1>2, <2>1, <2>2
<1>4. ASSUME NEW i \in 1..Len(active), active[i].form # "opt", active[i].msg \in Range(journal)
      PROVE  ShowsNext(active[i].msg)
  <2>1. CASE active[i].form = "row"
    <3>1. PICK x \in leaf - base + 1..m : active[i] = Item(journal[x], "row")
      BY <2>1 DEF TailRows, Covers
    <3>2. active[i].msg = journal[x]
      BY <3>1, Items
    <3>3. x \in Nat /\ x # 0 /\ x <= p
      BY <1>1
    <3> QED
      BY <1>2, <3>2, <3>3
  <2>2. CASE IsAnswer(active[i])
    <3>1. PICK x \in 1..Len(journal) : journal[x] = active[i].msg
      BY <1>1, <1>4, Ranges
    <3>2. x <= p
      BY <2>2, <3>1
    <3>3. x \in Nat /\ x # 0
      BY <1>1
    <3> QED
      BY <1>2, <3>1, <3>2, <3>3
  <2>3. active[i] \in PageItem
    BY <1>1
  <2>4. active[i].form # "error"
    <3>1. PICK x \in 1..Len(journal) : journal[x] = active[i].msg
      BY <1>1, <1>4, Ranges
    <3>2. journal[x][1] # 0
      BY DEF JournalOnce, Begun
    <3>3. active[i].form = "error" => active[i].msg = NoMessage
      BY <2>3, Items DEF PageItem, Failure
    <3> QED
      BY <3>1, <3>2, <3>3 DEF NoMessage
  <2> QED
    BY <1>4, <2>1, <2>2, <2>3, <2>4 DEF PageItem, IsAnswer
<1> QED
  BY <1>3, <1>4 DEF AllStays

\* The first snapshot comes before anything is loaded, and keeps what the
\* stream gave.
LEMMA TakeInitialStays ==
  ASSUME PageTypeOK, PageTypeOK', PageInv, PageInv', TakeInitial, slips' = {}
  PROVE  AllStays \/ ShownKept
<1>1. PICK got \in Window, k \in Nat, keepTail \in BOOLEAN :
        /\ got = initial.got /\ k = got.leaf
        /\ keepTail = (initial.got.state.streaming \/ touched)
  BY TakeInitialIs DEF Window
<1>2. leaf = 0 /\ (k = 0 => ShownKept) /\ (k # 0 /\ keepTail => MessagesStay) /\ initial.at = "read"
  BY <1>1, InitialIs, TakeInitialIs
<1>3. stable = <<>>
  BY <1>2 DEF PageInv, Book
<1>4. \A i \in 1..Len(stable) : ShowsNext(stable[i].msg)
  BY <1>3
<1>5. CASE k # 0 /\ keepTail
  BY <1>2, <1>4, <1>5 DEF MessagesStay, AllStays, ShowsNext
<1>6. CASE ~keepTail
  <2>1. ~touched
    BY <1>1, <1>6 DEF PageTypeOK, RequestsTypeOK, InitialRequest, Window, StateAnswer
  <2>2. active = <<>>
    BY <1>2, <2>1 DEF PageInv, EmptyStart
  <2> QED
    BY <1>4, <2>2 DEF AllStays
<1> QED
  BY <1>2, <1>5, <1>6

\* A recovery keeps the messages, or its rows hold them.
LEMMA TakeRecoveryStays ==
  ASSUME PageTypeOK, PageTypeOK', PageInv, PageInv', TakeRecovery, slips' = {}
  PROVE  AllStays \/ ShownKept
<1>1. PICK got \in Window, k \in Nat : got = recovery.got /\ k = got.leaf
  BY TakeRecoveryIs DEF Window
<1>2. PICK m \in Nat : TailRows(m) /\ TailAsked(m)
  BY DEF PageInv, TailReaches
<1>3. /\ ServerKept /\ recovery.at = "read" /\ (ComesTooLate \/ IsTaken)
      /\ got.state \in StateAnswer /\ journal \in Seq(Message) /\ active \in Seq(PageItem)
      /\ Len(stable) \in Nat /\ base \in Nat /\ leaf \in Nat
  BY <1>1, TakeRecoveryIs, Numbers DEF PageInv, PageTypeOK, ServerTypeOK, ShownTypeOK
<1>4. JournalOnce /\ Book /\ Book' /\ WindowIsSound(got, recovery.since, journal)
  BY <1>1, <1>3 DEF PageInv, Flight
<1>5. CASE ComesTooLate \/ TurnsRunOn
  BY <1>5 DEF ComesTooLate, TurnsRunOn
\* An answer at rest has all the answers that are shown and stored.
<1>6. ASSUME ~recovery.moved, k # 0, ~got.state.streaming,
             NEW i \in 1..Len(active), IsAnswer(active[i]),
             NEW x \in 1..Len(journal), journal[x] = active[i].msg
      PROVE  x <= k
  <2>1. got.state.status = "ready"
    BY <1>1, <1>4, <1>6 DEF WindowIsSound
  <2>2. got.state.streaming = FALSE
    BY <1>3, <1>6 DEF StateAnswer
  <2>3. got.state = ReadyIdle
    BY <1>3, <2>1, <2>2 DEF StateAnswer, ReadyIdle
  <2> QED
    BY <1>1, <1>3, <1>6, <2>3 DEF PageInv, SettledAnswers
<1>7. CASE ~recovery.moved /\ WindowComes
  <2>1. /\ leaf <= k /\ RowsUpTo(k) /\ (k = 0 => ShownKept)
        /\ k # 0 /\ got.state.streaming => MessagesStay
    BY <1>1, <1>7, ComesIs
  <2>2. leaf' = k /\ Len(stable') + base' = leaf'
    BY <2>1 DEF RowsUpTo
  <2>3. recovery.since = 0
    BY <1>7 DEF WindowComes
  <2>4. m = leaf /\ Len(stable) <= leaf
    <3>1. m = leaf /\ Len(stable) + base = leaf
      BY <1>2, <1>3, <2>3 DEF TailAsked, PageInv, Flight
    <3> QED
      BY <1>3, <3>1
  <2>5. Len(stable) <= k /\ m <= k
    BY <1>3, <2>1, <2>4
  <2>6. CASE k # 0 /\ ~got.state.streaming
    BY <1>2, <1>3, <1>4, <1>6, <1>7, <2>2, <2>5, <2>6, CoveredStays
  <2>7. CASE k # 0 /\ got.state.streaming
    <3>1. MessagesStay
      BY <2>1, <2>7
    <3>2. \A i \in 1..Len(active) : ShowsNext(active[i].msg)
      BY <3>1 DEF MessagesStay, ShowsNext
    <3>3. ASSUME NEW i \in 1..Len(stable) PROVE ShowsNext(stable[i].msg)
      <4>1. stable[i].msg = journal[i]
        BY <1>4, Items DEF Book, RowsAfter
      <4>2. i \in Nat /\ i # 0 /\ i <= leaf'
        BY <1>3, <2>2, <2>5
      <4>3. ShowsNext(journal[i])
        BY <1>3, <1>4, <2>2, <4>2, LoadedShows DEF ServerKept
      <4> QED
        BY <4>1, <4>3
    <3> QED
      BY <3>2, <3>3 DEF AllStays
  <2> QED
    BY <2>1, <2>6, <2>7
<1>8. CASE RowsJoin
  <2>1. MessagesStay /\ stable' = stable
    BY <1>8, JoinIs DEF RowsJoin
  <2> QED
    BY <2>1, PlaceStays
<1>9. CASE ~recovery.moved /\ TailSettles
  <2>1. PICK p \in Nat : p = Len(stable')
    BY DEF PageTypeOK, ShownTypeOK
  <2>2. Settled(k, m)
    BY <1>1, <1>2, <1>9, SettlesIs
  <2>3. Len(stable) <= p /\ k <= p /\ m <= p /\ (k = 0 => OnlyRows(active))
    BY <2>1, <2>2 DEF Settled
  <2>4. ASSUME NEW i \in 1..Len(active), IsAnswer(active[i]),
               NEW x \in 1..Len(journal), journal[x] = active[i].msg
        PROVE  x <= p
    <3>1. k # 0
      BY <2>3, <2>4 DEF OnlyRows, IsAnswer
    <3>2. ~got.state.streaming
      BY <1>1, <1>9 DEF TailSettles
    <3>3. x <= k
      BY <1>6, <1>9, <2>4, <3>1, <3>2
    <3> QED
      BY <2>3, <3>3
  <2> QED
    BY <1>2, <1>3, <1>4, <2>1, <2>3, <2>4, CoveredStays
<1> QED
  BY <1>3, <1>5, <1>7, <1>8, <1>9 DEF IsTaken

\* What a step leaves of what is shown.
LEMMA NoneVanishes ==
  ASSUME IInv, IInv', [PageNext]_pageVars, slips' = {}
  PROVE  ~Vanishes \/ UNCHANGED shown
<1>1. PageTypeOK /\ PageTypeOK' /\ PageInv /\ PageInv'
  BY SlipsStay DEF IInv
<1>2. CASE UNCHANGED pageVars
  BY <1>2 DEF pageVars
<1>3. CASE Turn \/ OthersPrompt \/ WorkerRestarts
  BY <1>3 DEF Turn, BeginAnswer, EndAnswer, Settle, BecomeReady, WorkerRestarts, Starting,
     OthersPrompt, pageFields
<1>4. CASE Answers
  BY <1>4 DEF Answers, ReadInitial, ReadRecovery, StateAnswers, Accept, Reject, pageFields
<1>5. CASE Faults \/ Connect \/ Look \/ TakeState
  BY <1>5 DEF Faults, Cut, Crash, SnapshotFails, StateFails, Connect, Look, TakeState,
     pageFields
<1>6. CASE Deliver
  BY <1>1, <1>6, DeliverStays, AllStaysShown
<1>7. CASE Send
  BY <1>1, <1>7, SendStays, AllStaysShown
<1>8. CASE TakeReply
  BY <1>1, <1>8, TakeReplyStays, AllStaysShown
<1>9. CASE TakeInitial \/ TakeRecovery
  <2>1. AllStays \/ ShownKept
    BY <1>1, <1>9, TakeInitialStays, TakeRecoveryStays
  <2>2. ShownKept => UNCHANGED shown
    BY DEF ShownKept, shown
  <2> QED
    BY <1>1, <2>1, <2>2, AllStaysShown
<1> QED
  BY <1>2, <1>3, <1>4, <1>5, <1>6, <1>7, <1>8, <1>9 DEF PageNext, Handlers

\* A stored message that is shown, other than as typed, stays shown until the page is
\* left, unless one of the unguarded races has happened
\* (use-live-task-runtime.ts:399-440: every branch keeps it).
THEOREM PageForgetsNothing == PageSpec => NothingVanishes
<1>1. PageInit => IInv
  BY TypeInit, InvInit DEF IInv
<1>2. IInv /\ [PageNext]_pageVars => IInv'
  BY InvStep
<1> DEFINE Keeps ==
        slips' = {} =>
          \A i \in 1..Len(stable \o active) :
            LET it == (stable \o active)[i] IN
            (it.form # "opt" /\ it.msg \in Range(journal)) =>
                it.msg \in Range(Messages(stable' \o active'))
<1>3. IInv /\ IInv' /\ [PageNext]_pageVars => [Keeps]_shown
  BY NoneVanishes DEF Vanishes
<1>4. PageSpec => [][Keeps]_shown
  BY <1>1, <1>2, <1>3, PTL DEF PageSpec
<1> QED
  BY <1>4 DEF NothingVanishes
=============================================================================
