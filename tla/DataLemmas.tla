------------------------------ MODULE DataLemmas ------------------------------
(* Facts that the provers do not decide by themselves: about products and    *)
(* division with a divisor that is not a number, and by induction. Induction *)
(* is stated for sets of numbers, and recursion for functions, so that the   *)
(* provers can be given them without an operator to instantiate.             *)
EXTENDS Integers, SequencesExt, SequenceTheorems, FiniteSetTheorems, WellFoundedInduction,
        TLAPS

(* Integer division, for provers that see one fact of it at a time.          *)
LEMMA Division ==
  ASSUME NEW a \in Nat, NEW b \in Nat \ {0}
  PROVE  a \div b \in Nat /\ a % b \in 0 .. b - 1 /\ a = (a \div b) * b + (a % b)
<1>1. a % b \in 0 .. b - 1
  OBVIOUS
<1>2. a = b * (a \div b) + (a % b)
  BY SMT
<1>3. a \div b \in Int /\ a \div b >= 0
  OBVIOUS
<1>4. b * (a \div b) = (a \div b) * b
  BY <1>3
<1> QED  BY <1>1, <1>2, <1>3, <1>4

LEMMA Successor ==
  ASSUME NEW a \in Int, NEW b \in Int
  PROVE  (a + 1) * b = a * b + b
OBVIOUS

(* Products of naturals are monotone.                                        *)
LEMMA Monotone ==
  ASSUME NEW a \in Nat, NEW b \in Nat, NEW c \in Nat, a <= b
  PROVE  a * c <= b * c
<1>1. b = a + (b - a) /\ b - a \in Nat
  OBVIOUS
<1>2. b * c = a * c + (b - a) * c
  BY <1>1
<1>3. (b - a) * c \in Nat /\ a * c \in Nat
  BY <1>1
<1> QED  BY <1>2, <1>3

(* A number has one quotient and one remainder.                              *)
LEMMA Unique ==
  ASSUME NEW b \in Nat \ {0}, NEW q \in Nat, NEW p \in 0 .. b - 1
  PROVE  (q * b + p) \div b = q /\ (q * b + p) % b = p
<1> DEFINE a == q * b + p
           t == a \div b
           u == a % b
<1>1. a \in Nat /\ q * b \in Nat
  OBVIOUS
<1>2. t \in Nat /\ u \in 0 .. b - 1 /\ a = t * b + u
  BY <1>1, Division
<1> HIDE DEF t, u
<1>3. t * b \in Nat
  BY <1>2
<1>4. q <= t
  <2>1. CASE t + 1 <= q
    <3>1. (t + 1) * b <= q * b
      BY <1>2, <2>1, Monotone
    <3>2. (t + 1) * b = t * b + b
      BY <1>2, Successor
    <3> QED  BY <1>1, <1>2, <1>3, <3>1, <3>2
  <2> QED  BY <1>2, <2>1
<1>5. t <= q
  <2>1. CASE q + 1 <= t
    <3>1. (q + 1) * b <= t * b
      BY <1>2, <2>1, Monotone
    <3>2. (q + 1) * b = q * b + b
      BY Successor
    <3> QED  BY <1>1, <1>2, <1>3, <3>1, <3>2
  <2> QED  BY <1>2, <2>1
<1>6. t = q
  BY <1>2, <1>4, <1>5
<1> QED  BY <1>1, <1>2, <1>6 DEF t, u

(* The next number has the next remainder, or remainder 0.                   *)
LEMMA NextRemainder ==
  ASSUME NEW a \in Nat, NEW b \in Nat \ {0}
  PROVE  (a + 1) % b = IF (a % b) + 1 = b THEN 0 ELSE (a % b) + 1
<1> DEFINE q == a \div b
           p == a % b
<1>1. q \in Nat /\ p \in 0 .. b - 1 /\ a = q * b + p
  BY Division
<1> HIDE DEF q, p
<1>2. CASE p + 1 = b
  <2>1. (q + 1) * b = q * b + b
    BY <1>1, Successor
  <2>2. a + 1 = (q + 1) * b + 0
    BY <1>1, <1>2, <2>1
  <2>3. q + 1 \in Nat /\ 0 \in 0 .. b - 1
    BY <1>1
  <2>4. (a + 1) % b = 0
    BY <2>2, <2>3, Unique
  <2> QED  BY <1>2, <2>4 DEF p
<1>3. CASE p + 1 # b
  <2>1. a + 1 = q * b + (p + 1) /\ p + 1 \in 0 .. b - 1
    BY <1>1, <1>3
  <2>2. (a + 1) % b = p + 1
    BY <1>1, <2>1, Unique
  <2> QED  BY <1>3, <2>2 DEF p
<1> QED  BY <1>2, <1>3

(* Different numbers less than the divisor apart have different remainders.  *)
LEMMA CloseNumbersDiffer ==
  ASSUME NEW b \in Nat \ {0}, NEW x \in Nat, NEW y \in Nat, x < y, y - x < b
  PROVE  x % b # y % b
<1> DEFINE q == x \div b
           t == y \div b
<1>1. q \in Nat /\ x % b \in 0 .. b - 1 /\ x = q * b + (x % b)
  BY Division
<1>2. t \in Nat /\ y % b \in 0 .. b - 1 /\ y = t * b + (y % b)
  BY Division
<1> HIDE DEF q, t
<1>3. q * b \in Nat /\ t * b \in Nat
  BY <1>1, <1>2
<1> SUFFICES ASSUME x % b = y % b PROVE FALSE
  OBVIOUS
<1>4. q * b < t * b /\ t * b < q * b + b
  BY <1>1, <1>2, <1>3
<1>5. CASE t <= q
  <2>1. t * b <= q * b
    BY <1>1, <1>2, <1>5, Monotone
  <2> QED  BY <1>3, <1>4, <2>1
<1>6. CASE q + 1 <= t
  <2>1. (q + 1) * b <= t * b /\ (q + 1) * b = q * b + b
    BY <1>1, <1>2, <1>6, Monotone, Successor
  <2> QED  BY <1>3, <1>4, <2>1
<1> QED  BY <1>1, <1>2, <1>5, <1>6

(* Below any number and less than the divisor away is one of each remainder. *)
LEMMA ResidueBelow ==
  ASSUME NEW b \in Nat \ {0}, NEW y \in Nat, NEW e \in 0 .. b - 1, e <= y
  PROVE  \E p \in Nat : p % b = e /\ p <= y /\ y - p < b
<1> DEFINE d == y - e
           q == d \div b
           u == d % b
<1>1. d \in Nat
  OBVIOUS
<1>2. q \in Nat /\ u \in 0 .. b - 1 /\ d = q * b + u
  BY <1>1, Division
<1>3. y = d + e
  OBVIOUS
<1> HIDE DEF d, q, u
<1>4. q * b \in Nat /\ (q * b + e) % b = e
  BY <1>2, Unique
<1>5. q * b + e \in Nat /\ q * b + e <= y /\ y - (q * b + e) < b
  BY <1>2, <1>3, <1>4
<1> QED  BY <1>4, <1>5

(* Counting modulo a multiple of the divisor does not change the remainder.  *)
LEMMA RemainderOfMultiple ==
  ASSUME NEW m \in Nat \ {0}, NEW b \in Nat \ {0}, m % b = 0, NEW a \in 0 .. m - 1
  PROVE  ((a + 1) % m) % b = (a + 1) % b
<1>1. CASE a + 1 < m
  <2>1. (a + 1) % m = a + 1
    BY <1>1
  <2> QED  BY <2>1
<1>2. CASE a + 1 = m
  <2>1. (a + 1) % m = 0
    BY <1>2
  <2>2. 0 % b = 0
    OBVIOUS
  <2> QED  BY <1>2, <2>1, <2>2
<1> QED  BY <1>1, <1>2

-----------------------------------------------------------------------------
(* Every set of numbers has a least one, hence induction.                    *)
Smaller == {s \in Nat \X Nat : s[1] < s[2]}

LEMMA SmallerIsWellFounded == IsWellFoundedOn(Smaller, Nat)
BY NatLessThanWellFounded DEF OpToRel, Smaller

LEMMA LeastNumber ==
  ASSUME NEW T \in SUBSET Nat, T # {}
  PROVE  \E x \in T : \A y \in T : x <= y
<1>1. PICK x \in T : \A y \in T : <<y, x>> \notin Smaller
  BY WFMin, SmallerIsWellFounded
<1>2. ASSUME NEW y \in T PROVE x <= y
  <2>1. x \in Nat /\ y \in Nat /\ <<y, x>> \notin Smaller
    BY <1>1
  <2> QED  BY <2>1 DEF Smaller
<1> QED  BY <1>2

LEMMA Induction ==
  ASSUME NEW T, 0 \in T, \A n \in Nat : n \in T => n + 1 \in T
  PROVE  \A n \in Nat : n \in T
<1> SUFFICES ASSUME {n \in Nat : n \notin T} # {} PROVE FALSE
  OBVIOUS
<1>1. PICK x \in {n \in Nat : n \notin T} : \A y \in {n \in Nat : n \notin T} : x <= y
  BY LeastNumber
<1>2. x # 0 /\ x - 1 \in Nat
  OBVIOUS
<1>3. x - 1 \in T
  BY <1>1, <1>2
<1>4. (x - 1) + 1 = x
  OBVIOUS
<1> QED  BY <1>2, <1>3, <1>4

(* n functions on V, and the values they give one after the other from a.    *)
Steps(n, V) == [1 .. n -> [V -> V]]

Iterates(f, n, V, a, next) ==
  /\ f \in [0 .. n -> V] /\ f[0] = a
  /\ \A i \in 1 .. n : f[i] = next[i][f[i - 1]]

LEMMA Recursion ==
  ASSUME NEW V, NEW a \in V, NEW n \in Nat, NEW next \in Steps(n, V)
  PROVE  \E f : Iterates(f, n, V, a, next)
<1> DEFINE Goes(f, m) == f[0] = a /\ \A i \in 1 .. m : f[i] = next[i][f[i - 1]]
           T == {m \in Nat : m <= n => \E f \in [0 .. m -> V] : Goes(f, m)}
<1>1. 0 \in T
  <2>1. [i \in 0 .. 0 |-> a] \in [0 .. 0 -> V] /\ Goes([i \in 0 .. 0 |-> a], 0)
    OBVIOUS
  <2> QED  BY <2>1
<1>2. ASSUME NEW m \in Nat, m \in T PROVE m + 1 \in T
  <2> SUFFICES ASSUME m + 1 <= n PROVE \E f \in [0 .. m + 1 -> V] : Goes(f, m + 1)
    OBVIOUS
  <2>1. PICK f \in [0 .. m -> V] : Goes(f, m)
    BY <1>2
  <2> DEFINE g == [i \in 0 .. m + 1 |-> IF i = m + 1 THEN next[m + 1][f[m]] ELSE f[i]]
  <2>2. m + 1 \in 1 .. n /\ m \in 0 .. m
    OBVIOUS
  <2>3. next[m + 1] \in [V -> V] /\ f[m] \in V
    BY <2>2 DEF Steps
  <2>4. g \in [0 .. m + 1 -> V]
    BY <2>3
  <2>5. g[0] = a
    BY <2>1
  <2>6. ASSUME NEW i \in 1 .. m + 1 PROVE g[i] = next[i][g[i - 1]]
    <3>1. i - 1 \in 0 .. m /\ i - 1 # m + 1 /\ i \in 0 .. m + 1 /\ i - 1 \in 0 .. m + 1
      OBVIOUS
    <3>2. g[i - 1] = f[i - 1]
      BY <3>1
    <3>3. CASE i = m + 1
      BY <3>1, <3>2, <3>3
    <3>4. CASE i # m + 1
      <4>1. i \in 1 .. m
        BY <3>4
      <4>2. g[i] = f[i]
        BY <3>1, <3>4
      <4> QED  BY <2>1, <3>2, <4>1, <4>2
    <3> QED  BY <3>3, <3>4
  <2> HIDE DEF g
  <2> QED  BY <2>4, <2>5, <2>6
<1>3. \A m \in Nat : m \in T
  <2> HIDE DEF T
  <2> QED  BY <1>1, <1>2, Induction
<1>4. PICK f \in [0 .. n -> V] : Goes(f, n)
  BY <1>3
<1>5. Iterates(f, n, V, a, next)
  BY <1>4 DEF Iterates
<1> QED  BY <1>5

(* The rows of a sequence after the first d.                                 *)
LEMMA LastRows ==
  ASSUME NEW S, NEW s \in Seq(S), NEW d \in 0 .. Len(s)
  PROVE  /\ SubSeq(s, d + 1, Len(s)) \in Seq(S)
         /\ Len(SubSeq(s, d + 1, Len(s))) = Len(s) - d
         /\ \A i \in 1 .. Len(s) - d : SubSeq(s, d + 1, Len(s))[i] = s[d + i]
<1> DEFINE n == Len(s)
           piece == SubSeq(s, d + 1, n)
<1>1. n \in Nat /\ d + 1 \in Int /\ n \in Int /\ d \in Nat /\ d <= n
  OBVIOUS
<1>2. \A k \in d + 1 .. n : s[k] \in S
  <2> SUFFICES ASSUME NEW k \in d + 1 .. n PROVE s[k] \in S
    OBVIOUS
  <2>1. k \in 1 .. Len(s)
    OBVIOUS
  <2> QED  BY <2>1, ElementOfSeq
<1> HIDE DEF n, piece
<1>3. /\ piece \in Seq(S)
      /\ Len(piece) = IF d + 1 <= n THEN n - (d + 1) + 1 ELSE 0
      /\ \A j \in 1 .. n - (d + 1) + 1 : piece[j] = s[(d + 1) + j - 1]
  BY <1>1, <1>2, SubSeqProperties DEF piece
<1>4. n - (d + 1) + 1 = n - d /\ \A j \in 1 .. n - d : (d + 1) + j - 1 = d + j
  BY <1>1
<1>5. /\ piece \in Seq(S) /\ Len(piece) = n - d
      /\ \A i \in 1 .. n - d : piece[i] = s[d + i]
  <2>1. Len(piece) = n - d
    BY <1>1, <1>3
  <2>2. \A i \in 1 .. n - d : piece[i] = s[d + i]
    BY <1>3, <1>4
  <2> QED  BY <1>3, <2>1, <2>2
<1> QED  BY <1>5 DEF n, piece

(* n sequences, and the sequences all of the first 1, 2, ... n one after     *)
(* another.                                                                  *)
Segments(S, n) == [1 .. n -> Seq(S)]

Accumulates(all, segs, n) ==
  /\ all[1] = segs[1]
  /\ \A m \in 1 .. n - 1 : all[m + 1] = all[m] \o segs[m + 1]

(* FlattenSeq adds one sequence after the other.                             *)
LEMMA FlattenUnfolds ==
  ASSUME NEW S, NEW n \in Nat, n # 0, NEW segs \in Segments(S, n)
  PROVE  \E all : FlattenSeq(segs) = all[n] /\ Accumulates(all, segs, n)
<1> DEFINE Eq(f) == f = [i \in 1 .. n |-> IF i = 1 THEN segs[i] ELSE f[i - 1] \o segs[i]]
           V == Seq(S)
           next == [i \in 1 .. n |-> [x \in V |-> x \o segs[i]]]
<1>0. segs \in [1 .. n -> V]
  BY DEF Segments
<1>1. next \in Steps(n, V)
  BY <1>0, ConcatProperties DEF Steps
<1>2. PICK v : Iterates(v, n, V, <<>>, next)
  <2>1. <<>> \in V /\ n \in Nat
    BY EmptySeq
  <2> HIDE DEF next, V
  <2> QED  BY ONLY <1>1, <2>1, Recursion
<1>3. \E g : Eq(g)
  <2> DEFINE g == [i \in 1 .. n |-> v[i]]
  <2>1. ASSUME NEW i \in 1 .. n
        PROVE  g[i] = IF i = 1 THEN segs[i] ELSE g[i - 1] \o segs[i]
    <3>0. i - 1 \in 0 .. n /\ i \in 0 .. n
      OBVIOUS
    <3>1. v[i] = v[i - 1] \o segs[i] /\ segs[i] \in V
      <4>1. v[i - 1] \in V
        BY <1>2, <3>0 DEF Iterates
      <4>2. v[i] = next[i][v[i - 1]]
        BY <1>2 DEF Iterates
      <4>3. next[i] = [x \in V |-> x \o segs[i]]
        OBVIOUS
      <4> HIDE DEF next, V
      <4>4. v[i] = v[i - 1] \o segs[i]
        BY <4>1, <4>2, <4>3
      <4> QED  BY <1>0, <4>4
    <3>2. CASE i = 1
      <4>1. v[i - 1] = <<>>
        BY <1>2, <3>2 DEF Iterates
      <4>2. v[i] = segs[i]
        BY <3>1, <4>1, ConcatEmptySeq
      <4> QED  BY <3>2, <4>2
    <3>3. CASE i # 1
      <4>1. i - 1 \in 1 .. n
        BY <3>3
      <4> QED  BY <3>1, <3>3, <4>1
    <3> QED  BY <3>2, <3>3
  <2>2. Eq(g)
    BY <2>1
  <2> QED  BY <2>2
<1> DEFINE all == CHOOSE g : Eq(g)
<1>4. Eq(all)
  <2> HIDE DEF Eq
  <2> QED  BY <1>3
<1>5. FlattenSeq(segs) = all[n]
  <2>1. Len(segs) = n
    BY <1>0
  <2> QED  BY <2>1 DEF FlattenSeq
<1> HIDE DEF all
<1>6. all[1] = segs[1]
  BY <1>4
<1>7. ASSUME NEW m \in 1 .. n - 1 PROVE all[m + 1] = all[m] \o segs[m + 1]
  <2>1. m + 1 \in 1 .. n /\ m + 1 # 1 /\ (m + 1) - 1 = m
    OBVIOUS
  <2> QED  BY <1>4, <2>1
<1> QED  BY <1>5, <1>6, <1>7 DEF Accumulates

(* Sequences of one length: where the rows of each are.                      *)
OfLength(segs, n, w) == \A i \in 1 .. n : Len(segs[i]) = w

EvenRows(flat, segs, S, n, w) ==
  /\ flat \in Seq(S) /\ Len(flat) = n * w
  /\ \A i \in 1 .. n, j \in 1 .. w :
       (i - 1) * w + j \in 1 .. n * w /\ flat[(i - 1) * w + j] = segs[i][j]

LEMMA FlattenEven ==
  ASSUME NEW S, NEW n \in Nat, n # 0, NEW w \in Nat, NEW segs \in Segments(S, n),
         OfLength(segs, n, w)
  PROVE  EvenRows(FlattenSeq(segs), segs, S, n, w)
<1>1. PICK all : FlattenSeq(segs) = all[n] /\ Accumulates(all, segs, n)
  BY FlattenUnfolds
<1>0. segs \in [1 .. n -> Seq(S)] /\ \A i \in 1 .. n : Len(segs[i]) = w
  BY DEF Segments, OfLength
<1> DEFINE P(m) == /\ all[m] \in Seq(S) /\ Len(all[m]) = m * w
                   /\ \A i \in 1 .. m, j \in 1 .. w :
                        /\ (i - 1) * w + j \in 1 .. m * w
                        /\ all[m][(i - 1) * w + j] = segs[i][j]
           T == {m \in Nat : m \in 1 .. n => P(m)}
<1>2. P(1)
  <2>1. 1 * w = w /\ (1 - 1) * w = 0
    OBVIOUS
  <2>2. segs[1] \in Seq(S) /\ Len(segs[1]) = w /\ all[1] = segs[1]
    BY <1>0, <1>1 DEF Accumulates
  <2> QED  BY <2>1, <2>2
<1>3. ASSUME NEW m \in 1 .. n - 1, P(m) PROVE P(m + 1)
  <2>1. /\ all[m] \in Seq(S) /\ Len(all[m]) = m * w
        /\ all[m + 1] = all[m] \o segs[m + 1]
        /\ segs[m + 1] \in Seq(S) /\ Len(segs[m + 1]) = w
    <3>1. m + 1 \in 1 .. n
      OBVIOUS
    <3>2. segs[m + 1] \in Seq(S) /\ Len(segs[m + 1]) = w
      BY <1>0, <3>1
    <3>3. all[m] \in Seq(S) /\ Len(all[m]) = m * w
      BY <1>3
    <3> HIDE DEF P
    <3> QED  BY <1>1, <3>2, <3>3 DEF Accumulates
  <2>2. (m + 1) * w = m * w + w /\ m * w \in Nat
    BY Successor
  <2>3. /\ all[m + 1] \in Seq(S) /\ Len(all[m + 1]) = m * w + w
        /\ \A k \in 1 .. m * w + w : all[m + 1][k] =
             IF k <= m * w THEN all[m][k] ELSE segs[m + 1][k - m * w]
    <3> DEFINE a == all[m]  b == segs[m + 1]
    <3>1. a \in Seq(S) /\ b \in Seq(S) /\ Len(a) = m * w /\ Len(b) = w
          /\ all[m + 1] = a \o b
      BY <2>1
    <3> HIDE DEF a, b
    <3>2. /\ a \o b \in Seq(S) /\ Len(a \o b) = Len(a) + Len(b)
          /\ \A k \in 1 .. Len(a) + Len(b) :
               (a \o b)[k] = IF k <= Len(a) THEN a[k] ELSE b[k - Len(a)]
      BY <3>1, ConcatProperties
    <3>3. /\ all[m + 1] \in Seq(S) /\ Len(all[m + 1]) = m * w + w
          /\ \A k \in 1 .. m * w + w :
               all[m + 1][k] = IF k <= m * w THEN a[k] ELSE b[k - m * w]
      BY <3>1, <3>2
    <3> QED  BY <3>3 DEF a, b
  <2>4. ASSUME NEW i \in 1 .. m + 1, NEW j \in 1 .. w
        PROVE  /\ (i - 1) * w + j \in 1 .. m * w + w
               /\ all[m + 1][(i - 1) * w + j] = segs[i][j]
    <3>1. CASE i = m + 1
      <4>1. (i - 1) * w = m * w
        BY <3>1
      <4> QED  BY <2>2, <2>3, <3>1, <4>1
    <3>2. CASE i # m + 1
      <4> DEFINE k == (i - 1) * w + j
      <4>1. i \in 1 .. m
        BY <3>2
      <4>2. k \in 1 .. m * w /\ all[m][k] = segs[i][j]
        BY <1>3, <4>1
      <4> HIDE DEF k
      <4>3. k \in 1 .. m * w + w /\ k <= m * w
        BY <2>2, <4>2
      <4>4. all[m + 1][k] = all[m][k]
        BY <2>3, <4>3
      <4> QED  BY <4>2, <4>3, <4>4 DEF k
    <3> QED  BY <3>1, <3>2
  <2> QED  BY <2>2, <2>3, <2>4
<1> HIDE DEF P
<1>4. 0 \in T
  OBVIOUS
<1>5. ASSUME NEW m \in Nat, m \in T PROVE m + 1 \in T
  <2> SUFFICES ASSUME m + 1 \in 1 .. n PROVE P(m + 1)
    OBVIOUS
  <2>1. CASE m = 0
    BY <1>2, <2>1
  <2>2. CASE m # 0
    <3>1. m \in 1 .. n - 1
      BY <2>2
    <3> QED  BY <1>3, <1>5, <3>1
  <2> QED  BY <2>1, <2>2
<1>6. P(n)
  <2> HIDE DEF T
  <2>1. n \in T
    BY <1>4, <1>5, Induction
  <2> QED  BY <2>1 DEF T
<1> QED  BY <1>1, <1>6 DEF P, EvenRows

(* Cutting what was flattened into pieces of that length gives it back.      *)
LEMMA CutEven ==
  ASSUME NEW S, NEW n \in Nat, n # 0, NEW w \in Nat, NEW segs \in Segments(S, n),
         OfLength(segs, n, w), NEW i \in 1 .. n
  PROVE  SubSeq(FlattenSeq(segs), (i - 1) * w + 1, i * w) = segs[i]
<1> DEFINE flat == FlattenSeq(segs)
           piece == SubSeq(flat, (i - 1) * w + 1, i * w)
           lo == (i - 1) * w
<1>1. /\ flat \in Seq(S) /\ Len(flat) = n * w
      /\ \A j \in 1 .. w : lo + j \in 1 .. n * w /\ flat[lo + j] = segs[i][j]
  <2>0. EvenRows(flat, segs, S, n, w)
    BY FlattenEven
  <2> HIDE DEF flat
  <2>2. \A j \in 1 .. w :
          (i - 1) * w + j \in 1 .. n * w /\ flat[(i - 1) * w + j] = segs[i][j]
    BY <2>0 DEF EvenRows
  <2> QED  BY <2>0, <2>2 DEF EvenRows
<1>2. i * w = lo + w /\ lo \in Nat
  <2>1. i - 1 \in Nat /\ i = (i - 1) + 1
    OBVIOUS
  <2> QED  BY <2>1, Successor
<1>3. segs[i] \in Seq(S) /\ Len(segs[i]) = w
  BY DEF Segments, OfLength
<1> HIDE DEF flat, lo
<1>4. \A k \in lo + 1 .. lo + w : flat[k] \in S
  <2> SUFFICES ASSUME NEW k \in lo + 1 .. lo + w PROVE flat[k] \in S
    OBVIOUS
  <2>1. k - lo \in 1 .. w /\ lo + (k - lo) = k
    BY <1>2
  <2>2. k \in 1 .. n * w
    BY <1>1, <2>1
  <2> QED  BY <1>1, <2>2, ElementOfSeq
<1>5. /\ piece \in Seq(S) /\ Len(piece) = w
      /\ \A j \in 1 .. w : piece[j] = flat[lo + j]
  <2>1. lo + 1 \in Int /\ lo + w \in Int
    BY <1>2
  <2>2. piece = SubSeq(flat, lo + 1, lo + w)
    BY <1>2 DEF lo
  <2> HIDE DEF piece
  <2>3. /\ piece \in Seq(S)
        /\ Len(piece) = IF lo + 1 <= lo + w THEN (lo + w) - (lo + 1) + 1 ELSE 0
        /\ \A j \in 1 .. (lo + w) - (lo + 1) + 1 : piece[j] = flat[(lo + 1) + j - 1]
    BY <1>4, <2>1, <2>2, SubSeqProperties
  <2>4. (lo + w) - (lo + 1) + 1 = w /\ \A j \in 1 .. w : (lo + 1) + j - 1 = lo + j
    BY <1>2
  <2>5. Len(piece) = w
    BY <1>2, <2>3
  <2> QED  BY <1>2, <2>3, <2>4, <2>5
<1> HIDE DEF piece
<1>6. piece = segs[i]
  BY <1>1, <1>3, <1>5, SeqEqual
<1> QED  BY <1>6 DEF piece, flat

-----------------------------------------------------------------------------
(* w is the first n elements of q without the members of S: it keeps the     *)
(* order, and every element moves forward if something before it went.       *)
KeepsOrder(q, S, w, n) ==
  /\ Len(w) <= n /\ ((\E k \in 1 .. n : q[k] \in S) => Len(w) < n)
  /\ \A i \in 1 .. n : q[i] \notin S =>
       \E j \in 1 .. Len(w) :
         /\ j <= i /\ w[j] = q[i]
         /\ (\E k \in 1 .. i - 1 : q[k] \in S) => j < i
  /\ \A j, m \in 1 .. Len(w) : j <= m =>
       \E i, k \in 1 .. n :
         /\ w[j] = q[i] /\ w[m] = q[k] /\ q[i] \notin S /\ q[k] \notin S
         /\ i <= k /\ (j < m => i < k)

LEMMA KeepNone ==
  ASSUME NEW q, NEW S
  PROVE  KeepsOrder(q, S, <<>>, 0)
BY DEF KeepsOrder

LEMMA KeepNext ==
  ASSUME NEW U, NEW q, NEW S, NEW n \in Nat, q[n + 1] \in U,
         NEW a \in Seq(U), KeepsOrder(q, S, a, n)
  PROVE  KeepsOrder(q, S, IF q[n + 1] \in S THEN a ELSE Append(a, q[n + 1]), n + 1)
<1> DEFINE x == q[n + 1]
<1>0. /\ Len(a) \in Nat /\ Len(a) <= n
      /\ (\E k \in 1 .. n : q[k] \in S) => Len(a) < n
  <2>1. Len(a) \in Nat
    OBVIOUS
  <2>2. Len(a) <= n
    BY DEF KeepsOrder
  <2>3. (\E k \in 1 .. n : q[k] \in S) => Len(a) < n
    BY DEF KeepsOrder
  <2> QED  BY <2>1, <2>2, <2>3
<1>4. \A e, m \in 1 .. Len(a) : e <= m =>
        \E i, k \in 1 .. n :
          /\ a[e] = q[i] /\ a[m] = q[k] /\ q[i] \notin S /\ q[k] \notin S
          /\ i <= k /\ (e < m => i < k)
  BY DEF KeepsOrder
<1>1. 1 .. n \subseteq 1 .. n + 1 /\ n + 1 \in 1 .. n + 1
  OBVIOUS
<1>2. CASE x \in S
  <2>1. ASSUME NEW i \in 1 .. n + 1, q[i] \notin S PROVE i \in 1 .. n
    BY <1>2, <2>1
  <2>2. Len(a) <= n + 1 /\ Len(a) < n + 1
    BY <1>0
  <2>3. ASSUME NEW i \in 1 .. n + 1, q[i] \notin S
        PROVE  \E j \in 1 .. Len(a) :
                 /\ j <= i /\ a[j] = q[i]
                 /\ (\E k \in 1 .. i - 1 : q[k] \in S) => j < i
    BY <2>1, <2>3 DEF KeepsOrder
  <2>4. ASSUME NEW j \in 1 .. Len(a), NEW l \in 1 .. Len(a), j <= l
        PROVE  \E i, k \in 1 .. n + 1 :
                 /\ a[j] = q[i] /\ a[l] = q[k] /\ q[i] \notin S /\ q[k] \notin S
                 /\ i <= k /\ (j < l => i < k)
    <3>1. \E i, k \in 1 .. n :
            /\ a[j] = q[i] /\ a[l] = q[k] /\ q[i] \notin S /\ q[k] \notin S
            /\ i <= k /\ (j < l => i < k)
      BY <1>4, <2>4, Zenon
    <3> QED  BY <1>1, <3>1
  <2>5. KeepsOrder(q, S, a, n + 1)
    BY <2>2, <2>3, <2>4 DEF KeepsOrder
  <2> QED  BY <1>2, <2>5
<1>3. CASE x \notin S
  <2> DEFINE b == Append(a, x)
  <2>1. /\ Len(b) = Len(a) + 1 /\ b[Len(a) + 1] = x
        /\ \A j \in 1 .. Len(a) : b[j] = a[j]
    BY AppendProperties
  <2> HIDE DEF b, x
  <2>2. Len(b) <= n + 1 /\ ((\E k \in 1 .. n + 1 : q[k] \in S) => Len(b) < n + 1)
    <3>1. ASSUME NEW k \in 1 .. n + 1, q[k] \in S PROVE k \in 1 .. n
      BY <1>3, <3>1 DEF x
    <3> QED  BY <1>0, <2>1, <3>1
  <2>3. ASSUME NEW i \in 1 .. n + 1, q[i] \notin S
        PROVE  \E j \in 1 .. Len(b) :
                 /\ j <= i /\ b[j] = q[i]
                 /\ (\E k \in 1 .. i - 1 : q[k] \in S) => j < i
    <3>1. CASE i \in 1 .. n
      <4>1. PICK j \in 1 .. Len(a) : /\ j <= i /\ a[j] = q[i]
                                     /\ (\E k \in 1 .. i - 1 : q[k] \in S) => j < i
        BY <2>3, <3>1 DEF KeepsOrder
      <4>2. j \in 1 .. Len(b) /\ b[j] = a[j]
        BY <1>0, <2>1
      <4> QED  BY <4>1, <4>2
    <3>2. CASE i = n + 1
      <4>1. Len(a) + 1 \in 1 .. Len(b) /\ Len(a) + 1 <= i /\ b[Len(a) + 1] = q[i]
        BY <1>0, <2>1, <3>2 DEF x
      <4>2. ASSUME NEW k \in 1 .. i - 1, q[k] \in S PROVE Len(a) + 1 < i
        <5>1. k \in 1 .. n
          BY <3>2
        <5> QED  BY <1>0, <3>2, <4>2, <5>1
      <4> QED  BY <4>1, <4>2
    <3> QED  BY <3>1, <3>2
  <2>4. ASSUME NEW j \in 1 .. Len(b), NEW l \in 1 .. Len(b), j <= l
        PROVE  \E i, k \in 1 .. n + 1 :
                 /\ b[j] = q[i] /\ b[l] = q[k] /\ q[i] \notin S /\ q[k] \notin S
                 /\ i <= k /\ (j < l => i < k)
    <3>1. CASE l \in 1 .. Len(a)
      <4>1. j \in 1 .. Len(a) /\ b[j] = a[j] /\ b[l] = a[l]
        BY <2>1, <2>4, <3>1
      <4>2. \E i, k \in 1 .. n :
              /\ a[j] = q[i] /\ a[l] = q[k] /\ q[i] \notin S /\ q[k] \notin S
              /\ i <= k /\ (j < l => i < k)
        <5>1. l \in 1 .. Len(a) /\ j <= l
          BY <2>4, <3>1
        <5>2. j \in 1 .. Len(a)
          BY <4>1
        <5> HIDE DEF b
        <5> QED  BY <1>4, <5>1, <5>2, Zenon
      <4> QED  BY <1>1, <4>1, <4>2
    <3>2. CASE l = Len(a) + 1 /\ j \in 1 .. Len(a)
      <4>1. PICK i \in 1 .. n : a[j] = q[i] /\ q[i] \notin S
        <5>1. j <= j
          BY <1>0
        <5> QED  BY <1>4, <3>2, <5>1
      <4>2. b[j] = q[i] /\ b[l] = q[n + 1] /\ i < n + 1
        BY <2>1, <3>2, <4>1 DEF x
      <4>3. i \in 1 .. n + 1 /\ i <= n + 1 /\ q[n + 1] \notin S
        BY <1>1, <1>3, <4>2 DEF x
      <4> QED  BY <1>1, <4>1, <4>2, <4>3
    <3>3. CASE l = Len(a) + 1 /\ j = Len(a) + 1
      <4>1. b[j] = q[n + 1] /\ b[l] = q[n + 1] /\ ~(j < l) /\ q[n + 1] \notin S
        BY <1>0, <1>3, <2>1, <3>3 DEF x
      <4> QED  BY <1>1, <4>1
    <3> QED  BY <1>0, <2>1, <2>4, <3>1, <3>2, <3>3
  <2>5. KeepsOrder(q, S, b, n + 1)
    BY <2>2, <2>3, <2>4 DEF KeepsOrder
  <2> QED  BY <1>3, <2>5 DEF b, x
<1> QED  BY <1>2, <1>3

Singles(q, S) == [i \in DOMAIN q |-> IF q[i] \in S THEN <<>> ELSE <<q[i]>>]

LEMMA FlattenKeeps ==
  ASSUME NEW U, NEW q \in Seq(U), NEW S
  PROVE  /\ FlattenSeq(Singles(q, S)) \in Seq(U)
         /\ KeepsOrder(q, S, FlattenSeq(Singles(q, S)), Len(q))
<1> DEFINE n == Len(q)
           segs == Singles(q, S)
<1>0. n \in Nat /\ DOMAIN q = 1 .. n /\ \A i \in 1 .. n : q[i] \in U
  BY LenProperties, ElementOfSeq
<1>1. \A i \in 1 .. n : segs[i] \in Seq(U) /\ segs[i] = IF q[i] \in S THEN <<>> ELSE <<q[i]>>
  BY <1>0 DEF Singles
<1>2. segs \in Segments(U, n) /\ Len(segs) = n /\ DOMAIN segs = 1 .. n
  <2>1. segs \in [1 .. n -> Seq(U)]
    BY <1>0, <1>1 DEF Singles
  <2> HIDE DEF segs
  <2> QED  BY <1>0, <2>1 DEF Segments
<1> HIDE DEF segs
<1>3. CASE n = 0
  <2>1. FlattenSeq(segs) = segs
    BY <1>2, <1>3 DEF FlattenSeq
  <2>2. segs = <<>>
    <3>1. segs \in [1 .. 0 -> Seq(U)]
      BY <1>2, <1>3 DEF Segments
    <3> QED  BY <3>1
  <2> QED  BY <1>3, <2>1, <2>2, KeepNone DEF segs
<1>4. CASE n # 0
  <2>1. PICK all : FlattenSeq(segs) = all[n] /\ Accumulates(all, segs, n)
    BY <1>0, <1>2, <1>4, FlattenUnfolds
  <2> DEFINE P(m) == all[m] \in Seq(U) /\ KeepsOrder(q, S, all[m], m)
             T == {m \in Nat : m \in 1 .. n => P(m)}
  <2>2. P(1)
    <3>1. all[1] = segs[1] /\ 1 \in 1 .. n
      BY <1>0, <1>4, <2>1 DEF Accumulates
    <3>2. all[1] = IF q[1] \in S THEN <<>> ELSE Append(<<>>, q[1])
      BY <1>1, <3>1
    <3>3. KeepsOrder(q, S, IF q[0 + 1] \in S THEN <<>> ELSE Append(<<>>, q[0 + 1]), 0 + 1)
      BY <1>0, <3>1, EmptySeq, KeepNone, KeepNext
    <3> QED  BY <1>1, <3>1, <3>2, <3>3
  <2>3. ASSUME NEW m \in 1 .. n - 1, P(m) PROVE P(m + 1)
    <3> DEFINE a == all[m]  b == all[m + 1]
    <3>1. a \in Seq(U) /\ KeepsOrder(q, S, a, m) /\ m \in Nat /\ m + 1 \in 1 .. n
      BY <1>0, <2>3
    <3>2. b = a \o segs[m + 1]
      BY <2>1 DEF Accumulates
    <3>3. q[m + 1] \in U /\ segs[m + 1] = IF q[m + 1] \in S THEN <<>> ELSE <<q[m + 1]>>
      BY <1>0, <1>1, <3>1
    <3> HIDE DEF a, b
    <3>4. b = IF q[m + 1] \in S THEN a ELSE Append(a, q[m + 1])
      <4>1. CASE q[m + 1] \in S
        BY <3>1, <3>2, <3>3, <4>1, ConcatEmptySeq
      <4>2. CASE q[m + 1] \notin S
        BY <3>1, <3>2, <3>3, <4>2, AppendIsConcat
      <4> QED  BY <4>1, <4>2
    <3>5. b \in Seq(U)
      BY <3>1, <3>3, <3>4, AppendProperties
    <3>6. KeepsOrder(q, S, b, m + 1)
      BY <3>1, <3>3, <3>4, KeepNext
    <3> QED  BY <3>5, <3>6 DEF b
  <2> HIDE DEF P
  <2>4. 0 \in T
    OBVIOUS
  <2>5. ASSUME NEW m \in Nat, m \in T PROVE m + 1 \in T
    <3> SUFFICES ASSUME m + 1 \in 1 .. n PROVE P(m + 1)
      OBVIOUS
    <3>1. CASE m = 0
      BY <2>2, <3>1
    <3>2. CASE m # 0
      <4>1. m \in 1 .. n - 1
        BY <1>0, <3>2
      <4> QED  BY <2>3, <2>5, <4>1
    <3> QED  BY <3>1, <3>2
  <2>6. P(n)
    <3> HIDE DEF T
    <3>1. n \in T
      BY <1>0, <2>4, <2>5, Induction
    <3> QED  BY <1>0, <1>4, <3>1 DEF T
  <2> QED  BY <2>1, <2>6 DEF P, segs, n
<1> QED  BY <1>3, <1>4

(* What that means for the elements.                                         *)
LEMMA KeptElements ==
  ASSUME NEW U, NEW q \in Seq(U), NEW S, NEW w \in Seq(U), KeepsOrder(q, S, w, Len(q))
  PROVE  /\ ToSet(w) = ToSet(q) \ S
         /\ IsInjective(q) => IsInjective(w)
<1>0. /\ DOMAIN q = 1 .. Len(q) /\ DOMAIN w = 1 .. Len(w)
      /\ Len(q) \in Nat /\ Len(w) \in Nat
  OBVIOUS
<1>1. ASSUME NEW x \in ToSet(w) PROVE x \in ToSet(q) \ S
  <2>1. PICK j \in 1 .. Len(w) : w[j] = x
    BY <1>0 DEF ToSet
  <2>2. j <= j
    BY <1>0
  <2>3. PICK i \in 1 .. Len(q) : w[j] = q[i] /\ q[i] \notin S
    BY <2>1, <2>2 DEF KeepsOrder
  <2> QED  BY <1>0, <2>1, <2>3 DEF ToSet
<1>2. ASSUME NEW x \in ToSet(q) \ S PROVE x \in ToSet(w)
  <2>1. PICK i \in 1 .. Len(q) : q[i] = x
    BY <1>0 DEF ToSet
  <2>2. PICK j \in 1 .. Len(w) : w[j] = q[i]
    BY <2>1 DEF KeepsOrder
  <2> QED  BY <1>0, <2>1, <2>2 DEF ToSet
<1>3. ASSUME IsInjective(q), NEW j \in 1 .. Len(w), NEW l \in 1 .. Len(w), w[j] = w[l], j < l
      PROVE  FALSE
  <2>1. j <= l
    BY <1>0, <1>3
  <2>2. PICK i \in 1 .. Len(q), k \in 1 .. Len(q) : w[j] = q[i] /\ w[l] = q[k] /\ i < k
    BY <1>3, <2>1 DEF KeepsOrder
  <2>3. q[i] = q[k]
    BY <1>3, <2>2
  <2>4. i # k
    BY <1>0, <2>2
  <2> QED  BY <1>0, <1>3, <2>3, <2>4 DEF IsInjective
<1>4. IsInjective(q) => IsInjective(w)
  <2> SUFFICES ASSUME IsInjective(q), NEW j \in 1 .. Len(w), NEW l \in 1 .. Len(w), w[j] = w[l]
               PROVE  j = l
    BY <1>0 DEF IsInjective
  <2>1. ~(j < l) /\ ~(l < j)
    BY <1>3
  <2> QED  BY <1>0, <2>1
<1> QED  BY <1>1, <1>2, <1>4

-----------------------------------------------------------------------------
(* Sums over finite sets, in the order in which the folds take the elements. *)
FirstOf(s) == CHOOSE x \in s : TRUE

AddsUp(sum, f, s) ==
  sum[s] = IF s = {} THEN 0 ELSE f[FirstOf(s)] + sum[s \ {FirstOf(s)}]

IsSum(sum, f, S) ==
  sum \in [SUBSET S -> Int] /\ \A s \in SUBSET S : AddsUp(sum, f, s)

SumOver(f, S) == (CHOOSE sum : IsSum(sum, f, S))[S]

IntOn(f, S) == IsFiniteSet(S) /\ \A x \in S : f[x] \in Int

LEMMA FirstIsMember ==
  ASSUME NEW s, s # {}
  PROVE  FirstOf(s) \in s
BY DEF FirstOf

LEMMA SumExists ==
  ASSUME NEW f, NEW S, IntOn(f, S)
  PROVE  \E sum : IsSum(sum, f, S)
<1> DEFINE Small(n) == {s \in SUBSET S : Cardinality(s) <= n}
           Good(sum, n) == /\ sum \in [SUBSET S -> Int]
                           /\ \A s \in Small(n) : AddsUp(sum, f, s)
           T == {n \in Nat : \E sum : Good(sum, n)}
<1>0. ASSUME NEW s \in SUBSET S
      PROVE  IsFiniteSet(s) /\ Cardinality(s) \in Nat /\ (Cardinality(s) = 0 <=> s = {})
  <2>1. IsFiniteSet(s)
    BY FS_Subset DEF IntOn
  <2> QED  BY <2>1, FS_CardinalityType, FS_EmptySet
<1>1. 0 \in T
  <2> DEFINE zero == [s \in SUBSET S |-> 0]
  <2>1. ASSUME NEW s \in Small(0) PROVE AddsUp(zero, f, s)
    <3>1. s \in SUBSET S /\ s = {}
      BY <1>0
    <3>2. zero[s] = 0
      BY <3>1
    <3> QED  BY <3>1, <3>2 DEF AddsUp
  <2>2. zero \in [SUBSET S -> Int]
    OBVIOUS
  <2> HIDE DEF zero
  <2> QED  BY <2>1, <2>2
<1>2. ASSUME NEW n \in Nat, n \in T PROVE n + 1 \in T
  <2>1. PICK old : Good(old, n)
    BY <1>2
  <2> DEFINE new == [s \in SUBSET S |->
                       IF Cardinality(s) = n + 1
                       THEN f[FirstOf(s)] + old[s \ {FirstOf(s)}] ELSE old[s]]
  <2>2. ASSUME NEW s \in SUBSET S, Cardinality(s) = n + 1
        PROVE  /\ s # {} /\ FirstOf(s) \in S /\ s \ {FirstOf(s)} \in SUBSET S
               /\ Cardinality(s \ {FirstOf(s)}) = n
    <3>1. s # {}
      BY <1>0, <2>2
    <3>2. FirstOf(s) \in s
      BY <3>1, FirstIsMember
    <3>3. Cardinality(s \ {FirstOf(s)}) = Cardinality(s) - 1
      BY <1>0, <3>2, FS_RemoveElement
    <3> QED  BY <2>2, <3>1, <3>2, <3>3
  <2>3. new \in [SUBSET S -> Int]
    <3>1. ASSUME NEW s \in SUBSET S, Cardinality(s) = n + 1
          PROVE  f[FirstOf(s)] + old[s \ {FirstOf(s)}] \in Int
      BY <2>1, <2>2, <3>1 DEF IntOn
    <3> QED  BY <2>1, <3>1
  <2>4. ASSUME NEW s \in SUBSET S, Cardinality(s) <= n PROVE new[s] = old[s]
    BY <1>0, <2>4
  <2>5. ASSUME NEW s \in Small(n + 1) PROVE AddsUp(new, f, s)
    <3>1. CASE Cardinality(s) = n + 1
      <4>1. new[s] = f[FirstOf(s)] + old[s \ {FirstOf(s)}]
        BY <3>1
      <4>2. new[s \ {FirstOf(s)}] = old[s \ {FirstOf(s)}]
        BY <2>2, <2>4, <3>1
      <4> HIDE DEF new
      <4> QED  BY <2>2, <3>1, <4>1, <4>2 DEF AddsUp
    <3>2. CASE Cardinality(s) # n + 1
      <4>1. s \in SUBSET S /\ Cardinality(s) <= n
        BY <1>0, <3>2
      <4>2. new[s] = old[s] /\ AddsUp(old, f, s)
        BY <2>1, <2>4, <4>1
      <4>3. s # {} => s \ {FirstOf(s)} \in SUBSET S /\ Cardinality(s \ {FirstOf(s)}) <= n
        <5> SUFFICES ASSUME s # {}
                     PROVE  s \ {FirstOf(s)} \in SUBSET S /\ Cardinality(s \ {FirstOf(s)}) <= n
          OBVIOUS
        <5>1. Cardinality(s \ {FirstOf(s)}) = Cardinality(s) - 1
          BY <1>0, <4>1, FirstIsMember, FS_RemoveElement
        <5> QED  BY <1>0, <4>1, <5>1
      <4>4. s # {} => new[s \ {FirstOf(s)}] = old[s \ {FirstOf(s)}]
        BY <2>4, <4>3
      <4> HIDE DEF new
      <4> QED  BY <4>2, <4>4 DEF AddsUp
    <3> QED  BY <3>1, <3>2
  <2> HIDE DEF new
  <2> QED  BY <2>3, <2>5
<1>3. Cardinality(S) \in Nat /\ Cardinality(S) \in T
  <2>1. Cardinality(S) \in Nat
    BY <1>0
  <2> HIDE DEF T
  <2> QED  BY <1>1, <1>2, <2>1, Induction
<1>4. PICK sum : Good(sum, Cardinality(S))
  BY <1>3
<1>5. ASSUME NEW s \in SUBSET S PROVE s \in Small(Cardinality(S))
  BY FS_Subset DEF IntOn
<1> QED  BY <1>4, <1>5 DEF IsSum

(* Whichever element is taken out first.                                     *)
LEMMA SumTakesAny ==
  ASSUME NEW f, NEW S, IntOn(f, S), NEW sum, IsSum(sum, f, S),
         NEW s \in SUBSET S, NEW x \in s
  PROVE  sum[s] = f[x] + sum[s \ {x}]
<1> DEFINE P(r) == \A y \in r : sum[r] = f[y] + sum[r \ {y}]
           T == {n \in Nat : \A r \in SUBSET S : Cardinality(r) = n => P(r)}
<1>0. ASSUME NEW r \in SUBSET S
      PROVE  IsFiniteSet(r) /\ Cardinality(r) \in Nat /\ (Cardinality(r) = 0 <=> r = {})
  <2>1. IsFiniteSet(r)
    BY FS_Subset DEF IntOn
  <2> QED  BY <2>1, FS_CardinalityType, FS_EmptySet
<1>1. 0 \in T
  BY <1>0
<1>2. ASSUME NEW n \in Nat, n \in T PROVE n + 1 \in T
  <2> SUFFICES ASSUME NEW r \in SUBSET S, Cardinality(r) = n + 1, NEW y \in r
               PROVE  sum[r] = f[y] + sum[r \ {y}]
    OBVIOUS
  <2> DEFINE z == FirstOf(r)
  <2>1. z \in r
    BY FirstIsMember
  <2>2. sum[r] = f[z] + sum[r \ {z}]
    BY <2>1 DEF IsSum, AddsUp
  <2> HIDE DEF z
  <2>3. CASE y = z
    BY <2>2, <2>3
  <2>4. CASE y # z
    <3>1. r \ {z} \in SUBSET S /\ Cardinality(r \ {z}) = n /\ y \in r \ {z}
      BY <1>0, <2>1, <2>4, FS_RemoveElement
    <3>2. r \ {y} \in SUBSET S /\ Cardinality(r \ {y}) = n /\ z \in r \ {y}
      BY <1>0, <2>1, <2>4, FS_RemoveElement
    <3>3. sum[r \ {z}] = f[y] + sum[(r \ {z}) \ {y}]
      BY <1>2, <3>1
    <3>4. sum[r \ {y}] = f[z] + sum[(r \ {y}) \ {z}]
      BY <1>2, <3>2
    <3>5. (r \ {z}) \ {y} = (r \ {y}) \ {z} /\ (r \ {y}) \ {z} \in SUBSET S
      OBVIOUS
    <3>6. /\ f[y] \in Int /\ f[z] \in Int
          /\ sum[(r \ {y}) \ {z}] \in Int
      BY <2>1, <3>5 DEF IntOn, IsSum
    <3>7. sum[r \ {z}] = f[y] + sum[(r \ {y}) \ {z}]
      BY <3>3, <3>5
    <3> QED  BY <2>2, <3>4, <3>6, <3>7
  <2> QED  BY <2>3, <2>4
<1>3. Cardinality(s) \in T
  <2>1. Cardinality(s) \in Nat
    BY <1>0
  <2> HIDE DEF T
  <2> QED  BY <1>1, <1>2, <2>1, Induction
<1> QED  BY <1>3

(* A sum depends on the values in its set only.                              *)
LEMMA SumsAgree ==
  ASSUME NEW f, NEW S, IntOn(f, S), NEW sum, IsSum(sum, f, S),
         NEW g, NEW R, NEW total, IsSum(total, g, R),
         NEW s \in SUBSET (S \cap R), \A x \in s : f[x] = g[x]
  PROVE  sum[s] = total[s]
<1> DEFINE T == {n \in Nat : \A r \in SUBSET s : Cardinality(r) = n => sum[r] = total[r]}
<1>0. ASSUME NEW r \in SUBSET s
      PROVE  IsFiniteSet(r) /\ Cardinality(r) \in Nat /\ (Cardinality(r) = 0 <=> r = {})
  <2>1. IsFiniteSet(r)
    BY FS_Subset DEF IntOn
  <2> QED  BY <2>1, FS_CardinalityType, FS_EmptySet
<1>1. 0 \in T
  <2> SUFFICES ASSUME NEW r \in SUBSET s, r = {} PROVE sum[r] = total[r]
    BY <1>0
  <2> QED  BY DEF IsSum, AddsUp
<1>2. ASSUME NEW n \in Nat, n \in T PROVE n + 1 \in T
  <2> SUFFICES ASSUME NEW r \in SUBSET s, Cardinality(r) = n + 1
               PROVE  sum[r] = total[r]
    OBVIOUS
  <2> DEFINE z == FirstOf(r)
  <2>0. r # {}
    BY <1>0
  <2>1. z \in r
    BY <2>0, FirstIsMember
  <2>2. sum[r] = f[z] + sum[r \ {z}] /\ total[r] = g[z] + total[r \ {z}]
    <3>1. r \in SUBSET S /\ r \in SUBSET R
      OBVIOUS
    <3> QED  BY <2>0, <3>1 DEF IsSum, AddsUp
  <2> HIDE DEF z
  <2>3. r \ {z} \in SUBSET s /\ Cardinality(r \ {z}) = n
    BY <1>0, <2>1, FS_RemoveElement
  <2>4. sum[r \ {z}] = total[r \ {z}]
    BY <1>2, <2>3
  <2> QED  BY <2>1, <2>2, <2>4
<1>3. Cardinality(s) \in T
  <2>1. Cardinality(s) \in Nat
    BY <1>0
  <2> HIDE DEF T
  <2> QED  BY <1>1, <1>2, <2>1, Induction
<1> QED  BY <1>3

LEMMA SumIsSum ==
  ASSUME NEW f, NEW S, IntOn(f, S)
  PROVE  \E sum : IsSum(sum, f, S) /\ SumOver(f, S) = sum[S]
BY SumExists DEF SumOver

LEMMA EmptySum == ASSUME NEW f PROVE SumOver(f, {}) = 0
<1>1. IntOn(f, {})
  BY FS_EmptySet DEF IntOn
<1> QED  BY <1>1, SumIsSum DEF IsSum, AddsUp

LEMMA SumEqual ==
  ASSUME NEW f, NEW g, NEW S, IntOn(f, S), \A x \in S : f[x] = g[x]
  PROVE  SumOver(f, S) = SumOver(g, S)
<1>1. IntOn(g, S)
  BY DEF IntOn
<1> QED  BY <1>1, SumIsSum, SumsAgree

LEMMA SumIn ==
  ASSUME NEW f, NEW S, IntOn(f, S)
  PROVE  SumOver(f, S) \in Int
<1>1. PICK sum : IsSum(sum, f, S) /\ SumOver(f, S) = sum[S]
  BY SumIsSum
<1>2. sum \in [SUBSET S -> Int] /\ S \in SUBSET S
  BY <1>1 DEF IsSum
<1> QED  BY <1>1, <1>2

LEMMA SumWithout ==
  ASSUME NEW f, NEW S, IntOn(f, S), NEW x \in S
  PROVE  SumOver(f, S) = f[x] + SumOver(f, S \ {x})
<1>1. PICK sum : IsSum(sum, f, S) /\ SumOver(f, S) = sum[S]
  BY SumIsSum
<1>2. IntOn(f, S \ {x})
  BY FS_RemoveElement DEF IntOn
<1>3. PICK rest : IsSum(rest, f, S \ {x}) /\ SumOver(f, S \ {x}) = rest[S \ {x}]
  BY <1>2, SumIsSum
<1>4. sum[S \ {x}] = rest[S \ {x}]
  BY <1>1, <1>3, SumsAgree
<1>5. sum[S] = f[x] + sum[S \ {x}]
  BY <1>1, SumTakesAny
<1> QED  BY <1>1, <1>3, <1>4, <1>5

LEMMA SumOfNaturals ==
  ASSUME NEW f, NEW S, IsFiniteSet(S), \A x \in S : f[x] \in Nat
  PROVE  SumOver(f, S) \in Nat
<1> DEFINE T == {n \in Nat : \A r \in SUBSET S : Cardinality(r) = n => SumOver(f, r) \in Nat}
<1>0. ASSUME NEW r \in SUBSET S
      PROVE  /\ IsFiniteSet(r) /\ Cardinality(r) \in Nat /\ (Cardinality(r) = 0 <=> r = {})
             /\ IntOn(f, r)
  <2>1. IsFiniteSet(r)
    BY FS_Subset
  <2> QED  BY <2>1, FS_CardinalityType, FS_EmptySet DEF IntOn
<1>1. 0 \in T
  BY <1>0, EmptySum
<1>2. ASSUME NEW n \in Nat, n \in T PROVE n + 1 \in T
  <2> SUFFICES ASSUME NEW r \in SUBSET S, Cardinality(r) = n + 1
               PROVE  SumOver(f, r) \in Nat
    OBVIOUS
  <2>1. PICK z : z \in r
    BY <1>0
  <2>2. SumOver(f, r) = f[z] + SumOver(f, r \ {z})
    BY <1>0, <2>1, SumWithout
  <2>3. r \ {z} \in SUBSET S /\ Cardinality(r \ {z}) = n
    BY <1>0, <2>1, FS_RemoveElement
  <2> QED  BY <1>2, <2>1, <2>2, <2>3
<1>3. Cardinality(S) \in T
  <2>1. Cardinality(S) \in Nat
    BY <1>0
  <2> HIDE DEF T
  <2> QED  BY <1>1, <1>2, <2>1, Induction
<1> QED  BY <1>3

LEMMA SumOfZeros ==
  ASSUME NEW f, NEW S, IsFiniteSet(S), \A x \in S : f[x] = 0
  PROVE  SumOver(f, S) = 0
<1> DEFINE T == {n \in Nat : \A r \in SUBSET S : Cardinality(r) = n => SumOver(f, r) = 0}
<1>0. ASSUME NEW r \in SUBSET S
      PROVE  /\ IsFiniteSet(r) /\ Cardinality(r) \in Nat /\ (Cardinality(r) = 0 <=> r = {})
             /\ IntOn(f, r)
  <2>1. IsFiniteSet(r)
    BY FS_Subset
  <2> QED  BY <2>1, FS_CardinalityType, FS_EmptySet DEF IntOn
<1>1. 0 \in T
  BY <1>0, EmptySum
<1>2. ASSUME NEW n \in Nat, n \in T PROVE n + 1 \in T
  <2> SUFFICES ASSUME NEW r \in SUBSET S, Cardinality(r) = n + 1
               PROVE  SumOver(f, r) = 0
    OBVIOUS
  <2>1. PICK z : z \in r
    BY <1>0
  <2>2. SumOver(f, r) = f[z] + SumOver(f, r \ {z})
    BY <1>0, <2>1, SumWithout
  <2>3. r \ {z} \in SUBSET S /\ Cardinality(r \ {z}) = n
    BY <1>0, <2>1, FS_RemoveElement
  <2> QED  BY <1>2, <2>1, <2>2, <2>3
<1>3. Cardinality(S) \in T
  <2>1. Cardinality(S) \in Nat
    BY <1>0
  <2> HIDE DEF T
  <2> QED  BY <1>1, <1>2, <2>1, Induction
<1> QED  BY <1>3

(* A recursive function over the subsets of S that adds f of an element.     *)
IsAdding(iter, f, S) ==
  iter = [s \in SUBSET S |->
            IF s = {} THEN 0 ELSE f[CHOOSE x \in s : TRUE] + iter[s \ {CHOOSE x \in s : TRUE}]]

LEMMA AddingExists ==
  ASSUME NEW f, NEW S, IntOn(f, S)
  PROVE  \E iter : IsAdding(iter, f, S)
<1>1. PICK sum : IsSum(sum, f, S)
  BY SumExists
<1>2. \A s \in SUBSET S : sum[s] = IF s = {} THEN 0 ELSE
                            f[CHOOSE x \in s : TRUE] + sum[s \ {CHOOSE x \in s : TRUE}]
  BY <1>1 DEF IsSum, AddsUp, FirstOf
<1>3. sum = [s \in SUBSET S |-> sum[s]]
  BY <1>1 DEF IsSum
<1>4. [s \in SUBSET S |-> sum[s]] =
      [s \in SUBSET S |-> IF s = {} THEN 0 ELSE
                          f[CHOOSE x \in s : TRUE] + sum[s \ {CHOOSE x \in s : TRUE}]]
  BY <1>2
<1>5. IsAdding(sum, f, S)
  BY <1>3, <1>4 DEF IsAdding
<1> QED  BY <1>5

LEMMA AddingIsSum ==
  ASSUME NEW f, NEW S, IntOn(f, S), NEW iter, IsAdding(iter, f, S)
  PROVE  iter[S] = SumOver(f, S)
<1>1. PICK sum : IsSum(sum, f, S) /\ SumOver(f, S) = sum[S]
  BY SumIsSum
<1> DEFINE T == {n \in Nat : \A r \in SUBSET S : Cardinality(r) = n => sum[r] = iter[r]}
<1>0. ASSUME NEW r \in SUBSET S
      PROVE  IsFiniteSet(r) /\ Cardinality(r) \in Nat /\ (Cardinality(r) = 0 <=> r = {})
  <2>1. IsFiniteSet(r)
    BY FS_Subset DEF IntOn
  <2> QED  BY <2>1, FS_CardinalityType, FS_EmptySet
<1>2. ASSUME NEW r \in SUBSET S
      PROVE  iter[r] = IF r = {} THEN 0 ELSE f[FirstOf(r)] + iter[r \ {FirstOf(r)}]
  BY DEF IsAdding, FirstOf
<1>3. 0 \in T
  BY <1>0, <1>1, <1>2 DEF IsSum, AddsUp
<1>4. ASSUME NEW n \in Nat, n \in T PROVE n + 1 \in T
  <2> SUFFICES ASSUME NEW r \in SUBSET S, Cardinality(r) = n + 1
               PROVE  sum[r] = iter[r]
    OBVIOUS
  <2> DEFINE z == FirstOf(r)
  <2>0. r # {}
    BY <1>0
  <2>1. z \in r
    BY <2>0, FirstIsMember
  <2>2. sum[r] = f[z] + sum[r \ {z}] /\ iter[r] = f[z] + iter[r \ {z}]
    BY <1>1, <1>2, <2>0 DEF IsSum, AddsUp
  <2> HIDE DEF z
  <2>3. r \ {z} \in SUBSET S /\ Cardinality(r \ {z}) = n
    BY <1>0, <2>1, FS_RemoveElement
  <2> QED  BY <1>4, <2>2, <2>3
<1>5. Cardinality(S) \in T
  <2>1. Cardinality(S) \in Nat
    BY <1>0
  <2> HIDE DEF T
  <2> QED  BY <1>3, <1>4, <2>1, Induction
<1> QED  BY <1>1, <1>5

LEMMA TotalIsSum ==
  ASSUME NEW f, IntOn(f, DOMAIN f)
  PROVE  FoldFunction(+, 0, f) = SumOver(f, DOMAIN f)
<1> DEFINE S == DOMAIN f
           Eq(iter) ==
             iter = [s \in SUBSET S |->
                       IF s = {} THEN 0
                       ELSE f[CHOOSE x \in s : TRUE] + iter[s \ {CHOOSE x \in s : TRUE}]]
           it == CHOOSE iter : Eq(iter)
<1>1. FoldFunction(+, 0, f) = it[S]
  BY DEF FoldFunction, FoldFunctionOnSet, MapThenFoldSet
<1>2. \E iter : Eq(iter)
  <2>1. PICK iter : IsAdding(iter, f, S)
    BY AddingExists
  <2>2. Eq(iter)
    BY <2>1 DEF IsAdding
  <2> QED  BY <2>2
<1>3. Eq(it)
  <2> HIDE DEF Eq
  <2> QED  BY <1>2
<1>4. IsAdding(it, f, S)
  <2> HIDE DEF it
  <2> QED  BY <1>3 DEF IsAdding
<1> HIDE DEF it
<1> QED  BY <1>1, <1>4, AddingIsSum

LEMMA SumAtMost ==
  ASSUME NEW f, NEW g, NEW S, IntOn(f, S), IntOn(g, S), \A x \in S : g[x] <= f[x]
  PROVE  SumOver(g, S) <= SumOver(f, S)
<1> DEFINE T == {n \in Nat : \A r \in SUBSET S : Cardinality(r) = n =>
                                 SumOver(g, r) <= SumOver(f, r)}
<1>0. ASSUME NEW r \in SUBSET S
      PROVE  /\ IsFiniteSet(r) /\ Cardinality(r) \in Nat /\ (Cardinality(r) = 0 <=> r = {})
             /\ IntOn(f, r) /\ IntOn(g, r)
  <2>1. IsFiniteSet(r)
    BY FS_Subset DEF IntOn
  <2> QED  BY <2>1, FS_CardinalityType, FS_EmptySet DEF IntOn
<1>1. 0 \in T
  BY <1>0, EmptySum
<1>2. ASSUME NEW n \in Nat, n \in T PROVE n + 1 \in T
  <2> SUFFICES ASSUME NEW r \in SUBSET S, Cardinality(r) = n + 1
               PROVE  SumOver(g, r) <= SumOver(f, r)
    OBVIOUS
  <2>1. PICK z : z \in r
    BY <1>0
  <2>2. SumOver(f, r) = f[z] + SumOver(f, r \ {z}) /\ SumOver(g, r) = g[z] + SumOver(g, r \ {z})
    BY <1>0, <2>1, SumWithout
  <2>3. r \ {z} \in SUBSET S /\ Cardinality(r \ {z}) = n
    <3>1. IsFiniteSet(r)
      BY <1>0
    <3>2. Cardinality(r \ {z}) = Cardinality(r) - 1
      BY <2>1, <3>1, FS_RemoveElement
    <3> QED  BY <3>2
  <2>4. SumOver(g, r \ {z}) <= SumOver(f, r \ {z})
    BY <1>2, <2>3
  <2>5. SumOver(g, r \ {z}) \in Int /\ SumOver(f, r \ {z}) \in Int
    BY <1>0, <2>3, SumIn
  <2>6. f[z] \in Int /\ g[z] \in Int /\ g[z] <= f[z]
    BY <2>1 DEF IntOn
  <2> QED  BY <2>2, <2>4, <2>5, <2>6
<1>3. Cardinality(S) \in T
  <2>1. Cardinality(S) \in Nat
    BY <1>0
  <2> HIDE DEF T
  <2> QED  BY <1>1, <1>2, <2>1, Induction
<1> QED  BY <1>3

(* What one changed value, and a longer or shorter sequence, do to a sum.    *)
LEMMA SumChange ==
  ASSUME NEW f, NEW g, NEW S, IntOn(f, S), NEW x \in S,
         \A y \in S \ {x} : g[y] = f[y], g[x] \in Int
  PROVE  SumOver(g, S) = SumOver(f, S) - f[x] + g[x]
<1>1. IntOn(g, S) /\ IntOn(f, S \ {x})
  BY FS_RemoveElement DEF IntOn
<1>2. SumOver(f, S) = f[x] + SumOver(f, S \ {x})
  BY SumWithout
<1>3. SumOver(g, S) = g[x] + SumOver(g, S \ {x})
  BY <1>1, SumWithout
<1>4. SumOver(f, S \ {x}) = SumOver(g, S \ {x})
  BY <1>1, SumEqual
<1>5. SumOver(f, S \ {x}) \in Int /\ f[x] \in Int
  BY <1>1, SumIn DEF IntOn
<1> QED  BY <1>2, <1>3, <1>4, <1>5

LEMMA SumLast ==
  ASSUME NEW n \in Nat, NEW f, IntOn(f, 1 .. n + 1)
  PROVE  SumOver(f, 1 .. n + 1) = SumOver(f, 1 .. n) + f[n + 1]
<1>1. (1 .. n + 1) \ {n + 1} = 1 .. n /\ n + 1 \in 1 .. n + 1
  OBVIOUS
<1>2. SumOver(f, 1 .. n + 1) = f[n + 1] + SumOver(f, 1 .. n)
  BY <1>1, SumWithout
<1>3. IntOn(f, 1 .. n) /\ f[n + 1] \in Int
  BY <1>1, FS_Interval DEF IntOn
<1> QED  BY <1>2, <1>3, SumIn

LEMMA SumFirst ==
  ASSUME NEW n \in Nat, NEW f, IntOn(f, 1 .. n + 1)
  PROVE  SumOver(f, 1 .. n + 1) = f[1] + SumOver([i \in 1 .. n |-> f[i + 1]], 1 .. n)
<1> DEFINE g == [i \in 1 .. n |-> f[i + 1]]
           T == {m \in Nat : m <= n => SumOver(f, 1 .. m + 1) = f[1] + SumOver(g, 1 .. m)}
<1>0. \A i \in 1 .. n : g[i] = f[i + 1] /\ g[i] \in Int
  BY DEF IntOn
<1> HIDE DEF g
<1>1. 0 \in T
  <2>1. IntOn(f, 1 .. 0 + 1)
    <3>1. 0 + 1 \in Int /\ 1 \in Int
      OBVIOUS
    <3>2. IsFiniteSet(1 .. 0 + 1)
      BY <3>1, FS_Interval
    <3>3. 1 .. 0 + 1 \subseteq 1 .. n + 1
      OBVIOUS
    <3> QED  BY <3>2, <3>3 DEF IntOn
  <2>2. SumOver(f, 1 .. 0 + 1) = SumOver(f, 1 .. 0) + f[0 + 1]
    BY <2>1, SumLast
  <2>3. 1 .. 0 = {} /\ 0 + 1 = 1 /\ f[1] \in Int
    BY <2>1 DEF IntOn
  <2>4. SumOver(f, 1 .. 0) = 0 /\ SumOver(g, 1 .. 0) = 0
    BY <2>3, EmptySum
  <2> QED  BY <2>2, <2>3, <2>4
<1>2. ASSUME NEW m \in Nat, m \in T PROVE m + 1 \in T
  <2> SUFFICES ASSUME m + 1 <= n
               PROVE  SumOver(f, 1 .. (m + 1) + 1) = f[1] + SumOver(g, 1 .. m + 1)
    OBVIOUS
  <2>1. IntOn(f, 1 .. (m + 1) + 1) /\ IntOn(g, 1 .. m + 1) /\ IntOn(g, 1 .. m)
    <3>1. IntOn(f, 1 .. (m + 1) + 1)
      BY FS_Interval DEF IntOn
    <3>2. IntOn(g, 1 .. m + 1)
      BY <1>0, FS_Interval DEF IntOn
    <3>3. IntOn(g, 1 .. m)
      BY <1>0, FS_Interval DEF IntOn
    <3> QED  BY <3>1, <3>2, <3>3
  <2>2. SumOver(f, 1 .. (m + 1) + 1) = SumOver(f, 1 .. m + 1) + f[(m + 1) + 1]
    BY <2>1, SumLast
  <2>3. SumOver(g, 1 .. m + 1) = SumOver(g, 1 .. m) + g[m + 1]
    BY <2>1, SumLast
  <2>4. SumOver(f, 1 .. m + 1) = f[1] + SumOver(g, 1 .. m)
    BY <1>2
  <2>5. g[m + 1] = f[(m + 1) + 1] /\ g[m + 1] \in Int
    BY <1>0
  <2>6. SumOver(g, 1 .. m) \in Int /\ f[1] \in Int
    <3>1. 1 \in 1 .. (m + 1) + 1
      OBVIOUS
    <3> QED  BY <2>1, <3>1, SumIn DEF IntOn
  <2> QED  BY <2>2, <2>3, <2>4, <2>5, <2>6
<1>3. n \in T
  <2> HIDE DEF T
  <2> QED  BY <1>1, <1>2, Induction
<1> QED  BY <1>3 DEF g

-----------------------------------------------------------------------------
(* Sequences used as queues.                                                 *)
LEMMA AppendedSeq ==
  ASSUME NEW U, NEW q \in Seq(U), NEW x \in U
  PROVE  /\ Append(q, x) \in Seq(U) /\ Len(Append(q, x)) = Len(q) + 1
         /\ ToSet(Append(q, x)) = ToSet(q) \cup {x}
         /\ IsInjective(q) /\ x \notin ToSet(q) => IsInjective(Append(q, x))
BY AppendProperties DEF ToSet, IsInjective

LEMMA PushedSeq ==
  ASSUME NEW U, NEW q \in Seq(U), NEW x \in U
  PROVE  /\ <<x>> \o q \in Seq(U)
         /\ ToSet(<<x>> \o q) = ToSet(q) \cup {x}
         /\ IsInjective(q) /\ x \notin ToSet(q) => IsInjective(<<x>> \o q)
<1> DEFINE w == <<x>> \o q
<1>1. /\ w \in Seq(U) /\ Len(w) = Len(q) + 1
      /\ \A i \in 1 .. Len(q) + 1 : w[i] = IF i = 1 THEN x ELSE q[i - 1]
  BY ConcatProperties
<1> HIDE DEF w
<1>2. DOMAIN w = 1 .. Len(q) + 1 /\ DOMAIN q = 1 .. Len(q) /\ Len(q) \in Nat
  BY <1>1
<1>3. ToSet(w) = ToSet(q) \cup {x}
  <2>1. ASSUME NEW y \in ToSet(w) PROVE y \in ToSet(q) \cup {x}
    BY <1>1, <1>2 DEF ToSet
  <2>2. x \in ToSet(w)
    BY <1>1, <1>2 DEF ToSet
  <2>3. ASSUME NEW y \in ToSet(q) PROVE y \in ToSet(w)
    <3>1. PICK i \in 1 .. Len(q) : q[i] = y
      BY <1>2 DEF ToSet
    <3>2. i + 1 \in 1 .. Len(q) + 1 /\ i + 1 # 1 /\ (i + 1) - 1 = i
      BY <1>2
    <3>3. w[i + 1] = y
      BY <1>1, <3>1, <3>2
    <3> QED  BY <1>2, <3>2, <3>3 DEF ToSet
  <2> QED  BY <2>1, <2>2, <2>3
<1>4. ASSUME IsInjective(q), x \notin ToSet(q),
             NEW i \in 1 .. Len(q) + 1, NEW j \in 1 .. Len(q) + 1, w[i] = w[j]
      PROVE  i = j
  <2>1. ASSUME NEW k \in 1 .. Len(q) + 1, k # 1
        PROVE  k - 1 \in DOMAIN q /\ w[k] = q[k - 1] /\ w[k] # x
    <3>1. k - 1 \in 1 .. Len(q)
      BY <1>2, <2>1
    <3> QED  BY <1>1, <1>2, <1>4, <2>1, <3>1 DEF ToSet
  <2>2. CASE i = 1
    BY <1>1, <1>4, <2>1, <2>2
  <2>3. CASE j = 1
    BY <1>1, <1>4, <2>1, <2>3
  <2>4. CASE i # 1 /\ j # 1
    <3>1. i - 1 = j - 1
      BY <1>4, <2>1, <2>4 DEF IsInjective
    <3> QED  BY <1>2, <3>1
  <2> QED  BY <2>2, <2>3, <2>4
<1> QED  BY <1>1, <1>2, <1>3, <1>4 DEF IsInjective, w

LEMMA PoppedSeq ==
  ASSUME NEW U, NEW q \in Seq(U), q # <<>>
  PROVE  /\ Head(q) \in U /\ Head(q) \in ToSet(q) /\ Tail(q) \in Seq(U)
         /\ ToSet(q) = ToSet(Tail(q)) \cup {Head(q)}
         /\ IsInjective(q) => IsInjective(Tail(q)) /\ Head(q) \notin ToSet(Tail(q))
<1> DEFINE w == Tail(q)
<1>1. /\ Head(q) \in U /\ w \in Seq(U) /\ Len(w) = Len(q) - 1 /\ Len(q) \in Nat \ {0}
      /\ \A i \in 1 .. Len(w) : w[i] = q[i + 1]
  BY HeadTailProperties
<1>2. Head(q) = q[1]
  OBVIOUS
<1> HIDE DEF w
<1>3. DOMAIN w = 1 .. Len(w) /\ DOMAIN q = 1 .. Len(w) + 1 /\ Len(w) \in Nat
  BY <1>1
<1>4. \A i \in 1 .. Len(w) : i + 1 \in 1 .. Len(w) + 1 /\ i + 1 # 1
  BY <1>3
<1>5. ToSet(q) = ToSet(w) \cup {Head(q)}
  <2>1. ASSUME NEW y \in ToSet(q) PROVE y \in ToSet(w) \cup {Head(q)}
    <3>1. PICK i \in 1 .. Len(w) + 1 : q[i] = y
      BY <1>3 DEF ToSet
    <3>2. CASE i = 1
      BY <1>2, <3>1, <3>2
    <3>3. CASE i # 1
      <4>1. i - 1 \in 1 .. Len(w) /\ (i - 1) + 1 = i
        BY <1>3, <3>3
      <4>2. w[i - 1] = y
        BY <1>1, <3>1, <4>1
      <4> QED  BY <1>3, <4>1, <4>2 DEF ToSet
    <3> QED  BY <3>2, <3>3
  <2>2. ASSUME NEW y \in ToSet(w) PROVE y \in ToSet(q)
    <3>1. PICK i \in 1 .. Len(w) : w[i] = y
      BY <1>3 DEF ToSet
    <3> QED  BY <1>1, <1>3, <1>4, <3>1 DEF ToSet
  <2>3. Head(q) \in ToSet(q)
    BY <1>2, <1>3 DEF ToSet
  <2> QED  BY <2>1, <2>2, <2>3
<1>6. ASSUME IsInjective(q) PROVE IsInjective(w) /\ Head(q) \notin ToSet(w)
  <2>1. \A i, j \in 1 .. Len(w) : w[i] = w[j] => i = j
    <3> SUFFICES ASSUME NEW i \in 1 .. Len(w), NEW j \in 1 .. Len(w), w[i] = w[j] PROVE i = j
      OBVIOUS
    <3>1. i + 1 = j + 1
      BY <1>1, <1>3, <1>4, <1>6 DEF IsInjective
    <3> QED  BY <3>1
  <2>2. ASSUME NEW i \in 1 .. Len(w) PROVE w[i] # Head(q)
    <3>1. 1 \in DOMAIN q /\ i + 1 \in DOMAIN q /\ i + 1 # 1
      BY <1>3, <1>4
    <3> QED  BY <1>1, <1>2, <1>6, <3>1 DEF IsInjective
  <2> QED  BY <1>3, <2>1, <2>2 DEF IsInjective, ToSet
<1> QED  BY <1>1, <1>5, <1>6 DEF w

LEMMA CutSeq ==
  ASSUME NEW U, NEW q \in Seq(U), q # <<>>
  PROVE  /\ Last(q) \in U /\ Last(q) \in ToSet(q) /\ Last(q) = q[Len(q)]
         /\ Front(q) \in Seq(U) /\ Len(Front(q)) = Len(q) - 1
         /\ \A i \in 1 .. Len(q) - 1 : Front(q)[i] = q[i]
         /\ ToSet(q) = ToSet(Front(q)) \cup {Last(q)}
         /\ IsInjective(q) => IsInjective(Front(q)) /\ Last(q) \notin ToSet(Front(q))
<1> DEFINE w == Front(q)
           n == Len(q)
<1>1. n \in Nat \ {0} /\ DOMAIN q = 1 .. n /\ \A i \in 1 .. n : q[i] \in U
  OBVIOUS
<1>2. Last(q) = q[n]
  BY DEF Last
<1>3. w \in Seq(U) /\ Len(w) = n - 1 /\ \A i \in 1 .. n - 1 : w[i] = q[i]
  <2>1. n - 1 \in Nat /\ \A i \in 1 .. n - 1 : q[i] \in U
    BY <1>1
  <2>2. w = SubSeq(q, 1, n - 1)
    BY DEF Front
  <2>3. SubSeq(q, 1, n - 1) \in Seq(U) /\ Len(SubSeq(q, 1, n - 1)) = n - 1
    BY <1>1, <2>1
  <2>4. \A i \in 1 .. n - 1 : SubSeq(q, 1, n - 1)[i] = q[i]
    BY <1>1, <2>1
  <2> QED  BY <2>2, <2>3, <2>4
<1> HIDE DEF w, n
<1>4. DOMAIN w = 1 .. n - 1
  BY <1>1, <1>3
<1>5. ToSet(q) = ToSet(w) \cup {Last(q)}
  BY <1>1, <1>2, <1>3, <1>4 DEF ToSet
<1>6. IsInjective(q) => IsInjective(w) /\ Last(q) \notin ToSet(w)
  BY <1>1, <1>2, <1>3, <1>4 DEF ToSet, IsInjective
<1> QED  BY <1>1, <1>2, <1>3, <1>5, <1>6 DEF w, n

(* What follows a reversed sequence.                                         *)
LEMMA ReversedSeq ==
  ASSUME NEW U, NEW p \in Seq(U), NEW q \in Seq(U)
  PROVE  /\ Reverse(p) \o q \in Seq(U) /\ ToSet(Reverse(p) \o q) = ToSet(p) \cup ToSet(q)
         /\ IsInjective(p) /\ IsInjective(q) /\ ToSet(p) \cap ToSet(q) = {} =>
              IsInjective(Reverse(p) \o q)
<1> DEFINE v == Reverse(p)
           w == v \o q
           n == Len(p)
           m == Len(q)
<1>1. n \in Nat /\ m \in Nat /\ DOMAIN p = 1 .. n /\ DOMAIN q = 1 .. m
  OBVIOUS
<1>2. v \in Seq(U) /\ Len(v) = n /\ \A i \in 1 .. n : n - i + 1 \in 1 .. n /\ v[i] = p[n - i + 1]
  <2>1. \A i \in 1 .. n : n - i + 1 \in 1 .. n /\ p[n - i + 1] \in U
    BY <1>1
  <2>2. v = [i \in 1 .. n |-> p[n - i + 1]]
    BY DEF Reverse
  <2> QED  BY <1>1, <2>1, <2>2
<1> HIDE DEF v
<1>3. /\ w \in Seq(U) /\ Len(w) = n + m
      /\ \A i \in 1 .. n + m : w[i] = IF i <= n THEN v[i] ELSE q[i - n]
  <2>1. /\ w \in Seq(U) /\ Len(w) = Len(v) + Len(q)
        /\ \A i \in 1 .. Len(v) + Len(q) : w[i] = IF i <= Len(v) THEN v[i] ELSE q[i - Len(v)]
    BY <1>2, ConcatProperties
  <2> QED  BY <1>2, <2>1
<1> HIDE DEF w, n, m
<1>4. DOMAIN w = 1 .. n + m
  BY <1>1, <1>3
<1>5. \A i \in 1 .. n : w[i] = p[n - i + 1] /\ n - i + 1 \in 1 .. n /\ i \in 1 .. n + m
  BY <1>1, <1>2, <1>3
<1>6. \A i \in 1 .. n + m : i > n => i - n \in 1 .. m /\ w[i] = q[i - n]
  BY <1>1, <1>3
<1>7. ToSet(w) = ToSet(p) \cup ToSet(q)
  <2>1. ASSUME NEW y \in ToSet(w) PROVE y \in ToSet(p) \cup ToSet(q)
    <3>1. PICK i \in 1 .. n + m : w[i] = y
      BY <1>4 DEF ToSet
    <3>2. CASE i <= n
      <4>1. i \in 1 .. n
        BY <1>1, <3>2
      <4> QED  BY <1>1, <1>5, <3>1, <4>1 DEF ToSet
    <3>3. CASE i > n
      BY <1>1, <1>6, <3>1, <3>3 DEF ToSet
    <3> QED  BY <1>1, <3>2, <3>3
  <2>2. ASSUME NEW y \in ToSet(p) PROVE y \in ToSet(w)
    <3>1. PICK i \in 1 .. n : p[i] = y
      BY <1>1 DEF ToSet
    <3>2. n - i + 1 \in 1 .. n /\ n - (n - i + 1) + 1 = i
      BY <1>1
    <3>3. w[n - i + 1] = y /\ n - i + 1 \in 1 .. n + m
      BY <1>5, <3>1, <3>2
    <3> QED  BY <1>4, <3>3 DEF ToSet
  <2>3. ASSUME NEW y \in ToSet(q) PROVE y \in ToSet(w)
    <3>1. PICK i \in 1 .. m : q[i] = y
      BY <1>1 DEF ToSet
    <3>2. i + n \in 1 .. n + m /\ i + n > n /\ (i + n) - n = i
      BY <1>1
    <3>3. w[i + n] = y
      BY <1>6, <3>1, <3>2
    <3> QED  BY <1>4, <3>2, <3>3 DEF ToSet
  <2> QED  BY <2>1, <2>2, <2>3
<1>8. ASSUME IsInjective(p), IsInjective(q), ToSet(p) \cap ToSet(q) = {},
             NEW i \in 1 .. n + m, NEW j \in 1 .. n + m, w[i] = w[j]
      PROVE  i = j
  <2>1. CASE i <= n /\ j <= n
    <3>1. i \in 1 .. n /\ j \in 1 .. n
      BY <1>1, <2>1
    <3>2. n - i + 1 = n - j + 1
      BY <1>1, <1>5, <1>8, <3>1 DEF IsInjective
    <3> QED  BY <1>1, <3>1, <3>2
  <2>2. CASE i > n /\ j > n
    <3>1. i - n = j - n
      BY <1>1, <1>6, <1>8, <2>2 DEF IsInjective
    <3> QED  BY <1>1, <3>1
  <2>3. CASE i <= n /\ j > n
    <3>1. i \in 1 .. n
      BY <1>1, <2>3
    <3>2. w[i] \in ToSet(p) /\ w[j] \in ToSet(q)
      BY <1>1, <1>5, <1>6, <2>3, <3>1 DEF ToSet
    <3> QED  BY <1>8, <3>2
  <2>4. CASE i > n /\ j <= n
    <3>1. j \in 1 .. n
      BY <1>1, <2>4
    <3>2. w[j] \in ToSet(p) /\ w[i] \in ToSet(q)
      BY <1>1, <1>5, <1>6, <2>4, <3>1 DEF ToSet
    <3> QED  BY <1>8, <3>2
  <2> QED  BY <1>1, <2>1, <2>2, <2>3, <2>4
<1> QED  BY <1>3, <1>4, <1>7, <1>8 DEF IsInjective, w, v

(* A fold over 1 .. n that takes the greatest element last, as FoldLeft does, *)
(* applies the n functions one after the other.                              *)
LastOf(s) == CHOOSE x \in s : \A y \in s : x >= y

FoldsAt(it, a, next, s) ==
  it[s] = IF s = {} THEN a ELSE next[LastOf(s)][it[s \ {LastOf(s)}]]

IsFold(it, n, V, a, next) ==
  it \in [SUBSET (1 .. n) -> V] /\ \A s \in SUBSET (1 .. n) : FoldsAt(it, a, next, s)

LEMMA LastIsGreatest ==
  ASSUME NEW n \in Nat, NEW s \in SUBSET (1 .. n), s # {}
  PROVE  LastOf(s) \in s /\ \A y \in s : LastOf(s) >= y
<1> DEFINE T == {n - x : x \in s}
<1>1. T \in SUBSET Nat /\ T # {}
  <2>1. ASSUME NEW x \in s PROVE n - x \in Nat
    OBVIOUS
  <2> QED  BY <2>1
<1>2. PICK t \in T : \A u \in T : t <= u
  BY <1>1, LeastNumber
<1>3. PICK x \in s : t = n - x
  BY <1>2
<1>4. ASSUME NEW y \in s PROVE x >= y
  <2>1. n - y \in T
    OBVIOUS
  <2>2. t <= n - y
    BY <1>2, <2>1
  <2>3. x \in Nat /\ y \in Nat
    OBVIOUS
  <2> QED  BY <1>3, <2>2, <2>3
<1> HIDE DEF T
<1>5. \E z \in s : \A y \in s : z >= y
  BY <1>4
<1> QED  BY <1>5 DEF LastOf

LEMMA FoldExists ==
  ASSUME NEW n \in Nat, NEW V, NEW a \in V, NEW next \in Steps(n, V)
  PROVE  \E it : IsFold(it, n, V, a, next)
<1> DEFINE S == 1 .. n
           Small(k) == {s \in SUBSET S : Cardinality(s) <= k}
           Good(it, k) == /\ it \in [SUBSET S -> V]
                          /\ \A s \in Small(k) : FoldsAt(it, a, next, s)
           T == {k \in Nat : \E it : Good(it, k)}
<1>0. ASSUME NEW s \in SUBSET S
      PROVE  /\ IsFiniteSet(s) /\ Cardinality(s) \in Nat
             /\ Cardinality(s) = 0 <=> s = {}
             /\ Cardinality(s) <= Cardinality(S)
  <2>0. IsFiniteSet(S)
    BY FS_Interval
  <2>1. IsFiniteSet(s) /\ Cardinality(s) <= Cardinality(S)
    BY <2>0, FS_Subset
  <2> QED  BY <2>1, FS_CardinalityType, FS_EmptySet
<1>1. 0 \in T
  <2> DEFINE zero == [s \in SUBSET S |-> a]
  <2>1. ASSUME NEW s \in Small(0) PROVE FoldsAt(zero, a, next, s)
    <3>1. s \in SUBSET S /\ s = {}
      BY <1>0
    <3>2. zero[s] = a
      BY <3>1
    <3> QED  BY <3>1, <3>2 DEF FoldsAt
  <2>2. zero \in [SUBSET S -> V]
    OBVIOUS
  <2> HIDE DEF zero
  <2> QED  BY <2>1, <2>2
<1>2. ASSUME NEW k \in Nat, k \in T PROVE k + 1 \in T
  <2>1. PICK old : Good(old, k)
    BY <1>2
  <2> DEFINE value(s) == next[LastOf(s)][old[s \ {LastOf(s)}]]
             new == [s \in SUBSET S |-> IF Cardinality(s) = k + 1 THEN value(s) ELSE old[s]]
  <2>2. ASSUME NEW s \in SUBSET S, s # {}
        PROVE  /\ LastOf(s) \in S /\ s \ {LastOf(s)} \in SUBSET S
               /\ Cardinality(s \ {LastOf(s)}) = Cardinality(s) - 1
    <3>1. LastOf(s) \in s
      BY <2>2, LastIsGreatest
    <3> QED  BY <1>0, <3>1, FS_RemoveElement
  <2>3. ASSUME NEW s \in SUBSET S, Cardinality(s) = k + 1
        PROVE  s # {} /\ value(s) \in V
    <3>1. s # {}
      BY <1>0, <2>3
    <3>2. old[s \ {LastOf(s)}] \in V /\ next[LastOf(s)] \in [V -> V]
      BY <2>1, <2>2, <3>1 DEF Steps
    <3> QED  BY <3>1, <3>2
  <2>4. ASSUME NEW s \in SUBSET S, Cardinality(s) <= k PROVE new[s] = old[s]
    BY <1>0, <2>4
  <2>5. new \in [SUBSET S -> V]
    <3> HIDE DEF value
    <3> QED  BY <2>1, <2>3
  <2>6. ASSUME NEW s \in Small(k + 1) PROVE FoldsAt(new, a, next, s)
    <3>1. CASE Cardinality(s) = k + 1
      <4>1. new[s] = value(s)
        BY <3>1
      <4>2. s # {} /\ Cardinality(s \ {LastOf(s)}) <= k
        <5>1. s \in SUBSET S /\ s # {}
          BY <2>3, <3>1
        <5>2. Cardinality(s \ {LastOf(s)}) = Cardinality(s) - 1
          BY <2>2, <5>1
        <5> HIDE DEF value, new
        <5> QED  BY <3>1, <5>1, <5>2
      <4>3. new[s \ {LastOf(s)}] = old[s \ {LastOf(s)}]
        BY <2>2, <2>4, <4>2
      <4> HIDE DEF new
      <4> QED  BY <4>1, <4>2, <4>3 DEF FoldsAt
    <3>2. CASE Cardinality(s) # k + 1
      <4>1. s \in SUBSET S /\ Cardinality(s) <= k
        BY <1>0, <3>2
      <4>2. new[s] = old[s] /\ FoldsAt(old, a, next, s)
        BY <2>1, <2>4, <4>1
      <4>3. s # {} => s \ {LastOf(s)} \in SUBSET S /\ Cardinality(s \ {LastOf(s)}) <= k
        BY <1>0, <2>2, <4>1
      <4>4. s # {} => new[s \ {LastOf(s)}] = old[s \ {LastOf(s)}]
        BY <2>4, <4>3
      <4> HIDE DEF new
      <4> QED  BY <4>2, <4>4 DEF FoldsAt
    <3> QED  BY <3>1, <3>2
  <2> HIDE DEF new
  <2> QED  BY <2>5, <2>6
<1>3. Cardinality(S) \in Nat /\ Cardinality(S) \in T
  <2>1. Cardinality(S) \in Nat
    BY <1>0
  <2> HIDE DEF T
  <2> QED  BY <1>1, <1>2, <2>1, Induction
<1>4. PICK it : Good(it, Cardinality(S))
  BY <1>3
<1>5. ASSUME NEW s \in SUBSET S PROVE s \in Small(Cardinality(S))
  BY <1>0
<1> QED  BY <1>4, <1>5 DEF IsFold

LEMMA FoldIterates ==
  ASSUME NEW n \in Nat, NEW V, NEW a, NEW next, NEW it, IsFold(it, n, V, a, next)
  PROVE  /\ it[{}] = a
         /\ \A k \in 1 .. n : it[1 .. k] = next[k][it[1 .. k - 1]]
<1>1. it[{}] = a
  BY DEF IsFold, FoldsAt
<1>2. ASSUME NEW k \in 1 .. n PROVE it[1 .. k] = next[k][it[1 .. k - 1]]
  <2>1. 1 .. k \in SUBSET (1 .. n) /\ k \in 1 .. k
    OBVIOUS
  <2>2. LastOf(1 .. k) \in 1 .. k /\ LastOf(1 .. k) >= k
    BY <2>1, LastIsGreatest
  <2>3. LastOf(1 .. k) = k
    BY <2>2
  <2>4. (1 .. k) \ {k} = 1 .. k - 1
    OBVIOUS
  <2>5. FoldsAt(it, a, next, 1 .. k)
    BY <2>1 DEF IsFold
  <2> QED  BY <2>1, <2>3, <2>4, <2>5 DEF FoldsAt
<1> QED  BY <1>1, <1>2
-----------------------------------------------------------------------------
(* More about ranges and sums.                                               *)
LEMMA RangeIsToSet == ASSUME NEW s PROVE Range(s) = ToSet(s)
BY DEF Range, ToSet

LEMMA SumSplit ==
  ASSUME NEW f, NEW S, IntOn(f, S), NEW T \in SUBSET S
  PROVE  SumOver(f, S) = SumOver(f, T) + SumOver(f, S \ T)
<1> DEFINE Splits(s) == SumOver(f, S) = SumOver(f, s) + SumOver(f, S \ s)
           N == {n \in Nat : \A s \in SUBSET S : Cardinality(s) = n => Splits(s)}
<1>0. ASSUME NEW r \in SUBSET S
      PROVE  /\ IsFiniteSet(r) /\ Cardinality(r) \in Nat /\ (Cardinality(r) = 0 <=> r = {})
             /\ IntOn(f, r)
  <2>1. IsFiniteSet(r)
    BY FS_Subset DEF IntOn
  <2> QED  BY <2>1, FS_CardinalityType, FS_EmptySet DEF IntOn
<1>1. 0 \in N
  <2> SUFFICES ASSUME NEW s \in SUBSET S, s = {} PROVE Splits(s)
    BY <1>0
  <2>1. SumOver(f, s) = 0 /\ S \ s = S /\ SumOver(f, S) \in Int
    BY EmptySum, SumIn
  <2> QED  BY <2>1
<1>2. ASSUME NEW n \in Nat, n \in N PROVE n + 1 \in N
  <2> SUFFICES ASSUME NEW s \in SUBSET S, Cardinality(s) = n + 1 PROVE Splits(s)
    OBVIOUS
  <2>1. PICK x : x \in s
    BY <1>0
  <2>2. s \ {x} \in SUBSET S /\ S \ s \in SUBSET S /\ S \ (s \ {x}) \in SUBSET S
    OBVIOUS
  <2>3. Cardinality(s \ {x}) = n
    BY <1>0, <2>1, FS_RemoveElement
  <2>4. Splits(s \ {x})
    BY <1>2, <2>2, <2>3
  <2>5. SumOver(f, s) = f[x] + SumOver(f, s \ {x})
    BY <1>0, <2>1, SumWithout
  <2>6. x \in S \ (s \ {x}) /\ (S \ (s \ {x})) \ {x} = S \ s
    BY <2>1
  <2>7. SumOver(f, S \ (s \ {x})) = f[x] + SumOver(f, S \ s)
    BY <1>0, <2>2, <2>6, SumWithout
  <2>8. f[x] \in Int /\ SumOver(f, s \ {x}) \in Int /\ SumOver(f, S \ s) \in Int
    BY <1>0, <2>1, <2>2, SumIn DEF IntOn
  <2> HIDE DEF N
  <2> QED  BY <2>4, <2>5, <2>7, <2>8
<1>3. Cardinality(T) \in N
  <2>1. Cardinality(T) \in Nat
    BY <1>0
  <2> HIDE DEF N
  <2> QED  BY <1>1, <1>2, <2>1, Induction
<1> QED  BY <1>3

LEMMA ImageFinite ==
  ASSUME NEW S, IsFiniteSet(S), NEW g
  PROVE  IsFiniteSet({g[x] : x \in S})
<1> DEFINE T == {g[x] : x \in S}
           h == [x \in S |-> g[x]]
<1>1. h \in Surjection(S, T)
  BY DEF Surjection
<1> HIDE DEF h
<1> QED  BY <1>1, FS_Surjection

(* Values that several elements map to are counted once.                     *)
LEMMA SumOfImage ==
  ASSUME NEW S, IsFiniteSet(S), NEW g, NEW f, \A x \in S : f[g[x]] \in Nat
  PROVE  SumOver(f, {g[x] : x \in S}) <= SumOver([x \in S |-> f[g[x]]], S)
<1> DEFINE h == [x \in S |-> f[g[x]]]
           Img(s) == {g[x] : x \in s}
           Le(s) == SumOver(f, Img(s)) <= SumOver(h, s)
           N == {n \in Nat : \A s \in SUBSET S : Cardinality(s) = n => Le(s)}
<1>a. \A x \in S : h[x] = f[g[x]] /\ h[x] \in Nat
  OBVIOUS
<1> HIDE DEF h
<1>0. ASSUME NEW r \in SUBSET S
      PROVE  /\ IsFiniteSet(r) /\ Cardinality(r) \in Nat /\ (Cardinality(r) = 0 <=> r = {})
             /\ IntOn(h, r) /\ IntOn(f, Img(r))
             /\ SumOver(f, Img(r)) \in Nat /\ SumOver(h, r) \in Nat
  <2>1. IsFiniteSet(r)
    BY FS_Subset
  <2>2. IsFiniteSet(Img(r))
    BY <2>1, ImageFinite
  <2>3. \A y \in Img(r) : f[y] \in Nat
    OBVIOUS
  <2>4. \A x \in r : h[x] \in Nat
    BY <1>a
  <2> HIDE DEF Img
  <2>5. SumOver(f, Img(r)) \in Nat /\ SumOver(h, r) \in Nat
    BY <2>1, <2>2, <2>3, <2>4, SumOfNaturals
  <2> QED  BY <2>1, <2>2, <2>3, <2>4, <2>5, FS_CardinalityType, FS_EmptySet DEF IntOn
<1>1. 0 \in N
  <2> SUFFICES ASSUME NEW s \in SUBSET S, s = {} PROVE Le(s)
    BY <1>0
  <2>1. Img(s) = {}
    OBVIOUS
  <2> HIDE DEF Img
  <2> QED  BY <2>1, EmptySum
<1>2. ASSUME NEW n \in Nat, n \in N PROVE n + 1 \in N
  <2> SUFFICES ASSUME NEW s \in SUBSET S, Cardinality(s) = n + 1 PROVE Le(s)
    OBVIOUS
  <2>1. PICK x : x \in s
    BY <1>0
  <2> DEFINE t == s \ {x}
  <2>2. t \in SUBSET S /\ Cardinality(t) = n
    <3>1. IsFiniteSet(s)
      BY <1>0
    <3>2. Cardinality(t) = Cardinality(s) - 1
      BY <2>1, <3>1, FS_RemoveElement
    <3> QED  BY <3>2
  <2>3. Le(t)
    BY <1>2, <2>2
  <2>4. SumOver(h, s) = f[g[x]] + SumOver(h, t)
    <3>1. SumOver(h, s) = h[x] + SumOver(h, t)
      <4>1. IntOn(h, s)
        BY <1>0
      <4>2. PICK k : k = h
        OBVIOUS
      <4>3. SumOver(k, s) = k[x] + SumOver(k, s \ {x})
        BY ONLY <2>1, <4>1, <4>2, SumWithout
      <4> QED  BY <4>2, <4>3
    <3> QED  BY <1>a, <2>1, <3>1
  <2>5. f[g[x]] \in Nat
    BY <2>1
  <2>6. Img(s) = Img(t) \cup {g[x]}
    BY <2>1
  <2>7. IntOn(f, Img(s)) /\ SumOver(f, Img(t)) \in Nat /\ SumOver(h, t) \in Nat
    BY <1>0, <2>2
  <2> HIDE DEF Img, N
  <2>8. CASE g[x] \in Img(t)
    <3>1. Img(s) = Img(t)
      BY <2>6, <2>8
    <3> QED  BY <2>3, <2>4, <2>5, <2>7, <3>1
  <2>9. CASE g[x] \notin Img(t)
    <3>1. Img(s) \ {g[x]} = Img(t) /\ g[x] \in Img(s)
      BY <2>6, <2>9
    <3>2. SumOver(f, Img(s)) = f[g[x]] + SumOver(f, Img(t))
      <4>1. PICK all : all = Img(s)
        OBVIOUS
      <4>2. PICK y : y = g[x]
        OBVIOUS
      <4>3. IntOn(f, all) /\ y \in all
        BY <2>7, <3>1, <4>1, <4>2
      <4>4. SumOver(f, all) = f[y] + SumOver(f, all \ {y})
        BY ONLY <4>3, SumWithout
      <4> QED  BY <3>1, <4>1, <4>2, <4>4
    <3> QED  BY <2>3, <2>4, <2>5, <2>7, <3>2
  <2> QED  BY <2>8, <2>9
<1>3. Cardinality(S) \in N
  <2>1. Cardinality(S) \in Nat
    BY <1>0
  <2> HIDE DEF N
  <2> QED  BY <1>1, <1>2, <2>1, Induction
<1> QED  BY <1>3 DEF h

(* The least and the greatest of finitely many numbers.                      *)
LEMMA TwoExtremes ==
  ASSUME NEW a \in Int, NEW b \in Int
  PROVE  /\ Min({a, b}) \in Int /\ Max({a, b}) \in Int
         /\ Min({a, b}) = IF a <= b THEN a ELSE b
         /\ Max({a, b}) = IF a >= b THEN a ELSE b
BY DEF Min, Max

(* A fold of a sequence, met as the function that does the folding.          *)
Unfolds(it, n, V, a, next) ==
  /\ it[{}] = a
  /\ \A s \in SUBSET (1 .. n) : s # {} /\ it[s \ {LastOf(s)}] \in V =>
       it[s] = next[LastOf(s)][it[s \ {LastOf(s)}]]

LEMMA FoldReaches ==
  ASSUME NEW n \in Nat, NEW V, NEW a \in V, NEW next \in Steps(n, V), NEW it,
         Unfolds(it, n, V, a, next)
  PROVE  \A k \in 0 .. n : /\ it[1 .. k] \in V
                           /\ k # 0 => it[1 .. k] = next[k][it[1 .. k - 1]]
<1> DEFINE P(k) == it[1 .. k] \in V /\ (k # 0 => it[1 .. k] = next[k][it[1 .. k - 1]])
           T == {k \in Nat : k <= n => P(k)}
<1>1. 0 \in T
  <2>1. 1 .. 0 = {}
    OBVIOUS
  <2> QED  BY <2>1 DEF Unfolds
<1>2. ASSUME NEW m \in Nat, m \in T PROVE m + 1 \in T
  <2> SUFFICES ASSUME m + 1 <= n PROVE P(m + 1)
    OBVIOUS
  <2>1. PICK k \in 1 .. n : k = m + 1
    BY <1>2
  <2>2. PICK s : s = 1 .. k
    OBVIOUS
  <2>3. s \in SUBSET (1 .. n) /\ k \in s /\ s # {} /\ s \ {k} = 1 .. m /\ \A y \in s : y <= k
    <3>1. s \in SUBSET (1 .. n) /\ k \in s /\ \A y \in s : y <= k
      BY ONLY <2>1, <2>2, n \in Nat
    <3>2. s \ {k} = 1 .. m
      BY ONLY <1>2, <2>1, <2>2
    <3> QED  BY ONLY <3>1, <3>2
  <2>4. LastOf(s) = k
    <3>1. LastOf(s) \in s /\ LastOf(s) >= k
      BY <2>3, LastIsGreatest
    <3>2. PICK last \in s : last = LastOf(s) /\ last >= k /\ last <= k
      BY <2>3, <3>1
    <3>3. last = k
      BY <2>2, <2>3, <3>2
    <3> QED  BY <3>2, <3>3
  <2>5. it[1 .. m] \in V
    BY <1>2, <2>1
  <2>6. it[s] = next[k][it[1 .. m]]
    BY <2>3, <2>4, <2>5 DEF Unfolds
  <2>7. next[k][it[1 .. m]] \in V
    BY <2>5 DEF Steps
  <2>8. (m + 1) - 1 = m
    BY <1>2
  <2> QED  BY <2>1, <2>2, <2>6, <2>7, <2>8
<1>3. \A k \in Nat : k \in T
  <2> HIDE DEF T
  <2> QED  BY <1>1, <1>2, Induction
<1> QED  BY <1>3
=============================================================================
