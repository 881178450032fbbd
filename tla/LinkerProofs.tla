----------------------------- MODULE LinkerProofs -----------------------------
(***************************************************************************)
(* Proofs about Linker, for any names, any well-formed inputs and any base *)
(* and alignment of the sections: what is linked, the layout that          *)
(* CalcAddresses makes, and the relocations that CreateImages lists.       *)
(***************************************************************************)
EXTENDS Linker, ReachProofs

-----------------------------------------------------------------------------
(* Numbers up to a number. *)

\* What holds of 0, and of a number when it holds of the one before, holds of
\* all: the least of the others has none before it.
LEMMA UpTo ==
  ASSUME NEW n \in Nat, NEW S, 0 \in S, \A i \in 1..n : i - 1 \in S => i \in S
  PROVE  0..n \subseteq S
<1> DEFINE T == (0..n) \ S
<1>1. SUFFICES ASSUME T # {} PROVE FALSE
  OBVIOUS
<1>2. T \in SUBSET Nat
  OBVIOUS
<1> DEFINE m == Least(T)
<1>3. m \in T /\ \A t \in T : m <= t
  <2> HIDE DEF T
  <2> QED BY <1>1, <1>2, LeastIn
<1> HIDE DEF m
<1>4. m \in 1..n /\ m - 1 \in 0..n /\ ~(m <= m - 1)
  BY <1>3
<1>5. m - 1 \in S
  BY <1>3, <1>4
<1> QED BY <1>3, <1>4, <1>5

\* A definition by recursion over 0..n has a value.
Follows(e, n, b, step) == e[0] = b /\ \A i \in 1..n : e[i] = step[i][e[i - 1]]

LEMMA Recursion ==
  ASSUME NEW n \in Nat, NEW V, NEW b \in V, NEW step \in [1..n -> [V -> V]]
  PROVE  \E e \in [0..n -> V] : Follows(e, n, b, step)
<1> DEFINE Good(m, e) == e[0] = b /\ \A i \in 1..m : e[i] = step[i][e[i - 1]]
           S == {m \in 0..n : \E e \in [0..m -> V] : Good(m, e)}
<1>1. 0 \in S
  <2>1. [i \in 0..0 |-> b] \in [0..0 -> V] /\ Good(0, [i \in 0..0 |-> b])
    OBVIOUS
  <2> HIDE DEF Good
  <2> QED BY <2>1
<1>2. ASSUME NEW m \in 1..n, m - 1 \in S PROVE m \in S
  <2>1. PICK e \in [0..(m - 1) -> V] : Good(m - 1, e)
    BY <1>2
  <2> DEFINE x == step[m][e[m - 1]]
             f == [i \in 0..m |-> IF i = m THEN x ELSE e[i]]
  <2>2. x \in V
    OBVIOUS
  <2>3. f \in [0..m -> V] /\ \A i \in 0..(m - 1) : f[i] = e[i]
    BY <2>2
  <2>4. f[0] = b
    BY <2>1, <2>3
  <2>5. ASSUME NEW i \in 1..m PROVE f[i] = step[i][f[i - 1]]
    <3>1. CASE i = m
      <4>1. f[i - 1] = e[m - 1] /\ f[i] = x
        BY <2>3, <3>1
      <4> QED BY <4>1, <3>1
    <3>2. CASE i # m
      <4>1. i \in 1..(m - 1) /\ i - 1 \in 0..(m - 1) /\ i \in 0..(m - 1)
        BY <3>2
      <4>2. e[i] = step[i][e[i - 1]]
        BY <2>1, <4>1
      <4> QED BY <2>3, <4>1, <4>2
    <3> QED BY <3>1, <3>2
  <2>6. Good(m, f)
    BY <2>4, <2>5
  <2> HIDE DEF Good, f
  <2> QED BY <2>3, <2>6
<1>3. n \in S
  <2> HIDE DEF S
  <2>1. 0..n \subseteq S
    BY <1>1, <1>2, UpTo
  <2> QED BY <2>1
<1> QED BY <1>3 DEF Follows

-----------------------------------------------------------------------------
(* Arithmetic of the layout. *)

LEMMA Multiple ==
  ASSUME NEW a \in Nat, NEW n \in Nat \ {0}
  PROVE  AlignUp(a, n) \in Nat /\ a <= AlignUp(a, n) /\ AlignUp(a, n) % n = 0
<1> DEFINE k == (a + n - 1) \div n
<1>1. k \in Nat /\ a <= k * n /\ (k * n) % n = 0
  <2>1. PICK b \in Nat : b = a + n - 1
    OBVIOUS
  <2>2. k \in Nat /\ b = n * k + (b % n) /\ b % n \in 0..(n - 1)
    BY <2>1
  <2>3. (k * n) % n = 0
    BY <2>2
  <2>4. PICK r \in 0..(n - 1) : a + n - 1 = n * k + r
    BY <2>1, <2>2
  <2> HIDE DEF k
  <2> QED BY <2>2, <2>3, <2>4
<1>2. AlignUp(a, n) = k * n
  BY DEF AlignUp
<1> HIDE DEF k
<1> QED BY <1>1, <1>2

\* Aligning does not depend on where one counts from, if that is aligned.
LEMMA MultipleFrom ==
  ASSUME NEW a \in Nat, NEW n \in Nat \ {0}, NEW from \in Nat, from % n = 0
  PROVE  AlignUp(from + a, n) = from + AlignUp(a, n)
<1> DEFINE k == from \div n
           m == a + n - 1
           d == m \div n
<1>1. k \in Nat /\ from = k * n /\ m \in Nat /\ d \in Nat
  <2>1. from = n * k + (from % n) /\ k \in Nat
    OBVIOUS
  <2>2. m \in Nat
    OBVIOUS
  <2>3. d \in Nat
    <3> HIDE DEF m
    <3> QED BY <2>2
  <2> HIDE DEF k
  <2> QED BY <2>1, <2>2, <2>3
<1>2. AlignUp(from + a, n) = ((from + m) \div n) * n /\ AlignUp(a, n) = d * n
  BY <1>1 DEF AlignUp
<1> HIDE DEF k, m
<1>3. (k * n + m) \div n = k + m \div n
  BY <1>1
<1>4. ((from + m) \div n) * n = (k + d) * n
  BY <1>1, <1>3
<1> HIDE DEF d
<1>5. (k + d) * n = k * n + d * n
  BY <1>1
<1> QED BY <1>1, <1>2, <1>4, <1>5

LEMMA PowerOfTwo ==
  ASSUME NEW i \in Nat PROVE 2^i \in Nat \ {0}
<1>1. IsFiniteSet(1..i) /\ Cardinality(1..i) = i
  BY FS_Interval
<1>2. IsFiniteSet(SUBSET (1..i)) /\ Cardinality(SUBSET (1..i)) = 2^i
  BY <1>1, FS_SUBSET
<1>3. SUBSET (1..i) # {}
  OBVIOUS
<1>4. Cardinality(SUBSET (1..i)) \in Nat /\ Cardinality(SUBSET (1..i)) # 0
  <2> DEFINE P == SUBSET (1..i)
  <2> HIDE DEF P
  <2>1. IsFiniteSet(P) /\ P # {} => Cardinality(P) \in Nat /\ Cardinality(P) # 0
    BY FS_CardinalityType, FS_EmptySet
  <2> QED BY <1>2, <1>3, <2>1 DEF P
<1> QED BY <1>2, <1>4

LEMMA AndIsNumber ==
  ASSUME NEW m \in Nat, NEW n \in Nat
  PROVE  And(m, n) \in Nat
<1> DEFINE bit(k, i) == (k \div 2^i) % 2
           term == [i \in 1..Bits |-> 2^(i - 1) * (bit(m, i - 1) * bit(n, i - 1))]
           step == [i \in 1..Bits |-> [k \in Nat |-> k + term[i]]]
<1>1. ASSUME NEW i \in Nat, NEW k \in Nat PROVE bit(k, i) \in Nat
  <2>1. PICK q \in Nat \ {0} : q = 2^i
    BY PowerOfTwo
  <2>2. (k \div q) \in Nat
    BY <2>1
  <2>3. ASSUME NEW d \in Nat PROVE d % 2 \in Nat
    OBVIOUS
  <2> QED BY <2>1, <2>2, <2>3
<1>2. ASSUME NEW i \in 1..Bits PROVE term[i] \in Nat
  <2>1. i - 1 \in Nat
    BY DEF Bits
  <2>2. bit(m, i - 1) \in Nat /\ bit(n, i - 1) \in Nat /\ 2^(i - 1) \in Nat
    BY <1>1, <2>1, PowerOfTwo
  <2>3. ASSUME NEW a \in Nat, NEW b \in Nat, NEW c \in Nat PROVE a * (b * c) \in Nat
    OBVIOUS
  <2> HIDE DEF bit
  <2> QED BY <2>2, <2>3
<1>3. step \in [1..Bits -> [Nat -> Nat]]
  <2> HIDE DEF term
  <2> QED BY <1>2
<1>4. PICK e \in [0..Bits -> Nat] : Follows(e, Bits, 0, step)
  <2> HIDE DEF step
  <2>1. Bits \in Nat
    BY DEF Bits
  <2>2. 0 \in Nat
    OBVIOUS
  <2> QED BY <1>3, <2>1, <2>2, Recursion
<1>5. e[0] = 0 /\ \A i \in 1..Bits : e[i] = e[i - 1] + term[i]
  <2> HIDE DEF term
  <2> QED BY <1>4 DEF Bits, Follows
<1> DEFINE low(g) == [i \in 0..Bits |-> IF i = 0 THEN 0 ELSE g[i - 1] +
                       2^(i - 1) * (bit(m, i - 1) * bit(n, i - 1))]
<1>6. e = low(e)
  <2>1. ASSUME NEW i \in 0..Bits PROVE e[i] = low(e)[i]
    <3>1. CASE i = 0
      BY <1>5, <3>1
    <3>2. CASE i # 0
      <4>1. i \in 1..Bits
        BY <3>2 DEF Bits
      <4>2. term[i] = 2^(i - 1) * (bit(m, i - 1) * bit(n, i - 1))
        BY <4>1
      <4> HIDE DEF bit, term
      <4> QED BY <1>5, <3>2, <4>1, <4>2
    <3> QED BY <3>1, <3>2
  <2> HIDE DEF bit
  <2> QED BY <2>1, <1>4
<1>7. PICK g : g = low(g) /\ And(m, n) = g[Bits]
  <2>1. And(m, n) = (CHOOSE g : g = low(g))[Bits]
    BY Zenon DEF And
  <2> HIDE DEF low
  <2> QED BY <1>6, <2>1
<1>8. g[0] = 0 /\ \A i \in 1..Bits : g[i] = g[i - 1] + term[i]
  <2> HIDE DEF bit
  <2> QED BY <1>7 DEF Bits
<1> DEFINE S == {i \in 0..Bits : g[i] \in Nat}
<1>9. Bits \in S
  <2>1. 0 \in S /\ \A i \in 1..Bits : i - 1 \in S => i \in S
    <3> HIDE DEF term
    <3> QED BY <1>2, <1>8 DEF Bits
  <2>2. Bits \in Nat /\ Bits \in 0..Bits
    BY DEF Bits
  <2> HIDE DEF S
  <2>3. 0..Bits \subseteq S
    BY <2>1, <2>2, UpTo
  <2> QED BY <2>2, <2>3
<1> QED BY <1>7, <1>9

-----------------------------------------------------------------------------
(* Sequences without repetitions. *)

\* The elements of a sequence of n, and that they differ.
Indexed(q, n) ==
  /\ DOMAIN q = 1..n
  /\ \A x : x \in ToSet(q) <=> \E i \in 1..n : q[i] = x
  /\ IsInjective(q) <=> \A i, j \in 1..n : q[i] = q[j] => i = j

LEMMA Elements ==
  ASSUME NEW S, NEW q \in Seq(S), NEW n, n = Len(q)
  PROVE  Indexed(q, n)
BY LenProperties DEF ToSet, IsInjective, Indexed

\* p is q from a to c.
IsPart(p, q, a, c) ==
  /\ p = SubSeq(q, a, c) /\ Len(p) = c - a + 1
  /\ \A i \in 1..(c - a + 1) : p[i] = q[a + i - 1]

LEMMA Part ==
  ASSUME NEW S, NEW q \in Seq(S), NEW a \in Nat, NEW c \in Nat, 1 <= a, a <= c + 1, c <= Len(q)
  PROVE  \E p \in Seq(S) : IsPart(p, q, a, c)
<1>1. \A i \in a..c : q[i] \in S
  BY ElementOfSeq
<1>2. /\ SubSeq(q, a, c) \in Seq(S)
      /\ Len(SubSeq(q, a, c)) = IF a <= c THEN c - a + 1 ELSE 0
      /\ \A i \in 1..(c - a + 1) : SubSeq(q, a, c)[i] = q[a + i - 1]
  BY <1>1, SubSeqProperties
<1>3. Len(SubSeq(q, a, c)) = c - a + 1
  BY <1>2
<1> QED BY <1>2, <1>3 DEF IsPart

LEMMA Joined ==
  ASSUME NEW S, NEW p \in Seq(S), NEW q \in Seq(S)
  PROVE  /\ p \o q \in Seq(S) /\ ToSet(p \o q) = ToSet(p) \cup ToSet(q)
         /\ IsInjective(p) /\ IsInjective(q) /\ ToSet(p) \cap ToSet(q) = {}
              => IsInjective(p \o q)
<1>1. PICK m \in Nat, n \in Nat : m = Len(p) /\ n = Len(q)
  BY LenProperties
<1>2. PICK r \in Seq(S) : r = p \o q
  BY ConcatProperties
<1>3. /\ Len(r) = m + n
      /\ \A i \in 1..(m + n) : r[i] = IF i <= m THEN p[i] ELSE q[i - m]
  BY <1>1, <1>2, ConcatProperties
<1>0. Indexed(p, m) /\ Indexed(q, n) /\ Indexed(r, m + n)
  BY <1>1, <1>3, Elements
<1>4. /\ \A x : x \in ToSet(p) <=> \E i \in 1..m : p[i] = x
      /\ \A x : x \in ToSet(q) <=> \E i \in 1..n : q[i] = x
      /\ \A x : x \in ToSet(r) <=> \E i \in 1..(m + n) : r[i] = x
  BY <1>0 DEF Indexed
<1>5. ToSet(r) = ToSet(p) \cup ToSet(q)
  <2>1. ASSUME NEW i \in 1..(m + n) PROVE r[i] \in ToSet(p) \cup ToSet(q)
    <3>1. CASE i <= m
      BY <1>3, <1>4, <3>1
    <3>2. CASE ~(i <= m)
      <4>1. i - m \in 1..n
        BY <3>2
      <4> QED BY <1>3, <1>4, <3>2, <4>1
    <3> QED BY <3>1, <3>2
  <2>2. ASSUME NEW i \in 1..m PROVE p[i] \in ToSet(r)
    BY <1>3, <1>4
  <2>3. ASSUME NEW i \in 1..n PROVE q[i] \in ToSet(r)
    <3>1. i + m \in 1..(m + n) /\ ~(i + m <= m) /\ (i + m) - m = i
      OBVIOUS
    <3>2. r[i + m] = q[i]
      BY <1>3, <3>1
    <3> QED BY <1>4, <3>1, <3>2
  <2> QED BY <1>4, <2>1, <2>2, <2>3
<1>6. ASSUME IsInjective(p), IsInjective(q), ToSet(p) \cap ToSet(q) = {},
             NEW i \in 1..(m + n), NEW j \in 1..(m + n), r[i] = r[j]
      PROVE  i = j
  <2>1. /\ \A k, l \in 1..m : p[k] = p[l] => k = l
        /\ \A k, l \in 1..n : q[k] = q[l] => k = l
    BY <1>0, <1>6 DEF Indexed
  <2>2. \A k \in 1..m, l \in 1..n : p[k] # q[l]
    BY <1>4, <1>6
  <2>3. CASE i <= m /\ j <= m
    BY <1>3, <1>6, <2>1, <2>3
  <2>4. CASE i <= m /\ ~(j <= m)
    <3>1. j - m \in 1..n /\ i \in 1..m
      BY <2>4
    <3> QED BY <1>3, <1>6, <2>2, <2>4, <3>1
  <2>5. CASE ~(i <= m) /\ j <= m
    <3>1. i - m \in 1..n /\ j \in 1..m
      BY <2>5
    <3> QED BY <1>3, <1>6, <2>2, <2>5, <3>1
  <2>6. CASE ~(i <= m) /\ ~(j <= m)
    <3>1. i - m \in 1..n /\ j - m \in 1..n
      BY <2>6
    <3>2. i - m = j - m
      BY <1>3, <1>6, <2>1, <2>6, <3>1
    <3> QED BY <3>2
  <2> QED BY <2>3, <2>4, <2>5, <2>6
<1>7. IsInjective(p) /\ IsInjective(q) /\ ToSet(p) \cap ToSet(q) = {} => IsInjective(r)
  BY <1>0, <1>6 DEF Indexed
<1> QED BY <1>2, <1>5, <1>7

LEMMA OneElement ==
  ASSUME NEW S, NEW x \in S
  PROVE  <<x>> \in Seq(S) /\ ToSet(<<x>>) = {x} /\ IsInjective(<<x>>)
<1>1. <<x>> \in Seq(S) /\ Len(<<x>>) = 1 /\ <<x>>[1] = x
  OBVIOUS
<1>2. PICK q \in Seq(S) : q = <<x>> /\ Len(q) = 1 /\ q[1] = x
  BY <1>1
<1>3. Indexed(q, 1)
  BY <1>2, Elements
<1>4. ToSet(q) = {x} /\ IsInjective(q)
  BY <1>2, <1>3 DEF Indexed
<1> QED BY <1>2, <1>4

LEMMA Appended ==
  ASSUME NEW S, NEW q \in Seq(S), NEW x \in S
  PROVE  /\ Append(q, x) \in Seq(S) /\ ToSet(Append(q, x)) = ToSet(q) \cup {x}
         /\ IsInjective(q) /\ x \notin ToSet(q) => IsInjective(Append(q, x))
<1>1. Append(q, x) = q \o <<x>>
  BY AppendIsConcat
<1>2. PICK o \in Seq(S) : o = <<x>> /\ ToSet(o) = {x} /\ IsInjective(o)
  BY OneElement
<1>3. /\ q \o o \in Seq(S) /\ ToSet(q \o o) = ToSet(q) \cup ToSet(o)
      /\ IsInjective(q) /\ IsInjective(o) /\ ToSet(q) \cap ToSet(o) = {}
           => IsInjective(q \o o)
  BY Joined
<1> QED BY <1>1, <1>2, <1>3

LEMMA InsertedAt ==
  ASSUME NEW S, NEW q \in Seq(S), NEW k \in 1..(Len(q) + 1), NEW x \in S
  PROVE  /\ InsertAt(q, k, x) \in Seq(S) /\ ToSet(InsertAt(q, k, x)) = ToSet(q) \cup {x}
         /\ IsInjective(q) /\ x \notin ToSet(q) => IsInjective(InsertAt(q, k, x))
<1>1. PICK n \in Nat : n = Len(q)
  BY LenProperties
<1>2. /\ k \in 1..(n + 1) /\ \A i \in 1..n : q[i] \in S
  BY <1>1, ElementOfSeq
<1>3. PICK f \in Seq(S) : IsPart(f, q, 1, k - 1)
  <2>1. 1 \in Nat /\ k - 1 \in Nat /\ 1 <= 1 /\ 1 <= (k - 1) + 1 /\ k - 1 <= Len(q)
    BY <1>1, <1>2
  <2> QED BY <2>1, Part
<1>4. PICK b \in Seq(S) : IsPart(b, q, k, n)
  <2>1. k \in Nat /\ 1 <= k /\ k <= n + 1 /\ n <= Len(q)
    BY <1>1, <1>2
  <2> QED BY <2>1, Part
<1>4a. /\ f = SubSeq(q, 1, k - 1) /\ Len(f) = k - 1
       /\ \A i \in 1..(k - 1) : f[i] = q[i]
       /\ b = SubSeq(q, k, n) /\ Len(b) = n - k + 1
       /\ \A i \in 1..(n - k + 1) : b[i] = q[k + i - 1]
  <2>1. (k - 1) - 1 + 1 = k - 1 /\ \A i \in 1..(k - 1) : 1 + i - 1 = i
    BY <1>2
  <2> QED BY <1>3, <1>4, <2>1 DEF IsPart
<1>4b. Indexed(f, k - 1) /\ Indexed(b, n - k + 1) /\ Indexed(q, n)
  BY <1>1, <1>4a, Elements
<1>5. PICK o \in Seq(S) : o = <<x>> /\ ToSet(o) = {x} /\ IsInjective(o)
  BY OneElement
<1>6. InsertAt(q, k, x) = (f \o o) \o b
  BY <1>1, <1>4a, <1>5 DEF InsertAt
<1>7. /\ \A y : y \in ToSet(f) <=> \E i \in 1..(k - 1) : q[i] = y
      /\ \A y : y \in ToSet(b) <=> \E i \in k..n : q[i] = y
      /\ \A y : y \in ToSet(q) <=> \E i \in 1..n : q[i] = y
  <2>2. \A y : y \in ToSet(f) <=> \E i \in 1..(k - 1) : f[i] = y
    BY <1>4b DEF Indexed
  <2>3. \A y : y \in ToSet(b) <=> \E i \in 1..(n - k + 1) : b[i] = y
    BY <1>4b DEF Indexed
  <2>4. \A y : y \in ToSet(q) <=> \E i \in 1..n : q[i] = y
    BY <1>4b DEF Indexed
  <2>5. ASSUME NEW i \in k..n PROVE i - k + 1 \in 1..(n - k + 1) /\ b[i - k + 1] = q[i]
    <3>1. i - k + 1 \in 1..(n - k + 1) /\ k + (i - k + 1) - 1 = i
      BY <1>2
    <3> QED BY <1>4a, <3>1
  <2>6. \A i \in 1..(n - k + 1) : k + i - 1 \in k..n /\ b[i] = q[k + i - 1]
    BY <1>2, <1>4a
  <2>7. \A y : y \in ToSet(b) <=> \E i \in k..n : q[i] = y
    BY <2>3, <2>5, <2>6
  <2> QED BY <1>4a, <2>2, <2>4, <2>7
<1>8. ToSet(f) \cup ToSet(b) = ToSet(q)
  BY <1>2, <1>7
<1>9. ASSUME IsInjective(q)
      PROVE  IsInjective(f) /\ IsInjective(b) /\ ToSet(f) \cap ToSet(b) = {}
  <2>1. \A i, j \in 1..n : q[i] = q[j] => i = j
    BY <1>9, <1>4b DEF Indexed
  <2>2. ToSet(f) \cap ToSet(b) = {}
    BY <1>2, <1>7, <2>1
  <2>3. \A i, j \in 1..(k - 1) : f[i] = f[j] => i = j
    BY <1>2, <1>4a, <2>1
  <2>4. ASSUME NEW i \in 1..(n - k + 1), NEW j \in 1..(n - k + 1), b[i] = b[j] PROVE i = j
    <3>1. k + i - 1 \in 1..n /\ k + j - 1 \in 1..n
      BY <1>2
    <3>2. k + i - 1 = k + j - 1
      BY <1>4a, <2>1, <2>4, <3>1
    <3> QED BY <1>2, <3>2
  <2>5. IsInjective(f)
    BY <1>4b, <2>3 DEF Indexed
  <2>6. IsInjective(b)
    BY <1>4b, <2>4 DEF Indexed
  <2> QED BY <2>2, <2>5, <2>6
<1>10. PICK g \in Seq(S) : /\ g = f \o o /\ ToSet(g) = ToSet(f) \cup {x}
                           /\ IsInjective(f) /\ x \notin ToSet(f) => IsInjective(g)
  <2>1. /\ f \o o \in Seq(S) /\ ToSet(f \o o) = ToSet(f) \cup ToSet(o)
        /\ IsInjective(f) /\ IsInjective(o) /\ ToSet(f) \cap ToSet(o) = {}
             => IsInjective(f \o o)
    BY Joined
  <2> QED BY <1>5, <2>1
<1>11. /\ g \o b \in Seq(S) /\ ToSet(g \o b) = ToSet(g) \cup ToSet(b)
       /\ IsInjective(g) /\ IsInjective(b) /\ ToSet(g) \cap ToSet(b) = {}
            => IsInjective(g \o b)
  BY Joined
<1>12. InsertAt(q, k, x) = g \o b
  BY <1>6, <1>10
<1>13. ToSet(g \o b) = ToSet(q) \cup {x}
  BY <1>8, <1>10, <1>11
<1>14. ASSUME IsInjective(q), x \notin ToSet(q) PROVE IsInjective(g \o b)
  BY <1>8, <1>9, <1>10, <1>11, <1>14
<1> QED BY <1>11, <1>12, <1>13, <1>14

\* SetToSeq lists a finite set.
LEMMA Listing ==
  ASSUME NEW T, IsFiniteSet(T)
  PROVE  /\ SetToSeq(T) \in Seq(T) /\ Len(SetToSeq(T)) = Cardinality(T)
         /\ ToSet(SetToSeq(T)) = T /\ IsInjective(SetToSeq(T))
<1>1. PICK n \in Nat : n = Cardinality(T) /\ ExistsBijection(1..n, T)
  BY FS_CardinalityType
<1>2. PICK g \in Bijection(1..n, T) : TRUE
  BY <1>1 DEF ExistsBijection
<1>3. g \in [1..n -> T] /\ IsInjective(g)
  BY <1>2 DEF Bijection, Injection
<1>4. PICK f \in [1..n -> T] : f = SetToSeq(T) /\ IsInjective(f)
  BY <1>1, <1>3 DEF SetToSeq
<1>5. f \in Seq(T) /\ Len(f) = n /\ DOMAIN f = 1..n
  BY <1>4
<1>6. ToSet(f) = T
  <2>1. IsFiniteSet(1..n) /\ Cardinality(1..n) = n
    BY FS_Interval
  <2>2. f \in Injection(1..n, T)
    BY <1>4 DEF Injection
  <2>3. f \in Surjection(1..n, T)
    BY <1>1, <2>1, <2>2, FS_Injection
  <2> QED BY <1>5, <2>3 DEF Surjection, ToSet
<1> QED BY <1>1, <1>4, <1>5, <1>6

\* The lists of c one after the other are q, up to the i-th.
UpToList(c, q, i, S) ==
  /\ q \in Seq(S)
  /\ \A x : x \in ToSet(q) <=> \E k \in 1..i : x \in ToSet(c[k])
  /\ (\A k \in 1..i : IsInjective(c[k])) /\
     (\A k, l \in 1..i : k # l => ToSet(c[k]) \cap ToSet(c[l]) = {})
       => IsInjective(q)

LEMMA OneMoreList ==
  ASSUME NEW S, NEW n \in Nat, NEW c \in [1..n -> Seq(S)], NEW i \in 1..n, NEW q,
         UpToList(c, q, i - 1, S)
  PROVE  UpToList(c, q \o c[i], i, S)
<1>1. q \in Seq(S) /\ c[i] \in Seq(S) /\ i \notin 1..(i - 1) /\ 1..i = (1..(i - 1)) \cup {i}
  BY DEF UpToList
<1>2. /\ q \o c[i] \in Seq(S) /\ ToSet(q \o c[i]) = ToSet(q) \cup ToSet(c[i])
      /\ IsInjective(q) /\ IsInjective(c[i]) /\ ToSet(q) \cap ToSet(c[i]) = {}
           => IsInjective(q \o c[i])
  BY <1>1, Joined
<1>3. \A x : x \in ToSet(q \o c[i]) <=> \E k \in 1..i : x \in ToSet(c[k])
  BY <1>1, <1>2, Zenon DEF UpToList
<1>4. ASSUME \A k \in 1..i : IsInjective(c[k]),
             \A k, l \in 1..i : k # l => ToSet(c[k]) \cap ToSet(c[l]) = {}
      PROVE  IsInjective(q \o c[i])
  <2>1. IsInjective(q) /\ IsInjective(c[i])
    BY <1>1, <1>4 DEF UpToList
  <2>2. ASSUME NEW x \in ToSet(q), x \in ToSet(c[i]) PROVE FALSE
    <3>1. PICK k \in 1..(i - 1) : x \in ToSet(c[k])
      BY DEF UpToList
    <3>2. k \in 1..i /\ i \in 1..i /\ k # i
      BY <1>1
    <3> QED BY <1>4, <2>2, <3>1, <3>2
  <2> QED BY <1>2, <2>1, <2>2
<1> QED BY <1>2, <1>3, <1>4, Zenon DEF UpToList

\* FlattenSeq joins the lists of a list.
LEMMA Flattened ==
  ASSUME NEW S, NEW n \in Nat, NEW c \in [1..n -> Seq(S)]
  PROVE  UpToList(c, FlattenSeq(c), n, S)
<1>0. c \in Seq(Seq(S)) /\ Len(c) = n
  OBVIOUS
<1>1. CASE n = 0
  <2>1. c = <<>> /\ FlattenSeq(c) = c
    BY <1>0, <1>1 DEF FlattenSeq
  <2>2. <<>> \in Seq(S) /\ ToSet(<<>>) = {} /\ IsInjective(<<>>)
    BY DEF ToSet, IsInjective
  <2>3. 1..n = {}
    BY <1>1
  <2> QED BY <2>1, <2>2, <2>3 DEF UpToList
<1>2. CASE n # 0
  <2> DEFINE step == [i \in 1..n |-> [q \in Seq(S) |-> q \o c[i]]]
             low(g) == [i \in 1..n |-> IF i = 1 THEN c[i] ELSE g[i - 1] \o c[i]]
  <2>1. <<>> \in Seq(S)
    OBVIOUS
  <2>2. step \in [1..n -> [Seq(S) -> Seq(S)]]
    <3>1. ASSUME NEW i \in 1..n, NEW q \in Seq(S) PROVE q \o c[i] \in Seq(S)
      BY ConcatProperties
    <3> QED BY <3>1
  <2>3. PICK e \in [0..n -> Seq(S)] : Follows(e, n, <<>>, step)
    <3> HIDE DEF step
    <3> QED BY <2>1, <2>2, Recursion
  <2>4. e[0] = <<>> /\ \A i \in 1..n : e[i] = e[i - 1] \o c[i]
    <3>1. ASSUME NEW i \in 1..n PROVE e[i - 1] \in Seq(S) /\ step[i][e[i - 1]] = e[i - 1] \o c[i]
      <4>1. i - 1 \in 0..n
        OBVIOUS
      <4> QED BY <4>1
    <3> HIDE DEF step
    <3> QED BY <2>3, <3>1 DEF Follows
  <2> DEFINE f == [i \in 1..n |-> e[i]]
  <2>5. f = low(f)
    <3>1. ASSUME NEW i \in 1..n PROVE f[i] = low(f)[i]
      <4>1. CASE i = 1
        <5>0. 1 \in 1..n /\ 1 - 1 = 0
          BY <4>1
        <5>1. e[1] = <<>> \o c[1] /\ c[1] \in Seq(S)
          BY <2>4, <5>0
        <5>2. e[1] = c[1]
          BY <5>1, ConcatEmptySeq
        <5> QED BY <4>1, <5>2
      <4>2. CASE i # 1
        <5>1. i - 1 \in 1..n
          BY <4>2
        <5> QED BY <2>4, <4>2, <5>1
      <4> QED BY <4>1, <4>2
    <3> QED BY <3>1
  <2>6. PICK g : g = low(g) /\ FlattenSeq(c) = g[n]
    <3>1. FlattenSeq(c) = (CHOOSE g : g = low(g))[n]
      BY <1>0, <1>2, Zenon DEF FlattenSeq
    <3> HIDE DEF low, f
    <3> QED BY <2>5, <3>1
  <2>7. g[1] = c[1] /\ \A i \in 2..n : g[i] = g[i - 1] \o c[i]
    <3>1. 1 \in 1..n
      BY <1>2
    <3>2. \A i \in 2..n : i \in 1..n /\ i # 1
      OBVIOUS
    <3> QED BY <2>6, <3>1, <3>2
  <2> DEFINE T == {0} \cup {i \in 1..n : UpToList(c, g[i], i, S)}
  <2>8. ASSUME NEW i \in 1..n, i - 1 \in T PROVE i \in T
    <3>1. CASE i = 1
      <4>1. UpToList(c, c[1], 1, S)
        <5>1. c[1] \in Seq(S) /\ 1..1 = {1}
          BY <1>2
        <5> QED BY <5>1 DEF UpToList
      <4> QED BY <2>7, <3>1, <4>1
    <3>2. CASE i # 1
      <4>1. i \in 2..n /\ i - 1 # 0
        BY <3>2
      <4>2. UpToList(c, g[i - 1], i - 1, S)
        BY <2>8, <4>1
      <4>3. UpToList(c, g[i - 1] \o c[i], i, S)
        BY <4>2, OneMoreList
      <4> QED BY <2>7, <4>1, <4>3
    <3> QED BY <3>1, <3>2
  <2>9. n \in T
    <3>1. 0 \in T
      OBVIOUS
    <3> HIDE DEF T
    <3>2. 0..n \subseteq T
      BY <2>8, <3>1, UpTo
    <3> QED BY <3>2
  <2> QED BY <1>2, <2>6, <2>9
<1> QED BY <1>1, <1>2

-----------------------------------------------------------------------------
(* Segments laid out one after the other. *)

SegmentTypes == segs \in Seq(Segment)

\* e is where each of the n segments of ss ends, from from on.
LaidOut(ss, from, n, e) ==
  /\ e \in [0..n -> Nat] /\ e[0] = from
  /\ \A i \in 1..n : e[i] = AlignUp(e[i - 1], segs[ss[i]].align) + segs[ss[i]].len

LEMMA SegmentNumbers ==
  ASSUME SegmentTypes, NEW s \in Segments
  PROVE  segs[s].align \in Nat \ {0} /\ segs[s].len \in Nat
<1>1. segs[s] \in Segment
  BY DEF SegmentTypes, Segments
<1> QED BY <1>1 DEF Segment

LEMMA EndsLaidOut ==
  ASSUME SegmentTypes, NEW ss \in Seq(Segments), NEW from \in Nat, NEW n, n = Len(ss)
  PROVE  n \in Nat /\ LaidOut(ss, from, n, SegmentEnds(ss, from))
<1>1. n \in Nat /\ \A i \in 1..n : ss[i] \in Segments
  BY ElementOfSeq, LenProperties
<1> DEFINE next(i, a) == AlignUp(a, segs[ss[i]].align) + segs[ss[i]].len
           step == [i \in 1..n |-> [a \in Nat |-> next(i, a)]]
           low(g) == [i \in 0..n |-> IF i = 0 THEN from ELSE next(i, g[i - 1])]
<1>2. ASSUME NEW i \in 1..n, NEW a \in Nat PROVE next(i, a) \in Nat
  <2>1. segs[ss[i]].align \in Nat \ {0} /\ segs[ss[i]].len \in Nat
    BY <1>1, SegmentNumbers
  <2>2. AlignUp(a, segs[ss[i]].align) \in Nat
    BY <2>1, Multiple
  <2> QED BY <2>1, <2>2
<1>3. step \in [1..n -> [Nat -> Nat]]
  <2> HIDE DEF next
  <2> QED BY <1>2
<1>4. PICK e \in [0..n -> Nat] : Follows(e, n, from, step)
  <2> HIDE DEF step
  <2> QED BY <1>1, <1>3, Recursion
<1>5. e[0] = from /\ \A i \in 1..n : e[i] = next(i, e[i - 1])
  <2>1. ASSUME NEW i \in 1..n PROVE step[i][e[i - 1]] = next(i, e[i - 1])
    <3>1. i - 1 \in 0..n
      BY <1>1
    <3>2. e[i - 1] \in Nat
      BY <3>1
    <3> HIDE DEF next
    <3> QED BY <3>2
  <2> HIDE DEF step, next
  <2> QED BY <1>4, <2>1 DEF Follows
<1>6. e = low(e)
  <2> HIDE DEF next
  <2>1. ASSUME NEW i \in 0..n PROVE e[i] = low(e)[i]
    BY <1>1, <1>5
  <2> QED BY <2>1
<1>7. PICK g : g = low(g) /\ SegmentEnds(ss, from) = g
  <2>1. SegmentEnds(ss, from) = CHOOSE g : g = low(g)
    BY Zenon DEF SegmentEnds
  <2> HIDE DEF low
  <2> QED BY <1>6, <2>1
<1>8. g[0] = from /\ DOMAIN g = 0..n /\ \A i \in 1..n : g[i] = next(i, g[i - 1])
  <2> HIDE DEF next
  <2>1. 0 \in 0..n /\ \A i \in 1..n : i \in 0..n /\ i # 0
    BY <1>1
  <2> QED BY <1>7, <2>1
<1> DEFINE T == {i \in 0..n : g[i] \in Nat}
<1>9. 0..n \subseteq T
  <2>1. 0 \in T /\ \A i \in 1..n : i - 1 \in T => i \in T
    <3> HIDE DEF next
    <3> QED BY <1>1, <1>2, <1>8
  <2> HIDE DEF T
  <2> QED BY <1>1, <2>1, UpTo
<1>10. g \in [0..n -> Nat]
  <2>1. g = [i \in 0..n |-> g[i]]
    BY <1>7
  <2>2. \A i \in 0..n : g[i] \in Nat
    BY <1>9
  <2> QED BY <2>1, <2>2
<1> QED BY <1>1, <1>7, <1>8, <1>10 DEF LaidOut

LEMMA EndsGrow ==
  ASSUME SegmentTypes, NEW ss \in Seq(Segments), NEW from, NEW n \in Nat, n = Len(ss),
         NEW e, LaidOut(ss, from, n, e), NEW i \in 0..n, NEW j \in i..n
  PROVE  e[i] <= e[j]
<1> DEFINE T == {k \in 0..(n - i) : e[i] <= e[i + k]}
<1>1. \A k \in 0..n : e[k] \in Nat
  BY DEF LaidOut
<1>2. ASSUME NEW k \in 1..n PROVE e[k - 1] <= e[k]
  <2>1. ss[k] \in Segments /\ e[k - 1] \in Nat
    BY <1>1, ElementOfSeq
  <2>2. segs[ss[k]].align \in Nat \ {0} /\ segs[ss[k]].len \in Nat
    BY <2>1, SegmentNumbers
  <2>3. AlignUp(e[k - 1], segs[ss[k]].align) \in Nat /\ e[k - 1] <= AlignUp(e[k - 1], segs[ss[k]].align)
    BY <2>1, <2>2, Multiple
  <2>4. e[k] = AlignUp(e[k - 1], segs[ss[k]].align) + segs[ss[k]].len
    BY DEF LaidOut
  <2> QED BY <2>1, <2>2, <2>3, <2>4
<1>3. 0 \in T
  BY <1>1
<1>4. ASSUME NEW k \in 1..(n - i), k - 1 \in T PROVE k \in T
  <2>1. i + k \in 1..n /\ i + (k - 1) = (i + k) - 1 /\ (i + k) - 1 \in 0..n /\ i + k \in 0..n
    OBVIOUS
  <2>2. e[(i + k) - 1] <= e[i + k] /\ e[i] <= e[(i + k) - 1]
    BY <1>2, <1>4, <2>1
  <2>3. e[i] \in Nat /\ e[i + k] \in Nat /\ e[(i + k) - 1] \in Nat
    BY <1>1, <2>1
  <2> QED BY <2>2, <2>3
<1>5. j - i \in T
  <2>1. n - i \in Nat /\ j - i \in 0..(n - i)
    OBVIOUS
  <2> HIDE DEF T
  <2>2. 0..(n - i) \subseteq T
    BY <1>3, <1>4, <2>1, UpTo
  <2> QED BY <2>1, <2>2
<1> QED BY <1>5

\* p places the segments ss from from on: aligned, one after the other, the last
\* ending at end.
Arranged(p, ss, from, end) ==
  /\ p \in [ToSet(ss) -> Nat] /\ end \in Nat /\ from <= end
  /\ \A s \in ToSet(ss) : /\ from <= p[s] /\ p[s] + segs[s].len <= end
                          /\ p[s] % segs[s].align = 0
  /\ \A s, t \in ToSet(ss) : s # t =>
       p[s] + segs[s].len <= p[t] \/ p[t] + segs[t].len <= p[s]

\* The segment at a place of ss starts where the one before it ends, aligned.
LEMMA PlacedAt ==
  ASSUME SegmentTypes, NEW ss \in Seq(Segments), IsInjective(ss), NEW from \in Nat,
         NEW n \in Nat, n = Len(ss), NEW i \in 1..n,
         NEW e, e = SegmentEnds(ss, from), LaidOut(ss, from, n, e)
  PROVE  /\ Placed(ss, from)[ss[i]] = AlignUp(e[i - 1], segs[ss[i]].align)
         /\ Placed(ss, from)[ss[i]] + segs[ss[i]].len = e[i]
         /\ Placed(ss, from)[ss[i]] \in Nat
<1>1. Indexed(ss, n)
  BY Elements
<1>2. DOMAIN ss = 1..n /\ ss[i] \in ToSet(ss) /\ \A k \in 1..n : ss[k] = ss[i] => k = i
  BY <1>1 DEF Indexed
<1>3. (CHOOSE k \in DOMAIN ss : ss[k] = ss[i]) = i
  BY <1>2
<1>4. Placed(ss, from)[ss[i]] = e[i] - segs[ss[i]].len
  BY <1>2, <1>3 DEF Placed
<1>5. ss[i] \in Segments /\ i - 1 \in 0..n
  BY ElementOfSeq
<1>6. e[i - 1] \in Nat /\ segs[ss[i]].align \in Nat \ {0} /\ segs[ss[i]].len \in Nat
  BY <1>5, SegmentNumbers DEF LaidOut
<1>7. AlignUp(e[i - 1], segs[ss[i]].align) \in Nat
  BY <1>6, Multiple
<1>8. e[i] = AlignUp(e[i - 1], segs[ss[i]].align) + segs[ss[i]].len
  BY DEF LaidOut
<1> QED BY <1>4, <1>6, <1>7, <1>8

LEMMA PlacedApart ==
  ASSUME SegmentTypes, NEW ss \in Seq(Segments), IsInjective(ss), NEW from \in Nat
  PROVE  Arranged(Placed(ss, from), ss, from, EndOf(ss, from))
<1>1. PICK n \in Nat : n = Len(ss)
  BY LenProperties
<1>2. PICK e : e = SegmentEnds(ss, from) /\ LaidOut(ss, from, n, e)
  BY <1>1, EndsLaidOut
<1>3. PICK p : p = Placed(ss, from)
  OBVIOUS
<1>4. Indexed(ss, n)
  BY <1>1, Elements
<1>5. ASSUME NEW i \in 1..n
      PROVE  /\ p[ss[i]] = AlignUp(e[i - 1], segs[ss[i]].align)
             /\ p[ss[i]] + segs[ss[i]].len = e[i] /\ p[ss[i]] \in Nat
             /\ p[ss[i]] % segs[ss[i]].align = 0 /\ e[i - 1] <= p[ss[i]]
  <2>1. /\ p[ss[i]] = AlignUp(e[i - 1], segs[ss[i]].align)
        /\ p[ss[i]] + segs[ss[i]].len = e[i] /\ p[ss[i]] \in Nat
    BY <1>1, <1>2, <1>3, PlacedAt
  <2>2. ss[i] \in Segments /\ i - 1 \in 0..n
    BY <1>1, ElementOfSeq
  <2>3. e[i - 1] \in Nat /\ segs[ss[i]].align \in Nat \ {0}
    BY <1>2, <2>2, SegmentNumbers DEF LaidOut
  <2> QED BY <2>1, <2>3, Multiple
<1>6. \A s \in ToSet(ss) : \E i \in 1..n : ss[i] = s
  BY <1>4 DEF Indexed
<1>7. p \in [ToSet(ss) -> Nat]
  <2>1. p = [s \in ToSet(ss) |-> p[s]]
    BY <1>3 DEF Placed
  <2>2. \A s \in ToSet(ss) : p[s] \in Nat
    BY <1>5, <1>6
  <2> QED BY <2>1, <2>2
<1>8. EndOf(ss, from) = e[n] /\ \A i \in 0..n : e[i] \in Nat /\ e[0] = from
  BY <1>1, <1>2 DEF EndOf, LaidOut
<1>9. \A i \in 0..n : \A j \in i..n : e[i] <= e[j]
  BY <1>1, <1>2, EndsGrow
<1>10. ASSUME NEW s \in ToSet(ss)
       PROVE  from <= p[s] /\ p[s] + segs[s].len <= e[n] /\ p[s] % segs[s].align = 0
  <2>1. PICK i \in 1..n : ss[i] = s
    BY <1>6
  <2>2. /\ 0 \in 0..n /\ i - 1 \in 0..n /\ i \in 0..n /\ n \in 0..n
        /\ i - 1 \in 0..n /\ n \in i..n
    OBVIOUS
  <2>3. e[0] <= e[i - 1] /\ e[i] <= e[n]
    BY <1>9, <2>2
  <2>4. e[0] \in Nat /\ e[i - 1] \in Nat /\ e[i] \in Nat /\ e[n] \in Nat /\ e[0] = from
    BY <1>8, <2>2
  <2>5. /\ p[s] + segs[s].len = e[i] /\ p[s] \in Nat
        /\ p[s] % segs[s].align = 0 /\ e[i - 1] <= p[s]
    BY <1>5, <2>1
  <2>6. from <= p[s]
    BY <2>3, <2>4, <2>5
  <2> QED BY <2>3, <2>5, <2>6
<1>11. ASSUME NEW i \in 1..n, NEW j \in 1..n, i < j
       PROVE  p[ss[i]] + segs[ss[i]].len <= p[ss[j]]
  <2>1. i \in 0..n /\ j - 1 \in i..n /\ j - 1 \in 0..n
    BY <1>11
  <2>2. e[i] <= e[j - 1] /\ e[i] \in Nat /\ e[j - 1] \in Nat
    BY <1>8, <1>9, <2>1
  <2>3. p[ss[i]] + segs[ss[i]].len = e[i] /\ e[j - 1] <= p[ss[j]] /\ p[ss[j]] \in Nat
    BY <1>5
  <2> QED BY <2>2, <2>3
<1>12. ASSUME NEW s \in ToSet(ss), NEW t \in ToSet(ss), s # t
       PROVE  p[s] + segs[s].len <= p[t] \/ p[t] + segs[t].len <= p[s]
  <2>1. PICK i \in 1..n, j \in 1..n : ss[i] = s /\ ss[j] = t
    BY <1>6
  <2>2. i < j \/ j < i
    BY <1>12, <2>1
  <2> QED BY <1>11, <2>1, <2>2
<1>13. 0 \in 0..n /\ n \in 0..n
  OBVIOUS
<1>14. e[n] \in Nat /\ from <= e[n]
  BY <1>8, <1>9, <1>13
<1> QED BY <1>3, <1>7, <1>8, <1>10, <1>12, <1>14 DEF Arranged

\* From a multiple of all alignments on the layout is the one from 0 on.
LEMMA PlacedFrom ==
  ASSUME SegmentTypes, NEW ss \in Seq(Segments), IsInjective(ss), NEW from \in Nat,
         \A s \in ToSet(ss) : from % segs[s].align = 0
  PROVE  /\ \A s \in ToSet(ss) : Placed(ss, from)[s] = from + Placed(ss, 0)[s]
         /\ EndOf(ss, from) = from + EndOf(ss, 0)
<1>1. PICK n \in Nat : n = Len(ss)
  BY LenProperties
<1>2. PICK e : e = SegmentEnds(ss, from) /\ LaidOut(ss, from, n, e)
  BY <1>1, EndsLaidOut
<1>3. PICK z : z = SegmentEnds(ss, 0) /\ LaidOut(ss, 0, n, z)
  BY <1>1, EndsLaidOut
<1>4. Indexed(ss, n)
  BY <1>1, Elements
<1> DEFINE T == {i \in 0..n : e[i] = from + z[i]}
<1>5. ASSUME NEW i \in 1..n, e[i - 1] = from + z[i - 1]
      PROVE  AlignUp(e[i - 1], segs[ss[i]].align) = from + AlignUp(z[i - 1], segs[ss[i]].align)
  <2>1. ss[i] \in Segments /\ ss[i] \in ToSet(ss) /\ i - 1 \in 0..n
    BY <1>1, <1>4, ElementOfSeq DEF Indexed
  <2>2. segs[ss[i]].align \in Nat \ {0} /\ z[i - 1] \in Nat /\ from % segs[ss[i]].align = 0
    BY <1>3, <2>1, SegmentNumbers DEF LaidOut
  <2>3. PICK a \in Nat \ {0}, b \in Nat : a = segs[ss[i]].align /\ b = z[i - 1] /\ from % a = 0
    BY <2>2
  <2>4. AlignUp(from + b, a) = from + AlignUp(b, a)
    BY <2>3, MultipleFrom
  <2> QED BY <1>5, <2>3, <2>4
<1>6. ASSUME NEW i \in 1..n
      PROVE  /\ segs[ss[i]].align \in Nat \ {0} /\ segs[ss[i]].len \in Nat
             /\ z[i - 1] \in Nat /\ AlignUp(z[i - 1], segs[ss[i]].align) \in Nat
  <2>1. ss[i] \in Segments /\ i - 1 \in 0..n
    BY <1>1, ElementOfSeq
  <2>2. segs[ss[i]].align \in Nat \ {0} /\ segs[ss[i]].len \in Nat /\ z[i - 1] \in Nat
    BY <1>3, <2>1, SegmentNumbers DEF LaidOut
  <2> QED BY <2>2, Multiple
<1>7. ASSUME NEW i \in 1..n, i - 1 \in T PROVE i \in T
  <2>1. AlignUp(e[i - 1], segs[ss[i]].align) = from + AlignUp(z[i - 1], segs[ss[i]].align)
    BY <1>5, <1>7
  <2>2. /\ e[i] = AlignUp(e[i - 1], segs[ss[i]].align) + segs[ss[i]].len
        /\ z[i] = AlignUp(z[i - 1], segs[ss[i]].align) + segs[ss[i]].len
    BY <1>2, <1>3 DEF LaidOut
  <2>3. e[i] = from + z[i]
    BY <1>6, <2>1, <2>2
  <2> QED BY <2>3
<1>8. \A i \in 0..n : e[i] = from + z[i]
  <2>1. 0 \in T
    BY <1>2, <1>3 DEF LaidOut
  <2> HIDE DEF T
  <2>2. 0..n \subseteq T
    BY <1>7, <2>1, UpTo
  <2> QED BY <2>2 DEF T
<1>9. ASSUME NEW s \in ToSet(ss) PROVE Placed(ss, from)[s] = from + Placed(ss, 0)[s]
  <2>1. PICK i \in 1..n : ss[i] = s
    BY <1>4 DEF Indexed
  <2>2. Placed(ss, from)[s] = AlignUp(e[i - 1], segs[s].align)
    BY <1>1, <1>2, <2>1, PlacedAt
  <2>3. Placed(ss, 0)[s] = AlignUp(z[i - 1], segs[s].align)
    BY <1>1, <1>3, <2>1, PlacedAt
  <2>4. i - 1 \in 0..n
    OBVIOUS
  <2> QED BY <1>5, <1>8, <2>1, <2>2, <2>3, <2>4
<1>10. n \in 0..n
  OBVIOUS
<1>11. EndOf(ss, from) = e[n] /\ EndOf(ss, 0) = z[n]
  BY <1>1, <1>2, <1>3 DEF EndOf
<1> QED BY <1>8, <1>9, <1>10, <1>11

-----------------------------------------------------------------------------
(* What the front half leaves behind stays. *)

\* Finitely many names are declared; Collect's invariant is that of Reach.
FrontInv == ReachInv /\ IsFiniteSet(Declared)

LEMMA FrontBegins == Init => FrontInv
<1> SUFFICES ASSUME Init PROVE FrontInv
  OBVIOUS
<1>1. Declared = {}
  BY DEF Init, Declared
<1> QED BY <1>1, ReachInit, FS_EmptySet DEF FrontInv

LEMMA OneNameMore ==
  ASSUME IsFiniteSet(Declared), CollectNext PROVE IsFiniteSet(Declared')
<1> DEFINE more(n) == Declared' \subseteq Declared \cup {n}
<1>1. ASSUME NEW n, NEW i, Declare(n, i) PROVE more(n)
  BY <1>1 DEF Declare, Declared
<1>2. ASSUME UNCHANGED names PROVE more(NULL)
  BY <1>2 DEF Declared
<1>3. ASSUME NEW n, NEW fx, CreateSegment(n, fx) PROVE more(n)
  <2>1. names' = [names EXCEPT ![n].seg = Len(segs) + 1]
    BY <1>3 DEF CreateSegment
  <2> QED BY <2>1 DEF Declared
<1>4. ASSUME NEW n, NEW rest, CollectName(n, rest) PROVE \E m : more(m)
  <2>1. UNCHANGED names \/ CreateSegment(n, Grown)
    BY <1>4 DEF CollectName
  <2> QED BY <1>2, <1>3, <2>1
<1>5. ASSUME Reading PROVE \E n : more(n)
  <2> HIDE DEF more
  <2>1. ASSUME NewPublicName PROVE \E n : more(n)
    <3>1. UNCHANGED names \/ \E n, i : Declare(n, i)
      BY <2>1, Zenon DEF NewPublicName
    <3> QED BY <1>1, <1>2, <3>1
  <2>2. ASSUME NewCommonName PROVE \E n : more(n)
    <3>1. UNCHANGED names \/ \E n, i : Declare(n, i)
      BY <2>2, Zenon DEF NewCommonName
    <3> QED BY <1>1, <1>2, <3>1
  <2>3. ASSUME NewImportName PROVE \E n : more(n)
    <3>1. UNCHANGED names \/ \E n, i : Declare(n, i)
      BY <2>3, Zenon DEF NewImportName
    <3> QED BY <1>1, <1>2, <3>1
  <2>4. ASSUME NewWeakName PROVE \E n : more(n)
    <3>1. UNCHANGED names \/ \E n, i : Declare(n, i)
      BY <2>4, Zenon DEF NewWeakName
    <3> QED BY <1>1, <1>2, <3>1
  <2>5. UNCHANGED names \/ NewPublicName \/ NewCommonName \/ NewImportName \/ NewWeakName
    BY <1>5 DEF Reading, NewFile, NewSegment, addFixup, setEntryPoint, NewExport, ReadingEnds
  <2> QED BY <1>2, <2>1, <2>2, <2>3, <2>4, <2>5
<1>6. ASSUME Collecting PROVE \E n : more(n)
  <2> HIDE DEF more
  <2>1. ASSUME ResolveCommon PROVE \E n : more(n)
    <3>1. \E n, fx : CreateSegment(n, fx)
      BY <2>1, Zenon DEF ResolveCommon
    <3> QED BY <1>3, <3>1
  <2>2. ASSUME CollectExternal \/ ExportNext PROVE \E n : more(n)
    <3>1. UNCHANGED names \/ \E n, rest : CollectName(n, rest)
      BY <2>2, Zenon DEF CollectExternal, ExportNext
    <3> QED BY <1>2, <1>4, <3>1
  <2>3. UNCHANGED names \/ ResolveCommon \/ CollectExternal \/ ExportNext
    BY <1>6 DEF Collecting, ResolveForward, ResolveUndefined, ResolveDefined, ResolveWeak,
       ResolveImport, ResolveAbsolute, CollectFixup, CollectDescriptor, CollectAddresses,
       Return, EntryFirst, ExportsEnd, AllNextFile, AllNextSegment, AllPassEnds, kept
  <2> QED BY <1>2, <2>1, <2>2, <2>3
<1>7. PICK n : more(n)
  BY <1>5, <1>6 DEF CollectNext
<1>8. IsFiniteSet(Declared \cup {n})
  BY FS_AddElement
<1> QED BY <1>7, <1>8, FS_Subset

LEMMA FrontNext == FrontInv /\ CollectNext => FrontInv'
<1> SUFFICES ASSUME FrontInv, CollectNext PROVE FrontInv'
  OBVIOUS
<1>1. ReachInv'
  BY ReachNext DEF FrontInv
<1> QED BY <1>1, OneNameMore DEF FrontInv

\* Where the back half of the linker goes from "collected".
Back == {"ended", "ordered", "addressed", "imaged", "processed", "linked", "aborted"}

\* The names have other offsets and there are more relocations.
Offset ==
  /\ Declared' = Declared
  /\ \A n \in Declared : /\ names'[n] = Info(names[n].kind, names[n].seg, names'[n].off, names[n].arg)
                         /\ names'[n].off \in Int
  /\ NFixups' \in Nat /\ NFixups <= NFixups'

LEMMA OffsetKeeps ==
  ASSUME FrontInv, Offset, UNCHANGED <<reading, roots, segments>>, pc' \in Back
  PROVE  FrontInv'
<1>1. /\ UNCHANGED <<input, exports, todo, walk, files, segs, fixups, used, marked>>
      /\ UNCHANGED <<stack, lookup>>
  BY DEF reading, roots, segments
<1>2. /\ pc' \notin {"reading", "entry", "exports", "all", "collected"}
      /\ TypeOK /\ Pointers /\ Counted /\ Filed /\ Listed /\ Externals /\ OnlyReachable
      /\ Whole /\ IsFiniteSet(Declared)
  BY DEF Back, FrontInv, ReachInv, IInv
<1>3. ASSUME NEW n \in Declared
      PROVE  /\ names'[n].kind = names[n].kind /\ names'[n].seg = names[n].seg
             /\ names'[n].arg = names[n].arg
  <2>1. names'[n] = Info(names[n].kind, names[n].seg, names'[n].off, names[n].arg)
    BY DEF Offset
  <2>2. PICK o : o = names'[n].off
    OBVIOUS
  <2> QED BY <2>1, <2>2 DEF Info
<1>4. TypeOK'
  <2>1. Segments' = Segments /\ Files' = Files /\ Declared' = Declared
    BY <1>1 DEF Segments, Files, Offset
  <2>2. ASSUME NEW n \in Declared'
        PROVE  /\ names'[n] = Info(names'[n].kind, names'[n].seg, names'[n].off, names'[n].arg)
               /\ names'[n].kind \in {"public", "common", "weak", "import"}
               /\ names'[n].seg \in Segments \cup {NULL} /\ names'[n].off \in Int
               /\ names'[n].kind = "weak" => names'[n].arg \in Name
               /\ names'[n].kind = "common" => names'[n].arg \in Nat
    BY <1>2, <1>3, <2>1 DEF Offset, TypeOK
  <2> QED BY <1>1, <1>2, <2>1, <2>2 DEF TypeOK, Info, Offset
<1>5. Pointers' /\ Phases' /\ MarkedIsDone'
  BY <1>1, <1>2 DEF Pointers, Pointed, Known1, Segments, Phases, MarkedIsDone, Marking
<1>6. Counted'
  <2>1. Passed' = Passed
    BY <1>1 DEF Passed, Pending, Counts
  <2>2. Cardinality(Passed) \in Nat /\ NFixups \in Nat
    BY <1>2, FS_CardinalityType DEF Counted, TypeOK
  <2> QED BY <1>2, <2>1, <2>2 DEF Counted, FixNeverOverrun, Offset
<1>7. Filed' /\ Listed' /\ Externals' /\ Modes'
  BY <1>1, <1>2 DEF Filed, Listed, Externals, External, IsIDATA, Segments, Files, Modes
<1>8. OnlyReachable'
  <2>1. \A n : SegOf(n)' = SegOf(n)
    BY <1>3 DEF SegOf, Offset
  <2>2. ASSUME NEW f PROVE Leads(f)' = Leads(f)
    BY <1>3 DEF Leads, Offset
  <2>3. ASSUME NEW s PROVE Requires(s)' = Requires(s)
    BY <1>1, <2>1, <2>2 DEF Requires, IsIDATA, IsIDATA_DOLLAR, InFile, Segments
  <2>4. ASSUME NEW R PROVE SelfContained(R)' <=> SelfContained(R)
    BY <1>1, <2>1, <2>3 DEF SelfContained
  <2>5. xSmart' = xSmart
    BY <1>1 DEF xSmart
  <2> QED BY <1>1, <1>2, <2>4, <2>5 DEF OnlyReachable
<1>9. Whole'
  <2>1. \A f \in Files : linkable(f)' = linkable(f)
    BY <1>1 DEF linkable, InFile, isLinkable, Segments
  <2> QED BY <1>1, <1>2, <2>1 DEF Whole, Files
<1> QED BY <1>2, <1>4, <1>5, <1>6, <1>7, <1>8, <1>9 DEF FrontInv, ReachInv, IInv, Offset

-----------------------------------------------------------------------------
(* Collections. *)

LEMMA SectionNames ==
  /\ SectionSet = {"code", "code16", "data", "bss", "const", "idata"}
  /\ \A s : SectionOf(s) \in SectionSet
<1>1. SectionSet = {Sections[i] : i \in DOMAIN Sections}
  BY DEF SectionSet, ToSet
<1>2. DOMAIN Sections = {1, 2, 3, 4, 5, 6}
  BY DEF Sections
<1>3. /\ Sections[1] = "code" /\ Sections[2] = "code16" /\ Sections[3] = "data"
      /\ Sections[4] = "bss" /\ Sections[5] = "const" /\ Sections[6] = "idata"
  BY DEF Sections
<1>4. SectionSet = {"code", "code16", "data", "bss", "const", "idata"}
  BY <1>1, <1>2, <1>3
<1> QED BY <1>4 DEF SectionOf

Collection == [name : Address, segs : Seq(Segments)]
Members(x) == {s \in marked \ {0} : SectionOf(s) = x}

\* The collections of section x list its segments, none twice.
Grouped(x, cs) ==
  /\ cs \in Seq(Collection) /\ IsInjective(cs)
  /\ \A g \in ToSet(cs) : IsInjective(g.segs) /\ ToSet(g.segs) \subseteq Members(x)
  /\ \A g, h \in ToSet(cs) : g # h => ToSet(g.segs) \cap ToSet(h.segs) = {}

\* r is q and x.
With(r, q, x, S) ==
  /\ r \in Seq(S) /\ ToSet(r) = ToSet(q) \cup {x}
  /\ IsInjective(q) /\ x \notin ToSet(q) => IsInjective(r)

LEMMA InsertedWith ==
  ASSUME NEW S, NEW q \in Seq(S), NEW s \in S
  PROVE  With(Inserted(q, s), q, s, S)
<1> DEFINE mine == {i \in DOMAIN q : segs[q[i]].file = segs[s].file}
           first == Least(mine)
           stops == {i \in first..(Len(q) + 1) :
                       \/ i = Len(q) + 1 \/ i \notin mine
                       \/ Len(fixups[q[i]]) < Len(fixups[s])}
<1>1. CASE mine = {}
  <2>1. Inserted(q, s) = Append(q, s)
    BY <1>1 DEF Inserted
  <2> QED BY <2>1, Appended DEF With
<1>2. CASE mine # {}
  <2>1. PICK n \in Nat : n = Len(q) /\ DOMAIN q = 1..n
    BY LenProperties
  <2>2. mine \in SUBSET Nat /\ mine \subseteq 1..n
    BY <2>1
  <2>3. first \in 1..n
    <3> HIDE DEF mine
    <3> QED BY <1>2, <2>2, LeastIn
  <2> DEFINE k == Least(stops)
  <2>4. k \in 1..(n + 1)
    <3> HIDE DEF first
    <3>1. stops \in SUBSET Nat /\ n + 1 \in stops /\ stops \subseteq 1..(n + 1)
      BY <2>1, <2>3
    <3> HIDE DEF stops
    <3> QED BY <3>1, LeastIn
  <2>5. Inserted(q, s) = InsertAt(q, k, s)
    BY <1>2 DEF Inserted
  <2> HIDE DEF k
  <2> QED BY <2>1, <2>4, <2>5, InsertedAt DEF With
<1> QED BY <1>1, <1>2

\* A collection of its own for a segment not listed yet.
LEMMA NewCollection ==
  ASSUME NEW x, NEW cs, Grouped(x, cs), NEW s \in Members(x) \cap Segments,
         \A g \in ToSet(cs) : s \notin ToSet(g.segs),
         NEW n \in Address, NEW new, new = [name |-> n, segs |-> <<s>>],
         NEW r, With(r, cs, new, Collection)
  PROVE  Grouped(x, r) /\ \E g \in ToSet(r) : s \in ToSet(g.segs)
<1>1. PICK q \in Seq(Segments) : q = <<s>> /\ ToSet(q) = {s} /\ IsInjective(q)
  BY OneElement
<1>2. new.segs = q
  BY <1>1
<1>3. new \notin ToSet(cs)
  BY <1>1, <1>2
<1>4. r \in Seq(Collection) /\ IsInjective(r) /\ ToSet(r) = ToSet(cs) \cup {new}
  BY <1>3 DEF With, Grouped
<1>5. \A g \in ToSet(r) : IsInjective(g.segs) /\ ToSet(g.segs) \subseteq Members(x)
  BY <1>1, <1>2, <1>4 DEF Grouped
<1>6. \A g, h \in ToSet(r) : g # h => ToSet(g.segs) \cap ToSet(h.segs) = {}
  <2>1. ASSUME NEW g \in ToSet(cs) PROVE ToSet(g.segs) \cap ToSet(new.segs) = {}
    BY <1>1, <1>2
  <2>2. ASSUME NEW g \in ToSet(r), NEW h \in ToSet(r), g # h
        PROVE  ToSet(g.segs) \cap ToSet(h.segs) = {}
    <3>1. CASE g = new
      BY <1>4, <2>1, <2>2, <3>1
    <3>2. CASE h = new
      BY <1>4, <2>1, <2>2, <3>2
    <3>3. CASE g # new /\ h # new
      <4>1. g \in ToSet(cs) /\ h \in ToSet(cs)
        BY <1>4, <3>3
      <4> QED BY <2>2, <4>1 DEF Grouped
    <3> QED BY <3>1, <3>2, <3>3
  <2> QED BY <2>2
<1> QED BY <1>1, <1>2, <1>4, <1>5, <1>6 DEF Grouped

\* A segment more for one of the collections.
LEMMA LongerCollection ==
  ASSUME NEW x, NEW cs, Grouped(x, cs), NEW s \in Members(x) \cap Segments,
         \A g \in ToSet(cs) : s \notin ToSet(g.segs), NEW k \in DOMAIN cs,
         NEW q, With(q, cs[k].segs, s, Segments), NEW r, r = [cs EXCEPT ![k].segs = q]
  PROVE  Grouped(x, r) /\ \E g \in ToSet(r) : s \in ToSet(g.segs)
<1> DEFINE old == cs[k]
           new == [old EXCEPT !.segs = q]
<1>1. PICK n \in Nat : n = Len(cs) /\ Indexed(cs, n)
  BY LenProperties, Elements DEF Grouped
<1>2. /\ cs \in Seq(Collection) /\ DOMAIN cs = 1..n /\ k \in 1..n /\ old \in Collection
      /\ old \in ToSet(cs) /\ \A i, j \in 1..n : cs[i] = cs[j] => i = j
  BY <1>1, ElementOfSeq DEF Grouped, Indexed
<1>3. /\ q \in Seq(Segments) /\ ToSet(q) = ToSet(old.segs) \cup {s} /\ IsInjective(q)
      /\ s \notin ToSet(old.segs)
  BY <1>2 DEF With, Grouped
<1>4. new \in Collection /\ new.segs = q
  BY <1>2, <1>3 DEF Collection
<1>5. r \in Seq(Collection) /\ Len(r) = n /\ r[k] = new /\ \A i \in 1..n : i # k => r[i] = cs[i]
  BY <1>1, <1>2, <1>4
<1>6. \A g \in ToSet(cs) : g # new
  BY <1>3, <1>4
<1> HIDE DEF new, old
<1>7. Indexed(r, n)
  BY <1>5, Elements
<1>8. IsInjective(r)
  <2>1. \A i \in 1..n : cs[i] \in ToSet(cs)
    BY <1>1 DEF Indexed
  <2>2. \A i, j \in 1..n : r[i] = r[j] => i = j
    BY <1>2, <1>5, <1>6, <2>1
  <2> QED BY <1>7, <2>2 DEF Indexed
<1>9. \A g \in ToSet(r) : g = new \/ (g \in ToSet(cs) /\ g # old)
  <2>1. ASSUME NEW g \in ToSet(r) PROVE g = new \/ (g \in ToSet(cs) /\ g # old)
    <3>1. PICK i \in 1..n : r[i] = g
      BY <1>7 DEF Indexed
    <3>2. CASE i = k
      BY <1>5, <3>1, <3>2
    <3>3. CASE i # k
      <4>1. g = cs[i] /\ cs[i] \in ToSet(cs)
        BY <1>1, <1>5, <3>1, <3>3 DEF Indexed
      <4>2. g # old
        BY <1>2, <3>3, <4>1 DEF old
      <4> QED BY <4>1, <4>2
    <3> QED BY <3>2, <3>3
  <2> QED BY <2>1
<1>10. new \in ToSet(r)
  BY <1>2, <1>5, <1>7 DEF Indexed
<1>11. \A g \in ToSet(r) : IsInjective(g.segs) /\ ToSet(g.segs) \subseteq Members(x)
  BY <1>2, <1>3, <1>4, <1>9 DEF Grouped
<1>12. \A g, h \in ToSet(r) : g # h => ToSet(g.segs) \cap ToSet(h.segs) = {}
  <2>1. ASSUME NEW g \in ToSet(cs), g # old PROVE ToSet(g.segs) \cap ToSet(q) = {}
    <3>1. ToSet(g.segs) \cap ToSet(old.segs) = {} /\ s \notin ToSet(g.segs)
      BY <1>2, <2>1 DEF Grouped
    <3> QED BY <1>3, <3>1
  <2>2. ASSUME NEW g \in ToSet(r), NEW h \in ToSet(r), g # h
        PROVE  ToSet(g.segs) \cap ToSet(h.segs) = {}
    <3>1. CASE g = new
      BY <1>4, <1>9, <2>1, <2>2, <3>1
    <3>2. CASE h = new
      BY <1>4, <1>9, <2>1, <2>2, <3>2
    <3>3. CASE g # new /\ h # new
      BY <1>9, <2>2, <3>3 DEF Grouped
    <3> QED BY <3>1, <3>2, <3>3
  <2> QED BY <2>2
<1>13. s \in ToSet(new.segs)
  BY <1>3, <1>4
<1> QED BY <1>5, <1>8, <1>10, <1>11, <1>12, <1>13 DEF Grouped

LEMMA AddedGrouped ==
  ASSUME SegmentTypes, NEW x, NEW cs, Grouped(x, cs), NEW s \in Members(x) \cap Segments,
         \A g \in ToSet(cs) : s \notin ToSet(g.segs)
  PROVE  Grouped(x, Added(cs, s)) /\ \E g \in ToSet(Added(cs, s)) : s \in ToSet(g.segs)
<1> DEFINE n == segs[s].name
           sort == Sorted(SectionOf(s))
           same == {k \in DOMAIN cs : cs[k].name = n}
           after == {k \in DOMAIN cs : sort /\ n < cs[k].name}
           new == [name |-> n, segs |-> <<s>>]
<1>1. PICK m \in Nat : m = Len(cs) /\ DOMAIN cs = 1..m /\ cs \in Seq(Collection)
  BY LenProperties DEF Grouped
<1>2. n \in Address
  <2>1. segs[s] \in Segment
    BY DEF SegmentTypes, Segments
  <2> QED BY <2>1 DEF Segment
<1>3. new \in Collection
  <2>1. <<s>> \in Seq(Segments)
    BY OneElement
  <2> QED BY <1>2, <2>1 DEF Collection
<1>4. CASE same # {}
  <2> DEFINE k == Least(same)
             q == IF sort THEN Inserted(cs[k].segs, s) ELSE Append(cs[k].segs, s)
  <2>1. k \in DOMAIN cs
    <3>1. same \in SUBSET Nat /\ same \subseteq DOMAIN cs
      BY <1>1
    <3> HIDE DEF same
    <3> QED BY <1>4, <3>1, LeastIn
  <2>2. Added(cs, s) = [cs EXCEPT ![k].segs = q]
    BY <1>4 DEF Added
  <2> HIDE DEF k
  <2>3. cs[k].segs \in Seq(Segments)
    <3>1. cs[k] \in Collection
      BY <1>1, <2>1
    <3> QED BY <3>1 DEF Collection
  <2>4. With(q, cs[k].segs, s, Segments)
    BY <2>3, InsertedWith, Appended DEF With
  <2> HIDE DEF q
  <2>5. PICK r : r = [cs EXCEPT ![k].segs = q]
    OBVIOUS
  <2>6. Grouped(x, r) /\ \E g \in ToSet(r) : s \in ToSet(g.segs)
    BY <2>1, <2>4, <2>5, LongerCollection
  <2> QED BY <2>2, <2>5, <2>6 DEF q
<1>5. CASE same = {}
  <2> HIDE DEF new
  <2>1. CASE after # {}
    <3> DEFINE k == Least(after)
    <3>1. k \in 1..(Len(cs) + 1)
      <4>1. after \in SUBSET Nat /\ after \subseteq 1..m
        BY <1>1
      <4> HIDE DEF after
      <4>2. Least(after) \in 1..m
        BY <2>1, <4>1, LeastIn
      <4> QED BY <1>1, <4>2
    <3>2. Added(cs, s) = InsertAt(cs, k, new)
      BY <1>5, <2>1 DEF Added, new
    <3> HIDE DEF k
    <3>3. With(InsertAt(cs, k, new), cs, new, Collection)
      BY <1>1, <1>3, <3>1, InsertedAt DEF With
    <3> QED BY <1>2, <3>2, <3>3, NewCollection DEF new
  <2>2. CASE after = {}
    <3>1. Added(cs, s) = Append(cs, new)
      BY <1>5, <2>2 DEF Added, new
    <3>2. With(Append(cs, new), cs, new, Collection)
      BY <1>1, <1>3, Appended DEF With
    <3> QED BY <1>2, <3>1, <3>2, NewCollection DEF new
  <2> QED BY <2>1, <2>2
<1> QED BY <1>4, <1>5

Early == {"reading", "entry", "exports", "all"}
Later == {"ordered", "addressed", "imaged", "processed", "linked"}

\* Nothing is collected before the segments are marked, everything after
\* OrderSegments, nothing twice.
CollectionsInv ==
  /\ DOMAIN collections = SectionSet
  /\ \A x \in SectionSet : Grouped(x, collections[x])
  /\ pc \in Early => \A x \in SectionSet : collections[x] = <<>>
  /\ pc \in Later => Uncollected = {}

LEMMA MarkedSegments ==
  ASSUME TypeOK
  PROVE  SegmentTypes /\ marked \ {0} \subseteq Segments /\ \A x : Members(x) \subseteq Segments
<1>1. Segments = 1..Len(segs) /\ Len(segs) \in Nat /\ marked \subseteq 0..Len(segs)
  BY DEF TypeOK, Segments
<1>2. marked \ {0} \subseteq Segments
  BY <1>1
<1> QED BY <1>2 DEF Members, TypeOK, SegmentTypes

LEMMA NoCollections ==
  ASSUME NEW x PROVE Grouped(x, <<>>)
BY DEF Grouped, ToSet, IsInjective

LEMMA CollectionsBegin == LInit => CollectionsInv
<1> SUFFICES ASSUME LInit PROVE CollectionsInv
  OBVIOUS
<1>1. DOMAIN collections = SectionSet /\ \A x \in SectionSet : collections[x] = <<>>
  BY DEF LInit
<1>2. pc \notin Later
  BY DEF LInit, Init, Later
<1> QED BY <1>1, <1>2, NoCollections DEF CollectionsInv

LEMMA FrontOnly ==
  ASSUME CollectNext
  PROVE  pc \in Early /\ pc' \in Early \cup {"collected", "ended", "aborted"}
<1>1. CASE Reading
  <2>1. pc = "reading" /\ pc' \in {"reading", "ended", "aborted", "entry"}
    BY <1>1 DEF Reading, NewFile, NewSegment, addFixup, setEntryPoint, NewPublicName,
       NewCommonName, NewImportName, NewWeakName, NewExport, ReadingEnds, Next1, marking
  <2> QED BY <2>1 DEF Early
<1>2. CASE Collecting
  <2> USE DEF Early, ByName, AtFixup, Running, Past, Idle, Steady
  <2>1. ASSUME ResolveForward \/ ResolveUndefined \/ ResolveDefined \/ ResolveCommon \/ ResolveWeak
        PROVE  pc \in Early /\ pc' \in {pc, "aborted"}
    BY <2>1 DEF ResolveForward, ResolveUndefined, ResolveDefined, ResolveCommon, ResolveWeak
  <2>2. ASSUME ResolveImport \/ ResolveAbsolute \/ CollectFixup \/ CollectDescriptor
        PROVE  pc \in Early /\ pc' \in {pc, "aborted"}
    BY <2>2 DEF ResolveImport, ResolveAbsolute, CollectFixup, CollectDescriptor
  <2>3. ASSUME CollectExternal \/ CollectAddresses \/ Return
        PROVE  pc \in Early /\ pc' \in {pc, "aborted"}
    BY <2>3 DEF CollectExternal, CollectAddresses, Return
  <2>4. ASSUME EntryFirst \/ ExportNext \/ ExportsEnd \/ AllNextFile \/ AllNextSegment \/ AllPassEnds
        PROVE  pc \in Early /\ pc' \in {pc, "exports", "all", "collected"}
    BY <2>4 DEF EntryFirst, ExportNext, ExportsEnd, AllNextFile, AllNextSegment, AllPassEnds
  <2> QED BY <1>2, <2>1, <2>2, <2>3, <2>4 DEF Collecting
<1> QED BY <1>1, <1>2 DEF CollectNext

LEMMA FrontKeepsCollections ==
  ASSUME CollectionsInv, CollectNext, collections' = collections PROVE CollectionsInv'
<1>1. \A x \in SectionSet : collections'[x] = <<>> /\ DOMAIN collections' = SectionSet
  BY FrontOnly DEF CollectionsInv
<1>2. pc' \notin Later
  BY FrontOnly DEF Early, Later
<1>3. ASSUME NEW x \in SectionSet PROVE Grouped(x, collections[x])'
  BY <1>1, collections'[x] = <<>> DEF Grouped, ToSet, IsInjective
<1> QED BY <1>1, <1>2, <1>3 DEF CollectionsInv

\* isCollected is about the lists of collections.
LEMMA CollectedIsListed ==
  ASSUME CollectionsInv, NEW s
  PROVE  isCollected(s) <=> \E g \in ToSet(collections[SectionOf(s)]) : s \in ToSet(g.segs)
BY DEF isCollected, ToSet

LEMMA AddKeepsCollections ==
  ASSUME CollectionsInv, TypeOK, AddCollection PROVE CollectionsInv'
<1> DEFINE s == Least(Uncollected)
           x == SectionOf(s)
<1>1. /\ collections' = [collections EXCEPT ![x] = Added(@, s)] /\ Uncollected # {}
      /\ pc = "collected" /\ pc' = pc /\ UNCHANGED <<segs, marked>>
  BY DEF AddCollection, segments
<1>2. Uncollected \in SUBSET Nat
  <2>1. Segments = 1..Len(segs) /\ Len(segs) \in Nat
    BY DEF Segments, TypeOK
  <2>2. Uncollected \subseteq Segments
    BY MarkedSegments DEF Uncollected
  <2> QED BY <2>1, <2>2
<1>3. s \in Uncollected
  BY <1>1, <1>2, LeastIn
<1> HIDE DEF s
<1>4. s \in Members(x) \cap Segments /\ ~isCollected(s) /\ x \in SectionSet
  BY <1>3, MarkedSegments, SectionNames DEF Uncollected, Members
<1>5. \A g \in ToSet(collections[x]) : s \notin ToSet(g.segs)
  BY <1>4, CollectedIsListed
<1>6. Grouped(x, Added(collections[x], s))
  <2>1. Grouped(x, collections[x])
    BY <1>4 DEF CollectionsInv
  <2>2. PICK y, cs : y = x /\ cs = collections[x]
    OBVIOUS
  <2>3. Grouped(y, Added(cs, s))
    BY <1>4, <1>5, <2>1, <2>2, MarkedSegments, AddedGrouped
  <2> QED BY <2>2, <2>3
<1>7. DOMAIN collections' = SectionSet
  BY <1>1 DEF CollectionsInv
<1>8. \A y \in SectionSet : Grouped(y, collections'[y])
  BY <1>1, <1>6 DEF CollectionsInv
<1>9. \A y : Members(y)' = Members(y)
  BY <1>1 DEF Members, SectionOf
<1>10. ASSUME NEW y \in SectionSet PROVE Grouped(y, collections[y])'
  BY <1>1, <1>8, <1>9 DEF Grouped, Collection, Segments
<1> QED BY <1>1, <1>7, <1>10 DEF CollectionsInv, Early, Later

\* The actions after it leave the collections alone.
LEMMA CollectionsStay ==
  ASSUME CollectionsInv, UNCHANGED <<segs, marked, collections>>, pc' \notin Early,
         pc' \in Later => pc \in Later \/ Uncollected = {}
  PROVE  CollectionsInv'
<1>1. Uncollected' = Uncollected
  BY DEF Uncollected, isCollected, SectionOf
<1>2. ASSUME NEW x \in SectionSet PROVE Grouped(x, collections[x])'
  BY DEF CollectionsInv, Grouped, Collection, Segments, Members, SectionOf
<1> QED BY <1>1, <1>2 DEF CollectionsInv

\* The segments of a section, one collection after the other.
LEMMA SectionListed ==
  ASSUME CollectionsInv, TypeOK, NEW x \in SectionSet
  PROVE  /\ InSection(x) \in Seq(Segments) /\ IsInjective(InSection(x))
         /\ ToSet(InSection(x)) \subseteq Members(x)
         /\ pc \in Later => ToSet(InSection(x)) = Members(x)
<1>1. PICK cs \in Seq(Collection) : cs = collections[x] /\ Grouped(x, cs)
  BY DEF CollectionsInv, Grouped
<1>2. PICK n \in Nat : n = Len(cs) /\ Indexed(cs, n) /\ DOMAIN cs = 1..n
  BY LenProperties, Elements
<1> DEFINE c == [k \in 1..n |-> cs[k].segs]
<1>3. c \in [1..n -> Seq(Segments)]
  <2>1. ASSUME NEW k \in 1..n PROVE cs[k].segs \in Seq(Segments)
    <3>1. cs[k] \in Collection
      BY <1>2
    <3> QED BY <3>1 DEF Collection
  <2> QED BY <2>1
<1>4. InSection(x) = FlattenSeq(c)
  BY <1>1, <1>2 DEF InSection
<1>5. UpToList(c, InSection(x), n, Segments)
  <2> HIDE DEF c
  <2> QED BY <1>3, <1>4, Flattened
<1>6. \A k \in 1..n : c[k] = cs[k].segs /\ cs[k] \in ToSet(cs)
  BY <1>2 DEF Indexed
<1>7. \A k, l \in 1..n : cs[k] = cs[l] => k = l
  BY <1>1, <1>2 DEF Grouped, Indexed
<1> HIDE DEF c
<1>8. \A k \in 1..n : IsInjective(c[k]) /\ ToSet(c[k]) \subseteq Members(x)
  BY <1>1, <1>6 DEF Grouped
<1>9. \A k, l \in 1..n : k # l => ToSet(c[k]) \cap ToSet(c[l]) = {}
  <2>1. ASSUME NEW k \in 1..n, NEW l \in 1..n, k # l
        PROVE  ToSet(cs[k].segs) \cap ToSet(cs[l].segs) = {}
    <3>1. cs[k] \in ToSet(cs) /\ cs[l] \in ToSet(cs) /\ cs[k] # cs[l]
      BY <1>6, <1>7, <2>1
    <3> QED BY <1>1, <3>1 DEF Grouped
  <2> QED BY <1>6, <2>1
<1>10. InSection(x) \in Seq(Segments) /\ IsInjective(InSection(x))
  BY <1>5, <1>8, <1>9 DEF UpToList
<1>11. \A s : s \in ToSet(InSection(x)) <=> \E k \in 1..n : s \in ToSet(c[k])
  BY <1>5 DEF UpToList
<1>12. ToSet(InSection(x)) \subseteq Members(x)
  BY <1>8, <1>11
<1>13. ASSUME pc \in Later, NEW s \in Members(x) PROVE s \in ToSet(InSection(x))
  <2>1. isCollected(s) /\ SectionOf(s) = x
    BY <1>13 DEF CollectionsInv, Uncollected, Members
  <2>2. PICK g \in ToSet(cs) : s \in ToSet(g.segs)
    BY <1>1, <2>1, CollectedIsListed
  <2>3. PICK k \in 1..n : cs[k] = g
    BY <1>2 DEF Indexed
  <2> QED BY <1>6, <1>11, <2>2, <2>3
<1> QED BY <1>10, <1>12, <1>13

-----------------------------------------------------------------------------
(* Addresses. *)

LEMMA ImportsCounted ==
  ASSUME FrontInv
  PROVE  /\ Ndlls \in Nat /\ Len(Functions) \in Nat
         /\ IsInjective(Functions) /\ Indexed(Functions, Len(Functions))
<1>1. IsFiniteSet(UsedImports)
  <2>1. UsedImports \subseteq Declared
    BY DEF UsedImports
  <2> QED BY <2>1, FS_Subset DEF FrontInv
<1>2. Ndlls \in Nat
  <2> DEFINE D == {names[n].arg.dll : n \in UsedImports}
  <2>1. [n \in UsedImports |-> names[n].arg.dll] \in Surjection(UsedImports, D)
    BY DEF Surjection
  <2>2. IsFiniteSet(D)
    <3> HIDE DEF D
    <3> QED BY <1>1, <2>1, FS_Surjection
  <2> QED BY <2>2, FS_CardinalityType DEF Ndlls
<1>3. PICK T : T = {n \in UsedImports : names[n].arg.func}
  OBVIOUS
<1>4. IsFiniteSet(T) /\ Functions = SetToSeq(T)
  BY <1>1, <1>3, FS_Subset DEF Functions
<1>5. Functions \in Seq(T) /\ Len(Functions) = Cardinality(T) /\ IsInjective(Functions)
  BY <1>4, Listing
<1>6. Len(Functions) \in Nat
  BY <1>5, LenProperties
<1> QED BY <1>2, <1>5, <1>6, Elements

LEMMA SectionLength ==
  ASSUME FrontInv, NEW x \in SectionSet, NEW end \in Nat, NEW from \in Nat, from <= end
  PROVE  Length(x, end, from) \in Nat /\ (x # "code16" => end - from <= Length(x, end, from))
<1>1. CASE x = "code"
  <2> DEFINE i == ImportStart(end)
             j == i + JumpSize * Len(Functions)
  <2>1. i \in Nat /\ end <= i
    BY Multiple DEF ImportStart
  <2>2. j \in Nat /\ i <= j
    <3> HIDE DEF i
    <3> QED BY <2>1, ImportsCounted DEF JumpSize
  <2>3. AlignUp(j, 2) \in Nat /\ j <= AlignUp(j, 2)
    <3> HIDE DEF j
    <3> QED BY <2>2, Multiple
  <2>4. Length(x, end, from) = AlignUp(j, 2) - from
    BY <1>1 DEF Length
  <2> HIDE DEF i, j
  <2> QED BY <2>1, <2>2, <2>3, <2>4
<1>2. CASE x = "code16"
  <2>1. Width \in Nat \ {0}
    BY PowerOfTwo DEF Width, Bits
  <2>2. PICK w \in Nat \ {0} : w = Width
    BY <2>1
  <2>3. PICK r \in Nat : r = (Width - 2 - from) % Width
    BY <2>2
  <2>4. And(end + 1, r) \in Nat
    BY AndIsNumber
  <2> QED BY <1>2, <2>3, <2>4 DEF Length, Code16Len
<1>3. CASE x \notin {"code", "code16"}
  BY <1>3 DEF Length
<1> QED BY <1>1, <1>2, <1>3

LEMMA BaseAfter ==
  ASSUME FrontInv, NEW x, NEW from \in Nat
  PROVE  Base(x, from) \in Nat /\ from <= Base(x, from)
BY ImportsCounted DEF Base, DllSize

Upto(k) == {Sections[i] : i \in 1..k}

LEMMA SectionNumbers ==
  /\ \A i, j \in 1..6 : Sections[i] = Sections[j] => i = j
  /\ Upto(6) = SectionSet /\ Upto(0) = {} /\ \A k \in 0..6 : Upto(k) \subseteq SectionSet
  /\ \A k \in 0..5 : Sections[k + 1] \notin Upto(k) /\ Upto(k + 1) = Upto(k) \cup {Sections[k + 1]}
  /\ \A k \in 0..6 : IsFiniteSet(Upto(k)) /\ Cardinality(Upto(k)) = k
  /\ \A i \in 1..6 : (Sections[i] = "idata" <=> i = 6) /\ (Sections[i] = "code" <=> i = 1)
<1>1. /\ Sections[1] = "code" /\ Sections[2] = "code16" /\ Sections[3] = "data"
      /\ Sections[4] = "bss" /\ Sections[5] = "const" /\ Sections[6] = "idata"
      /\ DOMAIN Sections = 1..6
  BY DEF Sections
<1>2. \A i \in 1..6 : i = 1 \/ i = 2 \/ i = 3 \/ i = 4 \/ i = 5 \/ i = 6
  OBVIOUS
<1>3. \A i, j \in 1..6 : Sections[i] = Sections[j] => i = j
  BY <1>1, <1>2
<1>4. /\ Upto(6) = SectionSet /\ Upto(0) = {} /\ \A k \in 0..6 : Upto(k) \subseteq SectionSet
  BY <1>1 DEF Upto, SectionSet, ToSet
<1>5. ASSUME NEW k \in 0..5
      PROVE  Sections[k + 1] \notin Upto(k) /\ Upto(k + 1) = Upto(k) \cup {Sections[k + 1]}
  <2>1. 1..(k + 1) = (1..k) \cup {k + 1} /\ k + 1 \in 1..6 /\ 1..k \subseteq 1..6 /\ k + 1 \notin 1..k
    OBVIOUS
  <2> QED BY <1>3, <2>1 DEF Upto
<1> DEFINE T == {k \in 0..6 : IsFiniteSet(Upto(k)) /\ Cardinality(Upto(k)) = k}
<1>6. 0..6 \subseteq T
  <2>1. 0 \in T
    BY <1>4, FS_EmptySet
  <2>2. ASSUME NEW k \in 1..6, k - 1 \in T PROVE k \in T
    <3>1. k - 1 \in 0..5 /\ (k - 1) + 1 = k
      OBVIOUS
    <3>2. Sections[k] \notin Upto(k - 1) /\ Upto(k) = Upto(k - 1) \cup {Sections[k]}
      BY <1>5, <3>1
    <3>3. IsFiniteSet(Upto(k - 1)) /\ Cardinality(Upto(k - 1)) = k - 1
      BY <2>2
    <3>4. IsFiniteSet(Upto(k)) /\ Cardinality(Upto(k)) = (k - 1) + 1
      BY <3>2, <3>3, FS_AddElement
    <3> QED BY <3>1, <3>4
  <2> HIDE DEF T
  <2> QED BY <2>1, <2>2, UpTo
<1>7. \A i \in 1..6 : (Sections[i] = "idata" <=> i = 6) /\ (Sections[i] = "code" <=> i = 1)
  BY <1>1, <1>2
<1> QED BY <1>3, <1>4, <1>5, <1>6, <1>7

\* Section x starts at from, is l long, and p has the addresses of its segments.
PlacedAs(x, from, l, p) ==
  LET end == EndOf(InSection(x), Base(x, from)) IN
  /\ from \in Nat /\ from % ObjectOffset = 0
  /\ l \in Nat /\ l = Length(x, end, Base(x, from))
  /\ \A s \in ToSet(InSection(x)) : p[s] = Placed(InSection(x), Base(x, from))[s]

\* What CalcAddresses has done when it has come to the first k sections.
LaidUpTo(k) ==
  /\ DOMAIN start = Upto(k) /\ DOMAIN size = Upto(k)
  /\ DOMAIN address = UNION {ToSet(InSection(x)) : x \in Upto(k)}
  /\ \A x \in Upto(k) : PlacedAs(x, start[x], size[x], address)
  /\ k > 0 => jumps = [n \in ToSet(Functions) |->
                         Jump(n, EndOf(InSection("code"), start["code"]))]
  /\ \A i, j \in 1..k : i < j => start[Sections[i]] + size[Sections[i]] <= start[Sections[j]]
  /\ vadr \in Nat /\ \A i \in 1..k : i < 6 => start[Sections[i]] + size[Sections[i]] <= vadr

AddressesInv ==
  /\ pc \in Early \cup {"collected"} => LaidUpTo(0)
  /\ pc = "ordered" => \E k \in 0..5 : LaidUpTo(k)
  /\ pc \in Later \ {"ordered"} => LaidUpTo(6)

\* A section's layout depends on its segments and the imports alone.
LEMMA PlacedAsBefore ==
  ASSUME UNCHANGED <<segs, collections>>, Functions' = Functions, Ndlls' = Ndlls,
         NEW x, NEW from, NEW l, NEW p
  PROVE  PlacedAs(x, from, l, p)' <=> PlacedAs(x, from, l, p)
BY DEF PlacedAs, Length, Code16Len, Placed, EndOf, SegmentEnds, InSection, Base

LEMMA SameImports ==
  ASSUME used' = used, Declared' = Declared,
         \A n \in Declared : names'[n].kind = names[n].kind /\ names'[n].arg = names[n].arg
  PROVE  Functions' = Functions /\ Ndlls' = Ndlls
<1>1. UsedImports' = UsedImports /\ UsedImports \subseteq Declared
  BY DEF UsedImports
<1>2. {n \in UsedImports : names[n].arg.func}' = {n \in UsedImports : names[n].arg.func}
  BY <1>1
<1>3. {names[n].arg.dll : n \in UsedImports}' = {names[n].arg.dll : n \in UsedImports}
  BY <1>1
<1> QED BY <1>2, <1>3 DEF Functions, Ndlls

\* Where CalcAddresses has come to, the segments have their places.
LEMMA SectionArranged ==
  ASSUME CollectionsInv, FrontInv, NEW x \in SectionSet, NEW from \in Nat
  PROVE  /\ Base(x, from) \in Nat /\ from <= Base(x, from)
         /\ Arranged(Placed(InSection(x), Base(x, from)), InSection(x), Base(x, from),
                     EndOf(InSection(x), Base(x, from)))
<1>1. TypeOK
  BY DEF FrontInv, ReachInv, IInv
<1>2. PICK ss \in Seq(Segments) : ss = InSection(x) /\ IsInjective(ss)
  BY <1>1, SectionListed
<1>3. PICK b \in Nat : b = Base(x, from) /\ from <= b
  BY BaseAfter
<1>4. Arranged(Placed(ss, b), ss, b, EndOf(ss, b))
  BY <1>1, <1>2, <1>3, MarkedSegments, PlacedApart
<1> QED BY <1>2, <1>3, <1>4

LEMMA AddressNumbers ==
  ASSUME CollectionsInv, FrontInv, NEW x \in SectionSet, NEW from, NEW l, NEW p,
         PlacedAs(x, from, l, p), NEW s \in ToSet(InSection(x))
  PROVE  p[s] \in Nat
<1>1. from \in Nat /\ p[s] = Placed(InSection(x), Base(x, from))[s]
  BY DEF PlacedAs
<1>2. Placed(InSection(x), Base(x, from)) \in [ToSet(InSection(x)) -> Nat]
  BY <1>1, SectionArranged DEF Arranged
<1> QED BY <1>1, <1>2

\* One section: the values that CalcAddresses computes for section x.
LEMMA SectionComputed ==
  ASSUME CollectionsInv, FrontInv, NEW x \in SectionSet, vadr \in Nat,
         NEW from, from = AlignUp(vadr, ObjectOffset),
         NEW l, l = Length(x, EndOf(InSection(x), Base(x, from)), Base(x, from)),
         NEW p, \A s \in ToSet(InSection(x)) : p[s] = Placed(InSection(x), Base(x, from))[s]
  PROVE  PlacedAs(x, from, l, p) /\ vadr <= from
<1>1. from \in Nat /\ vadr <= from /\ from % ObjectOffset = 0
  BY Multiple, LinkerAssumption
<1>2. PICK b \in Nat, end \in Nat : b = Base(x, from) /\ end = EndOf(InSection(x), b) /\ b <= end
  BY <1>1, SectionArranged DEF Arranged
<1>3. l \in Nat
  BY <1>2, SectionLength
<1> QED BY <1>1, <1>3 DEF PlacedAs

\* Section x, which comes after the first k, is put at from.
Computes(k, x, from, end, l) ==
  /\ x = Sections[k + 1] /\ from = AlignUp(vadr, ObjectOffset)
  /\ end = EndOf(InSection(x), Base(x, from)) /\ l = Length(x, end, Base(x, from))
  /\ address' = Extended(address, Placed(InSection(x), Base(x, from)))
  /\ start' = Extended(start, [y \in {x} |-> from])
  /\ size' = Extended(size, [y \in {x} |-> l])
  /\ jumps' = IF x = "code" THEN [n \in ToSet(Functions) |-> Jump(n, end)] ELSE jumps
  /\ vadr' = IF x = "idata" THEN from ELSE from + l

LEMMA OneSectionMore ==
  ASSUME CollectionsInv, FrontInv, NEW k \in 0..5, LaidUpTo(k),
         NEW x, NEW from, NEW end, NEW l, Computes(k, x, from, end, l),
         UNCHANGED <<segs, collections>>, Functions' = Functions, Ndlls' = Ndlls
  PROVE  LaidUpTo(k + 1)'
<1>0. /\ x = Sections[k + 1] /\ from = AlignUp(vadr, ObjectOffset)
      /\ end = EndOf(InSection(x), Base(x, from)) /\ l = Length(x, end, Base(x, from))
      /\ address' = Extended(address, Placed(InSection(x), Base(x, from)))
      /\ start' = Extended(start, [y \in {x} |-> from])
      /\ size' = Extended(size, [y \in {x} |-> l])
      /\ jumps' = IF x = "code" THEN [n \in ToSet(Functions) |-> Jump(n, end)] ELSE jumps
      /\ vadr' = IF x = "idata" THEN from ELSE from + l
  BY DEF Computes
<1>1. /\ x \in SectionSet /\ x \notin Upto(k) /\ Upto(k + 1) = Upto(k) \cup {x}
      /\ Upto(k) \subseteq SectionSet
  <2>1. k \in 0..6 /\ k + 1 \in 0..6
    OBVIOUS
  <2>2. Upto(k + 1) \subseteq SectionSet
    BY <2>1, SectionNumbers
  <2> QED BY <1>0, <2>1, <2>2, SectionNumbers
<1>2. /\ DOMAIN start = Upto(k) /\ DOMAIN size = Upto(k) /\ vadr \in Nat
      /\ DOMAIN address = UNION {ToSet(InSection(y)) : y \in Upto(k)}
      /\ \A y \in Upto(k) : PlacedAs(y, start[y], size[y], address)
  BY DEF LaidUpTo
<1>3. \A y \in SectionSet : InSection(y)' = InSection(y) /\ ToSet(InSection(y)) \subseteq Members(y)
  <2>1. TypeOK
    BY DEF FrontInv, ReachInv, IInv
  <2> QED BY <2>1, SectionListed DEF InSection
<1>4. /\ DOMAIN start' = Upto(k + 1) /\ DOMAIN size' = Upto(k + 1)
      /\ start'[x] = from /\ size'[x] = l
      /\ \A y \in Upto(k) : start'[y] = start[y] /\ size'[y] = size[y]
  BY <1>0, <1>1, <1>2 DEF Extended
<1>5. DOMAIN Placed(InSection(x), Base(x, from)) = ToSet(InSection(x))
  BY DEF Placed
<1>6. /\ DOMAIN address' = DOMAIN address \cup ToSet(InSection(x))
      /\ \A s \in ToSet(InSection(x)) : address'[s] = Placed(InSection(x), Base(x, from))[s]
      /\ \A s \in DOMAIN address \ ToSet(InSection(x)) : address'[s] = address[s]
  BY <1>0, <1>5 DEF Extended
<1>7. ASSUME NEW y \in Upto(k), NEW s \in ToSet(InSection(y))
      PROVE  s \in DOMAIN address /\ address'[s] = address[s]
  <2>1. s \in Members(y) /\ y # x
    BY <1>1, <1>3
  <2>2. s \notin ToSet(InSection(x))
    BY <1>1, <1>3, <2>1 DEF Members
  <2> QED BY <1>2, <1>6, <2>2
<1>8. PlacedAs(x, from, l, address') /\ vadr <= from /\ from \in Nat /\ l \in Nat
  <2>1. PlacedAs(x, from, l, address') /\ vadr <= from
    BY <1>0, <1>1, <1>2, <1>6, SectionComputed
  <2> QED BY <2>1 DEF PlacedAs
<1>9. ASSUME NEW y \in Upto(k) PROVE PlacedAs(y, start[y], size[y], address')
  BY <1>2, <1>7 DEF PlacedAs
<1>10. \A y \in Upto(k + 1) : PlacedAs(y, start'[y], size'[y], address')
  BY <1>1, <1>4, <1>8, <1>9
<1>11. ASSUME NEW y \in Upto(k + 1) PROVE PlacedAs(y, start[y], size[y], address)'
  <2>1. PICK a, b, c : a = start'[y] /\ b = size'[y] /\ c = address' /\ PlacedAs(y, a, b, c)
    BY <1>10
  <2>2. PlacedAs(y, a, b, c)'
    BY <2>1, PlacedAsBefore
  <2> QED BY <2>1, <2>2 DEF PlacedAs
<1>12. DOMAIN address' = UNION {ToSet(InSection(y))' : y \in Upto(k + 1)}
  BY <1>1, <1>2, <1>3, <1>6
<1>13. jumps' = [n \in ToSet(Functions)' |-> Jump(n, EndOf(InSection("code"), start["code"]))']
  <2>1. ASSUME NEW n, NEW e PROVE Jump(n, e)' = Jump(n, e)
    BY DEF Jump
  <2>2. ASSUME NEW ss, NEW b PROVE EndOf(ss, b)' = EndOf(ss, b)
    <3>1. SegmentEnds(ss, b)' = SegmentEnds(ss, b)
      BY DEF SegmentEnds
    <3> QED BY <3>1 DEF EndOf
  <2> DEFINE e == EndOf(InSection("code"), start'["code"])
  <2>3. EndOf(InSection("code"), start["code"])' = e
    <3>1. PICK b, ss : b = start'["code"] /\ ss = InSection("code")
      OBVIOUS
    <3>2. EndOf(ss, b)' = EndOf(ss, b) /\ InSection("code")' = ss
      BY <2>2, <3>1 DEF InSection
    <3> QED BY <3>1, <3>2 DEF EndOf
  <2>4. jumps' = [n \in ToSet(Functions) |-> Jump(n, e)]
    <3>1. CASE x = "code"
      <4>1. end = e
        BY <1>0, <1>4, <3>1 DEF Base
      <4> QED BY <1>0, <3>1, <4>1
    <3>2. CASE x # "code"
      <4>1. k > 0 /\ "code" \in Upto(k)
        <5>1. k # 0
          BY <1>0, <3>2, SectionNumbers
        <5>2. 1 \in 1..k /\ 1 \in 1..6 /\ Sections[1] = "code"
          BY <5>1, SectionNumbers
        <5> QED BY <5>1, <5>2 DEF Upto
      <4>2. start'["code"] = start["code"]
        BY <1>4, <4>1
      <4>3. jumps = [n \in ToSet(Functions) |-> Jump(n, EndOf(InSection("code"), start["code"]))]
        BY <4>1 DEF LaidUpTo
      <4> QED BY <1>0, <3>2, <4>2, <4>3
    <3> QED BY <3>1, <3>2
  <2>5. ASSUME NEW n PROVE Jump(n, EndOf(InSection("code"), start["code"]))' = Jump(n, e)
    <3>1. PICK d : d = e
      OBVIOUS
    <3> QED BY <2>1, <2>3, <3>1 DEF Jump
  <2> HIDE DEF e
  <2> QED BY <2>4, <2>5
<1>14. \A i, j \in 1..(k + 1) : i < j =>
         start'[Sections[i]] + size'[Sections[i]] <= start'[Sections[j]]
  <2>1. ASSUME NEW i \in 1..(k + 1), NEW j \in 1..(k + 1), i < j
        PROVE  start'[Sections[i]] + size'[Sections[i]] <= start'[Sections[j]]
    <3>1. i \in 1..k /\ i < 6 /\ Sections[i] \in Upto(k)
      BY <2>1 DEF Upto
    <3>2. start'[Sections[i]] = start[Sections[i]] /\ size'[Sections[i]] = size[Sections[i]]
      BY <1>4, <3>1
    <3>3. CASE j = k + 1
      <4>1. start[Sections[i]] + size[Sections[i]] <= vadr
        BY <3>1 DEF LaidUpTo
      <4>2. start[Sections[i]] \in Nat /\ size[Sections[i]] \in Nat
        BY <1>2, <3>1 DEF PlacedAs
      <4> QED BY <1>0, <1>2, <1>4, <1>8, <3>2, <3>3, <4>1, <4>2
    <3>4. CASE j # k + 1
      <4>1. j \in 1..k /\ Sections[j] \in Upto(k)
        BY <3>4 DEF Upto
      <4>2. start[Sections[i]] + size[Sections[i]] <= start[Sections[j]]
        BY <2>1, <3>1, <4>1 DEF LaidUpTo
      <4> QED BY <1>4, <3>2, <4>1, <4>2
    <3> QED BY <3>3, <3>4
  <2> QED BY <2>1
<1>15. vadr' \in Nat /\ \A i \in 1..(k + 1) : i < 6 =>
         start'[Sections[i]] + size'[Sections[i]] <= vadr'
  <2>1. vadr' \in Nat /\ from <= vadr'
    BY <1>0, <1>8
  <2>2. ASSUME NEW i \in 1..(k + 1), i < 6
        PROVE  start'[Sections[i]] + size'[Sections[i]] <= vadr'
    <3>1. CASE i = k + 1
      <4>1. x # "idata"
        BY <1>0, <2>2, <3>1, SectionNumbers
      <4> QED BY <1>0, <1>4, <1>8, <3>1, <4>1
    <3>2. CASE i # k + 1
      <4>1. i \in 1..k /\ Sections[i] \in Upto(k)
        BY <3>2 DEF Upto
      <4>2. start[Sections[i]] + size[Sections[i]] <= vadr
        BY <2>2, <4>1 DEF LaidUpTo
      <4>3. start[Sections[i]] \in Nat /\ size[Sections[i]] \in Nat
        BY <1>2, <4>1 DEF PlacedAs
      <4> QED BY <1>2, <1>4, <1>8, <2>1, <4>1, <4>2, <4>3
    <3> QED BY <3>1, <3>2
  <2> QED BY <2>1, <2>2
<1> QED BY <1>4, <1>11, <1>12, <1>13, <1>14, <1>15 DEF LaidUpTo, Upto

-----------------------------------------------------------------------------
(* The invariant of the linker. *)

LInv == FrontInv /\ CollectionsInv /\ AddressesInv

LEMMA NothingLaid ==
  /\ LaidUpTo(0) <=> DOMAIN start = {} /\ DOMAIN size = {} /\ DOMAIN address = {} /\ vadr \in Nat
  /\ LaidUpTo(0)' <=>
       DOMAIN start' = {} /\ DOMAIN size' = {} /\ DOMAIN address' = {} /\ vadr' \in Nat
<1>1. Upto(0) = {} /\ 1..0 = {} /\ ~(0 > 0)
  BY SectionNumbers
<1>2. UNION {ToSet(InSection(x)) : x \in Upto(0)} = {}
  BY <1>1
<1>3. UNION {ToSet(InSection(x))' : x \in Upto(0)} = {}
  BY <1>1
<1>4. LaidUpTo(0) <=> DOMAIN start = {} /\ DOMAIN size = {} /\ DOMAIN address = {} /\ vadr \in Nat
  BY <1>1, <1>2 DEF LaidUpTo
<1>5. LaidUpTo(0)' <=>
        DOMAIN start' = {} /\ DOMAIN size' = {} /\ DOMAIN address' = {} /\ vadr' \in Nat
  BY <1>1, <1>3 DEF LaidUpTo
<1> QED BY <1>4, <1>5

LEMMA LaidStays ==
  ASSUME UNCHANGED <<segs, collections, names, used, address, start, size, jumps, vadr>>,
         NEW k, LaidUpTo(k)
  PROVE  LaidUpTo(k)'
<1>1. Functions' = Functions /\ Ndlls' = Ndlls
  BY DEF Functions, Ndlls, UsedImports, Declared
<1>2. \A x : InSection(x)' = InSection(x)
  BY DEF InSection
<1>3. ASSUME NEW x \in Upto(k) PROVE PlacedAs(x, start[x], size[x], address)'
  <2>1. PICK a, b, c : a = start[x] /\ b = size[x] /\ c = address
    OBVIOUS
  <2>2. PlacedAs(x, a, b, c)
    BY <2>1 DEF LaidUpTo
  <2>3. PlacedAs(x, a, b, c)'
    BY <1>1, <2>2, PlacedAsBefore
  <2> QED BY <2>1, <2>3 DEF PlacedAs
<1>4. [n \in ToSet(Functions) |-> Jump(n, EndOf(InSection("code"), start["code"]))]' =
      [n \in ToSet(Functions) |-> Jump(n, EndOf(InSection("code"), start["code"]))]
  <2>1. ASSUME NEW ss, NEW b PROVE EndOf(ss, b)' = EndOf(ss, b)
    <3>1. SegmentEnds(ss, b)' = SegmentEnds(ss, b)
      BY DEF SegmentEnds
    <3> QED BY <3>1 DEF EndOf
  <2>2. PICK b, ss, e : b = start["code"] /\ ss = InSection("code") /\ e = EndOf(ss, b)
    OBVIOUS
  <2>3. EndOf(InSection("code"), start["code"])' = e
    BY <1>2, <2>1, <2>2 DEF EndOf
  <2>4. ASSUME NEW n PROVE Jump(n, EndOf(InSection("code"), start["code"]))' = Jump(n, e)
    BY <1>1, <2>3 DEF Jump
  <2> QED BY <1>1, <2>2, <2>4
<1>5. DOMAIN address' = UNION {ToSet(InSection(x))' : x \in Upto(k)}
  BY <1>2 DEF LaidUpTo
<1> QED BY <1>3, <1>4, <1>5 DEF LaidUpTo, Upto

LEMMA NamesStay ==
  ASSUME FrontInv, UNCHANGED <<names, NFixups>> PROVE Offset
<1>1. TypeOK
  BY DEF FrontInv, ReachInv, IInv
<1> QED BY <1>1 DEF TypeOK, Offset, Declared

LEMMA LinkerBegins == LInit => LInv
<1> SUFFICES ASSUME LInit PROVE LInv
  OBVIOUS
<1>1. DOMAIN start = {} /\ DOMAIN size = {} /\ DOMAIN address = {} /\ vadr \in Nat
  BY LinkerAssumption DEF LInit, Empty
<1>2. pc = "reading" /\ Init
  BY DEF LInit, Init
<1>3. AddressesInv
  BY <1>1, <1>2, NothingLaid DEF AddressesInv, Later
<1> QED BY <1>2, <1>3, FrontBegins, CollectionsBegin DEF LInv

LEMMA CollectKeeps ==
  ASSUME LInv, CollectNext, UNCHANGED lvars PROVE LInv'
<1>1. FrontInv' /\ CollectionsInv'
  BY FrontNext, FrontKeepsCollections DEF LInv, lvars
<1>2. pc \in Early /\ pc' \in Early \cup {"collected", "ended", "aborted"}
  BY FrontOnly
<1>3. DOMAIN start = {} /\ DOMAIN size = {} /\ DOMAIN address = {} /\ vadr \in Nat
  BY <1>2, NothingLaid DEF LInv, AddressesInv
<1>4. LaidUpTo(0)'
  BY <1>3, NothingLaid DEF lvars
<1>5. pc' \notin Later
  BY <1>2 DEF Early, Later
<1>6. AddressesInv'
  BY <1>4, <1>5 DEF AddressesInv, Later
<1> QED BY <1>1, <1>6 DEF LInv

LEMMA OrderKeeps ==
  ASSUME LInv, OrderSegments PROVE LInv'
<1>1. /\ pc = "collected" /\ pc' \in {"ended", "ordered"}
      /\ (pc' = "ordered" => Uncollected = {})
      /\ UNCHANGED <<reading, roots, segments>> /\ UNCHANGED <<names, NFixups>>
      /\ UNCHANGED <<collections, vadr, address, start, size, jumps>>
  BY DEF OrderSegments, lvars
<1>2. FrontInv'
  <2>1. Offset
    BY <1>1, NamesStay DEF LInv
  <2>2. UNCHANGED <<reading, roots, segments>> /\ pc' \in Back
    BY <1>1 DEF Back
  <2> QED BY <2>1, <2>2, OffsetKeeps DEF LInv
<1>3. CollectionsInv'
  <2>1. UNCHANGED <<segs, marked, collections>>
    BY <1>1 DEF segments
  <2> QED BY <1>1, <2>1, CollectionsStay DEF LInv, Early, Later
<1>4. LaidUpTo(0)'
  <2>1. LaidUpTo(0)
    BY <1>1 DEF LInv, AddressesInv
  <2> QED BY <1>1, <2>1, NothingLaid
<1>5. AddressesInv'
  BY <1>1, <1>4 DEF AddressesInv, Later, Early
<1> QED BY <1>2, <1>3, <1>5 DEF LInv

LEMMA AddKeeps ==
  ASSUME LInv, AddCollection PROVE LInv'
<1>1. /\ pc = "collected" /\ pc' = pc
      /\ UNCHANGED <<reading, roots, segments>> /\ UNCHANGED <<names, errors, NFixups>>
      /\ UNCHANGED <<vadr, address, start, size, jumps>>
  BY DEF AddCollection
<1>2. FrontInv'
  <2>1. UNCHANGED cvars
    BY <1>1 DEF cvars, reading, roots, segments
  <2>2. ReachInv' /\ Declared' = Declared
    BY <1>1, <2>1, ReachNext DEF LInv, FrontInv, Declared
  <2> QED BY <2>2 DEF LInv, FrontInv
<1>3. CollectionsInv'
  BY AddKeepsCollections DEF LInv, FrontInv, ReachInv, IInv
<1>4. LaidUpTo(0)'
  <2>1. LaidUpTo(0)
    BY <1>1 DEF LInv, AddressesInv
  <2> QED BY <1>1, <2>1, NothingLaid
<1>5. AddressesInv'
  BY <1>1, <1>4 DEF AddressesInv, Later, Early
<1> QED BY <1>2, <1>3, <1>5 DEF LInv

\* Actions that come after CalcAddresses and change none of what it has computed.
LEMMA LaidKeeps ==
  ASSUME LInv, pc \in Later \ {"ordered"}, pc' \in {"addressed", "imaged", "processed", "linked", "aborted"},
         UNCHANGED <<reading, roots, segments>>, UNCHANGED <<names, NFixups>>,
         UNCHANGED <<collections, vadr, address, start, size, jumps>>
  PROVE  LInv'
<1>1. UNCHANGED <<segs, marked, used>>
  BY DEF segments
<1>2. FrontInv'
  <2>1. Offset
    BY NamesStay DEF LInv
  <2>2. pc' \in Back
    BY DEF Back
  <2> QED BY <2>1, <2>2, OffsetKeeps DEF LInv
<1>3. CollectionsInv'
  <2>1. pc' \notin Early
    BY DEF Early
  <2> QED BY <1>1, <2>1, CollectionsStay DEF LInv
<1>4. LaidUpTo(6)'
  BY <1>1, LaidStays DEF LInv, AddressesInv
<1>5. AddressesInv'
  BY <1>4 DEF AddressesInv, Early
<1> QED BY <1>2, <1>3, <1>5 DEF LInv

LEMMA ImagesKeep ==
  ASSUME LInv, CreateCollectionImage \/ ProcessFixups \/ SortFixups PROVE LInv'
<1>1. /\ pc \in Later \ {"ordered"} /\ pc' \in {"addressed", "imaged", "processed", "linked", "aborted"}
      /\ UNCHANGED <<reading, roots, segments>> /\ UNCHANGED <<names, NFixups>>
      /\ UNCHANGED <<collections, vadr, address, start, size, jumps>>
  BY DEF CreateCollectionImage, ProcessFixups, SortFixups, Later
<1> QED BY <1>1, LaidKeeps

LEMMA CalcKeeps ==
  ASSUME LInv, CalcAddresses PROVE LInv'
<1>1. PICK k \in 0..5 : LaidUpTo(k)
  BY DEF LInv, AddressesInv, CalcAddresses
<1>2. k \in 0..6 /\ k + 1 \in 1..6 /\ Cardinality(DOMAIN start) + 1 = k + 1
  BY <1>1, SectionNumbers DEF LaidUpTo
<1>3. PICK x : x = Sections[k + 1]
  OBVIOUS
<1>4. PICK from : from = AlignUp(vadr, ObjectOffset)
  OBVIOUS
<1>5. PICK end : end = EndOf(InSection(x), Base(x, from))
  OBVIOUS
<1>6. PICK l : l = Length(x, end, Base(x, from))
  OBVIOUS
<1>7. /\ pc = "ordered" /\ UNCHANGED <<reading, roots, segments>> /\ collections' = collections
      /\ address' = Extended(address, Placed(InSection(x), Base(x, from)))
      /\ start' = Extended(start, [y \in {x} |-> from])
      /\ size' = Extended(size, [y \in {x} |-> l])
      /\ jumps' = IF x = "code" THEN [n \in ToSet(Functions) |-> Jump(n, end)] ELSE jumps
      /\ NFixups' = IF x = "code" THEN NFixups + Len(Functions) ELSE NFixups
      /\ vadr' = IF x = "idata" THEN from ELSE from + l
      /\ x = "idata" => pc' = "addressed"
      /\ x # "idata" => pc' \in {"aborted", "ordered"}
      /\ IF x = "idata"
         THEN names' = [n \in Declared |->
                IF names[n].seg \in DOMAIN address'
                THEN [names[n] EXCEPT !.off = @ + address'[names[n].seg]] ELSE names[n]]
         ELSE names' = names
  BY <1>2, <1>3, <1>4, <1>5, <1>6 DEF CalcAddresses
<1>8. /\ FrontInv /\ CollectionsInv /\ TypeOK /\ vadr \in Nat /\ x \in SectionSet
      /\ Upto(k) \subseteq SectionSet /\ (x = "idata" <=> k = 5)
  <2>1. x \in SectionSet
    <3>1. k + 1 \in DOMAIN Sections
      BY <1>2 DEF Sections
    <3> QED BY <1>3, <3>1 DEF SectionSet, ToSet
  <2> QED BY <1>1, <1>2, <1>3, <2>1, SectionNumbers DEF LInv, FrontInv, ReachInv, IInv, LaidUpTo
<1>9. \A s \in DOMAIN address' : address'[s] \in Nat
  <2>1. DOMAIN Placed(InSection(x), Base(x, from)) = ToSet(InSection(x))
    BY DEF Placed
  <2>2. /\ DOMAIN address' = DOMAIN address \cup ToSet(InSection(x))
        /\ \A s \in ToSet(InSection(x)) : address'[s] = Placed(InSection(x), Base(x, from))[s]
        /\ \A s \in DOMAIN address \ ToSet(InSection(x)) : address'[s] = address[s]
    BY <1>7, <2>1 DEF Extended
  <2>3. ASSUME NEW s \in ToSet(InSection(x)) PROVE address'[s] \in Nat
    <3>1. PlacedAs(x, from, l, address')
      BY <1>4, <1>5, <1>6, <1>8, <2>2, SectionComputed
    <3> QED BY <1>8, <3>1, AddressNumbers
  <2>4. ASSUME NEW s \in DOMAIN address PROVE address[s] \in Nat
    <3>1. PICK y \in Upto(k) : s \in ToSet(InSection(y))
      BY <1>1 DEF LaidUpTo
    <3>2. PlacedAs(y, start[y], size[y], address)
      BY <1>1 DEF LaidUpTo
    <3> QED BY <1>8, <3>1, <3>2, AddressNumbers
  <2> QED BY <2>2, <2>3, <2>4
<1>10. Offset
  <2>1. NFixups' \in Nat /\ NFixups <= NFixups'
    BY <1>7, <1>8, ImportsCounted DEF TypeOK
  <2>2. Declared' = Declared
    BY <1>7 DEF Declared
  <2>3. ASSUME NEW n \in Declared
        PROVE  /\ names'[n] = Info(names[n].kind, names[n].seg, names'[n].off, names[n].arg)
               /\ names'[n].off \in Int
    <3>1. /\ names[n] = Info(names[n].kind, names[n].seg, names[n].off, names[n].arg)
          /\ names[n].off \in Int
      BY <1>8 DEF TypeOK
    <3>2. CASE names'[n] = names[n]
      BY <3>1, <3>2
    <3>3. CASE names[n].seg \in DOMAIN address' /\
               names'[n] = [names[n] EXCEPT !.off = @ + address'[names[n].seg]]
      <4>1. PICK a \in Nat : a = address'[names[n].seg]
        BY <1>9, <3>3
      <4>2. names'[n] = [names[n] EXCEPT !.off = names[n].off + a]
        BY <3>3, <4>1
      <4>3. PICK o \in Int : o = names[n].off + a
        BY <3>1, <4>1
      <4>4. names'[n] = Info(names[n].kind, names[n].seg, o, names[n].arg)
        BY <3>1, <4>2, <4>3 DEF Info
      <4>5. names'[n].off = o
        BY <4>4 DEF Info
      <4> QED BY <4>4, <4>5
    <3> QED BY <1>7, <3>2, <3>3
  <2> QED BY <2>1, <2>2, <2>3 DEF Offset
<1>11. UNCHANGED <<segs, marked, used>>
  BY <1>7 DEF segments
<1>12. Functions' = Functions /\ Ndlls' = Ndlls
  <2>1. \A n \in Declared : names'[n].kind = names[n].kind /\ names'[n].arg = names[n].arg
    <3>1. ASSUME NEW n \in Declared
          PROVE  names'[n].kind = names[n].kind /\ names'[n].arg = names[n].arg
      <4>1. PICK o : names'[n] = Info(names[n].kind, names[n].seg, o, names[n].arg)
        BY <1>10 DEF Offset
      <4> QED BY <4>1 DEF Info
    <3> QED BY <3>1
  <2> QED BY <1>10, <1>11, <2>1, SameImports DEF Offset
<1>13. FrontInv'
  <2>1. pc' \in Back
    BY <1>7 DEF Back
  <2> QED BY <1>7, <1>8, <1>10, <2>1, OffsetKeeps
<1>14. CollectionsInv'
  <2>1. pc' \notin Early /\ pc \in Later
    BY <1>7 DEF Early, Later
  <2> QED BY <1>7, <1>8, <1>11, <2>1, CollectionsStay
<1>15. LaidUpTo(k + 1)'
  <2>1. Computes(k, x, from, end, l)
    BY <1>3, <1>4, <1>5, <1>6, <1>7 DEF Computes
  <2>2. UNCHANGED <<segs, collections>> /\ FrontInv /\ CollectionsInv
    BY <1>7, <1>8, <1>11
  <2> QED BY <1>1, <1>12, <2>1, <2>2, OneSectionMore
<1>16. AddressesInv'
  <2>1. CASE k = 5
    <3>1. LaidUpTo(6)' /\ pc' = "addressed"
      BY <1>7, <1>8, <1>15, <2>1
    <3> QED BY <3>1 DEF AddressesInv, Early
  <2>2. CASE k # 5
    <3>1. pc' \in {"aborted", "ordered"} /\ k + 1 \in 0..5
      BY <1>7, <1>8, <2>2
    <3> QED BY <1>15, <3>1 DEF AddressesInv, Early, Later
  <2> QED BY <2>1, <2>2
<1> QED BY <1>13, <1>14, <1>16 DEF LInv

LEMMA LinkerKeeps == LInv /\ [LNext]_allLinkerVars => LInv'
<1> SUFFICES ASSUME LInv, [LNext]_allLinkerVars PROVE LInv'
  OBVIOUS
<1>1. CASE LNext
  BY <1>1, CollectKeeps, OrderKeeps, AddKeeps, CalcKeeps, ImagesKeep DEF LNext
<1>2. CASE UNCHANGED allLinkerVars
  <2>1. UNCHANGED cvars /\ UNCHANGED lvars
    BY <1>2 DEF allLinkerVars
  <2>2. /\ UNCHANGED <<pc, names, segs, marked, used, collections>>
        /\ UNCHANGED <<vadr, address, start, size, jumps>>
    BY <2>1 DEF cvars, lvars
  <2>3. FrontInv'
    <3>1. ReachInv' /\ Declared' = Declared
      BY <2>1, <2>2, ReachNext DEF LInv, FrontInv, Declared
    <3> QED BY <3>1 DEF LInv, FrontInv
  <2>4. CollectionsInv'
    <3>1. Uncollected' = Uncollected
      BY <2>2 DEF Uncollected, isCollected, SectionOf
    <3>2. ASSUME NEW x \in SectionSet PROVE Grouped(x, collections[x])'
      BY <2>2 DEF LInv, CollectionsInv, Grouped, Collection, Segments, Members, SectionOf
    <3> QED BY <2>2, <3>1, <3>2 DEF LInv, CollectionsInv
  <2>5. AddressesInv'
    BY <2>2, LaidStays DEF LInv, AddressesInv
  <2> QED BY <2>3, <2>4, <2>5 DEF LInv
<1> QED BY <1>1, <1>2

LEMMA LinkerInvariance == LSpec => []LInv
<1> QED BY LinkerBegins, LinkerKeeps, PTL DEF LSpec

\* What the front half of the linker is shown to do it does for the back half.
\* Marking ends with an image that refers to nothing outside of it and has in it
\* what was asked for; every relocation counted in CollectFixup has room in Fix,
\* to which CalcAddresses adds the jumps' (struct.cpp:1097-1233, 1411-1433, 1835).
THEOREM MarkingStands ==
  LSpec => [](TypeOK /\ Closed /\ FixNeverOverrun /\ TakenAsAsked)
<1>1. LInv => TypeOK /\ FixNeverOverrun
  BY DEF LInv, FrontInv, ReachInv, IInv, Counted
<1>2. LInv => Closed
  BY ClosedThen DEF LInv, FrontInv, ReachInv
<1>3. LInv => TakenAsAsked
  BY TakenThen DEF LInv, FrontInv
<1>4. LInv => TypeOK /\ Closed /\ FixNeverOverrun /\ TakenAsAsked
  BY <1>1, <1>2, <1>3
<1> QED BY <1>4, LinkerInvariance, PTL

-----------------------------------------------------------------------------
(* Nothing overlaps. *)

\* What the files may bring.
Offered == UNION {ToSet(q) : q \in Inputs}

\* No segment of 16-bit code is read; the length of their section is computed
\* with operators that bind otherwise than its layout suggests.
No16Bit == \A r \in Offered : r.op = "segment" => r.clazz # "code16"

PlainInv == \A s \in Segments : segs[s].clazz # "code16"

\* A segment's class and alignment are those of its record, but for what is made
\* of a common name.
FromFiles ==
  /\ ToSet(input) \subseteq Offered
  /\ \A s \in Segments :
       \/ segs[s].clazz = "bss"
       \/ \E r \in Offered : /\ r.op = "segment" /\ r.clazz = segs[s].clazz
                            /\ r.align = segs[s].align

LEMMA FilesBegin == LInit => FromFiles
<1> SUFFICES ASSUME LInit PROVE FromFiles
  OBVIOUS
<1>1. input \in Inputs /\ Segments = {}
  BY DEF LInit, Init, Segments
<1> QED BY <1>1 DEF FromFiles, Offered

\* At most one segment is created in a step, from a record or for a common name.
Created ==
  \/ segs' = segs
  \/ \E r : /\ segs' = Append(segs, r) /\ r \in Segment
            /\ \/ r.clazz = "bss"
               \/ /\ Next1("segment") /\ r.clazz = Head(input).clazz
                  /\ r.align = Head(input).align

LEMMA FrontCreates ==
  ASSUME TypeOK, Pointers, CollectNext
  PROVE  Created /\ (input' = input \/ (input # <<>> /\ input' = Tail(input)))
<1>1. ASSUME NEW n, NEW fx, CreateSegment(n, fx), names[n].arg \in Nat PROVE Created
  <2>1. PICK f \in Nat : segs' = Append(segs, [file |-> f, name |-> NULL, clazz |-> "bss",
            dollar |-> <<>>, len |-> names[n].arg, align |-> Alignment(names[n].arg)])
    <3>1. Len(files) \in Nat
      BY DEF TypeOK
    <3> QED BY <1>1, <3>1 DEF CreateSegment
  <2>2. PICK r : r = [file |-> f, name |-> NULL, clazz |-> "bss",
            dollar |-> <<>>, len |-> names[n].arg, align |-> Alignment(names[n].arg)]
    OBVIOUS
  <2>3. r \in Segment /\ r.clazz = "bss"
    BY <1>1, <2>2 DEF Segment, Clazz, Address, Alignment
  <2> QED BY <2>1, <2>2, <2>3 DEF Created
<1>2. ASSUME NEW n, NEW rest, CollectName(n, rest) PROVE Created
  <2>1. segs' = segs \/ (CreateSegment(n, Grown) /\ names[n].kind = "common" /\ n \in Declared)
    BY <1>2 DEF CollectName
  <2>2. n \in Declared /\ names[n].kind = "common" => names[n].arg \in Nat
    BY DEF TypeOK
  <2> QED BY <1>1, <2>1, <2>2 DEF Created
<1>3. ASSUME Reading PROVE Created /\ (input' = input \/ (input # <<>> /\ input' = Tail(input)))
  <2>1. CASE NewSegment
    <3>1. /\ Head(input) \in ObjectRecord /\ Head(input).op = "segment"
          /\ input # <<>> /\ input' = Tail(input)
      BY <2>1, NextRecord DEF NewSegment, Next1, Took
    <3>2. PICK r : r = [file |-> Current, name |-> Head(input).name,
                        clazz |-> Head(input).clazz, dollar |-> Head(input).dollar,
                        len |-> Head(input).len, align |-> Head(input).align]
      OBVIOUS
    <3>3. r \in Segment /\ r.clazz = Head(input).clazz /\ r.align = Head(input).align
      BY <3>1, <3>2, RecordTypes DEF Segment, Current, TypeOK
    <3>4. segs' = Append(segs, r) /\ Next1("segment")
      BY <2>1, <3>2 DEF NewSegment
    <3> QED BY <3>1, <3>3, <3>4 DEF Created
  <2>2. CASE ~NewSegment
    BY <1>3, <2>2 DEF Reading, NewFile, addFixup, setEntryPoint, NewPublicName, NewCommonName,
       NewImportName, NewWeakName, NewExport, ReadingEnds, Created, Next1, Took
  <2> QED BY <2>1, <2>2
<1>4. ASSUME Collecting PROVE Created /\ input' = input
  <2>1. input' = input
    BY <1>4 DEF Collecting, ResolveForward, ResolveUndefined, ResolveDefined, ResolveCommon,
       ResolveWeak, ResolveImport, ResolveAbsolute, CollectFixup, CollectDescriptor,
       CollectExternal, CollectAddresses, Return, EntryFirst, ExportNext, ExportsEnd,
       AllNextFile, AllNextSegment, AllPassEnds, Steady, reading
  <2>2. ASSUME ResolveCommon PROVE Created
    <3>1. PICK n, fx : CreateSegment(n, fx) /\ n \in Declared /\ names[n].kind = "common"
      BY <2>2, Zenon DEF ResolveCommon, Known
    <3>2. names[n].arg \in Nat
      BY <3>1 DEF TypeOK
    <3> QED BY <1>1, <3>1, <3>2
  <2>3. ASSUME CollectExternal \/ ExportNext PROVE Created
    <3>1. segs' = segs \/ \E n, rest : CollectName(n, rest)
      BY <2>3, Zenon DEF CollectExternal, ExportNext
    <3> QED BY <1>2, <3>1 DEF Created
  <2>4. segs' = segs \/ ResolveCommon \/ CollectExternal \/ ExportNext
    BY <1>4 DEF Collecting, ResolveForward, ResolveUndefined, ResolveDefined, ResolveWeak,
       ResolveImport, ResolveAbsolute, CollectFixup, CollectDescriptor, CollectAddresses,
       Return, EntryFirst, ExportsEnd, AllNextFile, AllNextSegment, AllPassEnds, kept
  <2> QED BY <2>1, <2>2, <2>3, <2>4 DEF Created
<1> QED BY <1>3, <1>4 DEF CollectNext

LEMMA FilesKeep ==
  ASSUME LInv, FromFiles, [LNext]_allLinkerVars PROVE FromFiles'
<1>0. TypeOK /\ Pointers
  BY DEF LInv, FrontInv, ReachInv, IInv
<1>1. CASE CollectNext
  <2>1. Created /\ (input' = input \/ (input # <<>> /\ input' = Tail(input)))
    BY <1>0, <1>1, FrontCreates
  <2>2. input \in Seq(ObjectRecord) /\ segs \in Seq(Segment)
    BY <1>0 DEF TypeOK
  <2>3. ToSet(input') \subseteq Offered
    <3>1. CASE input' = input
      BY <3>1 DEF FromFiles
    <3>2. CASE input # <<>> /\ input' = Tail(input)
      <4>1. ASSUME NEW i \in DOMAIN input' PROVE i + 1 \in DOMAIN input /\ input'[i] = input[i + 1]
        BY <2>2, <3>2, HeadTailProperties
      <4>2. ToSet(input') \subseteq ToSet(input)
        BY <4>1 DEF ToSet
      <4> QED BY <4>2 DEF FromFiles
    <3> QED BY <2>1, <3>1, <3>2
  <2> DEFINE Stems(g) == \/ g.clazz = "bss"
                         \/ \E r \in Offered : /\ r.op = "segment" /\ r.clazz = g.clazz
                                              /\ r.align = g.align
  <2>4. \A s \in DOMAIN segs' : Stems(segs'[s])
    <3>0. \A s \in DOMAIN segs : Stems(segs[s])
      BY DEF FromFiles, Segments
    <3>1. CASE segs' = segs
      BY <3>0, <3>1
    <3>2. CASE segs' # segs
      <4>1. PICK g : /\ segs' = Append(segs, g) /\ g \in Segment
                     /\ \/ g.clazz = "bss"
                        \/ /\ Next1("segment") /\ g.clazz = Head(input).clazz
                           /\ g.align = Head(input).align
        BY <2>1, <3>2 DEF Created
      <4>2. Stems(g)
        <5>1. CASE Next1("segment") /\ g.clazz = Head(input).clazz /\ g.align = Head(input).align
          <6>1. input # <<>> /\ Head(input) = input[1] /\ 1 \in DOMAIN input /\ input[1].op = "segment"
            BY <2>2, <5>1 DEF Next1
          <6>2. input[1] \in Offered
            BY <6>1 DEF FromFiles, ToSet
          <6> QED BY <5>1, <6>1, <6>2
        <5> QED BY <4>1, <5>1
      <4>3. ASSUME NEW s \in DOMAIN segs' PROVE segs'[s] = g \/ (s \in DOMAIN segs /\ segs'[s] = segs[s])
        BY <2>2, <4>1, AppendProperties
      <4> HIDE DEF Stems
      <4> QED BY <3>0, <4>2, <4>3
    <3> QED BY <3>1, <3>2
  <2> QED BY <2>3, <2>4 DEF FromFiles, Segments
<1>2. CASE UNCHANGED <<input, segs>>
  BY <1>2 DEF FromFiles, Segments
<1>3. CollectNext \/ UNCHANGED <<input, segs>>
  BY DEF LNext, OrderSegments, AddCollection, CalcAddresses, CreateCollectionImage,
     ProcessFixups, SortFixups, allLinkerVars, cvars, reading, segments
<1> QED BY <1>1, <1>2, <1>3

LEMMA FilesAlways == LSpec => [](LInv /\ FromFiles)
<1>1. LInit => LInv /\ FromFiles
  BY LinkerBegins, FilesBegin
<1>2. LInv /\ FromFiles /\ [LNext]_allLinkerVars => (LInv /\ FromFiles)'
  BY LinkerKeeps, FilesKeep
<1> QED BY <1>1, <1>2, PTL DEF LSpec

LEMMA PlainThen == No16Bit /\ FromFiles => PlainInv
BY DEF No16Bit, FromFiles, PlainInv

Addressed == LInv /\ PlainInv /\ pc \in Later \ {"ordered"}

LEMMA LaidIsMarked ==
  ASSUME Addressed
  PROVE  /\ Laid = marked \ {0} /\ marked \ {0} \subseteq Segments
         /\ \A s \in Laid : s \in ToSet(InSection(SectionOf(s))) /\ SectionOf(s) \in SectionSet \ {"code16"}
<1>1. TypeOK /\ CollectionsInv /\ LaidUpTo(6) /\ pc \in Later
  BY DEF Addressed, LInv, FrontInv, ReachInv, IInv, AddressesInv
<1>2. \A x \in SectionSet : ToSet(InSection(x)) = Members(x)
  BY <1>1, SectionListed
<1>3. DOMAIN address = UNION {Members(x) : x \in SectionSet}
  <2>1. DOMAIN address = UNION {ToSet(InSection(x)) : x \in SectionSet}
    BY <1>1, SectionNumbers DEF LaidUpTo
  <2> QED BY <1>2, <2>1
<1>4. UNION {Members(x) : x \in SectionSet} = marked \ {0}
  BY SectionNames DEF Members
<1>5. Laid = marked \ {0} /\ marked \ {0} \subseteq Segments
  BY <1>1, <1>3, <1>4, MarkedSegments DEF Laid
<1>6. ASSUME NEW s \in Laid PROVE SectionOf(s) # "code16"
  <2>1. segs[s].clazz # "code16"
    BY <1>5 DEF Addressed, PlainInv
  <2> QED BY <2>1 DEF SectionOf
<1>7. ASSUME NEW s \in Laid PROVE s \in ToSet(InSection(SectionOf(s))) /\ SectionOf(s) \in SectionSet
  <2>1. s \in Members(SectionOf(s)) /\ SectionOf(s) \in SectionSet
    BY <1>5, SectionNames DEF Members
  <2> QED BY <1>2, <2>1
<1> QED BY <1>5, <1>6, <1>7

\* Where section x is and where its segments end.
Spans(x, a, l, b, end) ==
  /\ a = start[x] /\ l = size[x] /\ b = Base(x, a) /\ end = EndOf(InSection(x), b)
  /\ a \in Nat /\ l \in Nat /\ b \in Nat /\ end \in Nat /\ a <= b /\ b <= end
  /\ l = Length(x, end, b) /\ a % ObjectOffset = 0 /\ (x # "code16" => end <= b + l)
  /\ b = IF x = "idata" THEN a + Ndlls * DllSize ELSE a
  /\ Arranged(Placed(InSection(x), b), InSection(x), b, end)
  /\ \A s \in ToSet(InSection(x)) : address[s] = Placed(InSection(x), b)[s]

LEMMA SectionSpans ==
  ASSUME Addressed, NEW x \in SectionSet PROVE \E a, l, b, end : Spans(x, a, l, b, end)
<1>1. FrontInv /\ CollectionsInv /\ LaidUpTo(6)
  BY DEF Addressed, LInv, AddressesInv
<1>2. PICK a, l : a = start[x] /\ l = size[x]
  OBVIOUS
<1>3. PlacedAs(x, a, l, address)
  BY <1>1, <1>2, SectionNumbers DEF LaidUpTo
<1>4. a \in Nat /\ a % ObjectOffset = 0 /\ l \in Nat
  BY <1>3 DEF PlacedAs
<1>5. PICK b : b = Base(x, a)
  OBVIOUS
<1>6. PICK end : end = EndOf(InSection(x), b)
  OBVIOUS
<1>7. b \in Nat /\ a <= b /\ Arranged(Placed(InSection(x), b), InSection(x), b, end)
  BY <1>1, <1>4, <1>5, <1>6, SectionArranged
<1>8. /\ l = Length(x, end, b)
      /\ \A s \in ToSet(InSection(x)) : address[s] = Placed(InSection(x), b)[s]
  BY <1>3, <1>5, <1>6 DEF PlacedAs
<1>9. end \in Nat /\ b <= end
  BY <1>7 DEF Arranged
<1>10. x # "code16" => end <= b + l
  <2>1. x # "code16" => end - b <= Length(x, end, b)
    BY <1>1, <1>7, <1>9, SectionLength
  <2> QED BY <1>4, <1>7, <1>8, <1>9, <2>1
<1>11. b = IF x = "idata" THEN a + Ndlls * DllSize ELSE a
  BY <1>5 DEF Base
<1>12. Spans(x, a, l, b, end)
  BY <1>2, <1>4, <1>5, <1>6, <1>7, <1>8, <1>9, <1>10, <1>11 DEF Spans
<1> QED BY <1>12

\* A segment lies between the base and the end of its section.
LEMMA SegmentSpan ==
  ASSUME Addressed, NEW s \in Laid, NEW x, x = SectionOf(s),
         NEW a, NEW l, NEW b, NEW end, Spans(x, a, l, b, end)
  PROVE  /\ address[s] \in Nat /\ segs[s].len \in Nat
         /\ b <= address[s] /\ address[s] + segs[s].len <= end
         /\ address[s] % segs[s].align = 0
<1>1. s \in ToSet(InSection(x)) /\ s \in Segments
  BY LaidIsMarked
<1>2. segs[s].len \in Nat
  <2>1. SegmentTypes
    BY MarkedSegments DEF Addressed, LInv, FrontInv, ReachInv, IInv
  <2> QED BY <1>1, <2>1, SegmentNumbers
<1>3. address[s] = Placed(InSection(x), b)[s]
  BY <1>1 DEF Spans
<1>4. Arranged(Placed(InSection(x), b), InSection(x), b, end)
  BY DEF Spans
<1>5. PICK p : p = Placed(InSection(x), b)
  OBVIOUS
<1>6. p \in [ToSet(InSection(x)) -> Nat] /\ b <= p[s] /\ p[s] + segs[s].len <= end /\ p[s] % segs[s].align = 0
  BY <1>1, <1>4, <1>5 DEF Arranged
<1> QED BY <1>1, <1>2, <1>3, <1>5, <1>6

\* Of two sections one ends before the other begins; only the last, the import
\* section, ends after its size.
LEMMA SectionsApart ==
  ASSUME Addressed, NEW x \in SectionSet, NEW y \in SectionSet, x # y,
         NEW a, NEW l, NEW b, NEW end, Spans(x, a, l, b, end),
         NEW c, NEW m, NEW d, NEW stop, Spans(y, c, m, d, stop)
  PROVE  (x # "idata" /\ a + l <= c) \/ (y # "idata" /\ c + m <= a)
<1>1. LaidUpTo(6)
  BY DEF Addressed, LInv, AddressesInv
<1>2. PICK i \in 1..6, j \in 1..6 : Sections[i] = x /\ Sections[j] = y
  BY SectionNumbers DEF Upto
<1>3. i # j
  BY <1>2
<1>4. i < j \/ j < i
  BY <1>3
<1>5. i < j => start[x] + size[x] <= start[y]
  BY <1>1, <1>2 DEF LaidUpTo
<1>6. j < i => start[y] + size[y] <= start[x]
  BY <1>1, <1>2 DEF LaidUpTo
<1>7. (i < j => x # "idata") /\ (j < i => y # "idata")
  <2>1. (x = "idata" <=> i = 6) /\ (y = "idata" <=> j = 6)
    BY <1>2, SectionNumbers
  <2> QED BY <2>1
<1>8. a = start[x] /\ l = size[x] /\ c = start[y] /\ m = size[y]
  BY DEF Spans
<1> QED BY <1>4, <1>5, <1>6, <1>7, <1>8

\* Two segments.
LEMMA SegmentsApart ==
  ASSUME Addressed, NEW s \in Laid, NEW t \in Laid, s # t
  PROVE  address[s] + segs[s].len <= address[t] \/ address[t] + segs[t].len <= address[s]
<1>1. PICK x, y : x = SectionOf(s) /\ y = SectionOf(t)
  OBVIOUS
<1>2. /\ s \in ToSet(InSection(x)) /\ x \in SectionSet /\ x # "code16"
      /\ t \in ToSet(InSection(y)) /\ y \in SectionSet /\ y # "code16"
  BY <1>1, LaidIsMarked
<1>3. PICK a, l, b, end : Spans(x, a, l, b, end)
  BY <1>2, SectionSpans
<1>4. PICK c, m, d, stop : Spans(y, c, m, d, stop)
  BY <1>2, SectionSpans
<1>5. /\ address[s] \in Nat /\ segs[s].len \in Nat
      /\ b <= address[s] /\ address[s] + segs[s].len <= end
  BY <1>1, <1>3, SegmentSpan
<1>6. /\ address[t] \in Nat /\ segs[t].len \in Nat
      /\ d <= address[t] /\ address[t] + segs[t].len <= stop
  BY <1>1, <1>4, SegmentSpan
<1>7. CASE x = y
  <2>1. PICK p : p = Placed(InSection(x), b)
    OBVIOUS
  <2>2. p[s] + segs[s].len <= p[t] \/ p[t] + segs[t].len <= p[s]
    <3>1. Arranged(p, InSection(x), b, end)
      BY <1>3, <2>1 DEF Spans
    <3> QED BY <1>2, <1>7, <3>1 DEF Arranged
  <2>3. address[s] = p[s] /\ address[t] = p[t]
    BY <1>2, <1>3, <1>7, <2>1 DEF Spans
  <2> QED BY <2>2, <2>3
<1>8. CASE x # y
  <2>1. (x # "idata" /\ a + l <= c) \/ (y # "idata" /\ c + m <= a)
    BY <1>2, <1>3, <1>4, <1>8, SectionsApart
  <2>2. /\ a \in Nat /\ l \in Nat /\ b \in Nat /\ end \in Nat /\ a <= b /\ end <= b + l
        /\ (x # "idata" => b = a)
    BY <1>2, <1>3 DEF Spans
  <2>3. /\ c \in Nat /\ m \in Nat /\ d \in Nat /\ stop \in Nat /\ c <= d /\ stop <= d + m
        /\ (y # "idata" => d = c)
    BY <1>2, <1>4 DEF Spans
  <2> QED BY <1>5, <1>6, <2>1, <2>2, <2>3
<1> QED BY <1>7, <1>8

\* n is the i-th imported function, and the jumps begin at j.
JumpOf(n, i, j) ==
  /\ i \in 1..Len(Functions) /\ Functions[i] = n /\ j \in Nat
  /\ jumps[n] = j + JumpSize * (i - 1)

\* The jumps follow the code's segments.
LEMMA JumpsInCode ==
  ASSUME Addressed, NEW a, NEW l, NEW b, NEW end, Spans("code", a, l, b, end)
  PROVE  \E j \in Nat : /\ end <= j /\ j + JumpSize * Len(Functions) <= a + l
                        /\ \A n \in DOMAIN jumps : \E i : JumpOf(n, i, j)
<1>1. FrontInv /\ LaidUpTo(6)
  BY DEF Addressed, LInv, AddressesInv
<1>2. /\ a = start["code"] /\ a \in Nat /\ l \in Nat /\ b = a /\ end \in Nat
      /\ end = EndOf(InSection("code"), a) /\ l = Length("code", end, a)
  BY DEF Spans
<1>3. PICK N \in Nat : N = Len(Functions) /\ Indexed(Functions, N)
  BY <1>1, ImportsCounted
<1>4. PICK j \in Nat : j = ImportStart(end) /\ end <= j
  BY <1>2, Multiple DEF ImportStart
<1>5. j + JumpSize * N <= a + l
  <2>1. PICK k \in Nat : k = j + JumpSize * N
    BY DEF JumpSize
  <2>2. AlignUp(k, 2) \in Nat /\ k <= AlignUp(k, 2)
    BY Multiple
  <2>3. l = AlignUp(k, 2) - a
    BY <1>2, <1>3, <1>4, <2>1 DEF Length
  <2> QED BY <1>2, <2>1, <2>2, <2>3
<1>6. jumps = [n \in ToSet(Functions) |-> Jump(n, end)]
  BY <1>1, <1>2 DEF LaidUpTo
<1>7. ASSUME NEW n \in DOMAIN jumps PROVE \E i : JumpOf(n, i, j)
  <2>1. n \in ToSet(Functions) /\ jumps[n] = Jump(n, end)
    BY <1>6
  <2>2. PICK i : i = CHOOSE k \in DOMAIN Functions : Functions[k] = n
    OBVIOUS
  <2>3. i \in 1..N /\ Functions[i] = n
    BY <1>3, <2>1, <2>2 DEF Indexed
  <2>4. jumps[n] = j + JumpSize * (i - 1)
    BY <1>4, <2>1, <2>2 DEF Jump
  <2> QED BY <1>3, <2>3, <2>4 DEF JumpOf
<1> QED BY <1>3, <1>4, <1>5, <1>7

\* A jump is among the code, after all of its segments, and apart from the others.
JumpPlaced(n, a, l, end) ==
  /\ jumps[n] \in Nat /\ end <= jumps[n] /\ jumps[n] + JumpSize <= a + l
  /\ \A m \in DOMAIN jumps : m # n =>
       /\ jumps[m] \in Nat
       /\ jumps[m] + JumpSize <= jumps[n] \/ jumps[n] + JumpSize <= jumps[m]

LEMMA JumpsApart ==
  ASSUME Addressed, NEW a, NEW l, NEW b, NEW end, Spans("code", a, l, b, end),
         NEW n \in DOMAIN jumps
  PROVE  JumpPlaced(n, a, l, end)
<1>1. PICK j \in Nat : /\ end <= j /\ j + JumpSize * Len(Functions) <= a + l
                       /\ \A m \in DOMAIN jumps : \E i : JumpOf(m, i, j)
  BY JumpsInCode
<1>2. a \in Nat /\ l \in Nat /\ end \in Nat /\ Len(Functions) \in Nat
  BY ImportsCounted DEF Spans, Addressed, LInv
<1>3. PICK i : JumpOf(n, i, j)
  BY <1>1
<1>4. i \in 1..Len(Functions) /\ jumps[n] = j + 6 * (i - 1) /\ Functions[i] = n
  BY <1>3 DEF JumpOf, JumpSize
<1>5. jumps[n] \in Nat /\ end <= jumps[n] /\ jumps[n] + JumpSize <= a + l
  BY <1>1, <1>2, <1>4 DEF JumpSize
<1>6. ASSUME NEW m \in DOMAIN jumps, m # n
      PROVE  /\ jumps[m] \in Nat
             /\ jumps[m] + JumpSize <= jumps[n] \/ jumps[n] + JumpSize <= jumps[m]
  <2>1. PICK k : JumpOf(m, k, j)
    BY <1>1
  <2>2. k \in 1..Len(Functions) /\ jumps[m] = j + 6 * (k - 1) /\ Functions[k] = m
    BY <2>1 DEF JumpOf, JumpSize
  <2>3. k < i \/ i < k
    BY <1>2, <1>4, <1>6, <2>2
  <2>4. i \in Nat /\ k \in Nat /\ i >= 1 /\ k >= 1
    BY <1>2, <1>4, <2>2
  <2>5. jumps[m] \in Nat
    BY <2>2, <2>4
  <2>6. jumps[m] + 6 <= jumps[n] \/ jumps[n] + 6 <= jumps[m]
    BY <1>4, <2>2, <2>3, <2>4
  <2> QED BY <2>5, <2>6 DEF JumpSize
<1> QED BY <1>5, <1>6 DEF JumpPlaced

\* What Apart says of one segment, of a jump, and of two sections.
LEMMA SegmentStands ==
  ASSUME Addressed, NEW s \in Laid
  PROVE  /\ address[s] % segs[s].align = 0
         /\ InSpan(SectionOf(s), Bytes(s))
<1>1. PICK x : x = SectionOf(s)
  OBVIOUS
<1>2. s \in ToSet(InSection(x)) /\ x \in SectionSet /\ x # "code16"
  BY <1>1, LaidIsMarked
<1>3. PICK a, l, b, end : Spans(x, a, l, b, end)
  BY <1>2, SectionSpans
<1>4. /\ address[s] \in Nat /\ segs[s].len \in Nat
      /\ b <= address[s] /\ address[s] + segs[s].len <= end
      /\ address[s] % segs[s].align = 0
  BY <1>1, <1>3, SegmentSpan
<1>5. /\ a = start[x] /\ l = size[x] /\ a \in Nat /\ l \in Nat /\ b \in Nat /\ end \in Nat
      /\ a <= b /\ end <= b + l
      /\ b = IF x = "idata" THEN a + Ndlls * DllSize ELSE a
  BY <1>2, <1>3 DEF Spans
<1>6. PICK k : k = IF x = "idata" THEN Ndlls * DllSize ELSE 0
  OBVIOUS
<1>7. k \in Nat /\ b = a + k
  <2>1. FrontInv
    BY DEF Addressed, LInv
  <2>2. Ndlls \in Nat
    BY <2>1, ImportsCounted
  <2>3. Ndlls * DllSize \in Nat
    BY <2>2 DEF DllSize
  <2> QED BY <1>5, <1>6, <2>3
<1>8. Bytes(s) \subseteq a..(a + l + k - 1)
  BY <1>4, <1>5, <1>7 DEF Bytes
<1>9. InSpan(x, Bytes(s))
  BY <1>5, <1>6, <1>8 DEF InSpan
<1> QED BY <1>1, <1>4, <1>9

LEMMA JumpStands ==
  ASSUME Addressed, NEW n \in DOMAIN jumps
  PROVE  /\ InSpan("code", JumpBytes(n))
         /\ \A s \in Laid : Bytes(s) \cap JumpBytes(n) = {}
         /\ \A m \in DOMAIN jumps : m # n => JumpBytes(m) \cap JumpBytes(n) = {}
<1>1. "code" \in SectionSet
  BY SectionNames
<1>2. PICK a, l, b, end : Spans("code", a, l, b, end)
  BY <1>1, SectionSpans
<1>3. JumpPlaced(n, a, l, end)
  BY <1>2, JumpsApart
<1>4. /\ a = start["code"] /\ l = size["code"] /\ a \in Nat /\ l \in Nat /\ b = a
      /\ end \in Nat /\ a <= end
  BY <1>2 DEF Spans
<1>5. jumps[n] \in Nat /\ end <= jumps[n] /\ jumps[n] + 6 <= a + l
  BY <1>3 DEF JumpPlaced, JumpSize
<1>6. InSpan("code", JumpBytes(n))
  <2>1. JumpBytes(n) \subseteq a..(a + l + 0 - 1)
    BY <1>4, <1>5 DEF JumpBytes, JumpSize
  <2> QED BY <1>4, <2>1 DEF InSpan
<1>7. ASSUME NEW s \in Laid PROVE Bytes(s) \cap JumpBytes(n) = {}
  <2>1. PICK y : y = SectionOf(s)
    OBVIOUS
  <2>2. s \in ToSet(InSection(y)) /\ y \in SectionSet /\ y # "code16"
    BY <2>1, LaidIsMarked
  <2>3. PICK c, m, d, stop : Spans(y, c, m, d, stop)
    BY <2>2, SectionSpans
  <2>4. /\ address[s] \in Nat /\ segs[s].len \in Nat
        /\ d <= address[s] /\ address[s] + segs[s].len <= stop
    BY <2>1, <2>3, SegmentSpan
  <2>5. /\ c \in Nat /\ m \in Nat /\ d \in Nat /\ stop \in Nat /\ c <= d /\ stop <= d + m
        /\ (y # "idata" => d = c)
    BY <2>2, <2>3 DEF Spans
  <2>6. address[s] + segs[s].len <= jumps[n] \/ jumps[n] + 6 <= address[s]
    <3>1. CASE y = "code"
      <4>1. stop = end
        BY <1>2, <2>3, <3>1 DEF Spans
      <4> QED BY <1>4, <1>5, <2>4, <2>5, <4>1
    <3>2. CASE y # "code"
      <4>1. a + l <= c \/ (y # "idata" /\ c + m <= a)
        BY <1>1, <1>2, <2>2, <2>3, <3>2, SectionsApart
      <4> QED BY <1>4, <1>5, <2>4, <2>5, <4>1
    <3> QED BY <3>1, <3>2
  <2> QED BY <1>5, <2>4, <2>6 DEF Bytes, JumpBytes, JumpSize
<1>8. ASSUME NEW m \in DOMAIN jumps, m # n PROVE JumpBytes(m) \cap JumpBytes(n) = {}
  <2>1. /\ jumps[m] \in Nat
        /\ jumps[m] + 6 <= jumps[n] \/ jumps[n] + 6 <= jumps[m]
    BY <1>3, <1>8 DEF JumpPlaced, JumpSize
  <2> QED BY <1>5, <2>1 DEF JumpBytes, JumpSize
<1> QED BY <1>6, <1>7, <1>8

LEMMA SectionsStand ==
  ASSUME Addressed, NEW x \in SectionSet, NEW y \in SectionSet, x # y
  PROVE  start[x] + size[x] <= start[y] \/ start[y] + size[y] <= start[x]
<1>1. PICK a, l, b, end : Spans(x, a, l, b, end)
  BY SectionSpans
<1>2. PICK c, m, d, stop : Spans(y, c, m, d, stop)
  BY SectionSpans
<1>3. a + l <= c \/ c + m <= a
  BY <1>1, <1>2, SectionsApart
<1>4. a = start[x] /\ l = size[x] /\ c = start[y] /\ m = size[y]
  BY <1>1, <1>2 DEF Spans
<1> QED BY <1>3, <1>4

LEMMA ApartThen == LInv /\ PlainInv => Apart
<1> SUFFICES ASSUME LInv, PlainInv, pc \in {"addressed", "linked"} PROVE Apart
  BY DEF Apart
<1>1. Addressed
  BY DEF Addressed, Later
<1>2. Laid = marked \ {0}
  BY <1>1, LaidIsMarked
<1>3. ASSUME NEW s \in Laid, NEW t \in Laid, s # t PROVE Bytes(s) \cap Bytes(t) = {}
  <2>1. /\ address[s] \in Nat /\ segs[s].len \in Nat
        /\ address[t] \in Nat /\ segs[t].len \in Nat
    <3>1. ASSUME NEW u \in Laid PROVE address[u] \in Nat /\ segs[u].len \in Nat
      <4>1. PICK x : x = SectionOf(u)
        OBVIOUS
      <4>2. x \in SectionSet
        BY <1>1, <4>1, LaidIsMarked
      <4>3. PICK a, l, b, end : Spans(x, a, l, b, end)
        BY <1>1, <4>2, SectionSpans
      <4> QED BY <1>1, <4>1, <4>3, SegmentSpan
    <3> QED BY <3>1
  <2>2. address[s] + segs[s].len <= address[t] \/ address[t] + segs[t].len <= address[s]
    BY <1>1, <1>3, SegmentsApart
  <2> QED BY <2>1, <2>2 DEF Bytes
<1>4. \A s \in Laid : address[s] % segs[s].align = 0 /\ InSpan(SectionOf(s), Bytes(s))
  BY <1>1, SegmentStands
<1>5. \A n \in DOMAIN jumps :
        /\ InSpan("code", JumpBytes(n))
        /\ \A s \in Laid : Bytes(s) \cap JumpBytes(n) = {}
        /\ \A m \in DOMAIN jumps : m # n => JumpBytes(m) \cap JumpBytes(n) = {}
  BY <1>1, JumpStands
<1>6. \A x, y \in SectionSet : x # y =>
        start[x] + size[x] <= start[y] \/ start[y] + size[y] <= start[x]
  BY <1>1, SectionsStand
<1>7. ASSUME NEW x \in SectionSet, NEW y \in SectionSet, x # y /\ size[x] > 0 /\ size[y] > 0
      PROVE  start[x] + size[x] <= start[y] \/ start[y] + size[y] <= start[x]
  BY <1>6, <1>7
<1> QED BY <1>2, <1>3, <1>4, <1>5, <1>7 DEF Apart

\* CalcAddresses lays out the image without overlaps, whatever segments, names,
\* fixups and alignments the files bring, as long as none is 16-bit code, whose
\* section's length is not that of its segments.
THEOREM NothingOverlaps == No16Bit => (LSpec => []Apart)
<1> SUFFICES ASSUME No16Bit PROVE LSpec => []Apart
  OBVIOUS
<1>1. LInv /\ FromFiles => Apart
  BY ApartThen, PlainThen
<1> QED BY <1>1, FilesAlways, PTL

-----------------------------------------------------------------------------
(* The images. *)

\* Sections start at multiples of the alignments of their segments; those of
\* the import section come after its table of DLLs.
Aligned ==
  \A r \in Offered : r.op = "segment" =>
    ObjectOffset % r.align = 0 /\ (r.clazz = "idata" => DllSize % r.align = 0)

AlignedInv ==
  \A s \in Segments : segs[s].clazz # "bss" =>
    /\ ObjectOffset % segs[s].align = 0
    /\ segs[s].clazz = "idata" => DllSize % segs[s].align = 0

LEMMA AlignedThen == Aligned /\ FromFiles => AlignedInv
<1> SUFFICES ASSUME Aligned, FromFiles, NEW s \in Segments, segs[s].clazz # "bss"
             PROVE  /\ ObjectOffset % segs[s].align = 0
                    /\ segs[s].clazz = "idata" => DllSize % segs[s].align = 0
  BY DEF AlignedInv
<1>1. PICK r \in Offered : r.op = "segment" /\ r.clazz = segs[s].clazz /\ r.align = segs[s].align
  BY DEF FromFiles
<1> QED BY <1>1 DEF Aligned

LEMMA Multiples ==
  ASSUME NEW n \in Nat \ {0}, NEW k \in Nat PROVE (n * k) % n = 0
OBVIOUS

LEMMA Quotient ==
  ASSUME NEW n \in Nat \ {0}, NEW a \in Nat, a % n = 0 PROVE \E q \in Nat : a = n * q
<1>1. a = n * (a \div n) + (a % n) /\ a \div n \in Nat
  OBVIOUS
<1>2. a = n * (a \div n)
  BY <1>1
<1> QED BY <1>1, <1>2

LEMMA DividesAll ==
  ASSUME NEW n \in Nat \ {0}, NEW m \in Nat \ {0}, m % n = 0, NEW a \in Nat, a % m = 0
  PROVE  a % n = 0
<1>1. PICK q \in Nat : m = n * q
  BY Quotient
<1>2. PICK p \in Nat : a = m * p
  BY Quotient
<1>3. a = n * (q * p) /\ q * p \in Nat
  BY <1>1, <1>2
<1> QED BY <1>3, Multiples

LEMMA DividesSum ==
  ASSUME NEW n \in Nat \ {0}, NEW a \in Nat, a % n = 0, NEW b \in Nat, b % n = 0
  PROVE  (a + b) % n = 0
<1>1. PICK q \in Nat : a = n * q
  BY Quotient
<1>2. PICK p \in Nat : b = n * p
  BY Quotient
<1>3. a + b = n * (q + p) /\ q + p \in Nat
  BY <1>1, <1>2
<1> QED BY <1>3, Multiples

LEMMA DividesProduct ==
  ASSUME NEW n \in Nat \ {0}, NEW m \in Nat, m % n = 0, NEW k \in Nat
  PROVE  (k * m) % n = 0
<1>1. PICK q \in Nat : m = n * q
  BY Quotient
<1>2. k * m = n * (k * q) /\ k * q \in Nat
  BY <1>1
<1> QED BY <1>2, Multiples

\* The base of a section is a multiple of the alignment of each of its segments.
LEMMA BaseAligned ==
  ASSUME Addressed, AlignedInv, NEW x \in SectionSet, x # "bss", NEW s \in ToSet(InSection(x)),
         NEW a, NEW l, NEW b, NEW end, Spans(x, a, l, b, end)
  PROVE  b % segs[s].align = 0
<1>1. TypeOK /\ CollectionsInv /\ FrontInv
  BY DEF Addressed, LInv, FrontInv, ReachInv, IInv
<1>2. s \in Segments /\ SectionOf(s) = x
  <2>1. s \in Members(x)
    BY <1>1, SectionListed
  <2> QED BY <1>1, <2>1, MarkedSegments DEF Members
<1>3. segs[s].clazz # "bss" /\ (x = "idata" => segs[s].clazz = "idata")
  BY <1>2, SectionNames DEF SectionOf
<1>4. /\ ObjectOffset % segs[s].align = 0
      /\ x = "idata" => DllSize % segs[s].align = 0
  BY <1>2, <1>3 DEF AlignedInv
<1>5. PICK n \in Nat \ {0} : n = segs[s].align
  BY <1>1, <1>2, MarkedSegments, SegmentNumbers
<1>6. a \in Nat /\ b \in Nat /\ a % ObjectOffset = 0 /\ b = IF x = "idata" THEN a + Ndlls * DllSize ELSE a
  BY DEF Spans
<1>7. a % n = 0
  BY <1>4, <1>5, <1>6, LinkerAssumption, DividesAll
<1>8. CASE x = "idata"
  <2>1. PICK k \in Nat : k = Ndlls
    BY <1>1, ImportsCounted
  <2>2. PICK d \in Nat : d = DllSize
    BY DEF DllSize
  <2>3. k * d \in Nat /\ (k * d) % n = 0
    <3>1. d % n = 0
      BY <1>4, <1>5, <1>8, <2>2
    <3>2. (k * d) % n = 0
      BY <1>5, <2>1, <2>2, <3>1, DividesProduct
    <3>3. k * d \in Nat
      BY <2>1, <2>2
    <3> QED BY <3>2, <3>3
  <2>4. (a + k * d) % n = 0
    BY <1>5, <1>6, <1>7, <2>3, DividesSum
  <2> QED BY <1>5, <1>6, <1>8, <2>1, <2>2, <2>4
<1> QED BY <1>5, <1>6, <1>7, <1>8

\* A segment's place in its section's image is its place in the section.
LEMMA ImagePlaced ==
  ASSUME Addressed, AlignedInv, NEW s \in Laid, NEW x, x = SectionOf(s), x # "bss"
  PROVE  /\ Placed(InSection(x), 0)[s] = address[s] - Base(x, start[x])
         /\ Placed(InSection(x), 0)[s] + segs[s].len <= size[x]
<1>1. s \in ToSet(InSection(x)) /\ x \in SectionSet /\ x # "code16"
  BY LaidIsMarked
<1>2. PICK a, l, b, end : Spans(x, a, l, b, end)
  BY <1>1, SectionSpans
<1>3. /\ a = start[x] /\ l = size[x] /\ b = Base(x, a) /\ b \in Nat /\ l \in Nat /\ end \in Nat
      /\ end <= b + l /\ address[s] = Placed(InSection(x), b)[s]
      /\ Arranged(Placed(InSection(x), b), InSection(x), b, end)
  BY <1>1, <1>2 DEF Spans
<1>4. /\ address[s] \in Nat /\ segs[s].len \in Nat
      /\ b <= address[s] /\ address[s] + segs[s].len <= end
  BY <1>2, SegmentSpan
<1>5. TypeOK /\ CollectionsInv
  BY DEF Addressed, LInv, FrontInv, ReachInv, IInv
<1>6. PICK ss \in Seq(Segments) : ss = InSection(x) /\ IsInjective(ss)
  BY <1>1, <1>5, SectionListed
<1>7. \A t \in ToSet(ss) : b % segs[t].align = 0
  BY <1>1, <1>2, <1>6, BaseAligned
<1>8. \A t \in ToSet(ss) : Placed(ss, b)[t] = b + Placed(ss, 0)[t]
  BY <1>3, <1>5, <1>6, <1>7, MarkedSegments, PlacedFrom
<1>9. Arranged(Placed(ss, 0), ss, 0, EndOf(ss, 0))
  BY <1>5, <1>6, MarkedSegments, PlacedApart
<1>10. Placed(ss, 0)[s] \in Nat
  <2>1. PICK p : p = Placed(ss, 0)
    OBVIOUS
  <2>2. p \in [ToSet(ss) -> Nat]
    BY <1>9, <2>1 DEF Arranged
  <2> QED BY <1>1, <1>6, <2>1, <2>2
<1>11. PICK p \in Nat : p = Placed(InSection(x), 0)[s]
  BY <1>6, <1>10
<1>12. address[s] = b + p
  BY <1>1, <1>3, <1>6, <1>8, <1>11
<1>13. p = address[s] - b /\ p + segs[s].len <= l
  <2>1. PICK w \in Nat, z \in Nat : w = address[s] /\ z = segs[s].len
    BY <1>4
  <2>2. w = b + p /\ w + z <= end /\ end <= b + l /\ b \in Nat /\ l \in Nat /\ end \in Nat
    BY <1>3, <1>4, <1>12, <2>1
  <2>3. p = w - b /\ p + z <= l
    BY <2>2
  <2> QED BY <2>1, <2>3
<1> QED BY <1>3, <1>11, <1>13

ImagesInv ==
  /\ pc \in Early \cup {"collected", "ordered"} => DOMAIN image = {}
  /\ ImagesMatch

LEMMA ImagesBegin == LInit => ImagesInv
BY DEF LInit, Empty, ImagesInv, ImagesMatch

LEMMA ImagesStay ==
  ASSUME LInv, PlainInv, AlignedInv, ImagesInv, [LNext]_allLinkerVars PROVE ImagesInv'
<1>1. CASE CollectNext /\ UNCHANGED lvars
  <2>1. pc \in Early /\ image' = image
    BY <1>1, FrontOnly DEF lvars
  <2> QED BY <2>1 DEF ImagesInv, ImagesMatch
<1>2. CASE OrderSegments \/ AddCollection \/ CalcAddresses
  <2>1. pc \in {"collected", "ordered"} /\ image' = image
    BY <1>2 DEF OrderSegments, AddCollection, CalcAddresses, lvars
  <2> QED BY <2>1 DEF ImagesInv, ImagesMatch
<1>3. CASE CreateCollectionImage
  <2>1. Addressed
    BY <1>3 DEF CreateCollectionImage, Addressed, Later
  <2>2. /\ image' = [s \in {t \in DOMAIN address : SectionOf(t) # "bss"} |->
                       Placed(InSection(SectionOf(s)), 0)[s]]
        /\ UNCHANGED <<names, address, start, size, segs, used>> /\ pc' \in {"imaged", "aborted"}
    BY <1>3 DEF CreateCollectionImage, segments
  <2>3. ASSUME NEW s \in DOMAIN image'
        PROVE  /\ image'[s] = address[s] - Base(SectionOf(s), start[SectionOf(s)])
               /\ image'[s] + segs[s].len <= size[SectionOf(s)]
    <3>1. s \in Laid /\ SectionOf(s) # "bss" /\ image'[s] = Placed(InSection(SectionOf(s)), 0)[s]
      BY <2>2, <2>3 DEF Laid
    <3> QED BY <2>1, <3>1, ImagePlaced
  <2>4. ASSUME NEW s
        PROVE  (address[s] - Base(SectionOf(s), start[SectionOf(s)]))' =
               address[s] - Base(SectionOf(s), start[SectionOf(s)])
    BY <2>2 DEF Base, SectionOf, Ndlls, UsedImports, Declared
  <2>5. ASSUME NEW s
        PROVE  (segs[s].len)' = segs[s].len /\ size[SectionOf(s)]' = size[SectionOf(s)]
    BY <2>2 DEF SectionOf
  <2>6. ImagesMatch'
    BY <2>3, <2>4, <2>5 DEF ImagesMatch
  <2> QED BY <2>2, <2>6 DEF ImagesInv, Early
<1>4. CASE ProcessFixups \/ SortFixups \/ UNCHANGED allLinkerVars
  <2>1. /\ UNCHANGED <<image, names, address, start, size, segs, used>>
        /\ pc' = pc \/ pc' \in {"processed", "linked", "aborted"}
    BY <1>4 DEF ProcessFixups, SortFixups, allLinkerVars, lvars, cvars, reading, roots, segments
  <2>2. ASSUME NEW s
        PROVE  (address[s] - Base(SectionOf(s), start[SectionOf(s)]))' =
               address[s] - Base(SectionOf(s), start[SectionOf(s)])
    BY <2>1 DEF Base, SectionOf, Ndlls, UsedImports, Declared
  <2>3. ASSUME NEW s
        PROVE  (segs[s].len)' = segs[s].len /\ size[SectionOf(s)]' = size[SectionOf(s)]
    BY <2>1 DEF SectionOf
  <2>4. ImagesMatch'
    BY <2>1, <2>2, <2>3 DEF ImagesInv, ImagesMatch
  <2> QED BY <2>1, <2>4 DEF ImagesInv, Early
<1> QED BY <1>1, <1>2, <1>3, <1>4 DEF LNext

\* The image of a section, which CreateCollectionImage lays out from 0, has every
\* segment where CalcAddresses put it (struct.cpp:1475-1481, 1526-1531).
THEOREM TextsStandAsAddressed == No16Bit /\ Aligned => (LSpec => []ImagesMatch)
<1> SUFFICES ASSUME No16Bit, Aligned PROVE LSpec => []ImagesMatch
  OBVIOUS
<1>1. LInv /\ FromFiles => PlainInv /\ AlignedInv
  BY PlainThen, AlignedThen
<1>2. LInit => ImagesInv
  BY ImagesBegin
<1>3. LInv /\ FromFiles /\ ImagesInv /\ [LNext]_allLinkerVars => ImagesInv'
  BY <1>1, ImagesStay
<1>4. ImagesInv => ImagesMatch
  BY DEF ImagesInv
<1> QED BY <1>2, <1>3, <1>4, FilesAlways, PTL DEF LSpec

-----------------------------------------------------------------------------
(* Names.  A fixup that names something comes to the segment and the offset  *)
(* that the name has in the end.                                             *)

\* As the object file has it: ref and addend record what a fixup refers to.
AsRecorded(f) == f.ref # NULL => f.tk = "id" /\ f.target = f.ref /\ f.off = f.addend
Recorded == \A r \in Offered : r.op \in {"fixup", "entry"} => AsRecorded(r.fixup)

\* As resolved: the segment and the offset are those of the name.
Refers(f) ==
  f.ref # NULL /\ f.tk = "seg" =>
    /\ f.ref \in Declared /\ names[f.ref].seg = f.target
    /\ f.off = f.addend + names[f.ref].off

\* A weak name falls back on itself; a common one is a segment of its own.
OwnNames ==
  \A n \in Declared : /\ names[n].kind = "weak" => names[n].arg = n
                      /\ names[n].kind = "common" => names[n].off = 0
FixupsAre(h) ==
  \A s \in DOMAIN h : \A j \in DOMAIN h[s] : h[s][j].tk \in {"id", "fwd"} => AsRecorded(h[s][j])
FixupsRefer ==
  \A s \in DOMAIN fixups : \A j \in DOMAIN fixups[s] : Refers(fixups[s][j])
FixupsAsRead ==
  \A s \in DOMAIN fixups : \A j \in DOMAIN fixups[s] : AsRecorded(fixups[s][j])

\* resolveFixupTarget's loop is at the name the fixup has, or has not begun.
LookupInv == lookup # NULL => ByName /\ lookup = Fx.target

ReferInv ==
  /\ pc = "reading" => lookup = NULL /\ FixupsAsRead
  /\ pc \in Early => OwnNames /\ LookupInv /\ FixupsAre(fixups)
  /\ pc \in Early \cup {"collected", "ordered"} => FixupsRefer

\* A place of h has the fixup that it had, or is new and has none.
Was(h, s, j) == s \in DOMAIN fixups /\ j \in DOMAIN fixups[s] /\ h[s][j] = fixups[s][j]

\* The readers add the fixups of their records.
Offers(g) == \E r \in Offered : r.op \in {"fixup", "entry"} /\ g = r.fixup

LEMMA ReadingAdds ==
  ASSUME FromFiles, TypeOK, Reading, NEW t \in DOMAIN fixups', NEW j \in DOMAIN fixups'[t]
  PROVE  Was(fixups', t, j) \/ Offers(fixups'[t][j])
<1>1. fixups \in [0..Len(segs) -> Seq(Fixup)] /\ DOMAIN fixups = 0..Len(segs)
  BY DEF TypeOK
<1>2. ASSUME NEW op \in {"fixup", "entry"}, Next1(op) PROVE Offers(Head(input).fixup)
  <2>1. Head(input) = input[1] /\ 1 \in DOMAIN input /\ Head(input).op = op
    BY <1>2 DEF Next1, TypeOK
  <2>2. Head(input) \in Offered
    BY <2>1 DEF FromFiles, ToSet
  <2> QED BY <2>1, <2>2 DEF Offers
<1>3. CASE addFixup
  <2>0. PICK f : f = Head(input).fixup
    OBVIOUS
  <2>1. PICK s \in DOMAIN fixups : /\ Offers(f) /\ f \in Fixup
                                   /\ fixups' = [fixups EXCEPT ![s] = Append(@, f)]
    <3>1. Next1("fixup") /\ Took /\ Head(input).seg \in Segments
      BY <1>3 DEF addFixup, Known1
    <3>2. Head(input).fixup \in Fixup
      BY <3>1, NextRecord, RecordTypes
    <3>3. Head(input).seg \in DOMAIN fixups
      BY <1>1, <3>1 DEF Segments, TypeOK
    <3> QED BY <1>2, <1>3, <2>0, <3>1, <3>2, <3>3 DEF addFixup
  <2>2. fixups'[t][j] = f \/ Was(fixups', t, j)
    <3>1. fixups[s] \in Seq(Fixup)
      BY <1>1, <2>1
    <3>2. CASE t = s
      <4>1. fixups'[t] = Append(fixups[s], f)
        BY <2>1, <3>2
      <4>2. j = Len(fixups[s]) + 1 \/ (j \in DOMAIN fixups[s] /\ fixups'[t][j] = fixups[s][j])
        BY <2>1, <3>1, <4>1, AppendProperties
      <4>3. Append(fixups[s], f)[Len(fixups[s]) + 1] = f
        BY <2>1, <3>1, AppendProperties
      <4> QED BY <2>1, <3>2, <4>1, <4>2, <4>3 DEF Was
    <3>3. CASE t # s
      BY <2>1, <3>3 DEF Was
    <3> QED BY <3>2, <3>3
  <2> QED BY <2>1, <2>2
<1>4. CASE setEntryPoint
  <2>1. fixups' = fixups \/ fixups' = [fixups EXCEPT ![0] = <<Head(input).fixup>>]
    BY <1>4 DEF setEntryPoint
  <2>2. Offers(Head(input).fixup)
    BY <1>2, <1>4 DEF setEntryPoint
  <2>3. fixups'[t][j] = Head(input).fixup \/ Was(fixups', t, j)
    BY <2>1 DEF Was
  <2> QED BY <2>2, <2>3
<1>5. CASE NewSegment
  <2>1. fixups' = Grown
    BY <1>5 DEF NewSegment
  <2> QED BY <2>1 DEF Grown, Was
<1>6. CASE fixups' = fixups
  BY <1>6 DEF Was
<1>7. addFixup \/ setEntryPoint \/ NewSegment \/ fixups' = fixups
  BY DEF Reading, NewFile, NewPublicName, NewCommonName, NewImportName, NewWeakName,
     NewExport, ReadingEnds
<1> QED BY <1>3, <1>4, <1>5, <1>6, <1>7

LEMMA ReadingFixups ==
  ASSUME Recorded, FromFiles, TypeOK, FixupsAsRead, Reading
  PROVE  FixupsAsRead'
<1>1. ASSUME NEW t \in DOMAIN fixups', NEW j \in DOMAIN fixups'[t]
      PROVE  AsRecorded(fixups'[t][j])
  <2>1. CASE Was(fixups', t, j)
    BY <2>1 DEF Was, FixupsAsRead
  <2>2. CASE Offers(fixups'[t][j])
    BY <2>2 DEF Offers, Recorded
  <2> QED BY <2>1, <2>2, ReadingAdds
<1> QED BY <1>1 DEF FixupsAsRead, AsRecorded

LEMMA ReadingNames ==
  ASSUME OwnNames, Reading PROVE OwnNames'
<1>1. ASSUME NEW n, NEW kind, NEW seg, NEW off, NEW arg, Declare(n, Info(kind, seg, off, arg)),
             kind = "weak" => arg = n, kind = "common" => off = 0
      PROVE  OwnNames'
  BY <1>1 DEF OwnNames, Declare, Declared, Info
<1>2. CASE names' = names
  BY <1>2 DEF OwnNames, Declared
<1>3. CASE NewPublicName
  BY <1>1, <1>2, <1>3 DEF NewPublicName
<1>4. CASE NewCommonName
  BY <1>1, <1>2, <1>4 DEF NewCommonName
<1>5. CASE NewImportName
  BY <1>1, <1>2, <1>5 DEF NewImportName
<1>6. CASE NewWeakName
  BY <1>1, <1>2, <1>6 DEF NewWeakName, ForwardName
<1>7. NewPublicName \/ NewCommonName \/ NewImportName \/ NewWeakName \/ names' = names
  BY DEF Reading, NewFile, NewSegment, addFixup, setEntryPoint, NewExport, ReadingEnds
<1> QED BY <1>2, <1>3, <1>4, <1>5, <1>6, <1>7

LEMMA ReadingRefers ==
  ASSUME Recorded, FromFiles, IInv, ReferInv, Reading PROVE ReferInv'
<1>1. pc = "reading" /\ pc' \in {"reading", "entry", "ended", "aborted"} /\ lookup' = lookup
  BY DEF Reading, NewFile, NewSegment, addFixup, setEntryPoint, NewPublicName, NewCommonName,
     NewImportName, NewWeakName, NewExport, ReadingEnds, Next1, marking
<1>2. lookup = NULL /\ FixupsAsRead /\ OwnNames
  BY <1>1 DEF ReferInv, Early
<1>3. FixupsAsRead' /\ OwnNames'
  BY <1>2, ReadingFixups, ReadingNames DEF IInv
<1>4. ASSUME NEW s \in DOMAIN fixups', NEW j \in DOMAIN fixups'[s]
      PROVE  AsRecorded(fixups'[s][j]) /\ Refers(fixups[s][j])'
  <2>1. AsRecorded(fixups'[s][j])
    BY <1>3 DEF FixupsAsRead, AsRecorded
  <2> QED BY <2>1 DEF AsRecorded, Refers
<1>5. (FixupsAre(fixups) /\ FixupsRefer)'
  BY <1>4 DEF FixupsAre, FixupsRefer, AsRecorded, Refers
<1> QED BY <1>1, <1>2, <1>3, <1>5 DEF ReferInv, LookupInv

\* Marking leaves what is known of names, but may give a segment to one without.
Filled ==
  /\ Declared' = Declared
  /\ \A n \in Declared : /\ names'[n].kind = names[n].kind /\ names'[n].off = names[n].off
                         /\ names'[n].arg = names[n].arg
                         /\ names[n].seg # NULL => names'[n].seg = names[n].seg

\* g is what resolveFixupTarget makes of the fixup at which it is.
Resolves(g) ==
  /\ AtFixup
  /\ \E tk \in TargetKind, t \in Name \cup Address, off \in Int :
       /\ g = Aimed(Fx, tk, t, off) /\ tk \notin {"id", "fwd"}
       /\ tk \in {"seg", "import"} \/ errors' # {}
       /\ \/ Fx.tk = "fwd"
          \/ /\ ByName
             /\ tk = "seg" => /\ Sought \in Declared /\ names'[Sought].seg = t
                              /\ off = names'[Sought].off
FixupsResolve ==
  \A s \in DOMAIN fixups' : \A j \in DOMAIN fixups'[s] :
    Was(fixups', s, j) \/ (s = Top.seg /\ j = Top.at /\ Resolves(fixups'[s][j]))

LEMMA RetargetAims ==
  ASSUME NEW g, NEW tk, NEW t, NEW off, NEW h, h = Retarget(g, tk, t, off),
         NEW s \in DOMAIN h, NEW j \in DOMAIN h[s]
  PROVE  \/ s \in DOMAIN g /\ j \in DOMAIN g[s] /\ h[s][j] = g[s][j]
         \/ s = Top.seg /\ j = Top.at /\ h[s][j] = Aimed(Fx, tk, t, off)
<1>1. PICK a, b, x : a = Top.seg /\ b = Top.at /\ x = Aimed(Fx, tk, t, off)
  OBVIOUS
<1>2. h = [g EXCEPT ![a] = [g[a] EXCEPT ![b] = x]]
  BY <1>1 DEF Retarget, Aimed
<1>3. s \in DOMAIN g /\ h[s] = IF s = a THEN [g[a] EXCEPT ![b] = x] ELSE g[s]
  BY <1>2
<1>4. CASE s = a
  BY <1>1, <1>3, <1>4
<1>5. CASE s # a
  BY <1>3, <1>5
<1> QED BY <1>4, <1>5

LEMMA AimedFields ==
  ASSUME NEW f \in Fixup, NEW tk \in TargetKind, NEW t \in Name \cup Address, NEW off \in Int,
         NEW g, g = Aimed(f, tk, t, off)
  PROVE  g.tk = tk /\ g.target = t /\ g.off = f.off + off /\ g.ref = f.ref /\ g.addend = f.addend
<1>1. f = [kind |-> f.kind, tk |-> f.tk, target |-> f.target, off |-> f.off,
           ref |-> f.ref, addend |-> f.addend]
  BY DEF Fixup
<1>2. g = [kind |-> f.kind, tk |-> tk, target |-> t, off |-> f.off + off,
           ref |-> f.ref, addend |-> f.addend]
  BY <1>1 DEF Aimed
<1> QED BY <1>2

\* Whatever step of marking resolves a fixup.
LEMMA RetargetResolves ==
  ASSUME AtFixup, NEW g, NEW tk \in TargetKind \ {"id", "fwd"}, NEW t \in Name \cup Address,
         NEW off \in Int, fixups' = Retarget(g, tk, t, off),
         tk \in {"seg", "import"} \/ errors' # {},
         \A s \in DOMAIN g : \A j \in DOMAIN g[s] : Was(g, s, j),
         \/ Fx.tk = "fwd"
         \/ ByName /\ (tk = "seg" => /\ Sought \in Declared /\ names'[Sought].seg = t
                                     /\ off = names'[Sought].off)
  PROVE  FixupsResolve
<1> SUFFICES ASSUME NEW s \in DOMAIN fixups', NEW j \in DOMAIN fixups'[s]
             PROVE  Was(fixups', s, j) \/ (s = Top.seg /\ j = Top.at /\ Resolves(fixups'[s][j]))
  BY DEF FixupsResolve
<1>1. PICK h : h = fixups'
  OBVIOUS
<1>2. \/ s \in DOMAIN g /\ j \in DOMAIN g[s] /\ h[s][j] = g[s][j]
      \/ s = Top.seg /\ j = Top.at /\ h[s][j] = Aimed(Fx, tk, t, off)
  BY <1>1, RetargetAims
<1>3. CASE s \in DOMAIN g /\ j \in DOMAIN g[s] /\ h[s][j] = g[s][j]
  BY <1>1, <1>3 DEF Was
<1>4. CASE s = Top.seg /\ j = Top.at /\ h[s][j] = Aimed(Fx, tk, t, off)
  <2>1. Resolves(h[s][j])
    BY <1>4 DEF Resolves
  <2> QED BY <1>1, <1>4, <2>1
<1> QED BY <1>2, <1>3, <1>4

LEMMA GrownWas ==
  \A s \in DOMAIN Grown : \A j \in DOMAIN Grown[s] : Was(Grown, s, j)
BY DEF Grown, Was

LEMMA CreateFills ==
  ASSUME TypeOK, NEW n \in Declared, names[n].kind = "common", names[n].seg = NULL,
         NEW fx, CreateSegment(n, fx)
  PROVE  Filled /\ names'[n].seg = Len(segs) + 1
<1>1. names' = [names EXCEPT ![n].seg = Len(segs) + 1]
  BY CreatedTypes
<1>2. ASSUME NEW m \in Declared
      PROVE  names[m] = Info(names[m].kind, names[m].seg, names[m].off, names[m].arg)
  BY DEF TypeOK
<1>3. PICK k : k = Len(segs) + 1
  OBVIOUS
<1>4. names'[n] = Info(names[n].kind, k, names[n].off, names[n].arg)
  BY <1>1, <1>2, <1>3 DEF Info, Declared
<1>5. \A m \in Declared : m # n => names'[m] = names[m]
  BY <1>1 DEF Declared
<1>6. Declared' = Declared
  BY <1>1 DEF Declared
<1>7. Filled
  BY <1>4, <1>5, <1>6 DEF Filled, Info
<1> QED BY <1>3, <1>4, <1>7 DEF Info

LEMMA StaysResolved == fixups' = fixups => FixupsResolve
BY DEF FixupsResolve, Was

LEMMA StaysFilled == names' = names => Filled
BY DEF Filled, Declared

\* A name collected for an export or a COFF import.
LEMMA NameCollected ==
  ASSUME TypeOK, NEW n, NEW rest, CollectName(n, rest)
  PROVE  Filled /\ FixupsResolve
<1>1. CASE names' = names /\ fixups' = fixups
  BY <1>1, StaysResolved, StaysFilled
<1>2. CASE n \in Declared /\ names[n].kind = "common" /\ names[n].seg = NULL /\ CreateSegment(n, Grown)
  <2>1. Filled
    BY <1>2, CreateFills
  <2>2. fixups' = Grown
    BY <1>2 DEF CreateSegment
  <2>3. FixupsResolve
    BY <2>2, GrownWas DEF FixupsResolve, Was
  <2> QED BY <2>1, <2>3
<1> QED BY <1>1, <1>2 DEF CollectName

LEMMA CollectingResolves ==
  ASSUME IInv, OwnNames, Collecting PROVE Filled /\ FixupsResolve
<1>0. TypeOK /\ DOMAIN fixups = 0..Len(segs)
  BY DEF IInv, TypeOK
<1> DEFINE Kept == names' = names /\ fixups' = fixups
<1>1. CASE ResolveForward
  <2>1. CASE fixups' = fixups
    BY <1>1, <2>1, StaysResolved, StaysFilled DEF ResolveForward
  <2> DEFINE later == {s \in InFile(segs[Top.seg].file) :
                         s > Top.seg /\ segs[s].name = Fx.target}
  <2>2. CASE later # {} /\ fixups' = Retarget(fixups, "seg", Least(later), 0)
    <3>1. AtFixup /\ Fx.tk = "fwd" /\ names' = names
      BY <1>1 DEF ResolveForward
    <3>2. later \in SUBSET Segments
      BY DEF InFile
    <3> HIDE DEF later
    <3>3. Least(later) \in Segments
      BY <1>0, <2>2, <3>2, FirstProperties
    <3>4. Least(later) \in Name \cup Address
      BY <1>0, <3>3 DEF Address, Segments, TypeOK
    <3>5. "seg" \in TargetKind \ {"id", "fwd"} /\ 0 \in Int
      BY DEF TargetKind
    <3>6. PICK t \in Name \cup Address : t = Least(later)
      BY <3>4
    <3>7. \A s \in DOMAIN fixups : \A j \in DOMAIN fixups[s] : Was(fixups, s, j)
      BY DEF Was
    <3>8. fixups' = Retarget(fixups, "seg", t, 0)
      BY <2>2, <3>6
    <3>9. FixupsResolve
      BY <3>1, <3>5, <3>7, <3>8, RetargetResolves
    <3> QED BY <3>1, <3>9, StaysFilled
  <2> QED BY <1>1, <2>1, <2>2 DEF ResolveForward
<1>2. ASSUME ByName, names' = names, NEW tk \in TargetKind \ {"id", "fwd"},
             NEW t \in Name \cup Address, NEW off \in Int,
             fixups' = Retarget(fixups, tk, t, off), tk \in {"seg", "import"} \/ errors' # {},
             tk = "seg" => Sought \in Declared /\ names[Sought].seg = t /\ off = names[Sought].off
      PROVE  Filled /\ FixupsResolve
  <2>1. AtFixup
    BY <1>2, SoughtTypes
  <2>2. \A s \in DOMAIN fixups : \A j \in DOMAIN fixups[s] : Was(fixups, s, j)
    BY DEF Was
  <2>3. tk = "seg" => Sought \in Declared /\ names'[Sought].seg = t /\ off = names'[Sought].off
    BY <1>2
  <2>4. FixupsResolve
    BY <1>2, <2>1, <2>2, <2>3, RetargetResolves
  <2> QED BY <1>2, <2>4, StaysFilled
<1>3. CASE ResolveUndefined
  <2>1. /\ ByName /\ names' = names /\ fixups' = Retarget(fixups, "invalid", NULL, 0)
        /\ NULL \in Name \cup Address /\ "invalid" \in TargetKind \ {"id", "fwd", "seg"} /\ 0 \in Int
        /\ errors' # {}
    BY <1>3 DEF ResolveUndefined, TargetKind, Address
  <2> QED BY <1>2, <2>1
<1>4. CASE ResolveDefined
  <2>1. /\ ByName /\ names' = names /\ Sought \in Declared
        /\ fixups' = Retarget(fixups, "seg", names[Sought].seg, names[Sought].off)
        /\ names[Sought].seg # NULL /\ "seg" \in TargetKind \ {"id", "fwd"}
    BY <1>4 DEF ResolveDefined, TargetKind
  <2>2. names[Sought].seg \in Name \cup Address /\ names[Sought].off \in Int
    BY <1>0, <2>1, SoughtTypes DEF Address, Segments, TypeOK
  <2> QED BY <1>2, <2>1, <2>2
<1>5. CASE ResolveImport
  <2>1. /\ ByName /\ names' = names /\ Sought \in Declared
        /\ fixups' = Retarget(fixups, "import", Sought, 0)
        /\ "import" \in TargetKind \ {"id", "fwd", "seg"} /\ 0 \in Int
    BY <1>5 DEF ResolveImport, Known, TargetKind
  <2>2. Sought \in Name \cup Address
    BY <2>1, SoughtTypes
  <2> QED BY <1>2, <2>1, <2>2
<1>6. CASE ResolveCommon
  <2>1. /\ ByName /\ AtFixup /\ Sought \in Declared /\ names[Sought].kind = "common"
        /\ names[Sought].seg = NULL
        /\ CreateSegment(Sought, Retarget(Grown, "seg", Len(segs) + 1, 0))
    BY <1>6, SoughtTypes DEF ResolveCommon, Known
  <2>2. Filled /\ names'[Sought].seg = Len(segs) + 1
    BY <1>0, <2>1, CreateFills
  <2>3. names'[Sought].off = 0
    BY <2>1, <2>2 DEF Filled, OwnNames
  <2>4. /\ Len(segs) + 1 \in Name \cup Address /\ "seg" \in TargetKind \ {"id", "fwd"}
        /\ 0 \in Int
    BY <1>0 DEF TypeOK, Address, TargetKind
  <2>5. fixups' = Retarget(Grown, "seg", Len(segs) + 1, 0)
    BY <2>1 DEF CreateSegment
  <2>6. PICK t \in Name \cup Address : t = Len(segs) + 1
    BY <2>4
  <2>7. fixups' = Retarget(Grown, "seg", t, 0) /\ names'[Sought].seg = t
    BY <2>2, <2>5, <2>6
  <2>8. FixupsResolve
    BY <2>1, <2>3, <2>4, <2>7, GrownWas, RetargetResolves
  <2> QED BY <2>2, <2>8
<1>7. CASE CollectExternal \/ ExportNext
  <2>1. Kept \/ \E n, rest : CollectName(n, rest)
    BY <1>7, Zenon DEF CollectExternal, ExportNext
  <2> QED BY <1>0, <2>1, NameCollected, StaysResolved, StaysFilled
<1>8. CASE Kept
  BY <1>8, StaysResolved, StaysFilled
<1>9. \/ Kept \/ ResolveForward \/ ResolveUndefined \/ ResolveDefined \/ ResolveCommon
      \/ ResolveImport \/ CollectExternal \/ ExportNext
  BY DEF Collecting, ResolveWeak, ResolveAbsolute, CollectFixup, CollectDescriptor,
     CollectAddresses, Return, EntryFirst, ExportsEnd, AllNextFile, AllNextSegment,
     AllPassEnds, kept
<1> QED BY <1>1, <1>3, <1>4, <1>5, <1>6, <1>7, <1>8, <1>9

LEMMA LookupGoesOn ==
  ASSUME IInv, OwnNames, LookupInv, Collecting
  PROVE  pc' = "aborted" \/ LookupInv'
<1>1. CASE ByName
  <2>1. AtFixup /\ Fx.kind \notin Special /\ Fx.tk = "id" /\ Running /\ Top.at <= Places /\ stack # <<>>
    BY <1>1 DEF ByName, AtFixup, Running
  <2>2. Sought = Fx.target
    BY DEF Sought, LookupInv
  <2>3. CASE ResolveWeak
    <3>1. Sought \in Declared /\ names[Sought].kind = "weak" /\ lookup' = names[Sought].arg
      BY <2>3 DEF ResolveWeak, Known
    <3>2. lookup' = Fx.target
      BY <2>2, <3>1 DEF OwnNames
    <3>3. UNCHANGED <<pc, fixups, stack>>
      BY <2>3 DEF ResolveWeak, Steady
    <3>4. ByName' /\ Fx' = Fx
      BY <1>1, <3>3 DEF ByName, AtFixup, Running, Top, Places, Fx
    <3> QED BY <3>2, <3>4 DEF LookupInv
  <2>4. CASE ResolveUndefined \/ ResolveDefined \/ ResolveCommon \/ ResolveImport
    BY <2>4 DEF ResolveUndefined, ResolveDefined, ResolveCommon, ResolveImport, LookupInv
  <2>5. CASE ResolveAbsolute
    BY <2>5 DEF ResolveAbsolute
  <2>6. ~ResolveForward /\ ~CollectFixup
    BY <2>1 DEF ResolveForward, CollectFixup
  <2>7. \A k \in {1, 2, 3} : ~Past(k)
    <3>1. Places \in Nat /\ Top.at \in Nat
      BY <2>1, RunningIsMarking, TopProperties
    <3> QED BY <2>1, <3>1 DEF Past
  <2>8. ~CollectDescriptor /\ ~CollectExternal /\ ~CollectAddresses
    BY <2>7 DEF CollectDescriptor, CollectExternal, CollectAddresses
  <2>9. ~Return
    <3>1. Places \in Nat /\ Top.at \in Nat
      BY <2>1, RunningIsMarking, TopProperties
    <3> QED BY <2>1, <3>1 DEF Return
  <2>10. ~EntryFirst /\ ~ExportNext /\ ~ExportsEnd /\ ~AllNextFile /\ ~AllNextSegment /\ ~AllPassEnds
    BY <2>1 DEF EntryFirst, ExportNext, ExportsEnd, AllNextFile, AllNextSegment, AllPassEnds, Idle
  <2> QED BY <2>3, <2>4, <2>5, <2>6, <2>8, <2>9, <2>10 DEF Collecting
<1>2. CASE ~ByName
  <2>1. lookup = NULL
    BY <1>2 DEF LookupInv
  <2>2. lookup' = lookup
    BY <1>2 DEF Collecting, ResolveForward, ResolveUndefined, ResolveDefined, ResolveCommon,
       ResolveWeak, ResolveImport, ResolveAbsolute, CollectFixup, CollectDescriptor,
       CollectExternal, CollectAddresses, Return, EntryFirst, ExportNext, ExportsEnd,
       AllNextFile, AllNextSegment, AllPassEnds
  <2> QED BY <2>1, <2>2 DEF LookupInv
<1> QED BY <1>1, <1>2

LEMMA CollectingRefers ==
  ASSUME IInv, ReferInv, Collecting PROVE ReferInv'
<1>1. /\ pc \in Early \ {"reading"} /\ pc' \in {"entry", "exports", "all", "collected", "aborted"}
  BY DEF Collecting, ResolveForward, ResolveUndefined, ResolveDefined, ResolveCommon,
     ResolveWeak, ResolveImport, ResolveAbsolute, CollectFixup, CollectDescriptor,
     CollectExternal, CollectAddresses, Return, EntryFirst, ExportNext, ExportsEnd,
     AllNextFile, AllNextSegment, AllPassEnds, Idle, Past, AtFixup, Running, ByName, Steady, Early
<1>2. /\ OwnNames /\ LookupInv /\ FixupsAre(fixups) /\ FixupsRefer
      /\ TypeOK /\ Pointers
  BY <1>1 DEF ReferInv, IInv
<1>3. Filled /\ FixupsResolve
  BY <1>2, CollectingResolves
<1>4. OwnNames'
  BY <1>2, <1>3 DEF Filled, OwnNames
<1>5. ASSUME NEW s \in DOMAIN fixups', NEW j \in DOMAIN fixups'[s]
      PROVE  /\ fixups'[s][j].tk \in {"id", "fwd"} => AsRecorded(fixups'[s][j])
             /\ Refers(fixups[s][j])'
  <2>1. PICK g : g = fixups'[s][j]
    OBVIOUS
  <2>2. CASE Was(fixups', s, j)
    <3>1. s \in DOMAIN fixups /\ j \in DOMAIN fixups[s] /\ g = fixups[s][j]
      BY <2>1, <2>2 DEF Was
    <3>2. /\ g.tk \in {"id", "fwd"} => AsRecorded(g)
          /\ Refers(g) /\ Pointed(g)
      <4>1. s \in 0..Len(segs)
        BY <1>2, <3>1 DEF TypeOK
      <4> QED BY <1>2, <3>1, <4>1 DEF FixupsAre, FixupsRefer, Pointers
    <3>3. g.tk = "seg" => g.target # NULL
      BY <1>2, <3>2, CollectAssumption DEF Pointed, Known1, Segments, TypeOK
    <3>4. ASSUME g.ref # NULL, g.tk = "seg"
          PROVE  g.ref \in Declared' /\ names'[g.ref].seg = g.target /\ g.off = g.addend + names'[g.ref].off
      BY <1>3, <3>2, <3>3, <3>4 DEF Refers, Filled
    <3> QED BY <2>1, <3>2, <3>4 DEF Refers
  <2>3. CASE Resolves(g)
    <3>1. PICK tk \in TargetKind, t \in Name \cup Address, off \in Int :
            /\ g = Aimed(Fx, tk, t, off) /\ tk \notin {"id", "fwd"}
            /\ \/ Fx.tk = "fwd"
               \/ /\ ByName
                  /\ tk = "seg" => /\ Sought \in Declared /\ names'[Sought].seg = t
                                   /\ off = names'[Sought].off
      BY <2>3 DEF Resolves
    <3>2. /\ Fx \in Fixup /\ Top.seg \in DOMAIN fixups /\ Top.at \in DOMAIN fixups[Top.seg]
          /\ Fx = fixups[Top.seg][Top.at]
      <4>1. Top.at \in DOMAIN fixups[Top.seg] /\ Fx \in Fixup /\ Top.seg \in 0..Len(segs)
        BY <2>3, PlaceProperties DEF Resolves
      <4> QED BY <1>2, <4>1 DEF TypeOK, Fx
    <3>3. /\ g.tk = tk /\ g.target = t /\ g.off = Fx.off + off /\ g.ref = Fx.ref
          /\ g.addend = Fx.addend
      BY <3>1, <3>2, AimedFields
    <3>4. Fx.tk \in {"id", "fwd"} => AsRecorded(Fx)
      BY <1>2, <3>2 DEF FixupsAre
    <3>5. ASSUME g.ref # NULL, g.tk = "seg"
          PROVE  g.ref \in Declared' /\ names'[g.ref].seg = g.target /\ g.off = g.addend + names'[g.ref].off
      <4>1. Fx.tk \in {"id", "fwd"}
        BY <3>1 DEF ByName
      <4>2. Fx.tk = "id" /\ Fx.target = g.ref /\ Fx.off = g.addend
        BY <3>3, <3>4, <3>5, <4>1 DEF AsRecorded
      <4>3. /\ ByName /\ Sought \in Declared /\ names'[Sought].seg = t
            /\ off = names'[Sought].off
        BY <3>1, <3>3, <3>5, <4>2
      <4>4. Sought = g.ref
        BY <1>2, <4>2 DEF Sought, LookupInv
      <4> QED BY <1>3, <3>3, <4>2, <4>3, <4>4 DEF Filled
    <3>6. g.tk \notin {"id", "fwd"}
      BY <3>1, <3>3
    <3> QED BY <2>1, <3>5, <3>6 DEF Refers
  <2> QED BY <1>3, <2>1, <2>2, <2>3 DEF FixupsResolve
<1>6. FixupsAre(fixups)' /\ FixupsRefer'
  BY <1>5 DEF FixupsAre, FixupsRefer, AsRecorded
<1>7. pc' = "aborted" \/ LookupInv'
  BY <1>2, LookupGoesOn
<1> QED BY <1>1, <1>4, <1>6, <1>7 DEF ReferInv, Early

\* Once the linker is through with marking and with addresses.
MarkedClosed ==
  \A s \in marked : \A j \in DOMAIN fixups[s] :
    fixups[s][j].kind \notin Special /\ fixups[s][j].tk = "seg" => fixups[s][j].target \in marked
Located(f) ==
  f.ref # NULL /\ f.tk = "seg" =>
    /\ f.ref \in Declared /\ names[f.ref].seg = f.target
    /\ f.target \in Laid => f.off + address[f.target] = f.addend + names[f.ref].off
FixupsLocated ==
  \A s \in DOMAIN fixups : \A j \in DOMAIN fixups[s] : Located(fixups[s][j])

\* ProcessFixups has come to this many sections, and stores addresses.
ImagedTo(k) == {Imaged[i] : i \in 1..k}
StoredAt(p) ==
  /\ p[1] \in marked \ {0} /\ p[2] \in Ordinary(p[1])
  /\ LET f == fixups[p[1]][p[2]] IN
     f.kind = "address32" /\ f.tk = "seg" => stored[p] = f.off + address[f.target]
NotStored == DOMAIN stored = {} /\ imaged = {}

NamedInv ==
  /\ pc \in Later => MarkedClosed
  /\ pc \in Later \ {"ordered"} => FixupsLocated
  /\ pc \in Early \cup {"collected", "ordered", "addressed"} => NotStored
  /\ pc = "imaged" => \E k \in 0..4 : imaged = ImagedTo(k)
  /\ \A p \in DOMAIN stored : StoredAt(p)

AddressesAreNumbers == pc \in Later \ {"ordered"} => \A s \in Laid : address[s] \in Nat

LEMMA NumbersThen == LInv => AddressesAreNumbers
<1> SUFFICES ASSUME LInv, pc \in Later \ {"ordered"}, NEW s \in Laid PROVE address[s] \in Nat
  BY DEF AddressesAreNumbers
<1>1. FrontInv /\ CollectionsInv /\ LaidUpTo(6)
  BY DEF LInv, AddressesInv
<1>2. PICK x \in SectionSet : s \in ToSet(InSection(x))
  BY <1>1, SectionNumbers DEF LaidUpTo, Laid
<1>3. PlacedAs(x, start[x], size[x], address)
  BY <1>1, <1>2, SectionNumbers DEF LaidUpTo
<1> QED BY <1>1, <1>2, <1>3, AddressNumbers

LEMMA ImagedNumbers ==
  /\ ImagedTo(0) = {}
  /\ \A k \in 0..4 : /\ Imaged[k + 1] \in SectionSet /\ ImagedTo(k + 1) = ImagedTo(k) \cup {Imaged[k + 1]}
                     /\ Imaged[k + 1] \notin ImagedTo(k)
                     /\ Cardinality(ImagedTo(k)) = k /\ (Imaged[k + 1] = "idata" <=> k = 4)
                     /\ Imaged[k + 1] = "code16" <=> k = 1
<1>1. /\ Imaged[1] = "code" /\ Imaged[2] = "code16" /\ Imaged[3] = "data"
      /\ Imaged[4] = "const" /\ Imaged[5] = "idata"
  BY DEF Imaged
<1>2. \A i \in 1..5 : i = 1 \/ i = 2 \/ i = 3 \/ i = 4 \/ i = 5
  OBVIOUS
<1>3. \A i, j \in 1..5 : Imaged[i] = Imaged[j] => i = j
  BY <1>1, <1>2
<1>4. ImagedTo(0) = {}
  BY DEF ImagedTo
<1>5. ASSUME NEW k \in 0..4
      PROVE  Imaged[k + 1] \notin ImagedTo(k) /\ ImagedTo(k + 1) = ImagedTo(k) \cup {Imaged[k + 1]}
  <2>1. 1..(k + 1) = (1..k) \cup {k + 1} /\ k + 1 \in 1..5 /\ 1..k \subseteq 1..5 /\ k + 1 \notin 1..k
    OBVIOUS
  <2> QED BY <1>3, <2>1 DEF ImagedTo
<1> DEFINE T == {k \in 0..5 : IsFiniteSet(ImagedTo(k)) /\ Cardinality(ImagedTo(k)) = k}
<1>6. 0..5 \subseteq T
  <2>1. 0 \in T
    BY <1>4, FS_EmptySet
  <2>2. ASSUME NEW k \in 1..5, k - 1 \in T PROVE k \in T
    <3>1. k - 1 \in 0..4 /\ (k - 1) + 1 = k
      OBVIOUS
    <3>2. Imaged[k] \notin ImagedTo(k - 1) /\ ImagedTo(k) = ImagedTo(k - 1) \cup {Imaged[k]}
      BY <1>5, <3>1
    <3>3. IsFiniteSet(ImagedTo(k - 1)) /\ Cardinality(ImagedTo(k - 1)) = k - 1
      BY <2>2
    <3>4. IsFiniteSet(ImagedTo(k)) /\ Cardinality(ImagedTo(k)) = (k - 1) + 1
      BY <3>2, <3>3, FS_AddElement
    <3> QED BY <3>1, <3>4
  <2> HIDE DEF T
  <2> QED BY <2>1, <2>2, UpTo
<1>7. ASSUME NEW k \in 0..4
      PROVE  /\ Imaged[k + 1] \in SectionSet /\ (Imaged[k + 1] = "idata" <=> k = 4)
             /\ Imaged[k + 1] = "code16" <=> k = 1
  <2>1. k + 1 \in 1..5
    OBVIOUS
  <2>2. Imaged[k + 1] \in SectionSet
    BY <1>1, <1>2, <2>1, SectionNames
  <2>3. k = 0 \/ k = 1 \/ k = 2 \/ k = 3 \/ k = 4
    OBVIOUS
  <2> QED BY <1>1, <2>2, <2>3
<1> QED BY <1>4, <1>5, <1>6, <1>7

\* CalcAddresses' last step gives names the addresses of their segments.
LEMMA NamesMoved ==
  ASSUME TypeOK, FixupsRefer, UNCHANGED <<fixups, segs>>, \A s \in DOMAIN address' : address'[s] \in Nat,
         names' = [n \in Declared |->
                     IF names[n].seg \in DOMAIN address'
                     THEN [names[n] EXCEPT !.off = @ + address'[names[n].seg]] ELSE names[n]]
  PROVE  FixupsLocated'
<1> SUFFICES ASSUME NEW s \in DOMAIN fixups, NEW j \in DOMAIN fixups[s] PROVE Located(fixups[s][j])'
  BY DEF FixupsLocated
<1>1. PICK f : f = fixups[s][j]
  OBVIOUS
<1>2. f \in Fixup /\ f.off \in Int /\ f.addend \in Int
  <2>1. f \in Fixup
    BY <1>1 DEF TypeOK
  <2> QED BY <2>1 DEF Fixup
<1>3. ASSUME f.ref # NULL, f.tk = "seg"
      PROVE  /\ f.ref \in Declared' /\ names'[f.ref].seg = f.target
             /\ f.target \in DOMAIN address' => f.off + address'[f.target] = f.addend + names'[f.ref].off
  <2>1. PICK n : n = f.ref /\ n \in Declared /\ names[n].seg = f.target /\ f.off = f.addend + names[n].off
    BY <1>1, <1>3 DEF FixupsRefer, Refers
  <2>2. names[n] = Info(names[n].kind, names[n].seg, names[n].off, names[n].arg) /\ names[n].off \in Int
    BY <2>1 DEF TypeOK
  <2>3. CASE names[n].seg \in DOMAIN address'
    <3>1. PICK a \in Nat : a = address'[names[n].seg]
      BY <2>3
    <3>2. names'[n] = [names[n] EXCEPT !.off = names[n].off + a]
      BY <2>1, <2>3, <3>1
    <3>3. names'[n] = Info(names[n].kind, names[n].seg, names[n].off + a, names[n].arg)
      BY <2>2, <3>2 DEF Info
    <3>4. names'[n].seg = names[n].seg /\ names'[n].off = names[n].off + a
      BY <3>3 DEF Info
    <3>5. f.off + a = f.addend + (names[n].off + a)
      BY <1>2, <2>1, <2>2
    <3> QED BY <2>1, <3>1, <3>4, <3>5 DEF Declared
  <2>4. CASE names[n].seg \notin DOMAIN address'
    BY <2>1, <2>4 DEF Declared
  <2> QED BY <2>3, <2>4
<1> QED BY <1>1, <1>3 DEF Located, Laid

LEMMA NothingStored == NotStored => \A p \in DOMAIN stored : StoredAt(p)
BY DEF NotStored

LEMMA NamesBegin == LInit => ReferInv /\ NamedInv
<1> SUFFICES ASSUME LInit PROVE ReferInv /\ NamedInv
  OBVIOUS
<1>1. /\ pc = "reading" /\ lookup = NULL /\ Declared = {} /\ fixups = [s \in {0} |-> <<>>]
      /\ NotStored
  BY DEF LInit, Init, Empty, NotStored, Declared
<1>2. \A s \in DOMAIN fixups : DOMAIN fixups[s] = {}
  BY <1>1
<1> QED BY <1>1, <1>2, NothingStored DEF ReferInv, NamedInv, FixupsAsRead, FixupsAre, FixupsRefer,
      OwnNames, LookupInv, Later

\* What a step that leaves names and fixups alone keeps.
LEMMA NamesStayed ==
  ASSUME UNCHANGED <<fixups, names, address, marked>>
  PROVE  /\ FixupsRefer => FixupsRefer'
         /\ MarkedClosed => MarkedClosed'
         /\ FixupsLocated => FixupsLocated'
         /\ stored' = stored => \A p : StoredAt(p) => StoredAt(p)'
<1>1. FixupsRefer => FixupsRefer'
  BY DEF FixupsRefer, Refers, Declared
<1>2. MarkedClosed => MarkedClosed'
  BY DEF MarkedClosed
<1>3. FixupsLocated => FixupsLocated'
  BY DEF FixupsLocated, Located, Laid, Declared
<1>4. stored' = stored => \A p : StoredAt(p) => StoredAt(p)'
  BY DEF StoredAt, Ordinary
<1> QED BY <1>1, <1>2, <1>3, <1>4

LEMMA ProcessingKeeps ==
  ASSUME LInv, PlainInv, NamedInv, ProcessFixups PROVE NamedInv'
<1>1. /\ pc = "imaged" /\ pc' \in {"imaged", "processed"}
      /\ UNCHANGED <<fixups, names, address, marked>>
  BY DEF ProcessFixups, segments
<1>2. MarkedClosed /\ FixupsLocated /\ \A p \in DOMAIN stored : StoredAt(p)
  BY <1>1 DEF NamedInv, Later
<1>3. MarkedClosed' /\ FixupsLocated'
  BY <1>1, <1>2, NamesStayed
<1>4. PICK k \in 0..4 : imaged = ImagedTo(k)
  BY <1>1 DEF NamedInv
<1>5. PICK x : x = Imaged[k + 1] /\ x \in SectionSet
  BY ImagedNumbers
<1>6. x = Imaged[Cardinality(imaged) + 1] /\ imaged' = ImagedTo(k + 1)
  <2>1. Cardinality(imaged) = k /\ ImagedTo(k + 1) = ImagedTo(k) \cup {Imaged[k + 1]}
    BY <1>4, ImagedNumbers
  <2>2. x = Imaged[Cardinality(imaged) + 1]
    BY <1>5, <2>1
  <2> QED BY <1>4, <1>5, <2>1, <2>2 DEF ProcessFixups
<1>7. pc' = "imaged" => \E i \in 0..4 : imaged' = ImagedTo(i)
  <2>1. pc' = IF x = "idata" THEN "processed" ELSE pc
    BY <1>6 DEF ProcessFixups
  <2>2. pc' = "imaged" => k # 4
    BY <1>5, <2>1, ImagedNumbers
  <2>3. k # 4 => k + 1 \in 0..4
    OBVIOUS
  <2> QED BY <1>6, <2>2, <2>3
<1> DEFINE new == UNION {{<<s, j>> : j \in Ordinary(s)} : s \in ToSet(InSection(x))}
<1>8. stored' = Extended(stored, [p \in new |-> Value(p[1], p[2])])
  BY <1>6 DEF ProcessFixups
<1>9. ASSUME NEW p \in new
      PROVE  /\ p[1] \in marked \ {0} /\ p[2] \in Ordinary(p[1])
             /\ LET f == fixups[p[1]][p[2]] IN
                f.kind = "address32" /\ f.tk = "seg" => Value(p[1], p[2]) = f.off + address[f.target]
  <2>0. PICK s \in ToSet(InSection(x)) : p \in {<<s, j>> : j \in Ordinary(s)}
    OBVIOUS
  <2>1. PICK j \in Ordinary(s) : p = <<s, j>>
    BY <2>0
  <2>2. CollectionsInv /\ TypeOK /\ Pointers
    BY DEF LInv, FrontInv, ReachInv, IInv
  <2>3. s \in marked \ {0}
    BY <1>5, <2>2, SectionListed DEF Members
  <2>4. s \in 0..Len(segs) /\ j \in DOMAIN fixups[s]
    BY <2>2, <2>3 DEF TypeOK, Ordinary
  <2>5. PICK f : f = fixups[s][j]
    OBVIOUS
  <2>6. ASSUME f.kind = "address32", f.tk = "seg" PROVE Value(s, j) = f.off + address[f.target]
    <3>1. f.target \in Segments
      BY <2>2, <2>4, <2>5, <2>6 DEF Pointers, Pointed, Known1
    <3>2. segs[f.target].clazz # "code16"
      BY <3>1 DEF PlainInv
    <3>3. Value(s, j) = Target(f)
      BY <2>5, <2>6 DEF Value
    <3>4. Target(f) = f.off + address[f.target]
      BY <2>6, <3>2 DEF Target
    <3> QED BY <3>3, <3>4
  <2>7. p[1] = s /\ p[2] = j
    BY <2>1
  <2> QED BY <2>1, <2>3, <2>5, <2>6, <2>7
<1>10. ASSUME NEW p \in DOMAIN stored' PROVE StoredAt(p)'
  <2> HIDE DEF new
  <2>1. /\ DOMAIN stored' = DOMAIN stored \cup new
        /\ stored'[p] = IF p \in new THEN Value(p[1], p[2]) ELSE stored[p]
    BY <1>8 DEF Extended
  <2>2. CASE p \in new
    <3>1. stored'[p] = Value(p[1], p[2])
      BY <2>1, <2>2
    <3> QED BY <1>1, <1>9, <2>2, <3>1 DEF StoredAt, Ordinary
  <2>3. CASE p \notin new
    <3>1. StoredAt(p) /\ stored'[p] = stored[p]
      BY <1>2, <2>1, <2>3
    <3> QED BY <1>1, <3>1 DEF StoredAt, Ordinary
  <2> QED BY <2>2, <2>3
<1> QED BY <1>1, <1>3, <1>7, <1>10 DEF NamedInv, Early

LEMMA NamesKept ==
  ASSUME Recorded, LInv, FromFiles, PlainInv, AddressesAreNumbers', ReferInv, NamedInv,
         [LNext]_allLinkerVars
  PROVE  ReferInv' /\ NamedInv'
<1>0. IInv
  BY DEF LInv, FrontInv, ReachInv
<1>1. CASE CollectNext /\ UNCHANGED lvars
  <2>1. pc \in Early /\ pc' \in Early \cup {"collected", "ended", "aborted"}
    BY <1>1, FrontOnly
  <2>2. ReferInv'
    BY <1>0, <1>1, ReadingRefers, CollectingRefers DEF CollectNext
  <2>3. NotStored'
    BY <1>1, <2>1 DEF NamedInv, NotStored, lvars
  <2>4. \A p \in DOMAIN stored' : StoredAt(p)'
    BY <2>3 DEF NotStored
  <2> QED BY <2>1, <2>2, <2>3, <2>4 DEF NamedInv, Early, Later
<1>2. CASE OrderSegments \/ AddCollection
  <2>1. /\ pc = "collected" /\ pc' \in {"collected", "ordered", "ended"}
        /\ UNCHANGED <<fixups, names, address, marked>> /\ UNCHANGED <<stored, imaged>>
    BY <1>2 DEF OrderSegments, AddCollection, lvars, segments
  <2>2. Closed
    BY <1>0, ClosedThen
  <2>3. MarkedClosed
    <3>1. ASSUME NEW s \in marked, NEW j \in DOMAIN fixups[s],
                 fixups[s][j].kind \notin Special, fixups[s][j].tk = "seg"
          PROVE  fixups[s][j].target \in marked
      <4>1. Leads(fixups[s][j]) \subseteq marked
        BY <2>1, <2>2 DEF Closed
      <4>2. Leads(fixups[s][j]) = {fixups[s][j].target}
        BY <3>1 DEF Leads, Special
      <4> QED BY <4>1, <4>2
    <3> QED BY <3>1 DEF MarkedClosed
  <2>4. FixupsRefer /\ NotStored
    BY <2>1 DEF ReferInv, NamedInv
  <2>5. FixupsRefer' /\ MarkedClosed' /\ NotStored'
    BY <2>1, <2>3, <2>4, NamesStayed DEF NotStored
  <2>6. \A p \in DOMAIN stored' : StoredAt(p)'
    BY <2>5 DEF NotStored
  <2> QED BY <2>1, <2>5, <2>6 DEF ReferInv, NamedInv, Early, Later
<1>3. CASE CalcAddresses
  <2>1. /\ pc = "ordered" /\ pc' \in {"ordered", "aborted", "addressed"}
        /\ UNCHANGED <<fixups, segs, marked>> /\ UNCHANGED <<stored, imaged>>
    BY <1>3 DEF CalcAddresses, segments
  <2>2. MarkedClosed /\ FixupsRefer /\ NotStored
    BY <2>1 DEF ReferInv, NamedInv, Later
  <2>3. MarkedClosed' /\ NotStored' /\ \A p \in DOMAIN stored' : StoredAt(p)'
    BY <2>1, <2>2 DEF MarkedClosed, NotStored
  <2>4. pc' = "ordered" => FixupsRefer'
    <3>1. pc' = "ordered" => names' = names
      BY <1>3 DEF CalcAddresses
    <3> QED BY <2>1, <2>2, <3>1 DEF FixupsRefer, Refers, Declared
  <2>5. pc' = "addressed" => FixupsLocated'
    <3> SUFFICES ASSUME pc' = "addressed" PROVE FixupsLocated'
      OBVIOUS
    <3>1. names' = [n \in Declared |->
                     IF names[n].seg \in DOMAIN address'
                     THEN [names[n] EXCEPT !.off = @ + address'[names[n].seg]] ELSE names[n]]
      BY <1>3, <2>1 DEF CalcAddresses
    <3>2. \A s \in DOMAIN address' : address'[s] \in Nat
      BY DEF AddressesAreNumbers, Later, Laid
    <3>3. TypeOK
      BY <1>0 DEF IInv
    <3> QED BY <2>1, <2>2, <3>1, <3>2, <3>3, NamesMoved
  <2> QED BY <2>1, <2>3, <2>4, <2>5 DEF ReferInv, NamedInv, Early, Later
<1>4. CASE CreateCollectionImage \/ SortFixups
  <2>1. /\ pc \in {"addressed", "processed"} /\ pc' \in {"imaged", "linked", "aborted"}
        /\ UNCHANGED <<fixups, names, address, marked>> /\ UNCHANGED <<stored, imaged>>
        /\ pc' = "imaged" => pc = "addressed"
    BY <1>4 DEF CreateCollectionImage, SortFixups, segments
  <2>2. MarkedClosed /\ FixupsLocated /\ \A p \in DOMAIN stored : StoredAt(p)
    BY <2>1 DEF NamedInv, Later
  <2>3. MarkedClosed' /\ FixupsLocated' /\ \A p \in DOMAIN stored' : StoredAt(p)'
    BY <2>1, <2>2, NamesStayed
  <2>4. pc' = "imaged" => \E k \in 0..4 : imaged' = ImagedTo(k)
    <3> SUFFICES ASSUME pc' = "imaged" PROVE \E k \in 0..4 : imaged' = ImagedTo(k)
      OBVIOUS
    <3>1. NotStored
      BY <2>1 DEF NamedInv
    <3>2. imaged' = ImagedTo(0)
      BY <2>1, <3>1, ImagedNumbers DEF NotStored
    <3> QED BY <3>2
  <2> QED BY <2>1, <2>3, <2>4 DEF ReferInv, NamedInv, Early
<1>5. CASE ProcessFixups
  <2>1. NamedInv'
    BY <1>5, ProcessingKeeps
  <2>2. pc' \in {"imaged", "processed"}
    BY <1>5 DEF ProcessFixups
  <2> QED BY <2>1, <2>2 DEF ReferInv, Early
<1>6. CASE UNCHANGED allLinkerVars
  <2>1. /\ UNCHANGED <<fixups, names, address, marked>> /\ UNCHANGED <<stored, imaged>>
        /\ UNCHANGED <<pc, lookup, stack>>
    BY <1>6 DEF allLinkerVars, cvars, lvars
  <2>2. ReferInv'
    BY <2>1 DEF ReferInv, FixupsAsRead, OwnNames, LookupInv, FixupsAre, FixupsRefer, Refers,
       Declared, ByName, AtFixup, Running, Top, Places, Fx
  <2>3. NamedInv'
    BY <2>1, NamesStayed DEF NamedInv, NotStored
  <2> QED BY <2>2, <2>3
<1> QED BY <1>1, <1>2, <1>3, <1>4, <1>5, <1>6 DEF LNext

LEMMA NamesAgreeThen ==
  ASSUME LInv, PlainInv, NamedInv PROVE NamesAgree
<1> SUFFICES ASSUME pc = "linked", NEW p \in DOMAIN stored, NEW f, f = fixups[p[1]][p[2]],
                    f.ref \in Declared, f.kind = "address32", f.tk = "seg"
             PROVE  stored[p] = names[f.ref].off + f.addend
  BY DEF NamesAgree
<1>1. MarkedClosed /\ FixupsLocated /\ StoredAt(p)
  BY DEF NamedInv, Later
<1>2. TypeOK /\ Pointers
  BY DEF LInv, FrontInv, ReachInv, IInv
<1>3. p[1] \in marked /\ p[1] \in DOMAIN fixups /\ p[2] \in DOMAIN fixups[p[1]] /\ p[1] \in 0..Len(segs)
  BY <1>1, <1>2 DEF StoredAt, Ordinary, TypeOK
<1>4. stored[p] = f.off + address[f.target]
  BY <1>1 DEF StoredAt
<1>5. f.target \in Laid
  <2>1. f.target \in marked
    BY <1>1, <1>3 DEF MarkedClosed, Special
  <2>2. f.target \in Segments
    BY <1>2, <1>3 DEF Pointers, Pointed, Known1
  <2>3. f.target # 0
    BY <1>2, <2>2 DEF Segments, TypeOK
  <2>4. Addressed
    BY DEF Addressed, Later
  <2> QED BY <2>1, <2>3, <2>4, LaidIsMarked
<1>6. f.ref # NULL
  BY <1>2, CollectAssumption DEF TypeOK
<1>7. f.off + address[f.target] = f.addend + names[f.ref].off
  BY <1>1, <1>3, <1>5, <1>6 DEF FixupsLocated, Located
<1>8. f \in Fixup /\ f.addend \in Int /\ names[f.ref].off \in Int
  <2>1. f \in Fixup
    BY <1>2, <1>3 DEF TypeOK
  <2> QED BY <1>2, <2>1 DEF TypeOK, Fixup
<1> QED BY <1>4, <1>7, <1>8

\* A fixup to a name stores the address that the name has in the end, however the
\* name was declared and whenever it was resolved (struct.cpp:330-393, 1395-1409,
\* 1626-1700).
THEOREM NamesMeanOnePlace == No16Bit /\ Recorded => (LSpec => []NamesAgree)
<1> SUFFICES ASSUME No16Bit, Recorded PROVE LSpec => []NamesAgree
  OBVIOUS
<1>1. LInv /\ FromFiles => PlainInv /\ AddressesAreNumbers
  BY PlainThen, NumbersThen
<1>2. LInit => ReferInv /\ NamedInv
  BY NamesBegin
<1>3. /\ LInv /\ FromFiles /\ PlainInv /\ AddressesAreNumbers' /\ ReferInv /\ NamedInv
      /\ [LNext]_allLinkerVars
      => ReferInv' /\ NamedInv'
  BY NamesKept
<1>4. LInv /\ PlainInv /\ NamedInv => NamesAgree
  BY NamesAgreeThen
<1> QED BY <1>1, <1>2, <1>3, <1>4, FilesAlways, PTL DEF LSpec

-----------------------------------------------------------------------------
(* Sorting. *)

Below(q, a) == {k \in DOMAIN q : q[k] < a}
UpToValue(q, a) == {k \in DOMAIN q : q[k] <= a}
IsIth(q, a, i) ==
  a \in ToSet(q) /\ Cardinality(Below(q, a)) < i /\ i <= Cardinality(UpToValue(q, a))

\* If no two elements are equal, their ranks are 1 to n.
LEMMA Ranked ==
  ASSUME NEW n \in Nat, NEW q \in [1..n -> Nat], IsInjective(q)
  PROVE  /\ \A k \in 1..n : /\ Cardinality(UpToValue(q, q[k])) = Cardinality(Below(q, q[k])) + 1
                            /\ Cardinality(Below(q, q[k])) \in 0..(n - 1)
         /\ \A i \in 1..n : \E k \in 1..n : IsIth(q, q[k], i)
<1> DEFINE rank(k) == Cardinality(Below(q, q[k])) + 1
<1>0. \A k, l \in 1..n : q[k] = q[l] => k = l
  BY DEF IsInjective
<1>1. IsFiniteSet(1..n) /\ Cardinality(1..n) = n
  BY FS_Interval
<1>2. ASSUME NEW k \in 1..n
      PROVE  /\ Below(q, q[k]) \subseteq 1..n /\ k \notin Below(q, q[k])
             /\ UpToValue(q, q[k]) = Below(q, q[k]) \cup {k} /\ UpToValue(q, q[k]) \subseteq 1..n
  BY <1>0 DEF Below, UpToValue
<1>3. ASSUME NEW k \in 1..n
      PROVE  /\ IsFiniteSet(Below(q, q[k])) /\ Cardinality(Below(q, q[k])) \in Nat
             /\ IsFiniteSet(UpToValue(q, q[k])) /\ Cardinality(UpToValue(q, q[k])) = rank(k)
             /\ rank(k) \in 1..n
  <2>1. IsFiniteSet(Below(q, q[k]))
    BY <1>1, <1>2, FS_Subset
  <2>2. /\ IsFiniteSet(UpToValue(q, q[k]))
        /\ Cardinality(UpToValue(q, q[k])) = Cardinality(Below(q, q[k])) + 1
    BY <1>2, <2>1, FS_AddElement
  <2>3. Cardinality(UpToValue(q, q[k])) <= n
    BY <1>1, <1>2, FS_Subset
  <2>4. Cardinality(Below(q, q[k])) \in Nat
    BY <2>1, FS_CardinalityType
  <2> QED BY <2>1, <2>2, <2>3, <2>4
<1>4. ASSUME NEW k \in 1..n, NEW l \in 1..n, q[k] < q[l] PROVE rank(k) < rank(l)
  <2>1. UpToValue(q, q[k]) \in SUBSET Below(q, q[l])
    BY <1>4 DEF UpToValue, Below
  <2>2. Cardinality(UpToValue(q, q[k])) <= Cardinality(Below(q, q[l]))
    BY <1>3, <2>1, FS_Subset
  <2> QED BY <1>3, <2>2
<1> DEFINE r == [k \in 1..n |-> rank(k)]
<1>5. r \in Injection(1..n, 1..n)
  <2>1. r \in [1..n -> 1..n]
    BY <1>3
  <2>2. ASSUME NEW k \in 1..n, NEW l \in 1..n, r[k] = r[l] PROVE k = l
    <3>1. rank(k) = rank(l) /\ rank(k) \in 1..n
      BY <1>3, <2>2
    <3>2. ~(q[k] < q[l]) /\ ~(q[l] < q[k])
      BY <1>4, <3>1
    <3>3. q[k] = q[l]
      BY <3>2
    <3> QED BY <1>0, <3>3
  <2> QED BY <2>1, <2>2 DEF Injection, IsInjective
<1>6. r \in Surjection(1..n, 1..n)
  <2> HIDE DEF r
  <2> QED BY <1>1, <1>5, FS_Injection
<1>7. ASSUME NEW i \in 1..n PROVE \E k \in 1..n : IsIth(q, q[k], i)
  <2>1. PICK k \in 1..n : rank(k) = i
    BY <1>6 DEF Surjection
  <2>2. q[k] \in ToSet(q)
    BY DEF ToSet
  <2>3. /\ Cardinality(UpToValue(q, q[k])) = i /\ Cardinality(Below(q, q[k])) + 1 = i
        /\ Cardinality(Below(q, q[k])) \in Nat
    BY <1>3, <2>1
  <2>4. IsIth(q, q[k], i)
    BY <2>2, <2>3 DEF IsIth
  <2> QED BY <2>4
<1> QED BY <1>3, <1>7

\* qsort puts a list of different numbers in order.
LEMMA InOrderSorts ==
  ASSUME NEW q \in Seq(Nat), IsInjective(q)
  PROVE  /\ InOrder(q) \in Seq(Nat) /\ ToSet(InOrder(q)) = ToSet(q)
         /\ \A i, j \in DOMAIN InOrder(q) : i < j => InOrder(q)[i] < InOrder(q)[j]
<1>1. PICK n \in Nat : n = Len(q) /\ DOMAIN q = 1..n /\ q \in [1..n -> Nat]
  BY LenProperties
<1>2. InOrder(q) = [i \in 1..n |-> CHOOSE a \in ToSet(q) :
                      Cardinality(Below(q, a)) < i /\ i <= Cardinality(UpToValue(q, a))]
  BY <1>1 DEF InOrder, Below, UpToValue
<1>3. PICK p : p = InOrder(q)
  OBVIOUS
<1>4. ToSet(q) = {q[k] : k \in 1..n}
  BY <1>1 DEF ToSet
<1>5. /\ \A k \in 1..n : /\ Cardinality(UpToValue(q, q[k])) = Cardinality(Below(q, q[k])) + 1
                         /\ Cardinality(Below(q, q[k])) \in 0..(n - 1)
      /\ \A i \in 1..n : \E k \in 1..n : IsIth(q, q[k], i)
  BY <1>1, Ranked
<1>6. ASSUME NEW i \in 1..n PROVE \E k \in 1..n : p[i] = q[k] /\ Cardinality(Below(q, q[k])) + 1 = i
  <2>1. \E a \in ToSet(q) : Cardinality(Below(q, a)) < i /\ i <= Cardinality(UpToValue(q, a))
    BY <1>5 DEF IsIth
  <2>2. p[i] \in ToSet(q) /\ Cardinality(Below(q, p[i])) < i /\ i <= Cardinality(UpToValue(q, p[i]))
    BY <1>2, <1>3, <2>1
  <2>3. PICK k \in 1..n : p[i] = q[k]
    BY <1>4, <2>2
  <2>4. PICK c \in 0..(n - 1) :
          c = Cardinality(Below(q, q[k])) /\ c + 1 = Cardinality(UpToValue(q, q[k]))
    BY <1>5
  <2>5. c < i /\ i <= c + 1
    BY <2>2, <2>3, <2>4
  <2>6. c + 1 = i
    BY <2>5
  <2> QED BY <2>3, <2>4, <2>6
<1>7. DOMAIN p = 1..n /\ p \in Seq(Nat)
  <2>1. p \in [1..n -> Nat]
    BY <1>1, <1>2, <1>3, <1>6
  <2> QED BY <2>1
<1>8. ASSUME NEW k \in 1..n, NEW l \in 1..n, q[k] <= q[l]
      PROVE  Cardinality(Below(q, q[k])) <= Cardinality(Below(q, q[l]))
  <2>1. IsFiniteSet(Below(q, q[l]))
    <3>1. IsFiniteSet(1..n) /\ Below(q, q[l]) \subseteq 1..n
      BY <1>1, FS_Interval DEF Below
    <3> QED BY <3>1, FS_Subset
  <2>2. Below(q, q[k]) \in SUBSET Below(q, q[l])
    BY <1>1, <1>8 DEF Below
  <2> QED BY <2>1, <2>2, FS_Subset
<1>9. ASSUME NEW i \in 1..n, NEW j \in 1..n, i < j PROVE p[i] < p[j]
  <2>1. PICK k \in 1..n : p[i] = q[k] /\ Cardinality(Below(q, q[k])) + 1 = i
    BY <1>6
  <2>2. PICK l \in 1..n : p[j] = q[l] /\ Cardinality(Below(q, q[l])) + 1 = j
    BY <1>6
  <2>3. q[k] \in Nat /\ q[l] \in Nat /\ (q[l] <= q[k] => Cardinality(Below(q, q[l])) <= Cardinality(Below(q, q[k])))
    BY <1>1, <1>8
  <2>4. Cardinality(Below(q, q[k])) \in Nat /\ Cardinality(Below(q, q[l])) \in Nat
    BY <1>5
  <2> QED BY <1>9, <2>1, <2>2, <2>3, <2>4
<1>10. ToSet(p) = ToSet(q)
  <2>1. ToSet(p) = {p[i] : i \in 1..n}
    BY <1>7 DEF ToSet
  <2>2. ASSUME NEW k \in 1..n PROVE q[k] \in ToSet(p)
    <3>1. PICK i \in 1..n : i = Cardinality(Below(q, q[k])) + 1
      BY <1>5
    <3>2. PICK l \in 1..n : p[i] = q[l] /\ Cardinality(Below(q, q[l])) + 1 = i
      BY <1>6
    <3>3. l = k
      <4>1. /\ Cardinality(UpToValue(q, q[k])) = i /\ Cardinality(UpToValue(q, q[l])) = i
            /\ Cardinality(Below(q, q[k])) \in Nat /\ Cardinality(Below(q, q[l])) \in Nat
            /\ Cardinality(Below(q, q[k])) = i - 1 /\ Cardinality(Below(q, q[l])) = i - 1
        <5>1. PICK c \in 0..(n - 1) :
                c = Cardinality(Below(q, q[k])) /\ c + 1 = Cardinality(UpToValue(q, q[k]))
          BY <1>5
        <5>2. PICK d \in 0..(n - 1) :
                d = Cardinality(Below(q, q[l])) /\ d + 1 = Cardinality(UpToValue(q, q[l]))
          BY <1>5
        <5>3. c + 1 = i /\ d + 1 = i
          BY <3>1, <3>2, <5>1, <5>2
        <5>4. c \in Nat /\ d \in Nat /\ c = i - 1 /\ d = i - 1
          BY <5>3
        <5> QED BY <5>1, <5>2, <5>3, <5>4
      <4>2. ASSUME NEW a \in 1..n, NEW b \in 1..n, q[a] < q[b],
                   Cardinality(UpToValue(q, q[a])) = i, Cardinality(Below(q, q[b])) = i - 1
            PROVE  FALSE
        <5>1. UpToValue(q, q[a]) \in SUBSET Below(q, q[b])
          BY <1>1, <4>2 DEF Below, UpToValue
        <5>2. IsFiniteSet(1..n) /\ Below(q, q[b]) \in SUBSET (1..n)
          BY <1>1, FS_Interval DEF Below
        <5>3. IsFiniteSet(Below(q, q[b]))
          BY <5>2, FS_Subset
        <5>4. i <= i - 1
          BY <4>2, <5>1, <5>3, FS_Subset
        <5> QED BY <5>4
      <4>3. ~(q[k] < q[l]) /\ ~(q[l] < q[k])
        BY <4>1, <4>2
      <4>4. q[k] = q[l]
        BY <1>1, <4>3
      <4> QED BY <1>1, <4>4 DEF IsInjective
    <3> QED BY <2>1, <3>2, <3>3
  <2>3. ASSUME NEW i \in 1..n PROVE p[i] \in ToSet(q)
    BY <1>4, <1>6
  <2> QED BY <1>4, <2>1, <2>2, <2>3
<1> QED BY <1>3, <1>7, <1>9, <1>10

-----------------------------------------------------------------------------
(* Relocations.  Where they are, segment by segment and at the jumps. *)

\* A segment has room for its fixups: their numbers stand for their offsets.
Inside == \A s \in Segments : Len(fixups[s]) <= segs[s].len

Moved(s) == {address[s] + j : j \in {k \in DOMAIN fixups[s] : Counts(fixups[s][k])}}
MovedJumps == {jumps[n] + 2 : n \in DOMAIN jumps}

LEMMA RelocatedOf ==
  ASSUME TypeOK, NEW s \in Segments, address[s] \in Nat
  PROVE  /\ Relocated(s) \in Seq(Nat) /\ ToSet(Relocated(s)) = Moved(s)
         /\ IsInjective(Relocated(s))
<1>1. PICK a \in Nat : a = address[s]
  OBVIOUS
<1>2. PICK q \in Seq(Fixup) : q = fixups[s]
  BY DEF TypeOK, Segments
<1>3. PICK n \in Nat : n = Len(q) /\ DOMAIN q = 1..n
  BY LenProperties
<1> DEFINE c == [j \in 1..n |-> IF Counts(q[j]) THEN <<a + j>> ELSE <<>>]
<1>4. ASSUME NEW j \in 1..n
      PROVE  /\ c[j] \in Seq(Nat) /\ IsInjective(c[j])
             /\ \A x : x \in ToSet(c[j]) <=> Counts(q[j]) /\ x = a + j
  <2>1. CASE Counts(q[j])
    <3>1. PICK b \in Nat : b = a + j
      OBVIOUS
    <3>2. <<b>> \in Seq(Nat) /\ ToSet(<<b>>) = {b} /\ IsInjective(<<b>>)
      BY OneElement
    <3>3. c[j] = <<b>>
      BY <2>1, <3>1
    <3> QED BY <2>1, <3>1, <3>2, <3>3
  <2>2. CASE ~Counts(q[j])
    <3>1. c[j] = <<>>
      BY <2>2
    <3>2. <<>> \in Seq(Nat) /\ ToSet(<<>>) = {} /\ IsInjective(<<>>)
      BY DEF ToSet, IsInjective
    <3> QED BY <2>2, <3>1, <3>2
  <2> QED BY <2>1, <2>2
<1>5. c \in [1..n -> Seq(Nat)]
  BY <1>4
<1>6. Relocated(s) = FlattenSeq(c)
  BY <1>1, <1>2, <1>3 DEF Relocated
<1> HIDE DEF c
<1>7. UpToList(c, FlattenSeq(c), n, Nat)
  BY <1>5, Flattened
<1>8. ToSet(FlattenSeq(c)) = Moved(s)
  <2>1. ASSUME NEW x PROVE x \in ToSet(FlattenSeq(c)) <=> \E j \in 1..n : Counts(q[j]) /\ x = a + j
    BY <1>4, <1>7 DEF UpToList
  <2>2. ASSUME NEW x PROVE x \in Moved(s) <=> \E j \in 1..n : Counts(q[j]) /\ x = a + j
    BY <1>1, <1>2, <1>3 DEF Moved
  <2> QED BY <2>1, <2>2
<1>9. IsInjective(FlattenSeq(c))
  <2>1. \A j \in 1..n : IsInjective(c[j])
    BY <1>4
  <2>2. ASSUME NEW j \in 1..n, NEW k \in 1..n, j # k, NEW x, x \in ToSet(c[j]), x \in ToSet(c[k])
        PROVE  FALSE
    <3>1. x = a + j /\ x = a + k
      BY <1>4, <2>2
    <3> QED BY <2>2, <3>1
  <2>3. \A j, k \in 1..n : j # k => ToSet(c[j]) \cap ToSet(c[k]) = {}
    BY <2>2
  <2> QED BY <1>7, <2>1, <2>3 DEF UpToList
<1> QED BY <1>6, <1>7, <1>8, <1>9 DEF UpToList

LEMMA RelocationsJoined ==
  ASSUME TypeOK, NEW ss \in Seq(Segments), IsInjective(ss),
         \A s \in ToSet(ss) : address[s] \in Nat,
         \A s, t \in ToSet(ss) : s # t => Moved(s) \cap Moved(t) = {}
  PROVE  /\ RelocationsOf(ss) \in Seq(Nat) /\ IsInjective(RelocationsOf(ss))
         /\ ToSet(RelocationsOf(ss)) = UNION {Moved(s) : s \in ToSet(ss)}
<1>1. PICK n \in Nat : n = Len(ss) /\ DOMAIN ss = 1..n /\ Indexed(ss, n)
  BY LenProperties, Elements
<1> DEFINE c == [i \in 1..n |-> Relocated(ss[i])]
<1>2. ASSUME NEW i \in 1..n
      PROVE  /\ c[i] \in Seq(Nat) /\ IsInjective(c[i]) /\ ToSet(c[i]) = Moved(ss[i])
             /\ ss[i] \in ToSet(ss)
  <2>1. ss[i] \in Segments /\ ss[i] \in ToSet(ss)
    BY <1>1 DEF Indexed
  <2>2. PICK s \in Segments : s = ss[i] /\ address[s] \in Nat
    BY <2>1
  <2>3. /\ Relocated(s) \in Seq(Nat) /\ ToSet(Relocated(s)) = Moved(s)
        /\ IsInjective(Relocated(s))
    BY <2>2, RelocatedOf
  <2> QED BY <2>1, <2>2, <2>3
<1>3. c \in [1..n -> Seq(Nat)]
  BY <1>2
<1>4. RelocationsOf(ss) = FlattenSeq(c)
  BY <1>1 DEF RelocationsOf
<1> HIDE DEF c
<1>5. UpToList(c, FlattenSeq(c), n, Nat)
  BY <1>3, Flattened
<1>6. ToSet(FlattenSeq(c)) = UNION {Moved(s) : s \in ToSet(ss)}
  <2>1. ASSUME NEW x PROVE x \in ToSet(FlattenSeq(c)) <=> \E i \in 1..n : x \in Moved(ss[i])
    <3>1. x \in ToSet(FlattenSeq(c)) <=> \E i \in 1..n : x \in ToSet(c[i])
      BY <1>5 DEF UpToList
    <3>2. \A i \in 1..n : x \in ToSet(c[i]) <=> x \in Moved(ss[i])
      BY <1>2
    <3> QED BY <3>1, <3>2
  <2>2. \A s : s \in ToSet(ss) <=> \E i \in 1..n : ss[i] = s
    BY <1>1 DEF Indexed
  <2> QED BY <2>1, <2>2
<1>7. \A i, j \in 1..n : i # j => ToSet(c[i]) \cap ToSet(c[j]) = {}
  <2>1. \A i, j \in 1..n : ss[i] = ss[j] => i = j
    BY <1>1 DEF Indexed
  <2> QED BY <1>2, <2>1
<1>8. IsInjective(FlattenSeq(c))
  BY <1>2, <1>5, <1>7 DEF UpToList
<1> QED BY <1>4, <1>5, <1>6, <1>8 DEF UpToList

\* What is relocated lies in its segment or jump.
LEMMA MovedInside ==
  ASSUME Addressed, Inside
  PROVE  /\ \A s \in Laid : address[s] \in Nat /\ \A x \in Moved(s) : x \in Nat /\ x - 1 \in Bytes(s)
         /\ \A n \in DOMAIN jumps : jumps[n] \in Nat /\ jumps[n] + 1 \in JumpBytes(n)
<1>1. ASSUME NEW s \in Laid
      PROVE  address[s] \in Nat /\ \A x \in Moved(s) : x \in Nat /\ x - 1 \in Bytes(s)
  <2>1. PICK y : y = SectionOf(s)
    OBVIOUS
  <2>2. y \in SectionSet /\ s \in Segments
    BY <2>1, LaidIsMarked
  <2>3. PICK a, l, b, end : Spans(y, a, l, b, end)
    BY <2>2, SectionSpans
  <2>4. address[s] \in Nat /\ segs[s].len \in Nat
    BY <2>1, <2>3, SegmentSpan
  <2>5. TypeOK
    BY DEF Addressed, LInv, FrontInv, ReachInv, IInv
  <2>6. PICK n \in Nat : DOMAIN fixups[s] = 1..n /\ n <= segs[s].len
    <3>1. fixups[s] \in Seq(Fixup)
      BY <2>2, <2>5 DEF TypeOK, Segments
    <3> QED BY <2>2, <3>1, LenProperties DEF Inside
  <2>7. ASSUME NEW x \in Moved(s) PROVE x \in Nat /\ x - 1 \in Bytes(s)
    <3>1. PICK j \in 1..n : x = address[s] + j
      BY <2>6 DEF Moved
    <3>2. PICK o \in Nat, m \in Nat : o = address[s] /\ m = segs[s].len
      BY <2>4
    <3>3. x = o + j /\ n <= m
      BY <2>6, <3>1, <3>2
    <3>4. x \in Nat /\ x - 1 \in o..(o + m - 1)
      BY <3>3
    <3> QED BY <3>2, <3>4 DEF Bytes
  <2> QED BY <2>4, <2>7
<1>2. ASSUME NEW n \in DOMAIN jumps PROVE jumps[n] \in Nat /\ jumps[n] + 1 \in JumpBytes(n)
  <2>1. PICK a, l, b, end : Spans("code", a, l, b, end)
    BY SectionNames, SectionSpans
  <2>2. jumps[n] \in Nat
    BY <2>1, JumpsApart DEF JumpPlaced
  <2> QED BY <2>2 DEF JumpBytes, JumpSize
<1> QED BY <1>1, <1>2

\* So no place is relocated twice.
LEMMA MovedApart ==
  ASSUME Addressed, Inside
  PROVE  /\ \A s, t \in Laid : s # t => Moved(s) \cap Moved(t) = {}
         /\ \A s \in Laid : Moved(s) \cap MovedJumps = {}
         /\ \A m, n \in DOMAIN jumps : jumps[m] + 2 = jumps[n] + 2 => m = n
<1>1. /\ \A s \in Laid : address[s] \in Nat /\ \A x \in Moved(s) : x \in Nat /\ x - 1 \in Bytes(s)
      /\ \A n \in DOMAIN jumps : jumps[n] \in Nat /\ jumps[n] + 1 \in JumpBytes(n)
  BY MovedInside
<1>3. ASSUME NEW s \in Laid, NEW t \in Laid, s # t PROVE Bytes(s) \cap Bytes(t) = {}
  <2>1. /\ address[s] \in Nat /\ segs[s].len \in Nat
        /\ address[t] \in Nat /\ segs[t].len \in Nat
    <3>1. SegmentTypes /\ Laid \subseteq Segments
      BY MarkedSegments, LaidIsMarked DEF Addressed, LInv, FrontInv, ReachInv, IInv
    <3> QED BY <1>1, <3>1, SegmentNumbers
  <2>2. address[s] + segs[s].len <= address[t] \/ address[t] + segs[t].len <= address[s]
    BY <1>3, SegmentsApart
  <2> QED BY <2>1, <2>2 DEF Bytes
<1>4. ASSUME NEW s \in Laid, NEW t \in Laid, s # t PROVE Moved(s) \cap Moved(t) = {}
  BY <1>1, <1>3, <1>4
<1>5. \A n \in DOMAIN jumps :
        /\ \A s \in Laid : Bytes(s) \cap JumpBytes(n) = {}
        /\ \A m \in DOMAIN jumps : m # n => JumpBytes(m) \cap JumpBytes(n) = {}
  BY JumpStands
<1>6. ASSUME NEW s \in Laid, NEW n \in DOMAIN jumps PROVE jumps[n] + 2 \notin Moved(s)
  <2>1. SUFFICES ASSUME jumps[n] + 2 \in Moved(s) PROVE FALSE
    OBVIOUS
  <2>2. (jumps[n] + 2) - 1 \in Bytes(s) /\ (jumps[n] + 2) - 1 = jumps[n] + 1
    BY <1>1, <2>1
  <2> QED BY <1>1, <1>5, <2>2
<1>7. ASSUME NEW m \in DOMAIN jumps, NEW n \in DOMAIN jumps, jumps[m] + 2 = jumps[n] + 2
      PROVE  m = n
  <2>1. jumps[m] + 1 = jumps[n] + 1
    BY <1>1, <1>7
  <2> QED BY <1>1, <1>5, <2>1
<1> QED BY <1>4, <1>6, <1>7 DEF MovedJumps

\* What CollectFixup takes for a relocation: an address that leads somewhere.
Addresses(f) == f.kind = "address32" => f.tk \in {"seg", "id", "fwd", "import"}
Addressing == \A r \in Offered : r.op \in {"fixup", "entry"} => Addresses(r.fixup)
Targeted == \A s \in DOMAIN fixups : \A j \in DOMAIN fixups[s] : Addresses(fixups[s][j])
TargetsInv == errors = {} => Targeted

LEMMA ErrorsGrow ==
  CollectNext => errors \subseteq errors'
<1>1. Reading => errors \subseteq errors'
  <2>1. ReadingEnds => errors \subseteq errors'
    BY DEF ReadingEnds
  <2>2. NewPublicName \/ NewCommonName \/ NewImportName \/ NewExport => errors \subseteq errors'
    BY DEF NewPublicName, NewCommonName, NewImportName, NewExport, TwiceDeclared
  <2>3. NewFile \/ NewSegment \/ addFixup \/ setEntryPoint \/ NewWeakName => errors' = errors
    BY DEF NewFile, NewSegment, addFixup, setEntryPoint, NewWeakName
  <2> QED BY <2>1, <2>2, <2>3 DEF Reading
<1>2. Collecting => errors \subseteq errors'
  <2>1. ASSUME NEW n, NEW rest, CollectName(n, rest) PROVE errors \subseteq errors'
    BY <2>1 DEF CollectName
  <2>2. CollectExternal \/ ExportNext => errors' = errors \/ \E n, rest : CollectName(n, rest)
    BY Zenon DEF CollectExternal, ExportNext
  <2>3. CASE Collecting /\ ~CollectExternal /\ ~ExportNext
    BY <2>3 DEF Collecting, ResolveForward, ResolveUndefined, ResolveDefined, ResolveCommon,
       ResolveWeak, ResolveImport, ResolveAbsolute, CollectFixup, CollectDescriptor,
       CollectAddresses, Return, EntryFirst, ExportsEnd, AllNextFile, AllNextSegment,
       AllPassEnds, kept
  <2> QED BY <2>1, <2>2, <2>3
<1> QED BY <1>1, <1>2 DEF CollectNext

LEMMA TargetsBegin == LInit => TargetsInv
BY DEF LInit, Init, TargetsInv, Targeted

LEMMA TargetsKept ==
  ASSUME Addressing, IInv, OwnNames \/ Reading, FromFiles, TargetsInv, CollectNext PROVE TargetsInv'
<1>1. SUFFICES ASSUME errors' = {}, NEW s \in DOMAIN fixups', NEW j \in DOMAIN fixups'[s]
               PROVE  Addresses(fixups'[s][j])
  BY DEF TargetsInv, Targeted, Addresses
<1>2. errors = {} /\ Targeted
  BY <1>1, ErrorsGrow DEF TargetsInv
<1>3. CASE Was(fixups', s, j)
  BY <1>2, <1>3 DEF Was, Targeted
<1>4. CASE Offers(fixups'[s][j])
  BY <1>4 DEF Offers, Addressing
<1>5. CASE Resolves(fixups'[s][j])
  <2>1. PICK tk \in TargetKind, t \in Name \cup Address, off \in Int :
          fixups'[s][j] = Aimed(Fx, tk, t, off) /\ tk \in {"seg", "import"}
    BY <1>1, <1>5 DEF Resolves
  <2>2. Fx \in Fixup
    BY <1>5, PlaceProperties DEF Resolves, IInv
  <2>3. fixups'[s][j].tk = tk
    BY <2>1, <2>2, AimedFields
  <2> QED BY <2>1, <2>3 DEF Addresses
<1>6. TypeOK
  BY DEF IInv
<1>7. CASE Reading
  BY <1>1, <1>3, <1>4, <1>6, <1>7, ReadingAdds
<1>8. CASE Collecting /\ OwnNames
  BY <1>1, <1>3, <1>5, <1>8, CollectingResolves DEF FixupsResolve
<1> QED BY <1>7, <1>8 DEF CollectNext

\* Every address32 fixup of the image has been resolved and counted.
AllCounted ==
  \A s \in marked : \A j \in DOMAIN fixups[s] :
    fixups[s][j].kind = "address32" => Counts(fixups[s][j])

\* What ProcessFixups has listed and stored of the first k sections.
LaidIn(k) == UNION {ToSet(InSection(x)) : x \in ImagedTo(k)}
FixTo(k) ==
  /\ imaged = ImagedTo(k)
  /\ fix \in Seq(Nat) /\ IsInjective(fix)
  /\ ToSet(fix) = (UNION {Moved(s) : s \in LaidIn(k)}) \cup (IF k >= 2 THEN MovedJumps ELSE {})
  /\ DOMAIN stored = UNION {{<<s, j>> : j \in Ordinary(s)} : s \in LaidIn(k)}

RelocInv ==
  /\ TargetsInv /\ (pc \in Early => OwnNames)
  /\ pc \in Later => errors = {} /\ AllCounted
  /\ pc \in Early \cup {"collected", "ordered", "addressed"} =>
       imaged = {} /\ fix = <<>> /\ DOMAIN stored = {}
  /\ pc = "imaged" => \E k \in 0..4 : FixTo(k)
  /\ pc = "processed" => FixTo(5)
  /\ pc = "linked" => RelocationsComplete

LEMMA NothingFixed ==
  /\ imaged = {} /\ fix = <<>> /\ DOMAIN stored = {} => FixTo(0)
  /\ imaged' = {} /\ fix' = <<>> /\ DOMAIN stored' = {} => FixTo(0)'
<1>1. ImagedTo(0) = {} /\ ImagedTo(0)' = {}
  BY ImagedNumbers
<1>2. LaidIn(0) = {} /\ LaidIn(0)' = {}
  BY <1>1 DEF LaidIn
<1>3. <<>> \in Seq(Nat) /\ ToSet(<<>>) = {} /\ IsInjective(<<>>)
  BY DEF ToSet, IsInjective
<1>4. ASSUME imaged = {}, fix = <<>>, DOMAIN stored = {} PROVE FixTo(0)
  BY <1>1, <1>2, <1>3, <1>4 DEF FixTo
<1>5. ASSUME imaged' = {}, fix' = <<>>, DOMAIN stored' = {} PROVE FixTo(0)'
  <2>1. fix' \in Seq(Nat) /\ ToSet(fix)' = {} /\ IsInjective(fix)'
    BY <1>5 DEF ToSet, IsInjective
  <2>2. imaged' = ImagedTo(0)'
    BY <1>1, <1>5
  <2>3. DOMAIN stored' = (UNION {{<<s, j>> : j \in Ordinary(s)} : s \in LaidIn(0)})'
    BY <1>2, <1>5
  <2>4. ToSet(fix)' = ((UNION {Moved(s) : s \in LaidIn(0)}) \cup (IF 0 >= 2 THEN MovedJumps ELSE {}))'
    BY <1>2, <2>1
  <2> QED BY <2>1, <2>2, <2>3, <2>4 DEF FixTo
<1> QED BY <1>4, <1>5

\* The jumps' relocations, each once.
LEMMA JumpsListed ==
  ASSUME Addressed, Inside
  PROVE  /\ JumpRelocations \in Seq(Nat) /\ ToSet(JumpRelocations) = MovedJumps
         /\ IsInjective(JumpRelocations)
<1>1. FrontInv /\ LaidUpTo(6)
  BY DEF Addressed, LInv, AddressesInv
<1>2. PICK n \in Nat : n = Len(Functions) /\ Indexed(Functions, n) /\ IsInjective(Functions)
  BY <1>1, ImportsCounted
<1>3. /\ DOMAIN Functions = 1..n /\ \A x : x \in ToSet(Functions) <=> \E i \in 1..n : Functions[i] = x
      /\ \A i, j \in 1..n : Functions[i] = Functions[j] => i = j
  BY <1>2 DEF Indexed
<1>4. DOMAIN jumps = ToSet(Functions)
  BY <1>1 DEF LaidUpTo
<1>5. \A m \in DOMAIN jumps : jumps[m] \in Nat
  BY MovedInside
<1> DEFINE q == [i \in 1..n |-> jumps[Functions[i]] + 2]
<1>6. JumpRelocations = q
  BY <1>3 DEF JumpRelocations
<1>7. ASSUME NEW i \in 1..n PROVE q[i] = jumps[Functions[i]] + 2 /\ q[i] \in Nat /\ Functions[i] \in DOMAIN jumps
  BY <1>3, <1>4, <1>5
<1>8. q \in Seq(Nat) /\ Len(q) = n /\ DOMAIN q = 1..n
  <2>1. q \in [1..n -> Nat]
    BY <1>7
  <2> QED BY <2>1
<1> HIDE DEF q
<1>9. ToSet(q) = MovedJumps
  <2>1. ToSet(q) = {q[i] : i \in 1..n}
    BY <1>8 DEF ToSet
  <2> QED BY <1>3, <1>4, <1>7, <2>1 DEF MovedJumps
<1>10. ASSUME NEW i \in 1..n, NEW j \in 1..n, q[i] = q[j] PROVE i = j
  <2>1. Functions[i] = Functions[j]
    BY <1>7, <1>10, MovedApart
  <2> QED BY <1>3, <2>1
<1> QED BY <1>6, <1>8, <1>9, <1>10 DEF IsInjective

\* ProcessFixups adds those of section x, which are new.
LEMMA SectionFixed ==
  ASSUME Addressed, Inside, NEW k \in 0..4, NEW x, x = Imaged[k + 1]
  PROVE  /\ RelocationsOf(InSection(x)) \in Seq(Nat) /\ IsInjective(RelocationsOf(InSection(x)))
         /\ ToSet(RelocationsOf(InSection(x))) = UNION {Moved(s) : s \in ToSet(InSection(x))}
         /\ LaidIn(k + 1) = LaidIn(k) \cup ToSet(InSection(x)) /\ LaidIn(k + 1) \subseteq Laid
         /\ \A s \in LaidIn(k), t \in ToSet(InSection(x)) : s # t
<1>1. CollectionsInv /\ TypeOK /\ pc \in Later
  BY DEF Addressed, LInv, FrontInv, ReachInv, IInv
<1>2. \A y \in SectionSet : /\ InSection(y) \in Seq(Segments) /\ IsInjective(InSection(y))
                             /\ ToSet(InSection(y)) = Members(y)
  BY <1>1, SectionListed
<1>3. x \in SectionSet /\ x \notin ImagedTo(k) /\ ImagedTo(k + 1) = ImagedTo(k) \cup {x}
  BY ImagedNumbers
<1>4. ImagedTo(k) \subseteq SectionSet
  <2>1. ASSUME NEW i \in 1..k PROVE Imaged[i] \in SectionSet
    <3>1. i - 1 \in 0..4 /\ (i - 1) + 1 = i
      OBVIOUS
    <3> QED BY <3>1, ImagedNumbers
  <2> QED BY <2>1 DEF ImagedTo
<1>5. \A y \in SectionSet : ToSet(InSection(y)) \subseteq Laid
  BY <1>2, LaidIsMarked DEF Members
<1>6. /\ \A s \in ToSet(InSection(x)) : address[s] \in Nat
      /\ \A s, t \in ToSet(InSection(x)) : s # t => Moved(s) \cap Moved(t) = {}
  BY <1>3, <1>5, MovedInside, MovedApart
<1>7. LaidIn(k + 1) = LaidIn(k) \cup ToSet(InSection(x)) /\ LaidIn(k + 1) \subseteq Laid
  BY <1>3, <1>4, <1>5 DEF LaidIn
<1>8. ASSUME NEW s \in LaidIn(k), s \in ToSet(InSection(x)) PROVE FALSE
  <2>1. PICK y \in ImagedTo(k) : s \in ToSet(InSection(y))
    BY DEF LaidIn
  <2>2. SectionOf(s) = x /\ SectionOf(s) = y
    BY <1>2, <1>3, <1>4, <1>8, <2>1 DEF Members
  <2> QED BY <1>3, <2>1, <2>2
<1>9. PICK ss \in Seq(Segments) : ss = InSection(x) /\ IsInjective(ss)
  BY <1>2, <1>3
<1>10. /\ RelocationsOf(ss) \in Seq(Nat) /\ IsInjective(RelocationsOf(ss))
       /\ ToSet(RelocationsOf(ss)) = UNION {Moved(s) : s \in ToSet(ss)}
  BY <1>1, <1>6, <1>9, RelocationsJoined
<1> QED BY <1>7, <1>8, <1>9, <1>10

LEMMA FixGrows ==
  ASSUME Addressed, Inside, NEW k \in 0..4, FixTo(k), pc = "imaged", ProcessFixups
  PROVE  FixTo(k + 1)' /\ pc' = IF k = 4 THEN "processed" ELSE "imaged"
<1>1. PICK x : x = Imaged[k + 1]
  OBVIOUS
<1>2. /\ x \in SectionSet /\ x \notin ImagedTo(k) /\ ImagedTo(k + 1) = ImagedTo(k) \cup {x}
      /\ Cardinality(ImagedTo(k)) = k /\ (x = "idata" <=> k = 4) /\ (x = "code16" <=> k = 1)
  BY <1>1, ImagedNumbers
<1>3. /\ imaged' = imaged \cup {x}
      /\ stored' = Extended(stored,
           [p \in UNION {{<<s, j>> : j \in Ordinary(s)} : s \in ToSet(InSection(x))}
              |-> Value(p[1], p[2])])
      /\ fix' = fix \o RelocationsOf(InSection(x)) \o
                  (IF x = "code16" THEN JumpRelocations ELSE <<>>)
      /\ pc' = IF x = "idata" THEN "processed" ELSE pc
  BY <1>1, <1>2 DEF ProcessFixups, FixTo
<1>4. UNCHANGED <<segs, fixups, marked, address, jumps, collections>>
  BY DEF ProcessFixups, segments
<1>5. PICK r : r = RelocationsOf(InSection(x))
  OBVIOUS
<1>6. /\ r \in Seq(Nat) /\ IsInjective(r)
      /\ ToSet(r) = UNION {Moved(s) : s \in ToSet(InSection(x))}
      /\ LaidIn(k + 1) = LaidIn(k) \cup ToSet(InSection(x)) /\ LaidIn(k + 1) \subseteq Laid
      /\ \A s \in LaidIn(k), t \in ToSet(InSection(x)) : s # t
  BY <1>1, <1>5, SectionFixed
<1>7. /\ fix \in Seq(Nat) /\ IsInjective(fix)
      /\ ToSet(fix) = (UNION {Moved(s) : s \in LaidIn(k)}) \cup (IF k >= 2 THEN MovedJumps ELSE {})
      /\ DOMAIN stored = UNION {{<<s, j>> : j \in Ordinary(s)} : s \in LaidIn(k)}
  BY DEF FixTo
<1>8. /\ \A s, t \in Laid : s # t => Moved(s) \cap Moved(t) = {}
      /\ \A s \in Laid : Moved(s) \cap MovedJumps = {}
  BY MovedApart
<1>9. /\ fix \o r \in Seq(Nat) /\ ToSet(fix \o r) = ToSet(fix) \cup ToSet(r)
      /\ IsInjective(fix \o r)
  <2>1. ASSUME NEW a \in ToSet(fix), a \in ToSet(r) PROVE FALSE
    <3>1. PICK t \in ToSet(InSection(x)) : a \in Moved(t)
      BY <1>6, <2>1
    <3>2. t \in Laid
      BY <1>6
    <3>3. a \notin MovedJumps
      BY <1>8, <3>1, <3>2
    <3>4. PICK s \in LaidIn(k) : a \in Moved(s)
      BY <1>7, <3>3
    <3> QED BY <1>6, <1>8, <3>1, <3>2, <3>4
  <2> QED BY <1>6, <1>7, <2>1, Joined
<1>10. PICK q : q = IF x = "code16" THEN JumpRelocations ELSE <<>>
  OBVIOUS
<1>11. /\ q \in Seq(Nat) /\ IsInjective(q)
       /\ ToSet(q) = IF k = 1 THEN MovedJumps ELSE {}
  <2>1. CASE k = 1
    BY <1>2, <1>10, <2>1, JumpsListed
  <2>2. CASE k # 1
    <3>1. <<>> \in Seq(Nat) /\ ToSet(<<>>) = {} /\ IsInjective(<<>>)
      BY DEF ToSet, IsInjective
    <3> QED BY <1>2, <1>10, <2>2, <3>1
  <2> QED BY <2>1, <2>2
<1>12. PICK g \in Seq(Nat) : g = fix \o r
  BY <1>9
<1>13. /\ g \o q \in Seq(Nat) /\ ToSet(g \o q) = ToSet(g) \cup ToSet(q)
       /\ IsInjective(g \o q)
  <2>1. ToSet(g) \cap ToSet(q) = {}
    <3>1. CASE k = 1
      <4>1. ToSet(g) = (UNION {Moved(s) : s \in LaidIn(k)}) \cup ToSet(r)
        BY <1>7, <1>9, <1>12, <3>1
      <4>2. \A a \in ToSet(g) : \E s \in Laid : a \in Moved(s)
        BY <1>6, <4>1
      <4> QED BY <1>8, <1>11, <3>1, <4>2
    <3>2. CASE k # 1
      BY <1>11, <3>2
    <3> QED BY <3>1, <3>2
  <2>2. IsInjective(g)
    BY <1>9, <1>12
  <2> QED BY <1>11, <2>1, <2>2, Joined
<1>14. fix' = g \o q
  BY <1>3, <1>5, <1>10, <1>12
<1>15. ToSet(fix') = (UNION {Moved(s) : s \in LaidIn(k + 1)}) \cup (IF k + 1 >= 2 THEN MovedJumps ELSE {})
  <2>1. ToSet(fix') = (ToSet(fix) \cup ToSet(r)) \cup ToSet(q)
    BY <1>9, <1>12, <1>13, <1>14
  <2>2. UNION {Moved(s) : s \in LaidIn(k + 1)} = (UNION {Moved(s) : s \in LaidIn(k)}) \cup ToSet(r)
    BY <1>6
  <2>3. (IF k + 1 >= 2 THEN MovedJumps ELSE {}) = (IF k >= 2 THEN MovedJumps ELSE {}) \cup ToSet(q)
    BY <1>11
  <2> QED BY <1>7, <2>1, <2>2, <2>3
<1>16. DOMAIN stored' = UNION {{<<s, j>> : j \in Ordinary(s)} : s \in LaidIn(k + 1)}
  <2>1. PICK new : new = UNION {{<<s, j>> : j \in Ordinary(s)} : s \in ToSet(InSection(x))}
    OBVIOUS
  <2>2. DOMAIN stored' = DOMAIN stored \cup new
    BY <1>3, <2>1 DEF Extended
  <2> QED BY <1>6, <1>7, <2>1, <2>2
<1>17. /\ LaidIn(k + 1)' = LaidIn(k + 1) /\ MovedJumps' = MovedJumps
       /\ \A s : Moved(s)' = Moved(s) /\ Ordinary(s)' = Ordinary(s)
  BY <1>4 DEF LaidIn, InSection, Moved, MovedJumps, Ordinary
<1>18. imaged' = ImagedTo(k + 1) /\ pc' = IF k = 4 THEN "processed" ELSE "imaged"
  BY <1>2, <1>3 DEF FixTo
<1> QED BY <1>13, <1>14, <1>15, <1>16, <1>17, <1>18 DEF FixTo

\* The sort leaves each place once, and all of them in order.
LEMMA SortedComplete ==
  ASSUME Addressed, Inside, AllCounted, FixTo(5), SortFixups, pc' = "linked"
  PROVE  RelocationsComplete'
<1>1. /\ fix' = InOrder(fix)
      /\ UNCHANGED <<segs, fixups, marked, address, jumps, collections, stored>>
  BY DEF SortFixups, segments
<1>2. /\ fix' \in Seq(Nat) /\ ToSet(fix') = ToSet(fix)
      /\ \A i, j \in DOMAIN fix' : i < j => fix'[i] < fix'[j]
  BY <1>1, InOrderSorts DEF FixTo
<1>3. ToSet(fix) = (UNION {Moved(s) : s \in LaidIn(5)}) \cup MovedJumps
  BY DEF FixTo
<1>4. LaidIn(5) \subseteq marked
  <2>1. 4 \in 0..4 /\ 4 + 1 = 5
    OBVIOUS
  <2>2. LaidIn(5) \subseteq Laid
    BY <2>1, SectionFixed
  <2> QED BY <2>2, LaidIsMarked
<1>5. DOMAIN stored = UNION {{<<s, j>> : j \in Ordinary(s)} : s \in LaidIn(5)}
  BY DEF FixTo
<1> DEFINE S == {q \in DOMAIN stored : fixups[q[1]][q[2]].kind = "address32"}
           R == {address[p[1]] + p[2] : p \in S}
<1>6. ASSUME NEW s \in LaidIn(5), NEW j \in DOMAIN fixups[s]
      PROVE  Counts(fixups[s][j]) <=> fixups[s][j].kind = "address32"
  BY <1>4 DEF AllCounted, Counts
<1>7. ASSUME NEW s \in LaidIn(5), NEW y \in Moved(s) PROVE y \in R
  <2>1. PICK j \in DOMAIN fixups[s] : Counts(fixups[s][j]) /\ y = address[s] + j
    BY DEF Moved
  <2>2. fixups[s][j].kind = "address32"
    BY <2>1 DEF Counts
  <2>3. j \in Ordinary(s)
    BY <2>2 DEF Ordinary, Special
  <2>4. PICK p : p = <<s, j>>
    OBVIOUS
  <2>5. p \in DOMAIN stored
    BY <1>5, <2>3, <2>4
  <2>6. p[1] = s /\ p[2] = j
    BY <2>4
  <2>7. p \in S /\ y = address[p[1]] + p[2]
    BY <2>1, <2>2, <2>5, <2>6
  <2> QED BY <2>7
<1>8. ASSUME NEW p \in S PROVE \E s \in LaidIn(5) : address[p[1]] + p[2] \in Moved(s)
  <2>1. PICK s \in LaidIn(5) : p \in {<<s, j>> : j \in Ordinary(s)}
    BY <1>5
  <2>2. PICK j \in Ordinary(s) : p = <<s, j>>
    BY <2>1
  <2>3. p[1] = s /\ p[2] = j /\ j \in DOMAIN fixups[s]
    BY <2>2 DEF Ordinary
  <2>4. Counts(fixups[s][j])
    BY <1>6, <2>3
  <2>5. address[p[1]] + p[2] \in Moved(s)
    BY <2>3, <2>4 DEF Moved
  <2> QED BY <2>5
<1>9. UNION {Moved(s) : s \in LaidIn(5)} = R
  <2> HIDE DEF S
  <2> QED BY <1>7, <1>8
<1>10. ToSet(fix') = {jumps[n] + 2 : n \in DOMAIN jumps} \cup R
  BY <1>2, <1>3, <1>9 DEF MovedJumps
<1> QED BY <1>1, <1>2, <1>10 DEF RelocationsComplete

LEMMA RelocBegins == LInit => RelocInv
<1> SUFFICES ASSUME LInit PROVE RelocInv
  OBVIOUS
<1>1. pc = "reading" /\ Declared = {} /\ imaged = {} /\ fix = <<>> /\ DOMAIN stored = {}
  BY DEF LInit, Init, Empty, Declared
<1> QED BY <1>1, TargetsBegin DEF RelocInv, OwnNames, Later

LEMMA RelocKept ==
  ASSUME Addressing, LInv, FromFiles, PlainInv, Inside, RelocInv, [LNext]_allLinkerVars
  PROVE  RelocInv'
<1>0. IInv /\ TypeOK
  BY DEF LInv, FrontInv, ReachInv, IInv
<1>1. CASE CollectNext /\ UNCHANGED lvars
  <2>1. pc \in Early /\ pc' \in Early \cup {"collected", "ended", "aborted"}
    BY <1>1, FrontOnly
  <2>2. OwnNames /\ TargetsInv /\ imaged = {} /\ fix = <<>> /\ DOMAIN stored = {}
    BY <2>1 DEF RelocInv
  <2>3. TargetsInv'
    BY <1>0, <1>1, <2>2, TargetsKept
  <2>4. OwnNames'
    <3>1. CASE Reading
      BY <2>2, <3>1, ReadingNames
    <3>2. CASE Collecting
      <4>1. Filled
        BY <1>0, <2>2, <3>2, CollectingResolves
      <4> QED BY <2>2, <4>1 DEF Filled, OwnNames
    <3> QED BY <1>1, <3>1, <3>2 DEF CollectNext
  <2>5. imaged' = {} /\ fix' = <<>> /\ DOMAIN stored' = {}
    BY <1>1, <2>2 DEF lvars
  <2> QED BY <2>1, <2>3, <2>4, <2>5 DEF RelocInv, Early, Later
<1>2. CASE OrderSegments \/ AddCollection
  <2>1. /\ pc = "collected" /\ pc' \in {"collected", "ordered", "ended"}
        /\ pc' = "ordered" => errors = {}
        /\ UNCHANGED <<fixups, marked, errors, stored, imaged, fix>>
    BY <1>2 DEF OrderSegments, AddCollection, lvars, segments
  <2>2. TargetsInv /\ imaged = {} /\ fix = <<>> /\ DOMAIN stored = {}
    BY <2>1 DEF RelocInv
  <2>3. errors = {} => AllCounted
    <3> SUFFICES ASSUME errors = {}, NEW s \in marked, NEW j \in DOMAIN fixups[s],
                        fixups[s][j].kind = "address32"
                 PROVE  Counts(fixups[s][j])
      BY DEF AllCounted
    <3>1. Resolved(fixups[s][j])
      BY <1>0, <2>1, ClosedThen DEF Closed
    <3>2. s \in DOMAIN fixups
      BY <1>0 DEF TypeOK
    <3>3. Addresses(fixups[s][j])
      BY <2>2, <3>2 DEF TargetsInv, Targeted
    <3> QED BY <3>1, <3>3 DEF Resolved, Addresses, Counts, Special
  <2>4. TargetsInv' /\ (pc' = "ordered" => errors' = {} /\ AllCounted')
    BY <2>1, <2>2, <2>3 DEF TargetsInv, Targeted, AllCounted
  <2> QED BY <2>1, <2>2, <2>4 DEF RelocInv, Early, Later
<1>3. CASE CalcAddresses \/ CreateCollectionImage
  <2>1. /\ pc \in {"ordered", "addressed"} /\ pc' \in {"ordered", "aborted", "addressed", "imaged"}
        /\ UNCHANGED <<fixups, marked, errors, stored, imaged, fix>>
    BY <1>3 DEF CalcAddresses, CreateCollectionImage, segments
  <2>2. /\ TargetsInv /\ errors = {} /\ AllCounted
        /\ imaged = {} /\ fix = <<>> /\ DOMAIN stored = {}
    BY <2>1 DEF RelocInv, Later
  <2>3. TargetsInv' /\ errors' = {} /\ AllCounted'
    BY <2>1, <2>2 DEF TargetsInv, Targeted, AllCounted
  <2>4. imaged' = {} /\ fix' = <<>> /\ DOMAIN stored' = {}
    BY <2>1, <2>2
  <2>5. FixTo(0)'
    BY <2>4, NothingFixed
  <2> QED BY <2>1, <2>3, <2>4, <2>5 DEF RelocInv, Early, Later
<1>4. CASE ProcessFixups
  <2>1. pc = "imaged" /\ UNCHANGED <<fixups, marked, errors>>
    BY <1>4 DEF ProcessFixups, segments
  <2>2. Addressed
    BY <2>1 DEF Addressed, Later
  <2>3. PICK k \in 0..4 : FixTo(k)
    BY <2>1 DEF RelocInv
  <2>4. FixTo(k + 1)' /\ pc' = IF k = 4 THEN "processed" ELSE "imaged"
    BY <1>4, <2>1, <2>2, <2>3, FixGrows
  <2>5. TargetsInv /\ errors = {} /\ AllCounted
    BY <2>1 DEF RelocInv, Later
  <2>6. TargetsInv' /\ errors' = {} /\ AllCounted'
    BY <2>1, <2>5 DEF TargetsInv, Targeted, AllCounted
  <2>7. CASE k = 4
    <3>1. k + 1 = 5
      BY <2>7
    <3>2. pc' = "processed" /\ FixTo(5)'
      BY <2>4, <2>7, <3>1
    <3> QED BY <2>6, <3>2 DEF RelocInv, Early
  <2>8. CASE k # 4
    <3>1. k + 1 \in 0..4
      BY <2>8
    <3>2. pc' = "imaged" /\ \E i \in 0..4 : FixTo(i)'
      BY <2>4, <2>8, <3>1
    <3> QED BY <2>6, <3>2 DEF RelocInv, Early
  <2> QED BY <2>7, <2>8
<1>5. CASE SortFixups
  <2>1. pc = "processed" /\ pc' \in {"linked", "aborted"} /\ UNCHANGED <<fixups, marked, errors>>
    BY <1>5 DEF SortFixups, segments
  <2>2. Addressed
    BY <2>1 DEF Addressed, Later
  <2>3. TargetsInv /\ errors = {} /\ AllCounted /\ FixTo(5)
    BY <2>1 DEF RelocInv, Later
  <2>4. TargetsInv' /\ errors' = {} /\ AllCounted'
    BY <2>1, <2>3 DEF TargetsInv, Targeted, AllCounted
  <2>5. pc' = "linked" => RelocationsComplete'
    BY <1>5, <2>2, <2>3, SortedComplete
  <2> QED BY <2>1, <2>4, <2>5 DEF RelocInv, Early, Later
<1>6. CASE UNCHANGED allLinkerVars
  BY <1>6 DEF allLinkerVars, cvars, lvars, reading, roots, segments, RelocInv, TargetsInv,
     Targeted, AllCounted, OwnNames, Declared, FixTo, LaidIn, InSection, Moved, MovedJumps,
     Ordinary, RelocationsComplete
<1> QED BY <1>1, <1>2, <1>3, <1>4, <1>5, <1>6 DEF LNext

\* Fix lists each address that ProcessFixup has stored and each import jump, once
\* and in order (struct.cpp:1511-1522, 1664-1694, 1820-1885).
THEOREM EveryRelocationListed ==
  No16Bit /\ Addressing => (LSpec /\ []Inside => []RelocationsComplete)
<1> SUFFICES ASSUME No16Bit, Addressing PROVE LSpec /\ []Inside => []RelocationsComplete
  OBVIOUS
<1>1. LInv /\ FromFiles => PlainInv
  BY PlainThen
<1>2. LInit => RelocInv
  BY RelocBegins
<1>3. LInv /\ FromFiles /\ PlainInv /\ Inside /\ RelocInv /\ [LNext]_allLinkerVars => RelocInv'
  BY RelocKept
<1>4. RelocInv => RelocationsComplete
  BY DEF RelocInv, RelocationsComplete
<1> QED BY <1>1, <1>2, <1>3, <1>4, FilesAlways, PTL DEF LSpec

=============================================================================
