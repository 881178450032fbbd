--------------------------- MODULE ProcessesProofs ---------------------------
(***************************************************************************)
(* Proofs about Processes, for any set of processes, any urgencies and any *)
(* finite set of event sources.                                            *)
(***************************************************************************)
EXTENDS Processes, SequenceTheorems, FiniteSetTheorems, TLAPS

(***************************************************************************)
(* The ready list as a sequence.                                           *)
(***************************************************************************)

\* q is r with p added at place h and the rest moved as f says; then q has the
\* elements of r and p, and repeats none if r does not and p is new.
IsOneMore(r, q, p, h, f) ==
  /\ r \in Seq(Proc) /\ q \in Seq(Proc) /\ p \in Proc
  /\ h \in 1..Len(q) /\ q[h] = p
  /\ f \in [(1..Len(q)) \ {h} -> 1..Len(r)]
  /\ \A i \in (1..Len(q)) \ {h} : q[i] = r[f[i]]
  /\ \A i, j \in (1..Len(q)) \ {h} : f[i] = f[j] => i = j
  /\ \A j \in 1..Len(r) : \E i \in (1..Len(q)) \ {h} : f[i] = j

LEMMA OneMore ==
  ASSUME NEW r, NEW q, NEW p, NEW h, NEW f, IsOneMore(r, q, p, h, f)
  PROVE  /\ Elems(q) = Elems(r) \cup {p}
         /\ NoRepetition(r) /\ p \notin Elems(r) => NoRepetition(q)
<1> USE DEF IsOneMore
<1>1. \A i \in 1..Len(q) : i = h \/ (i \in (1..Len(q)) \ {h} /\ f[i] \in 1..Len(r))
  OBVIOUS
<1>2. ASSUME NEW x \in Elems(q) PROVE x \in Elems(r) \cup {p}
  BY <1>1 DEF Elems
<1>3. ASSUME NEW x \in Elems(r) PROVE x \in Elems(q)
  <2>1. PICK j \in 1..Len(r) : x = r[j]
    BY DEF Elems
  <2>2. PICK i \in (1..Len(q)) \ {h} : f[i] = j
    BY <2>1
  <2> QED BY <2>1, <2>2 DEF Elems
<1>4. p \in Elems(q)
  BY DEF Elems
<1>5. ASSUME NoRepetition(r), p \notin Elems(r),
             NEW i \in 1..Len(q), NEW j \in 1..Len(q), q[i] = q[j]
      PROVE  i = j
  <2>1. \A m \in (1..Len(q)) \ {h} : q[m] \in Elems(r)
    BY <1>1 DEF Elems
  <2>2. CASE i = h \/ j = h
    BY <2>1, <2>2, <1>5
  <2>3. CASE i # h /\ j # h
    <3>1. f[i] = f[j]
      BY <1>1, <1>5, <2>3 DEF NoRepetition
    <3> QED BY <3>1, <2>3
  <2> QED BY <2>2, <2>3
<1> QED BY <1>2, <1>3, <1>4, <1>5 DEF NoRepetition

\* q is the list s, of length m, followed by the list t, of length l.
IsConcat(q, s, t, m, l) ==
  /\ q \in Seq(Proc)
  /\ Len(q) = m + l
  /\ \A i \in 1..m + l : q[i] = IF i <= m THEN s[i] ELSE t[i - m]

LEMMA Concat ==
  \A s, t \in Seq(Proc), m, l \in Nat :
    Len(s) = m /\ Len(t) = l => IsConcat(s \o t, s, t, m, l)
<1> TAKE s, t \in Seq(Proc), m, l \in Nat
<1>1. /\ s \o t \in Seq(Proc)
      /\ Len(s \o t) = Len(s) + Len(t)
      /\ \A i \in 1..Len(s) + Len(t) :
           (s \o t)[i] = IF i <= Len(s) THEN s[i] ELSE t[i - Len(s)]
  BY ConcatProperties
<1> QED BY <1>1 DEF IsConcat

\* A part of a list of processes.
LEMMA SubList ==
  \A r \in Seq(Proc), m, n \in Nat : 1 <= m /\ m <= n+1 /\ n <= Len(r) =>
    /\ SubSeq(r, m, n) \in Seq(Proc)
    /\ Len(SubSeq(r, m, n)) = n-m+1
    /\ \A i \in 1..n-m+1 : SubSeq(r, m, n)[i] = r[m+i-1]
<1> SUFFICES ASSUME NEW r \in Seq(Proc), NEW m \in Nat, NEW n \in Nat,
                    1 <= m, m <= n+1, n <= Len(r)
             PROVE  /\ SubSeq(r, m, n) \in Seq(Proc)
                    /\ Len(SubSeq(r, m, n)) = n-m+1
                    /\ \A i \in 1..n-m+1 : SubSeq(r, m, n)[i] = r[m+i-1]
  OBVIOUS
<1>1. \A i \in m..n : r[i] \in Proc
  BY ElementOfSeq
<1> QED BY <1>1, SubSeqProperties

\* Where Insert puts everybody: with pre-emption p comes first and the list is
\* turned so that its k-th element follows; without, p comes before the k-th.
LEMMA InsertLayout ==
  ASSUME NEW r \in Seq(Proc), r # <<>>, NEW p \in Proc, NEW k \in 2..Len(r)+1
  PROVE  /\ Insert(r, p, k) \in Seq(Proc)
         /\ Len(Insert(r, p, k)) = Len(r) + 1
         /\ Urgency[r[1]] < Urgency[p] =>
              \A i \in 1..Len(r)+1 : Insert(r, p, k)[i] =
                IF i = 1 THEN p
                ELSE IF i <= Len(r)-k+2 THEN r[k+i-2] ELSE r[i-(Len(r)-k+2)]
         /\ ~(Urgency[r[1]] < Urgency[p]) =>
              \A i \in 1..Len(r)+1 : Insert(r, p, k)[i] =
                IF i < k THEN r[i] ELSE IF i = k THEN p ELSE r[i-1]
<1>1. PICK n \in Nat \ {0} : n = Len(r)
  BY EmptySeq
<1>2. k \in 2..n+1 /\ k \in Nat /\ \A i \in 1..n : r[i] \in Proc
  BY <1>1, ElementOfSeq
<1>3. PICK front \in Seq(Proc) :
        /\ front = SubSeq(r, 1, k-1)
        /\ Len(front) = k-1
        /\ \A i \in 1..k-1 : front[i] = r[i]
  <2>1. /\ SubSeq(r, 1, k-1) \in Seq(Proc)
        /\ Len(SubSeq(r, 1, k-1)) = k-1
        /\ \A i \in 1..k-1 : SubSeq(r, 1, k-1)[i] = r[i]
    <3>1. k-1 \in Nat /\ 1 <= (k-1)+1 /\ k-1 <= Len(r)
      BY <1>1, <1>2
    <3> QED BY <3>1, <1>2, SubList
  <2> QED BY <2>1
<1>4. PICK back \in Seq(Proc) :
        /\ back = SubSeq(r, k, Len(r))
        /\ Len(back) = n-k+1
        /\ \A i \in 1..n-k+1 : back[i] = r[k+i-1]
  <2>1. /\ SubSeq(r, k, n) \in Seq(Proc)
        /\ Len(SubSeq(r, k, n)) = n-k+1
        /\ \A i \in 1..n-k+1 : SubSeq(r, k, n)[i] = r[k+i-1]
    BY <1>1, <1>2, SubList
  <2> QED BY <2>1, <1>1
<1>5. PICK one \in Seq(Proc) : one = <<p>> /\ Len(one) = 1 /\ one[1] = p
  <2>1. <<p>> \in Seq(Proc) /\ Len(<<p>>) = 1 /\ <<p>>[1] = p
    OBVIOUS
  <2> QED BY <2>1
<1>6. CASE Urgency[r[1]] < Urgency[p]
  <2>1. PICK t \in Seq(Proc) :
          /\ t = one \o back
          /\ Len(t) = n-k+2
          /\ \A i \in 1..n-k+2 : t[i] = IF i <= 1 THEN one[i] ELSE back[i-1]
    <3>1. 1 \in Nat /\ n-k+1 \in Nat /\ Len(one) = 1 /\ Len(back) = n-k+1
      BY <1>2, <1>4, <1>5
    <3>2. IsConcat(one \o back, one, back, 1, n-k+1)
      BY <3>1, Concat
    <3>3. 1 + (n-k+1) = n-k+2
      BY <1>2
    <3> QED BY <3>2, <3>3 DEF IsConcat
  <2>2. PICK q \in Seq(Proc) :
          /\ q = t \o front
          /\ Len(q) = n+1
          /\ \A i \in 1..n+1 : q[i] = IF i <= n-k+2 THEN t[i] ELSE front[i-(n-k+2)]
    <3>1. n-k+2 \in Nat /\ k-1 \in Nat /\ Len(t) = n-k+2 /\ Len(front) = k-1
      BY <1>2, <1>3, <2>1
    <3>2. IsConcat(t \o front, t, front, n-k+2, k-1)
      BY <3>1, Concat
    <3>3. (n-k+2) + (k-1) = n+1
      BY <1>2
    <3> QED BY <3>2, <3>3 DEF IsConcat
  <2>3. Insert(r, p, k) = q
    BY <1>3, <1>4, <1>5, <1>6, <2>1, <2>2 DEF Insert
  <2>4. ASSUME NEW i \in 1..n+1
        PROVE  q[i] = IF i = 1 THEN p
                      ELSE IF i <= n-k+2 THEN r[k+i-2] ELSE r[i-(n-k+2)]
    <3>1. CASE i = 1
      BY <3>1, <1>2, <1>5, <2>1, <2>2
    <3>2. CASE i # 1 /\ i <= n-k+2
      <4>1. i \in 1..n-k+2 /\ ~(i <= 1) /\ i-1 \in 1..n-k+1
        BY <3>2, <1>2
      <4>2. q[i] = back[i-1]
        BY <3>2, <4>1, <2>1, <2>2
      <4>3. back[i-1] = r[k+(i-1)-1] /\ k+(i-1)-1 = k+i-2
        BY <4>1, <1>2, <1>4
      <4> QED BY <3>2, <4>2, <4>3
    <3>3. CASE i # 1 /\ ~(i <= n-k+2)
      <4>1. q[i] = front[i-(n-k+2)]
        BY <3>3, <2>2
      <4>2. i-(n-k+2) \in 1..k-1
        BY <3>3, <1>2
      <4> QED BY <3>3, <4>1, <4>2, <1>3
    <3> QED BY <3>1, <3>2, <3>3
  <2> QED BY <1>1, <1>6, <2>2, <2>3, <2>4
<1>7. CASE ~(Urgency[r[1]] < Urgency[p])
  <2>1. PICK t \in Seq(Proc) :
          /\ t = front \o one
          /\ Len(t) = k
          /\ \A i \in 1..k : t[i] = IF i <= k-1 THEN front[i] ELSE one[i-(k-1)]
    <3>1. k-1 \in Nat /\ 1 \in Nat /\ Len(front) = k-1 /\ Len(one) = 1
      BY <1>2, <1>3, <1>5
    <3>2. IsConcat(front \o one, front, one, k-1, 1)
      BY <3>1, Concat
    <3>3. (k-1) + 1 = k
      BY <1>2
    <3> QED BY <3>2, <3>3 DEF IsConcat
  <2>2. PICK q \in Seq(Proc) :
          /\ q = t \o back
          /\ Len(q) = n+1
          /\ \A i \in 1..n+1 : q[i] = IF i <= k THEN t[i] ELSE back[i-k]
    <3>1. k \in Nat /\ n-k+1 \in Nat /\ Len(t) = k /\ Len(back) = n-k+1
      BY <1>2, <1>4, <2>1
    <3>2. IsConcat(t \o back, t, back, k, n-k+1)
      BY <3>1, Concat
    <3>3. k + (n-k+1) = n+1
      BY <1>2
    <3> QED BY <3>2, <3>3 DEF IsConcat
  <2>3. Insert(r, p, k) = q
    BY <1>3, <1>4, <1>5, <1>7, <2>1, <2>2 DEF Insert
  <2>4. ASSUME NEW i \in 1..n+1
        PROVE  q[i] = IF i < k THEN r[i] ELSE IF i = k THEN p ELSE r[i-1]
    <3>1. CASE i < k
      <4>1. q[i] = front[i] /\ i \in 1..k-1
        BY <3>1, <1>2, <2>1, <2>2
      <4> QED BY <4>1, <3>1, <1>3
    <3>2. CASE i = k
      BY <3>2, <1>2, <1>5, <2>1, <2>2
    <3>3. CASE ~(i < k) /\ i # k
      <4>1. ~(i <= k) /\ i-k \in 1..n-k+1
        BY <3>3, <1>2
      <4>2. q[i] = back[i-k]
        BY <4>1, <2>2
      <4>3. back[i-k] = r[k+(i-k)-1] /\ k+(i-k)-1 = i-1
        BY <4>1, <1>2, <1>4
      <4> QED BY <3>3, <4>2, <4>3
    <3> QED BY <3>1, <3>2, <3>3
  <2> QED BY <1>1, <1>7, <2>2, <2>3, <2>4
<1> QED BY <1>6, <1>7

\* Tying p in before the k-th element adds p and keeps everybody else once.
LEMMA InsertProperties ==
  ASSUME NEW r \in Seq(Proc), r # <<>>, NEW p \in Proc, NEW k \in 2..Len(r)+1
  PROVE  /\ Insert(r, p, k) \in Seq(Proc)
         /\ Insert(r, p, k) # <<>>
         /\ Elems(Insert(r, p, k)) = Elems(r) \cup {p}
         /\ NoRepetition(r) /\ p \notin Elems(r) => NoRepetition(Insert(r, p, k))
<1>1. PICK n \in Nat \ {0} : n = Len(r)
  BY EmptySeq
<1>2. k \in 2..n+1 /\ k \in Nat
  BY <1>1
<1>3. PICK q \in Seq(Proc) :
        /\ q = Insert(r, p, k)
        /\ Len(q) = n+1
        /\ Urgency[r[1]] < Urgency[p] =>
             \A i \in 1..n+1 : q[i] = IF i = 1 THEN p
               ELSE IF i <= n-k+2 THEN r[k+i-2] ELSE r[i-(n-k+2)]
        /\ ~(Urgency[r[1]] < Urgency[p]) =>
             \A i \in 1..n+1 : q[i] = IF i < k THEN r[i] ELSE IF i = k THEN p ELSE r[i-1]
  <2> DEFINE q == Insert(r, p, k)
  <2>1. /\ q \in Seq(Proc)
        /\ Len(q) = Len(r)+1
        /\ Urgency[r[1]] < Urgency[p] =>
             \A i \in 1..Len(r)+1 : q[i] = IF i = 1 THEN p
               ELSE IF i <= Len(r)-k+2 THEN r[k+i-2] ELSE r[i-(Len(r)-k+2)]
        /\ ~(Urgency[r[1]] < Urgency[p]) =>
             \A i \in 1..Len(r)+1 :
               q[i] = IF i < k THEN r[i] ELSE IF i = k THEN p ELSE r[i-1]
    BY InsertLayout
  <2> HIDE DEF q
  <2> QED BY <2>1, <1>1 DEF q
<1>4. PICK h, f : IsOneMore(r, q, p, h, f)
  <2>1. CASE Urgency[r[1]] < Urgency[p]
    <3>0. \A i \in 1..n+1 : q[i] = IF i = 1 THEN p
            ELSE IF i <= n-k+2 THEN r[k+i-2] ELSE r[i-(n-k+2)]
      BY <1>3, <2>1
    <3> DEFINE f == [i \in (1..n+1) \ {1} |->
                       IF i <= n-k+2 THEN k+i-2 ELSE i-(n-k+2)]
    <3>1. 1 \in 1..n+1 /\ (1..n+1) \ {1} = 2..n+1
      OBVIOUS
    <3>2. f \in [(1..n+1) \ {1} -> 1..n]
      <4>1. ASSUME NEW i \in (1..n+1) \ {1}
            PROVE  (IF i <= n-k+2 THEN k+i-2 ELSE i-(n-k+2)) \in 1..n
        BY <1>2, <3>1
      <4> QED BY <4>1
    <3>3. \A i \in 2..n+1 : f[i] = IF i <= n-k+2 THEN k+i-2 ELSE i-(n-k+2)
      BY <3>1
    <3> HIDE DEF f
    <3>4. q[1] = p /\ \A i \in 2..n+1 : q[i] = r[f[i]]
      BY <3>0, <3>3
    <3>5. \A i, j \in 2..n+1 : f[i] = f[j] => i = j
      BY <3>3, <1>2
    <3>6. ASSUME NEW j \in 1..n PROVE \E i \in 2..n+1 : f[i] = j
      <4>1. CASE j >= k
        <5>1. j-k+2 \in 2..n+1 /\ f[j-k+2] = j
          BY <4>1, <1>2, <3>3
        <5> QED BY <5>1
      <4>2. CASE j < k
        <5>1. j+(n-k+2) \in 2..n+1 /\ f[j+(n-k+2)] = j
          BY <4>2, <1>2, <3>3
        <5> QED BY <5>1
      <4> QED BY <4>1, <4>2, <1>2
    <3>7. IsOneMore(r, q, p, 1, f)
      BY <1>1, <1>3, <3>1, <3>2, <3>4, <3>5, <3>6 DEF IsOneMore
    <3> QED BY <3>7
  <2>2. CASE ~(Urgency[r[1]] < Urgency[p])
    <3>0. \A i \in 1..n+1 : q[i] = IF i < k THEN r[i] ELSE IF i = k THEN p ELSE r[i-1]
      BY <1>3, <2>2
    <3> DEFINE f == [i \in (1..n+1) \ {k} |-> IF i < k THEN i ELSE i-1]
    <3>1. f \in [(1..n+1) \ {k} -> 1..n] /\ k \in 1..n+1
      <4>1. ASSUME NEW i \in (1..n+1) \ {k}
            PROVE  (IF i < k THEN i ELSE i-1) \in 1..n
        BY <1>2
      <4> QED BY <4>1, <1>2
    <3>2. \A i \in (1..n+1) \ {k} : f[i] = IF i < k THEN i ELSE i-1
      OBVIOUS
    <3> HIDE DEF f
    <3>3. q[k] = p /\ \A i \in (1..n+1) \ {k} : q[i] = r[f[i]]
      BY <1>2, <3>0, <3>2
    <3>4. \A i, j \in (1..n+1) \ {k} : f[i] = f[j] => i = j
      BY <3>2, <1>2
    <3>5. ASSUME NEW j \in 1..n PROVE \E i \in (1..n+1) \ {k} : f[i] = j
      <4>1. CASE j >= k
        <5>1. j+1 \in (1..n+1) \ {k} /\ f[j+1] = j
          BY <4>1, <1>2, <3>2
        <5> QED BY <5>1
      <4>2. CASE j < k
        <5>1. j \in (1..n+1) \ {k} /\ f[j] = j
          BY <4>2, <1>2, <3>2
        <5> QED BY <5>1
      <4> QED BY <4>1, <4>2, <1>2
    <3>6. IsOneMore(r, q, p, k, f)
      BY <1>1, <1>3, <3>1, <3>3, <3>4, <3>5 DEF IsOneMore
    <3> QED BY <3>6
  <2> QED BY <2>1, <2>2
<1>5. /\ Elems(q) = Elems(r) \cup {p}
      /\ NoRepetition(r) /\ p \notin Elems(r) => NoRepetition(q)
  BY <1>4, OneMore
<1>6. q # <<>>
  BY <1>3, EmptySeq
<1> QED BY <1>3, <1>5, <1>6

\* Whatever list Tie makes, it holds p and what it held before, once each.
LEMMA TiedProperties ==
  ASSUME NEW r \in Seq(Proc), NEW p \in Proc, NEW r2 \in Tied(r, p)
  PROVE  /\ r2 \in Seq(Proc)
         /\ r2 # <<>>
         /\ Elems(r2) = Elems(r) \cup {p}
         /\ NoRepetition(r) /\ p \notin Elems(r) => NoRepetition(r2)
<1>1. CASE r = <<>>
  <2>1. r2 = <<p>> /\ Len(r2) = 1 /\ r2[1] = p /\ Len(r) = 0
    BY <1>1 DEF Tied
  <2>2. Elems(r2) = {p} /\ Elems(r) = {} /\ NoRepetition(r2)
    BY <2>1 DEF Elems, NoRepetition
  <2> QED BY <2>1, <2>2
<1>2. CASE r # <<>>
  <2>1. PICK k \in 2..Len(r)+1 : r2 = Insert(r, p, k)
    BY <1>2 DEF Tied
  <2> QED BY <1>2, <2>1, InsertProperties
<1> QED BY <1>1, <1>2

\* UnTie takes the head out of the list and nothing else.
LEMMA TailProperties ==
  ASSUME NEW r \in Seq(Proc), r # <<>>, NoRepetition(r)
  PROVE  /\ Head(r) \in Proc /\ Head(r) \in Elems(r)
         /\ Tail(r) \in Seq(Proc)
         /\ NoRepetition(Tail(r))
         /\ Elems(Tail(r)) = Elems(r) \ {Head(r)}
<1>1. PICK n \in Nat \ {0} : n = Len(r)
  BY EmptySeq
<1>2. /\ Head(r) = r[1] /\ r[1] \in Proc
      /\ \A i \in 1..n : r[i] \in Proc
  BY <1>1, ElementOfSeq
<1>3. PICK t \in Seq(Proc) : t = Tail(r) /\ Len(t) = n-1 /\ \A i \in 1..n-1 : t[i] = r[i+1]
  <2>1. /\ Tail(r) \in Seq(Proc)
        /\ Len(Tail(r)) = Len(r)-1
        /\ \A i \in 1..Len(Tail(r)) : Tail(r)[i] = r[i+1]
    BY HeadTailProperties
  <2>2. Len(Tail(r)) = n-1 /\ \A i \in 1..n-1 : Tail(r)[i] = r[i+1]
    BY <2>1, <1>1
  <2> QED BY <2>1, <2>2
<1>4. NoRepetition(t)
  <2> SUFFICES ASSUME NEW i \in 1..n-1, NEW j \in 1..n-1, t[i] = t[j]
               PROVE  i = j
    BY <1>3 DEF NoRepetition
  <2>1. i+1 \in 1..n /\ j+1 \in 1..n /\ r[i+1] = r[j+1]
    BY <1>3
  <2>2. i+1 = j+1
    BY <2>1, <1>1 DEF NoRepetition
  <2> QED BY <2>2
<1>5. ASSUME NEW x \in Elems(t) PROVE x \in Elems(r) \ {Head(r)}
  <2>1. PICK i \in 1..n-1 : x = t[i]
    BY <1>3 DEF Elems
  <2>2. i+1 \in 1..n /\ x = r[i+1] /\ 1 \in 1..n /\ i+1 # 1
    BY <2>1, <1>3
  <2>3. x # r[1]
    BY <2>2, <1>1 DEF NoRepetition
  <2> QED BY <2>2, <2>3, <1>1, <1>2 DEF Elems
<1>6. ASSUME NEW x \in Elems(r), x # Head(r) PROVE x \in Elems(t)
  <2>1. PICK i \in 1..n : x = r[i] /\ i # 1
    BY <1>1, <1>2, <1>6 DEF Elems
  <2>2. i-1 \in 1..n-1 /\ (i-1)+1 = i
    BY <2>1
  <2>3. x = t[i-1]
    BY <2>1, <2>2, <1>3
  <2> QED BY <2>2, <2>3, <1>3 DEF Elems
<1>7. Head(r) \in Elems(r)
  BY <1>1, <1>2 DEF Elems
<1> QED BY <1>2, <1>3, <1>4, <1>5, <1>6, <1>7

(***************************************************************************)
(* The inductive invariant of the whole interface.                         *)
(***************************************************************************)

\* A ready list, bodies, states, corpse and stopped processes that agree: the
\* list holds the ready processes once each, whoever stopped is passive, and
\* only a stopped process is the corpse (so disposing of the corpse never takes
\* the descriptor away from a process in the list).
Agree(r, b, s, c, k) ==
  /\ r \in Seq(Proc)
  /\ b \in [Proc -> Proc]
  /\ s \in [Proc -> {"free", "passive", "ready", "waiting"}]
  /\ c \in Proc \cup {NULL}
  /\ k \in SUBSET Proc
  /\ NoRepetition(r)
  /\ Elems(r) = {p \in Proc : s[p] = "ready"}
  /\ \A p \in k : s[p] = "passive"
  /\ c # NULL => c \in k

\* What the operations on event sources keep.
EventsCounted ==
  /\ events \in [Source -> Proc \cup {NULL}]
  /\ hcnt \in Nat
  /\ HandlersCounted

Control ==
  /\ cor \in Proc
  /\ started \in SUBSET Proc
  /\ status \in {"running", "halted", "trap"}

Inv == Agree(ring, body, state, corpse, stopped) /\ Control /\ EventsCounted

\* A step that ends the program with a failed assertion keeps what agreed.
LEMMA TrapKeeps ==
  ASSUME Agree(ring, body, state, corpse, stopped), Control, Trap
  PROVE  Agree(ring, body, state, corpse, stopped)' /\ Control'
<1>1. UNCHANGED <<ring, state, body, corpse, stopped>>
  BY DEF Trap
<1>2. Agree(ring, body, state, corpse, stopped)'
  BY <1>1 DEF Agree, NoRepetition, Elems
<1> QED BY <1>2 DEF Trap, Control

\* GoNext keeps the agreement, whether it transfers, disposes, idles or traps.
LEMMA GoNextKeeps ==
  ASSUME Agree(ring, body, state, corpse, stopped), Control,
         NEW r, NEW b, NEW s, NEW c, NEW k,
         Agree(r, b, s, c, k),
         GoNext(r, b, s, c, k)
  PROVE  Agree(ring, body, state, corpse, stopped)' /\ Control'
<1>1. CASE r = <<>>
  <2>1. /\ ring' = r /\ body' = b /\ state' = s /\ corpse' = c /\ stopped' = k
        /\ UNCHANGED <<cor, started, status>>
    BY <1>1 DEF GoNext, Idle
  <2>2. Agree(ring', body', state', corpse', stopped')
    BY <2>1
  <2> QED BY <2>1, <2>2 DEF Agree, NoRepetition, Elems, Control
<1>2. CASE Trap
  BY <1>2, TrapKeeps
<1>3. CASE r # <<>> /\ ~Trap
  <2> DEFINE t == b[Head(r)]
             buries == t \in started /\ c # NULL
             s2 == IF buries THEN [s EXCEPT ![c] = "free"] ELSE s
             k2 == IF buries THEN k \ {c} ELSE k
             c2 == IF buries THEN NULL ELSE c
  <2>1. /\ ring' = r /\ body' = b /\ state' = s2 /\ cor' = t
        /\ corpse' = c2 /\ stopped' = k2
        /\ started' = (started \cup {t}) \ (IF buries THEN {c} ELSE {})
        /\ UNCHANGED status
    BY <1>3 DEF GoNext
  <2>2. t \in Proc
    BY <1>3 DEF Agree
  <2>3. s2 \in [Proc -> {"free", "passive", "ready", "waiting"}]
    BY DEF Agree
  <2>4. {p \in Proc : s2[p] = "ready"} = {p \in Proc : s[p] = "ready"}
    BY DEF Agree
  <2>5. \A p \in k2 : s2[p] = "passive"
    BY DEF Agree
  <2>6. Agree(r, b, s2, c2, k2)
    <3>1. k2 \in SUBSET Proc /\ c2 \in Proc \cup {NULL} /\ (c2 # NULL => c2 \in k2)
      BY DEF Agree
    <3> HIDE DEF s2, k2, c2
    <3> QED BY <3>1, <2>3, <2>4, <2>5 DEF Agree
  <2>7. Control'
    BY <2>1, <2>2 DEF Control, Agree
  <2>8. Agree(ring', body', state', corpse', stopped')
    BY <2>1, <2>6
  <2> QED BY <2>7, <2>8 DEF Agree, NoRepetition, Elems
<1> QED BY <1>1, <1>2, <1>3

\* UnTie leaves an agreement behind, in which the caller may also have stopped.
LEMMA UnTieAgrees ==
  ASSUME Agree(ring, body, state, corpse, stopped), Control, Running,
         NEW st \in {"passive", "waiting"}
  PROVE  /\ Head(ring) \in Proc
         /\ state[Head(ring)] = "ready"
         /\ Head(ring) \notin Elems(Tail(ring))
         /\ Agree(Tail(ring), UnTieBody, UnTieState(st), corpse, stopped)
         /\ st = "passive" =>
              Agree(Tail(ring), UnTieBody, UnTieState(st), Head(ring),
                    stopped \cup {Head(ring)})
<1>1. /\ Head(ring) \in Proc /\ Head(ring) \in Elems(ring)
      /\ Tail(ring) \in Seq(Proc)
      /\ NoRepetition(Tail(ring))
      /\ Elems(Tail(ring)) = Elems(ring) \ {Head(ring)}
  BY TailProperties DEF Agree, Running
<1>2. state[Head(ring)] = "ready"
  BY <1>1 DEF Agree
<1>3. UnTieBody \in [Proc -> Proc]
  BY DEF UnTieBody, Agree, Control
<1>4. UnTieState(st) \in [Proc -> {"free", "passive", "ready", "waiting"}]
  BY DEF UnTieState, Agree
<1>5. Elems(Tail(ring)) = {p \in Proc : UnTieState(st)[p] = "ready"}
  BY <1>1 DEF UnTieState, Agree
<1>6. \A p \in stopped : UnTieState(st)[p] = "passive"
  BY <1>2 DEF UnTieState, Agree
<1>7. UnTieState(st)[Head(ring)] = st
  BY <1>1 DEF UnTieState, Agree
<1> QED BY <1>1, <1>2, <1>3, <1>4, <1>5, <1>6, <1>7 DEF Agree

\* Tie(p); GoNext keeps the agreement if p is not in the list and has not stopped.
LEMMA TieAndGoKeeps ==
  ASSUME Agree(ring, body, state, corpse, stopped), Control,
         NEW r, NEW b, NEW s, NEW p \in Proc,
         Agree(r, b, s, corpse, stopped),
         p \notin Elems(r), p \notin stopped,
         TieAndGo(r, b, s, p)
  PROVE  Agree(ring, body, state, corpse, stopped)' /\ Control'
<1>1. CASE Tied(r, p) = {}
  BY <1>1, TrapKeeps DEF TieAndGo
<1>2. CASE Tied(r, p) # {}
  <2>1. PICK r2 \in Tied(r, p) :
          GoNext(r2, TieBody(r, b), TieState(r, s, p), corpse, stopped)
    BY <1>2 DEF TieAndGo
  <2>2. /\ r \in Seq(Proc) /\ NoRepetition(r)
        /\ Elems(r) = {q \in Proc : s[q] = "ready"}
    BY DEF Agree
  <2>3. /\ r2 \in Seq(Proc) /\ NoRepetition(r2)
        /\ Elems(r2) = Elems(r) \cup {p}
    BY <2>2, TiedProperties
  <2>4. r # <<>> => Head(r) \in Proc /\ Head(r) \in Elems(r)
    BY <2>2, TailProperties
  <2>5. TieBody(r, b) \in [Proc -> Proc]
    BY <2>4 DEF TieBody, Agree, Control
  <2>6. TieState(r, s, p) \in [Proc -> {"free", "passive", "ready", "waiting"}]
    BY DEF TieState, Agree
  <2>7. Elems(r2) = {q \in Proc : TieState(r, s, p)[q] = "ready"}
    BY <2>2, <2>3, <2>4 DEF TieState
  <2>8. \A q \in stopped : TieState(r, s, p)[q] = "passive"
    <3> SUFFICES ASSUME NEW q \in stopped
                 PROVE  TieState(r, s, p)[q] = "passive"
      OBVIOUS
    <3>1. q \in Proc /\ s[q] = "passive" /\ q # p
      BY DEF Agree
    <3>2. r # <<>> => q # Head(r)
      BY <3>1, <2>2, <2>4
    <3> QED BY <3>1, <3>2 DEF TieState
  <2>9. Agree(r2, TieBody(r, b), TieState(r, s, p), corpse, stopped)
    BY <2>3, <2>5, <2>6, <2>7, <2>8 DEF Agree
  <2> QED BY <2>1, <2>9, GoNextKeeps
<1> QED BY <1>1, <1>2

\* Operations that leave the event sources alone keep the count.
LEMMA EventsUnchanged ==
  ASSUME EventsCounted, UNCHANGED <<events, hcnt>>
  PROVE  EventsCounted'
BY DEF EventsCounted, HandlersCounted

\* init establishes the invariant.
LEMMA InitInv == Init => Inv
<1> SUFFICES ASSUME Init PROVE Inv
  OBVIOUS
<1>1. ring \in Seq(Proc) /\ Len(ring) = 1 /\ ring[1] = Main
  BY ProcAssumption DEF Init
<1>2. NoRepetition(ring) /\ Elems(ring) = {Main}
  BY <1>1 DEF NoRepetition, Elems
<1>3. {p \in Proc : state[p] = "ready"} = {Main}
  BY ProcAssumption DEF Init
<1>4. Agree(ring, body, state, corpse, stopped)
  BY <1>1, <1>2, <1>3 DEF Init, Agree
<1>5. Control
  BY ProcAssumption DEF Init, Control
<1>6. EventsCounted
  <2>1. {e \in Source : events[e] # NULL} = {}
    BY DEF Init
  <2>2. hcnt = Cardinality({e \in Source : events[e] # NULL})
    BY <2>1, FS_EmptySet DEF Init
  <2> QED BY <2>2 DEF Init, EventsCounted, HandlersCounted
<1> QED BY <1>4, <1>5, <1>6 DEF Inv

\* Associating a source counts it once, dissociating it takes it away once.
LEMMA SourcesKeep ==
  ASSUME Inv, NEW e \in Source, Attach(e) \/ Detach(e)
  PROVE  Inv'
<1> DEFINE on == {f \in Source : events[f] # NULL}
<1> USE DEF Inv
<1>1. Agree(ring, body, state, corpse, stopped)' /\ Control'
  <2>1. UNCHANGED <<ring, state, body, corpse, cor, started, status, stopped>>
    BY DEF Attach, Detach
  <2> QED BY <2>1 DEF Agree, NoRepetition, Elems, Control
<1>2. IsFiniteSet(on) /\ hcnt = Cardinality(on) /\ hcnt \in Nat
  BY SourceAssumption, FS_Subset DEF EventsCounted, HandlersCounted
<1>3. Running /\ ring # <<>> /\ Head(ring) \in Proc /\ Head(ring) # NULL
  <2>1. Running /\ ring # <<>>
    BY DEF Attach, Detach, Running
  <2> QED BY <2>1, TailProperties, ProcAssumption DEF Agree
<1>4. CASE Attach(e)
  <2>1. /\ events' = [events EXCEPT ![e] = Head(ring)]
        /\ events' \in [Source -> Proc \cup {NULL}]
    BY <1>3, <1>4 DEF Attach, EventsCounted
  <2>2. {f \in Source : events'[f] # NULL} = on \cup {e}
    BY <1>3, <2>1 DEF EventsCounted
  <2>3. hcnt' = Cardinality(on \cup {e}) /\ hcnt' \in Nat
    <3>1. CASE e \in on
      <4>1. on \cup {e} = on
        BY <3>1
      <4>2. hcnt' = hcnt
        BY <3>1, <1>4 DEF Attach
      <4> QED BY <4>1, <4>2, <1>2
    <3>2. CASE e \notin on
      <4>1. Cardinality(on \cup {e}) = Cardinality(on) + 1
        BY <3>2, <1>2, FS_AddElement
      <4>2. hcnt' = hcnt + 1
        BY <3>2, <1>4 DEF Attach
      <4> QED BY <4>1, <4>2, <1>2
    <3> QED BY <3>1, <3>2
  <2> QED BY <1>1, <2>1, <2>2, <2>3 DEF EventsCounted, HandlersCounted
<1>5. CASE Detach(e)
  <2>1. /\ events' = [events EXCEPT ![e] = NULL]
        /\ events' \in [Source -> Proc \cup {NULL}]
    BY <1>5 DEF Detach, EventsCounted
  <2>2. {f \in Source : events'[f] # NULL} = on \ {e}
    BY <2>1 DEF EventsCounted
  <2>3. hcnt' = Cardinality(on \ {e}) /\ hcnt' \in Nat
    <3>1. CASE e \notin on
      <4>1. on \ {e} = on
        BY <3>1
      <4>2. hcnt' = hcnt
        BY <3>1, <1>5 DEF Detach
      <4> QED BY <4>1, <4>2, <1>2
    <3>2. CASE e \in on
      <4>1. /\ Cardinality(on \ {e}) = Cardinality(on) - 1
            /\ IsFiniteSet(on \ {e})
        BY <3>2, <1>2, FS_RemoveElement
      <4>2. hcnt' = hcnt - 1
        BY <3>2, <1>5 DEF Detach
      <4>3. Cardinality(on \ {e}) \in Nat
        BY <4>1, FS_CardinalityType
      <4> QED BY <4>1, <4>2, <4>3, <1>2
    <3> QED BY <3>1, <3>2
  <2> QED BY <1>1, <2>1, <2>2, <2>3 DEF EventsCounted, HandlersCounted
<1> QED BY <1>4, <1>5

\* Every operation of the interface keeps the invariant.
LEMMA NextInv == Inv /\ [Next]_vars => Inv'
<1> SUFFICES ASSUME Inv, [Next]_vars PROVE Inv'
  OBVIOUS
<1>0. Agree(ring, body, state, corpse, stopped) /\ Control /\ EventsCounted
  BY DEF Inv
<1> DEFINE Goal == Agree(ring, body, state, corpse, stopped)' /\ Control'
<1>1. ASSUME NEW p \in Proc, Create(p) PROVE Inv'
  <2>1. /\ UNCHANGED <<ring, events, hcnt, corpse, cor, started, status, stopped>>
        /\ state[p] = "free"
        /\ state' = [state EXCEPT ![p] = "passive"]
        /\ body' = [body EXCEPT ![p] = p]
    BY <1>1 DEF Create
  <2>2. {q \in Proc : state'[q] = "ready"} = {q \in Proc : state[q] = "ready"}
    BY <1>0, <2>1 DEF Agree
  <2>3. \A q \in stopped : state'[q] = "passive"
    BY <1>0, <2>1 DEF Agree
  <2>4. Agree(ring, body', state', corpse, stopped)
    BY <1>0, <2>1, <2>2, <2>3 DEF Agree
  <2>5. Goal
    BY <1>0, <2>1, <2>4 DEF Agree, NoRepetition, Elems, Control
  <2> QED BY <1>0, <2>1, <2>5, EventsUnchanged DEF Inv
<1>2. ASSUME NEW p \in Proc, Start(p) PROVE Inv'
  <2>1. /\ state[p] = "free" /\ UNCHANGED <<events, hcnt>>
        /\ TieAndGo(ring, [body EXCEPT ![p] = p], state, p)
    BY <1>2 DEF Start
  <2>2. Agree(ring, [body EXCEPT ![p] = p], state, corpse, stopped)
    BY <1>0 DEF Agree
  <2>3. p \notin Elems(ring) /\ p \notin stopped
    BY <1>0, <2>1 DEF Agree
  <2>4. Goal
    BY <1>0, <2>1, <2>2, <2>3, TieAndGoKeeps
  <2> QED BY <1>0, <2>1, <2>4, EventsUnchanged DEF Inv
<1>3. ASSUME NEW p \in Proc, Activate(p) PROVE Inv'
  <2>1. /\ state[p] \in {"passive", "waiting"} /\ p \notin stopped
        /\ UNCHANGED <<events, hcnt>>
        /\ TieAndGo(ring, body, state, p)
    BY <1>3 DEF Activate
  <2>2. p \notin Elems(ring)
    BY <1>0, <2>1 DEF Agree
  <2>3. Goal
    BY <1>0, <2>1, <2>2, TieAndGoKeeps
  <2> QED BY <1>0, <2>1, <2>3, EventsUnchanged DEF Inv
<1>4. CASE StopMe
  <2>1. Running /\ UNCHANGED <<events, hcnt>>
    BY <1>4 DEF StopMe
  <2>2. Goal
    <3>1. CASE Tail(ring) = <<>>
      <4>1. /\ status' = "halted" /\ body' = UnTieBody
            /\ UNCHANGED <<ring, state, corpse, cor, started, stopped>>
        BY <1>4, <3>1 DEF StopMe
      <4>2. Agree(ring, UnTieBody, state, corpse, stopped)
        BY <1>0, <2>1, UnTieAgrees DEF Agree
      <4> QED BY <1>0, <4>1, <4>2 DEF Agree, NoRepetition, Elems, Control
    <3>2. CASE Tail(ring) # <<>>
      <4>1. GoNext(Tail(ring), UnTieBody, UnTieState("passive"), Head(ring),
                   stopped \cup {Head(ring)})
        BY <1>4, <3>2 DEF StopMe
      <4> QED BY <1>0, <2>1, <4>1, UnTieAgrees, GoNextKeeps
    <3> QED BY <3>1, <3>2
  <2> QED BY <1>0, <2>1, <2>2, EventsUnchanged DEF Inv
<1>5. CASE SuspendMe
  <2>1. Running /\ UNCHANGED <<events, hcnt>>
    BY <1>5 DEF SuspendMe
  <2>2. Goal
    <3>1. CASE Tail(ring) = <<>> /\ hcnt = 0
      <4>1. /\ body' = UnTieBody
            /\ UNCHANGED <<ring, state, corpse, cor, started, status, stopped>>
        BY <1>5, <3>1 DEF SuspendMe
      <4>2. Agree(ring, UnTieBody, state, corpse, stopped)
        BY <1>0, <2>1, UnTieAgrees DEF Agree
      <4> QED BY <1>0, <4>1, <4>2 DEF Agree, NoRepetition, Elems, Control
    <3>2. CASE ~(Tail(ring) = <<>> /\ hcnt = 0)
      <4>1. GoNext(Tail(ring), UnTieBody, UnTieState("passive"), corpse, stopped)
        BY <1>5, <3>2 DEF SuspendMe
      <4> QED BY <1>0, <2>1, <4>1, UnTieAgrees, GoNextKeeps
    <3> QED BY <3>1, <3>2
  <2> QED BY <1>0, <2>1, <2>2, EventsUnchanged DEF Inv
<1>6. CASE Wait
  <2>1. /\ Running /\ UNCHANGED <<events, hcnt>>
        /\ GoNext(Tail(ring), UnTieBody, UnTieState("waiting"), corpse, stopped)
    BY <1>6 DEF Wait
  <2>2. Goal
    BY <1>0, <2>1, UnTieAgrees, GoNextKeeps
  <2> QED BY <1>0, <2>1, <2>2, EventsUnchanged DEF Inv
<1>7. ASSUME NEW e \in Source, Attach(e) \/ Detach(e) PROVE Inv'
  BY <1>7, SourcesKeep
<1>8. ASSUME NEW p \in Proc, SuspendMeAndActivate(p) PROVE Inv'
  <2>1. /\ Running /\ UNCHANGED <<events, hcnt>>
        /\ p = Head(ring) \/ (state[p] \in {"passive", "waiting"} /\ p \notin stopped)
        /\ TieAndGo(Tail(ring), UnTieBody, UnTieState("passive"), p)
    BY <1>8 DEF SuspendMeAndActivate
  <2>2. /\ Agree(Tail(ring), UnTieBody, UnTieState("passive"), corpse, stopped)
        /\ Head(ring) \notin Elems(Tail(ring)) /\ state[Head(ring)] = "ready"
    BY <1>0, <2>1, UnTieAgrees
  <2>3. p \notin Elems(Tail(ring)) /\ p \notin stopped
    BY <1>0, <2>1, <2>2 DEF Agree, UnTieState
  <2>4. Goal
    BY <1>0, <2>1, <2>2, <2>3, TieAndGoKeeps
  <2> QED BY <1>0, <2>1, <2>4, EventsUnchanged DEF Inv
<1>9. ASSUME NEW p \in Proc, Switch(p) PROVE Inv'
  <2>1. /\ Running /\ UNCHANGED <<events, hcnt>>
        /\ state[p] \in {"passive", "waiting"} /\ p \notin stopped
    BY <1>9 DEF Switch
  <2>2. Goal
    <3>1. CASE Urgency[Head(ring)] <= Urgency[p]
      <4>1. TieAndGo(Tail(ring), UnTieBody, UnTieState("passive"), p)
        BY <1>9, <3>1 DEF Switch
      <4>2. Agree(Tail(ring), UnTieBody, UnTieState("passive"), corpse, stopped)
        BY <1>0, <2>1, UnTieAgrees
      <4>3. p \notin Elems(Tail(ring))
        BY <1>0, <2>1, <4>2, UnTieAgrees DEF Agree, UnTieState
      <4> QED BY <1>0, <2>1, <4>1, <4>2, <4>3, TieAndGoKeeps
    <3>2. CASE ~(Urgency[Head(ring)] <= Urgency[p])
      <4>1. TieAndGo(ring, body, state, p)
        BY <1>9, <3>2 DEF Switch
      <4>2. p \notin Elems(ring)
        BY <1>0, <2>1 DEF Agree
      <4> QED BY <1>0, <2>1, <4>1, <4>2, TieAndGoKeeps
    <3> QED BY <3>1, <3>2
  <2> QED BY <1>0, <2>1, <2>2, EventsUnchanged DEF Inv
<1>10. CASE UNCHANGED vars
  <2>1. /\ UNCHANGED <<ring, state, body, corpse, cor, started, status, stopped>>
        /\ UNCHANGED <<events, hcnt>>
    BY <1>10 DEF vars
  <2>2. Goal
    BY <1>0, <2>1 DEF Agree, NoRepetition, Elems, Control
  <2> QED BY <1>0, <2>1, <2>2, EventsUnchanged DEF Inv
<1> QED
  BY <1>1, <1>2, <1>3, <1>4, <1>5, <1>6, <1>7, <1>8, <1>9, <1>10 DEF Next, CoreNext

\* The inductive invariant of the whole interface: the ready list, the descriptors,
\* the saved coroutines, the corpse and the event sources agree after every call.
THEOREM Invariance == Spec => []Inv
BY InitInv, NextInv, PTL DEF Spec

\* In every run of every program that uses the interface the variables keep
\* their types.
THEOREM TypeCorrectness == Spec => []TypeOK
<1>1. Inv => TypeOK
  BY DEF Inv, Agree, Control, EventsCounted, TypeOK
<1> QED BY <1>1, Invariance, PTL

\* The ready list holds exactly the ready processes, each of them once, for any
\* set of processes, any urgencies and any order of calls.
THEOREM ListOfReady == Spec => []RingIsReady
<1>1. Inv => RingIsReady
  BY DEF Inv, Agree, RingIsReady, InRing, Ready
<1> QED BY <1>1, Invariance, PTL

\* hcnt is the number of associated event sources after any order of calls.
THEOREM CountOfSources == Spec => []HandlersCounted
<1>1. Inv => HandlersCounted
  BY DEF Inv, EventsCounted
<1> QED BY <1>1, Invariance, PTL

\* A transfer never leaves the list empty.
LEMMA TieAndGoFills ==
  ASSUME NEW r \in Seq(Proc), NEW b, NEW s, NEW p \in Proc, TieAndGo(r, b, s, p)
  PROVE  status' = "trap" \/ ring' # <<>>
<1>1. CASE Tied(r, p) = {}
  BY <1>1 DEF TieAndGo, Trap
<1>2. CASE Tied(r, p) # {}
  <2>1. PICK r2 \in Tied(r, p) :
          GoNext(r2, TieBody(r, b), TieState(r, s, p), corpse, stopped)
    BY <1>2 DEF TieAndGo
  <2>2. r2 # <<>>
    BY TiedProperties
  <2> QED BY <2>1, <2>2 DEF GoNext, Trap
<1> QED BY <1>1, <1>2

\* The program is left without a ready process only by SuspendMe with a source
\* associated or by Wait, whatever else the processes do.
THEOREM PassiveOnlyWaiting == Spec => []NeverPassive
<1>1. Init => NeverPassive
  BY DEF Init, NeverPassive
<1>2. Inv /\ NeverPassive /\ [Next]_vars => NeverPassive'
  <2> SUFFICES ASSUME Inv, NeverPassive, [Next]_vars PROVE NeverPassive'
    OBVIOUS
  <2> DEFINE Fills == status' = "trap" \/ ring' # <<>>
  <2>0. Fills => NeverPassive'
    BY DEF NeverPassive
  <2>a. /\ Agree(ring, body, state, corpse, stopped) /\ Control
        /\ ring \in Seq(Proc) /\ hcnt \in Nat
    BY DEF Inv, Agree, EventsCounted
  <2>b. Running => Tail(ring) \in Seq(Proc)
    BY <2>a, TailProperties DEF Running, Agree
  <2>1. ASSUME NEW p \in Proc, Create(p) PROVE NeverPassive'
    <3>1. Running /\ UNCHANGED <<ring, status>>
      BY <2>1 DEF Create
    <3> QED BY <3>1, <2>0 DEF Running
  <2>2. ASSUME NEW p \in Proc, Start(p) PROVE NeverPassive'
    BY <2>0, <2>2, <2>a, TieAndGoFills DEF Start
  <2>3. ASSUME NEW p \in Proc, Activate(p) PROVE NeverPassive'
    BY <2>0, <2>3, <2>a, TieAndGoFills DEF Activate
  <2>4. ASSUME StopMe PROVE NeverPassive'
    <3>1. CASE Tail(ring) = <<>>
      BY <2>4, <3>1 DEF StopMe, NeverPassive
    <3>2. CASE Tail(ring) # <<>>
      BY <2>0, <2>4, <3>2 DEF StopMe, GoNext, Trap
    <3> QED BY <3>1, <3>2
  <2>5. ASSUME SuspendMe PROVE NeverPassive'
    <3>1. CASE Tail(ring) = <<>> /\ hcnt = 0
      BY <2>0, <2>5, <3>1 DEF SuspendMe, Running
    <3>2. CASE Tail(ring) = <<>> /\ hcnt # 0
      <4>1. hcnt' = hcnt /\ hcnt > 0
        BY <2>5, <3>2, <2>a DEF SuspendMe
      <4> QED BY <4>1 DEF NeverPassive
    <3>3. CASE Tail(ring) # <<>>
      BY <2>0, <2>5, <3>3 DEF SuspendMe, GoNext, Trap
    <3> QED BY <3>1, <3>2, <3>3
  <2>6. ASSUME Wait PROVE NeverPassive'
    <3>1. Running /\ GoNext(Tail(ring), UnTieBody, UnTieState("waiting"), corpse, stopped)
      BY <2>6 DEF Wait
    <3>2. CASE Tail(ring) = <<>>
      <4>1. state' = UnTieState("waiting")
        BY <3>1, <3>2 DEF GoNext, Idle
      <4>2. Head(ring) \in Proc /\ UnTieState("waiting")[Head(ring)] = "waiting"
        BY <2>a, <3>1, UnTieAgrees DEF UnTieState, Agree
      <4> QED BY <4>1, <4>2 DEF NeverPassive
    <3>3. CASE Tail(ring) # <<>>
      BY <2>0, <3>1, <3>3 DEF GoNext, Trap
    <3> QED BY <3>2, <3>3
  <2>7. ASSUME NEW e \in Source, Attach(e) \/ Detach(e) PROVE NeverPassive'
    BY <2>0, <2>7 DEF Attach, Detach, Running
  <2>8. ASSUME NEW p \in Proc, SuspendMeAndActivate(p) PROVE NeverPassive'
    BY <2>0, <2>8, <2>b, TieAndGoFills DEF SuspendMeAndActivate
  <2>9. ASSUME NEW p \in Proc, Switch(p) PROVE NeverPassive'
    BY <2>0, <2>9, <2>a, <2>b, TieAndGoFills DEF Switch
  <2>10. ASSUME UNCHANGED vars PROVE NeverPassive'
    BY <2>10 DEF vars, NeverPassive
  <2> QED
    BY <2>1, <2>2, <2>3, <2>4, <2>5, <2>6, <2>7, <2>8, <2>9, <2>10 DEF Next, CoreNext
<1> QED BY <1>1, <1>2, Invariance, PTL DEF Spec

(***************************************************************************)
(* Programs that use neither SuspendMeAndActivate nor Switch: every        *)
(* process keeps the coroutine that Create made for it.                    *)
(***************************************************************************)

\* Why MeIsCaller is not inductive alone: the coroutine that is put in control
\* is the one saved in a descriptor earlier.
OwnBodies == \A p \in Proc : body[p] = p

\* The coroutine in control is neither disposed of nor about to be.
CorAlive == state[cor] # "free" /\ cor \notin stopped

CoreInv == Inv /\ MeIsCaller /\ OwnBodies /\ CorAlive

CoreGoal == (MeIsCaller /\ OwnBodies /\ CorAlive)'

\* A failed assertion leaves the coroutines where they were.
LEMMA TrapKeepsCore ==
  ASSUME CoreInv, Trap
  PROVE  CoreGoal
BY DEF CoreInv, CoreGoal, Trap, MeIsCaller, OwnBodies, CorAlive, Running

\* GoNext puts the coroutine of the head of the list in control.
LEMMA GoNextKeepsCore ==
  ASSUME CoreInv, NEW r, NEW b, NEW s, NEW c, NEW k,
         Agree(r, b, s, c, k),
         \A p \in Proc : b[p] = p,
         r = <<>> => s[cor] # "free" /\ cor \notin k,
         GoNext(r, b, s, c, k)
  PROVE  CoreGoal
<1>1. CASE r = <<>>
  <2>1. /\ ring' = <<>> /\ body' = b /\ state' = s /\ stopped' = k /\ cor' = cor
    BY <1>1 DEF GoNext, Idle
  <2> QED BY <1>1, <2>1 DEF CoreGoal, MeIsCaller, OwnBodies, CorAlive, Running
<1>2. CASE Trap
  BY <1>2, TrapKeepsCore
<1>3. CASE r # <<>> /\ ~Trap
  <2>1. Head(r) \in Proc /\ b[Head(r)] = Head(r)
    BY <1>3, TailProperties DEF Agree
  <2>2. /\ s[Head(r)] = "ready"
        /\ ring' = r /\ body' = b /\ cor' = Head(r)
        /\ state' = s \/ (c # NULL /\ state' = [s EXCEPT ![c] = "free"])
        /\ stopped' \in SUBSET k
    BY <1>3, <2>1 DEF GoNext
  <2>3. Head(r) \notin k /\ (c # NULL => Head(r) # c)
    BY <2>2 DEF Agree
  <2>4. state'[Head(r)] = "ready" /\ Head(r) \notin stopped'
    BY <2>1, <2>2, <2>3 DEF Agree
  <2> QED
    BY <1>3, <2>1, <2>2, <2>4
    DEF CoreGoal, MeIsCaller, OwnBodies, CorAlive, Running, Current
<1> QED BY <1>1, <1>2, <1>3

\* Giving up control saves a coroutine where it already was.
LEMMA UnTieKeepsBodies ==
  ASSUME CoreInv, Running
  PROVE  /\ cor = Head(ring)
         /\ \A p \in Proc : UnTieBody[p] = p
         /\ \A st \in {"passive", "waiting"} : UnTieState(st)[cor] # "free"
<1>1. cor = Head(ring) /\ cor \in Proc
  BY DEF CoreInv, MeIsCaller, Running, Current, Inv, Control
<1> QED
  BY <1>1 DEF UnTieBody, UnTieState, CoreInv, OwnBodies, Inv, Agree

\* Tie(p) saves the coroutine in control in the descriptor of its process.
LEMMA TieAndGoKeepsCore ==
  ASSUME CoreInv, Running, NEW p \in Proc, NEW b, TieAndGo(ring, b, state, p),
         Agree(ring, b, state, corpse, stopped),
         \A q \in Proc : b[q] = q,
         p \notin Elems(ring), p \notin stopped
  PROVE  CoreGoal
<1>1. CASE Tied(ring, p) = {}
  BY <1>1, TrapKeepsCore DEF TieAndGo
<1>2. CASE Tied(ring, p) # {}
  <2>1. PICK r2 \in Tied(ring, p) :
          GoNext(r2, TieBody(ring, b), TieState(ring, state, p), corpse, stopped)
    BY <1>2 DEF TieAndGo
  <2>2. /\ ring \in Seq(Proc) /\ NoRepetition(ring) /\ ring # <<>>
        /\ Elems(ring) = {q \in Proc : state[q] = "ready"}
    BY DEF Agree, Running
  <2>3. /\ r2 \in Seq(Proc) /\ NoRepetition(r2) /\ r2 # <<>>
        /\ Elems(r2) = Elems(ring) \cup {p}
    BY <2>2, TiedProperties
  <2>4. Head(ring) \in Proc /\ Head(ring) \in Elems(ring) /\ cor = Head(ring)
    BY <2>2, TailProperties, UnTieKeepsBodies
  <2>5. TieBody(ring, b) \in [Proc -> Proc] /\ \A q \in Proc : TieBody(ring, b)[q] = q
    BY <2>2, <2>4 DEF TieBody, Agree
  <2>6. TieState(ring, state, p) \in [Proc -> {"free", "passive", "ready", "waiting"}]
    BY DEF TieState, Agree
  <2>7. Elems(r2) = {q \in Proc : TieState(ring, state, p)[q] = "ready"}
    BY <2>2, <2>3, <2>4 DEF TieState
  <2>8. \A q \in stopped : TieState(ring, state, p)[q] = "passive"
    BY <2>2, <2>4 DEF TieState, Agree
  <2>9. Agree(r2, TieBody(ring, b), TieState(ring, state, p), corpse, stopped)
    BY <2>3, <2>5, <2>6, <2>7, <2>8 DEF Agree
  <2> QED BY <2>1, <2>3, <2>5, <2>9, GoNextKeepsCore
<1> QED BY <1>1, <1>2

\* init makes the main program the process in control.
LEMMA InitCore == Init => CoreInv
<1> SUFFICES ASSUME Init PROVE CoreInv
  OBVIOUS
<1>1. MeIsCaller /\ OwnBodies /\ CorAlive
  BY ProcAssumption DEF Init, MeIsCaller, OwnBodies, CorAlive, Running, Current
<1> QED BY <1>1, InitInv DEF CoreInv

\* Every operation that ties one process in or out keeps the coroutines' invariant.
LEMMA NextCore == CoreInv /\ [CoreNext]_vars => CoreInv'
<1> SUFFICES ASSUME CoreInv, [CoreNext]_vars PROVE CoreInv'
  OBVIOUS
<1>0. /\ Agree(ring, body, state, corpse, stopped) /\ Control
      /\ OwnBodies /\ MeIsCaller /\ CorAlive /\ cor \in Proc
  BY DEF CoreInv, Inv, Control
<1>1. ASSUME NEW p \in Proc, Create(p) PROVE CoreGoal
  <2>1. /\ UNCHANGED <<ring, cor, status, stopped>>
        /\ state[p] = "free"
        /\ state' = [state EXCEPT ![p] = "passive"]
        /\ body' = [body EXCEPT ![p] = p]
    BY <1>1 DEF Create
  <2> QED
    BY <1>0, <2>1
    DEF CoreGoal, MeIsCaller, OwnBodies, CorAlive, Running, Current, Agree
<1>2. ASSUME NEW p \in Proc, Start(p) PROVE CoreGoal
  <2>1. /\ Running /\ state[p] = "free"
        /\ TieAndGo(ring, [body EXCEPT ![p] = p], state, p)
    BY <1>2 DEF Start
  <2>2. /\ Agree(ring, [body EXCEPT ![p] = p], state, corpse, stopped)
        /\ \A q \in Proc : [body EXCEPT ![p] = p][q] = q
        /\ p \notin Elems(ring) /\ p \notin stopped
    BY <1>0, <2>1 DEF Agree, OwnBodies
  <2> QED BY <2>1, <2>2, TieAndGoKeepsCore
<1>3. ASSUME NEW p \in Proc, Activate(p) PROVE CoreGoal
  <2>1. /\ Running /\ state[p] \in {"passive", "waiting"} /\ p \notin stopped
        /\ TieAndGo(ring, body, state, p)
    BY <1>3 DEF Activate
  <2>2. p \notin Elems(ring)
    BY <1>0, <2>1 DEF Agree
  <2> QED BY <1>0, <2>1, <2>2, TieAndGoKeepsCore DEF OwnBodies
<1>4. ASSUME StopMe PROVE CoreGoal
  <2>1. Running
    BY <1>4 DEF StopMe
  <2>2. CASE Tail(ring) = <<>>
    <3>1. status' = "halted" /\ body' = UnTieBody /\ UNCHANGED <<state, cor, stopped>>
      BY <1>4, <2>2 DEF StopMe
    <3>2. OwnBodies' /\ ~Running'
      BY <2>1, <3>1, UnTieKeepsBodies DEF OwnBodies, Running
    <3> QED BY <1>0, <3>1, <3>2 DEF CoreGoal, MeIsCaller, CorAlive
  <2>3. CASE Tail(ring) # <<>>
    <3>1. GoNext(Tail(ring), UnTieBody, UnTieState("passive"), Head(ring),
                 stopped \cup {Head(ring)})
      BY <1>4, <2>3 DEF StopMe
    <3>2. Agree(Tail(ring), UnTieBody, UnTieState("passive"), Head(ring),
                stopped \cup {Head(ring)})
      BY <1>0, <2>1, UnTieAgrees
    <3>3. \A q \in Proc : UnTieBody[q] = q
      BY <2>1, UnTieKeepsBodies
    <3> QED BY <2>3, <3>1, <3>2, <3>3, GoNextKeepsCore
  <2> QED BY <2>2, <2>3
<1>5. ASSUME SuspendMe PROVE CoreGoal
  <2>1. Running
    BY <1>5 DEF SuspendMe
  <2>2. CASE Tail(ring) = <<>> /\ hcnt = 0
    <3>1. body' = UnTieBody /\ UNCHANGED <<ring, state, cor, status, stopped>>
      BY <1>5, <2>2 DEF SuspendMe
    <3>2. OwnBodies'
      BY <2>1, <3>1, UnTieKeepsBodies DEF OwnBodies
    <3>3. MeIsCaller'
      BY <1>0, <3>1 DEF MeIsCaller, Running, Current
    <3> QED BY <1>0, <3>1, <3>2, <3>3 DEF CoreGoal, CorAlive
  <2>3. CASE ~(Tail(ring) = <<>> /\ hcnt = 0)
    <3>1. GoNext(Tail(ring), UnTieBody, UnTieState("passive"), corpse, stopped)
      BY <1>5, <2>3 DEF SuspendMe
    <3>2. Agree(Tail(ring), UnTieBody, UnTieState("passive"), corpse, stopped)
      BY <1>0, <2>1, UnTieAgrees
    <3>3. \A q \in Proc : UnTieBody[q] = q
      BY <2>1, UnTieKeepsBodies
    <3>4. UnTieState("passive")[cor] # "free" /\ cor \notin stopped
      BY <1>0, <2>1, UnTieKeepsBodies DEF CorAlive
    <3> QED BY <3>1, <3>2, <3>3, <3>4, GoNextKeepsCore
  <2> QED BY <2>2, <2>3
<1>6. ASSUME Wait PROVE CoreGoal
  <2>1. Running /\ GoNext(Tail(ring), UnTieBody, UnTieState("waiting"), corpse, stopped)
    BY <1>6 DEF Wait
  <2>2. Agree(Tail(ring), UnTieBody, UnTieState("waiting"), corpse, stopped)
    BY <1>0, <2>1, UnTieAgrees
  <2>3. \A q \in Proc : UnTieBody[q] = q
    BY <2>1, UnTieKeepsBodies
  <2>4. UnTieState("waiting")[cor] # "free" /\ cor \notin stopped
    BY <1>0, <2>1, UnTieKeepsBodies DEF CorAlive
  <2> QED BY <2>1, <2>2, <2>3, <2>4, GoNextKeepsCore
<1>7. ASSUME NEW e \in Source, Attach(e) \/ Detach(e) PROVE CoreGoal
  <2>1. UNCHANGED <<ring, state, body, cor, status, stopped>>
    BY <1>7 DEF Attach, Detach
  <2>2. MeIsCaller'
    BY <1>0, <2>1 DEF MeIsCaller, Running, Current
  <2> QED BY <1>0, <2>1, <2>2 DEF CoreGoal, OwnBodies, CorAlive
<1>8. ASSUME UNCHANGED vars PROVE CoreGoal
  <2>1. UNCHANGED <<ring, state, body, cor, status, stopped>>
    BY <1>8 DEF vars
  <2>2. MeIsCaller'
    BY <1>0, <2>1 DEF MeIsCaller, Running, Current
  <2> QED BY <1>0, <2>1, <2>2 DEF CoreGoal, OwnBodies, CorAlive
<1>9. CoreGoal
  BY <1>1, <1>2, <1>3, <1>4, <1>5, <1>6, <1>7, <1>8 DEF CoreNext
<1>10. Inv'
  BY NextInv DEF CoreInv, Next
<1> QED BY <1>9, <1>10 DEF CoreGoal, CoreInv

\* The coroutines' invariant holds in every reachable state of CoreSpec.
LEMMA CoreInvariance == CoreSpec => []CoreInv
BY InitCore, NextCore, PTL DEF CoreSpec

\* Without the combined operations the coroutine in control is always that of
\* the process whose identity Me returns, whatever the urgencies and whichever
\* process is tied in or stopped.
THEOREM CallerIsMe == CoreSpec => []MeIsCaller
BY CoreInvariance, PTL DEF CoreInv

\* A process that has stopped is never scheduled again and no saved coroutine
\* leads to it, although its stack is released only later, by another process.
THEOREM NoRunAfterStop == CoreSpec => []StoppedNeverRuns
<1>1. CoreInv => StoppedNeverRuns
  <2> SUFFICES ASSUME CoreInv, NEW p \in Proc, p \in stopped \/ state[p] = "free"
               PROVE  p \notin InRing /\ cor # p /\ \A q \in InRing : body[q] # p
    BY DEF StoppedNeverRuns
  <2>1. Agree(ring, body, state, corpse, stopped) /\ OwnBodies /\ CorAlive
    BY DEF CoreInv, Inv
  <2>2. p \notin InRing
    BY <2>1 DEF Agree, InRing
  <2>3. \A q \in InRing : q \in Proc
    BY <2>1 DEF Agree, InRing
  <2> QED BY <2>1, <2>2, <2>3 DEF OwnBodies, CorAlive
<1> QED BY <1>1, CoreInvariance, PTL

(***************************************************************************)
(* Programs in which at most one process is above the least urgency: the   *)
(* order of the ready list.                                                *)
(***************************************************************************)

\* Somebody may be more urgent than the rest, who are as urgent as each other.
AtMostOneUrgent ==
  \E a \in Proc : \A p \in Proc \ {a}, q \in Proc : Urgency[p] <= Urgency[q]

\* Everybody behind the head of the list is of the least urgency, so whoever
\* follows when the head leaves is a most urgent one.
Ordered(r) == \A i \in 2..Len(r) : \A q \in Proc : Urgency[r[i]] <= Urgency[q]

\* Of two processes the less urgent one, and each of two equals, is of the least
\* urgency.
LEMMA LeastOfTwo ==
  ASSUME AtMostOneUrgent, NEW p \in Proc, NEW q \in Proc, p # q,
         Urgency[p] <= Urgency[q]
  PROVE  \A x \in Proc : Urgency[p] <= Urgency[x]
<1>1. PICK a \in Proc : \A x \in Proc \ {a}, y \in Proc : Urgency[x] <= Urgency[y]
  BY DEF AtMostOneUrgent
<1>2. Urgency \in [Proc -> Int]
  BY UrgencyAssumption
<1>3. CASE p # a
  BY <1>1, <1>3
<1>4. CASE p = a
  <2> SUFFICES ASSUME NEW x \in Proc PROVE Urgency[p] <= Urgency[x]
    OBVIOUS
  <2>1. Urgency[q] <= Urgency[x] /\ {Urgency[p], Urgency[q], Urgency[x]} \subseteq Int
    BY <1>1, <1>2, <1>4
  <2> QED BY <2>1
<1> QED BY <1>3, <1>4

\* UnTie keeps the order, and puts a most urgent one at the head.
LEMMA OrderedTail ==
  ASSUME NEW r \in Seq(Proc), r # <<>>, Ordered(r)
  PROVE  /\ Ordered(Tail(r))
         /\ Tail(r) # <<>> =>
              \A q \in Elems(Tail(r)) : Urgency[q] <= Urgency[Head(Tail(r))]
<1>1. PICK n \in Nat \ {0} : n = Len(r)
  BY EmptySeq
<1>2. PICK t \in Seq(Proc) :
        t = Tail(r) /\ Len(t) = n-1 /\ \A i \in 1..n-1 : t[i] = r[i+1]
  <2>1. /\ Tail(r) \in Seq(Proc)
        /\ Len(Tail(r)) = Len(r)-1
        /\ \A i \in 1..Len(Tail(r)) : Tail(r)[i] = r[i+1]
    BY HeadTailProperties
  <2>2. Len(Tail(r)) = n-1 /\ \A i \in 1..n-1 : Tail(r)[i] = r[i+1]
    BY <2>1, <1>1
  <2> QED BY <2>1, <2>2
<1>3. \A i \in 1..n-1 : \A q \in Proc : Urgency[t[i]] <= Urgency[q]
  <2> SUFFICES ASSUME NEW i \in 1..n-1, NEW q \in Proc
               PROVE  Urgency[t[i]] <= Urgency[q]
    OBVIOUS
  <2>1. i+1 \in 2..Len(r) /\ t[i] = r[i+1]
    BY <1>1, <1>2
  <2> QED BY <2>1 DEF Ordered
<1>4. Ordered(t)
  <2>1. \A i \in 2..Len(t) : i \in 1..n-1
    BY <1>2
  <2> QED BY <1>3, <2>1 DEF Ordered
<1>5. t # <<>> => Head(t) \in Proc
  BY HeadTailProperties
<1>6. ASSUME t # <<>>, NEW q \in Elems(t) PROVE Urgency[q] <= Urgency[Head(t)]
  <2>1. PICK i \in 1..n-1 : q = t[i]
    BY <1>2 DEF Elems
  <2> QED BY <1>3, <1>5, <1>6, <2>1
<1> QED BY <1>2, <1>4, <1>6

\* In an ordered list Tie's first loop goes back to the second element, whose
\* predecessor is the current process: ASSERT(max^.urgency=prs.current^.urgency)
\* holds.
LEMMA OrderedMin ==
  ASSUME NEW r \in Seq(Proc), r # <<>>, Ordered(r), NEW m \in 1..Len(r)
  PROVE  /\ IsMin(r, m) <=> m = IF Len(r) = 1 THEN 1 ELSE 2
         /\ IsMin(r, m) => MaxOf(r, m) = r[1]
<1>1. PICK n \in Nat \ {0} : n = Len(r)
  BY EmptySeq
<1>2. /\ \A i \in 1..n : r[i] \in Proc /\ Urgency[r[i]] \in Int
      /\ \A i \in 2..n : \A j \in 1..n : Urgency[r[i]] <= Urgency[r[j]]
  <2>1. \A i \in 1..n : r[i] \in Proc
    BY <1>1, ElementOfSeq
  <2> QED BY <2>1, <1>1, UrgencyAssumption DEF Ordered
<1>3. CASE n = 1
  BY <1>1, <1>3 DEF IsMin, MaxOf
<1>4. CASE n # 1
  <2>1. ~(Urgency[r[n]] > Urgency[r[1]])
    <3>1. n \in 2..n /\ 1 \in 1..n /\ n \in 1..n
      BY <1>4
    <3>2. Urgency[r[n]] <= Urgency[r[1]] /\ Urgency[r[n]] \in Int /\ Urgency[r[1]] \in Int
      BY <1>2, <3>1
    <3> QED BY <3>2
  <2>2. IsMin(r, m) <=>
          /\ m \in 2..n
          /\ m = 2 \/ Urgency[r[m-1]] > Urgency[r[m]]
          /\ \A i \in m+1..n : Urgency[r[i-1]] <= Urgency[r[i]]
    BY <1>1, <1>4, <2>1 DEF IsMin
  <2>3. ASSUME IsMin(r, m) PROVE m = 2
    <3> SUFFICES ASSUME m # 2 PROVE FALSE
      OBVIOUS
    <3>1. m \in 2..n /\ Urgency[r[m-1]] > Urgency[r[m]]
      BY <2>2, <2>3
    <3>2. m-1 \in 2..n /\ m \in 1..n /\ m-1 \in 1..n
      BY <3>1
    <3>3. /\ Urgency[r[m-1]] <= Urgency[r[m]]
          /\ Urgency[r[m-1]] \in Int /\ Urgency[r[m]] \in Int
      BY <1>2, <3>2
    <3> QED BY <3>1, <3>3
  <2>4. ASSUME m = 2 PROVE IsMin(r, m)
    <3>1. 2 \in 2..n
      BY <1>4
    <3>2. \A i \in 3..n : Urgency[r[i-1]] <= Urgency[r[i]]
      <4> SUFFICES ASSUME NEW i \in 3..n PROVE Urgency[r[i-1]] <= Urgency[r[i]]
        OBVIOUS
      <4>1. i-1 \in 2..n /\ i \in 1..n
        OBVIOUS
      <4> QED BY <4>1, <1>2
    <3> QED BY <2>2, <2>4, <3>1, <3>2
  <2>5. m = 2 => MaxOf(r, m) = r[1]
    BY DEF MaxOf
  <2> QED BY <1>1, <1>4, <2>3, <2>4, <2>5
<1> QED BY <1>3, <1>4

\* So Tie always finds exactly one slot: behind the last for an equal of the
\* current process, and right behind the current one for anybody else.
LEMMA OrderedSlot ==
  ASSUME AtMostOneUrgent, NEW r \in Seq(Proc), r # <<>>, Ordered(r),
         NEW p \in Proc, p \notin Elems(r), NEW k \in 2..Len(r)+1
  PROVE  IsSlot(r, p, k) <=>
           k = IF Urgency[p] = Urgency[r[1]] THEN Len(r) + 1 ELSE 2
<1>1. PICK n \in Nat \ {0} : n = Len(r)
  BY EmptySeq
<1>2. /\ \A i \in 1..n : r[i] \in Proc /\ r[i] # p /\ Urgency[r[i]] \in Int
      /\ Urgency[p] \in Int
  <2>1. \A i \in 1..n : r[i] \in Proc
    BY <1>1, ElementOfSeq
  <2> QED BY <2>1, <1>1, UrgencyAssumption DEF Elems
<1>3. 1 \in 1..n /\ r[1] \in Proc /\ r[1] # p /\ Urgency[r[1]] \in Int
  BY <1>2
<1>4. CASE Urgency[p] = Urgency[r[1]]
  BY <1>1, <1>4 DEF IsSlot
<1>5. CASE Urgency[p] # Urgency[r[1]]
  <2>1. PICK m \in 1..n : m = IF n = 1 THEN 1 ELSE 2
    <3>1. (IF n = 1 THEN 1 ELSE 2) \in 1..n
      OBVIOUS
    <3> QED BY <3>1
  <2>2. /\ IsMin(r, m) /\ MaxOf(r, m) = r[1]
        /\ \A j \in 1..Len(r) : IsMin(r, j) => j = m
    <3>1. m \in 1..Len(r) /\ m = IF Len(r) = 1 THEN 1 ELSE 2
      BY <1>1, <2>1
    <3> QED BY <3>1, OrderedMin
  <2>3. (IF m = 1 THEN Len(r) + 1 ELSE m) = 2
    BY <1>1, <2>1
  <2>4. r[m] \in Proc /\ Urgency[r[m]] \in Int
    BY <1>2, <2>1
  <2>5. CASE Urgency[p] > Urgency[r[1]]
    <3>1. Urgency[p] >= Urgency[r[1]] /\ ~(Urgency[p] < Urgency[r[1]])
      BY <1>2, <1>3, <2>5
    <3> QED BY <1>1, <1>5, <2>1, <2>2, <2>3, <3>1 DEF IsSlot
  <2>6. CASE Urgency[p] < Urgency[r[1]]
    <3>1. \A x \in Proc : Urgency[p] <= Urgency[x]
      <4>1. Urgency[p] <= Urgency[r[1]]
        BY <1>2, <1>3, <2>6
      <4> QED BY <4>1, <1>3, LeastOfTwo
    <3>2. Urgency[p] <= Urgency[r[m]] /\ ~(Urgency[r[m]] < Urgency[p])
      <4>1. Urgency[p] <= Urgency[r[m]]
        BY <2>4, <3>1
      <4> QED BY <4>1, <1>2, <2>4
    <3> QED BY <1>1, <1>5, <2>1, <2>2, <2>3, <3>2 DEF IsSlot
  <2> QED BY <1>2, <1>3, <1>5, <2>5, <2>6
<1> QED BY <1>4, <1>5

\* Where Tie puts a newcomer in an ordered list: behind the last, first with the
\* old head going to the end, or second.
Placed(r, q, p) ==
  /\ q \in Seq(Proc)
  /\ Len(q) = Len(r) + 1
  /\ \/ /\ Urgency[p] = Urgency[r[1]]
        /\ \A i \in 1..Len(r) + 1 : q[i] = IF i = Len(r) + 1 THEN p ELSE r[i]
     \/ /\ Urgency[p] > Urgency[r[1]]
        /\ \A i \in 1..Len(r) + 1 :
             q[i] = IF i = 1 THEN p ELSE IF i = Len(r) + 1 THEN r[1] ELSE r[i]
     \/ /\ Urgency[p] < Urgency[r[1]]
        /\ \A i \in 1..Len(r) + 1 :
             q[i] = IF i = 1 THEN r[1] ELSE IF i = 2 THEN p ELSE r[i-1]

LEMMA OrderedTied ==
  ASSUME AtMostOneUrgent, NEW r \in Seq(Proc), r # <<>>, Ordered(r),
         NEW p \in Proc, p \notin Elems(r)
  PROVE  /\ Tied(r, p) # {}
         /\ \A q \in Tied(r, p) : Placed(r, q, p)
<1>1. PICK n \in Nat \ {0} : n = Len(r)
  BY EmptySeq
<1>2. Urgency[p] \in Int /\ Urgency[r[1]] \in Int
  <2>1. r[1] \in Proc
    BY <1>1, ElementOfSeq
  <2> QED BY <2>1, UrgencyAssumption
<1>3. \A k \in 2..Len(r)+1 :
        IsSlot(r, p, k) <=> k = IF Urgency[p] = Urgency[r[1]] THEN Len(r)+1 ELSE 2
  BY OrderedSlot
<1>4. PICK k \in 2..n+1 : k = IF Urgency[p] = Urgency[r[1]] THEN n+1 ELSE 2
  <2>1. n+1 \in 2..n+1 /\ 2 \in 2..n+1
    OBVIOUS
  <2> QED BY <2>1
<1>5. Tied(r, p) = {Insert(r, p, k)}
  <2>1. {i \in 2..Len(r)+1 : IsSlot(r, p, i)} = {k}
    BY <1>1, <1>3, <1>4
  <2> QED BY <2>1 DEF Tied
<1>6. Placed(r, Insert(r, p, k), p)
  <2> DEFINE q == Insert(r, p, k)
  <2>1. /\ q \in Seq(Proc)
        /\ Len(q) = Len(r)+1
        /\ Urgency[r[1]] < Urgency[p] =>
             \A i \in 1..Len(r)+1 : q[i] = IF i = 1 THEN p
               ELSE IF i <= Len(r)-k+2 THEN r[k+i-2] ELSE r[i-(Len(r)-k+2)]
        /\ ~(Urgency[r[1]] < Urgency[p]) =>
             \A i \in 1..Len(r)+1 :
               q[i] = IF i < k THEN r[i] ELSE IF i = k THEN p ELSE r[i-1]
    <3>1. k \in 2..Len(r)+1
      BY <1>1
    <3> QED BY <3>1, InsertLayout
  <2> HIDE DEF q
  <2> SUFFICES Placed(r, q, p)
    BY DEF q
  <2>2. CASE Urgency[p] = Urgency[r[1]]
    <3>1. k = n+1 /\ ~(Urgency[r[1]] < Urgency[p])
      BY <1>2, <1>4, <2>2
    <3>2. \A i \in 1..n+1 : q[i] = IF i < n+1 THEN r[i] ELSE IF i = n+1 THEN p ELSE r[i-1]
      BY <1>1, <2>1, <3>1
    <3>3. \A i \in 1..n+1 : q[i] = IF i = n+1 THEN p ELSE r[i]
      BY <3>2
    <3> QED BY <1>1, <2>1, <2>2, <3>3 DEF Placed
  <2>3. CASE Urgency[p] > Urgency[r[1]]
    <3>1. k = 2 /\ Urgency[r[1]] < Urgency[p]
      BY <1>2, <1>4, <2>3
    <3>2. \A i \in 1..n+1 : q[i] = IF i = 1 THEN p
            ELSE IF i <= n-2+2 THEN r[2+i-2] ELSE r[i-(n-2+2)]
      BY <1>1, <2>1, <3>1
    <3>3. ASSUME NEW i \in 1..n+1
          PROVE  q[i] = IF i = 1 THEN p ELSE IF i = n+1 THEN r[1] ELSE r[i]
      <4>1. 2+i-2 = i /\ n-2+2 = n
        OBVIOUS
      <4>2. CASE i <= n
        BY <3>2, <4>1, <4>2
      <4>3. CASE i = n+1
        <5>1. ~(i <= n) /\ i # 1 /\ i-n = 1
          BY <4>3
        <5> QED BY <3>2, <4>1, <4>3, <5>1
      <4> QED BY <4>2, <4>3
    <3> QED BY <1>1, <2>1, <2>3, <3>3 DEF Placed
  <2>4. CASE Urgency[p] < Urgency[r[1]]
    <3>1. k = 2 /\ ~(Urgency[r[1]] < Urgency[p])
      BY <1>2, <1>4, <2>4
    <3>2. \A i \in 1..n+1 : q[i] = IF i < 2 THEN r[i] ELSE IF i = 2 THEN p ELSE r[i-1]
      BY <1>1, <2>1, <3>1
    <3>3. \A i \in 1..n+1 : q[i] = IF i = 1 THEN r[1] ELSE IF i = 2 THEN p ELSE r[i-1]
      BY <3>2
    <3> QED BY <1>1, <2>1, <2>4, <3>3 DEF Placed
  <2> QED BY <1>2, <2>2, <2>3, <2>4
<1> QED BY <1>5, <1>6

\* Tie keeps the order, and its result begins with the more urgent one of the
\* newcomer and the process that was current.
LEMMA PlacedOrdered ==
  ASSUME AtMostOneUrgent, NEW r \in Seq(Proc), r # <<>>, Ordered(r),
         NEW p \in Proc, p \notin Elems(r), NEW q, Placed(r, q, p)
  PROVE  /\ Ordered(q)
         /\ Head(q) = IF Urgency[p] > Urgency[Head(r)] THEN p ELSE Head(r)
<1>1. PICK n \in Nat \ {0} : n = Len(r)
  BY EmptySeq
<1>2. /\ r[1] \in Proc /\ r[1] # p /\ Head(r) = r[1]
      /\ Urgency[p] \in Int /\ Urgency[r[1]] \in Int
  <2>1. r[1] \in Proc /\ r[1] # p
    BY <1>1, ElementOfSeq DEF Elems
  <2> QED BY <2>1, UrgencyAssumption
<1>3. q \in Seq(Proc) /\ Len(q) = n+1 /\ Head(q) = q[1] /\ 1 \in 1..n+1
  BY <1>1 DEF Placed
<1>4. \A i \in 2..n : \A x \in Proc : Urgency[r[i]] <= Urgency[x]
  BY <1>1 DEF Ordered
<1>5. Ordered(q) <=> \A i \in 2..n+1 : \A x \in Proc : Urgency[q[i]] <= Urgency[x]
  BY <1>3 DEF Ordered
<1>6. CASE Urgency[p] = Urgency[r[1]]
  <2>1. \A i \in 1..n+1 : q[i] = IF i = n+1 THEN p ELSE r[i]
    BY <1>1, <1>2, <1>6 DEF Placed
  <2>2. \A x \in Proc : Urgency[p] <= Urgency[x]
    <3>1. Urgency[p] <= Urgency[r[1]]
      BY <1>2, <1>6
    <3> QED BY <3>1, <1>2, LeastOfTwo
  <2>3. ASSUME NEW i \in 2..n+1, NEW x \in Proc PROVE Urgency[q[i]] <= Urgency[x]
    <3>1. CASE i = n+1
      BY <2>1, <2>2, <3>1
    <3>2. CASE i # n+1
      <4>1. i \in 2..n /\ i \in 1..n+1
        BY <3>2
      <4> QED BY <1>4, <2>1, <3>2, <4>1
    <3> QED BY <3>1, <3>2
  <2>4. q[1] = r[1]
    <3>1. 1 # n+1
      OBVIOUS
    <3> QED BY <1>3, <2>1, <3>1
  <2> QED BY <1>2, <1>3, <1>5, <1>6, <2>3, <2>4
<1>7. CASE Urgency[p] > Urgency[r[1]]
  <2>1. \A i \in 1..n+1 : q[i] = IF i = 1 THEN p ELSE IF i = n+1 THEN r[1] ELSE r[i]
    BY <1>1, <1>2, <1>7 DEF Placed
  <2>2. \A x \in Proc : Urgency[r[1]] <= Urgency[x]
    <3>1. Urgency[r[1]] <= Urgency[p]
      BY <1>2, <1>7
    <3> QED BY <3>1, <1>2, LeastOfTwo
  <2>3. ASSUME NEW i \in 2..n+1, NEW x \in Proc PROVE Urgency[q[i]] <= Urgency[x]
    <3>0. i \in 1..n+1 /\ i # 1
      OBVIOUS
    <3>1. CASE i = n+1
      BY <2>1, <2>2, <3>0, <3>1
    <3>2. CASE i # n+1
      <4>1. i \in 2..n
        BY <3>2
      <4> QED BY <1>4, <2>1, <3>0, <3>2, <4>1
    <3> QED BY <3>1, <3>2
  <2>4. q[1] = p
    BY <1>3, <2>1
  <2> QED BY <1>2, <1>3, <1>5, <1>7, <2>3, <2>4
<1>8. CASE Urgency[p] < Urgency[r[1]]
  <2>1. \A i \in 1..n+1 : q[i] = IF i = 1 THEN r[1] ELSE IF i = 2 THEN p ELSE r[i-1]
    BY <1>1, <1>2, <1>8 DEF Placed
  <2>2. \A x \in Proc : Urgency[p] <= Urgency[x]
    <3>1. Urgency[p] <= Urgency[r[1]]
      BY <1>2, <1>8
    <3> QED BY <3>1, <1>2, LeastOfTwo
  <2>3. ASSUME NEW i \in 2..n+1, NEW x \in Proc PROVE Urgency[q[i]] <= Urgency[x]
    <3>0. i \in 1..n+1 /\ i # 1
      OBVIOUS
    <3>1. CASE i = 2
      BY <2>1, <2>2, <3>0, <3>1
    <3>2. CASE i # 2
      <4>1. i-1 \in 2..n
        BY <3>2
      <4> QED BY <1>4, <2>1, <3>0, <3>2, <4>1
    <3> QED BY <3>1, <3>2
  <2>4. q[1] = r[1]
    BY <1>3, <2>1
  <2>5. ~(Urgency[p] > Urgency[r[1]])
    BY <1>2, <1>8
  <2> QED BY <1>2, <1>3, <1>5, <2>3, <2>4, <2>5
<1> QED BY <1>2, <1>6, <1>7, <1>8

\* What a call does to the ready list and to control: the process in control
\* leaves and the next one follows, or p enters and the head of the new list is
\* put in control.
Leaves ==
  /\ Running
  /\ ring' = Tail(ring)
  /\ cor' = IF ring' = <<>> THEN cor ELSE Head(ring')

Enters(p) ==
  /\ Running
  /\ p \in Proc \ InRing
  /\ ring' \in Tied(ring, p)
  /\ cor' = Head(ring')

\* When every process has its own coroutine saved, GoNext finds the head of the
\* list ready and its coroutine there, whether or not it disposes of the corpse.
LEMMA GoNextGoes ==
  ASSUME NEW r, NEW b, NEW s, NEW c, NEW k,
         Agree(r, b, s, c, k),
         \A p \in Proc : b[p] = p,
         GoNext(r, b, s, c, k)
  PROVE  /\ ring' = r /\ status' = status
         /\ cor' = IF r = <<>> THEN cor ELSE Head(r)
<1>1. CASE r = <<>>
  BY <1>1 DEF GoNext, Idle
<1>2. CASE r # <<>>
  <2>1. Head(r) \in Proc /\ b[Head(r)] = Head(r) /\ s[Head(r)] = "ready"
    BY <1>2, TailProperties DEF Agree
  <2>2. c # NULL => c \in Proc /\ s[c] = "passive"
    BY DEF Agree
  <2> DEFINE s2 == IF b[Head(r)] \in started /\ c # NULL THEN [s EXCEPT ![c] = "free"] ELSE s
  <2>3. s2[b[Head(r)]] # "free"
    BY <2>1, <2>2 DEF Agree
  <2> QED BY <1>2, <2>1, <2>3 DEF GoNext
<1> QED BY <1>1, <1>2

\* Tie(p) and GoNext together: if Tie finds a slot, p enters.
LEMMA TieAndGoEnters ==
  ASSUME CoreInv, Running, NEW p \in Proc, NEW b, TieAndGo(ring, b, state, p),
         Agree(ring, b, state, corpse, stopped),
         \A q \in Proc : b[q] = q,
         p \notin Elems(ring), p \notin stopped, Tied(ring, p) # {}
  PROVE  Enters(p) /\ status' = status
<1>1. PICK r2 \in Tied(ring, p) :
        GoNext(r2, TieBody(ring, b), TieState(ring, state, p), corpse, stopped)
  BY DEF TieAndGo
<1>2. /\ ring \in Seq(Proc) /\ NoRepetition(ring) /\ ring # <<>>
      /\ Elems(ring) = {q \in Proc : state[q] = "ready"}
  BY DEF Agree, Running
<1>3. /\ r2 \in Seq(Proc) /\ NoRepetition(r2) /\ r2 # <<>>
      /\ Elems(r2) = Elems(ring) \cup {p}
  BY <1>2, TiedProperties
<1>4. Head(ring) \in Proc /\ Head(ring) \in Elems(ring) /\ cor = Head(ring)
  BY <1>2, TailProperties, UnTieKeepsBodies
<1>5. TieBody(ring, b) \in [Proc -> Proc] /\ \A q \in Proc : TieBody(ring, b)[q] = q
  BY <1>2, <1>4 DEF TieBody, Agree
<1>6. TieState(ring, state, p) \in [Proc -> {"free", "passive", "ready", "waiting"}]
  BY DEF TieState, Agree
<1>7. Elems(r2) = {q \in Proc : TieState(ring, state, p)[q] = "ready"}
  BY <1>2, <1>3, <1>4 DEF TieState
<1>8. \A q \in stopped : TieState(ring, state, p)[q] = "passive"
  BY <1>2, <1>4 DEF TieState, Agree
<1>9. Agree(r2, TieBody(ring, b), TieState(ring, state, p), corpse, stopped)
  BY <1>3, <1>5, <1>6, <1>7, <1>8 DEF Agree
<1>10. ring' = r2 /\ status' = status /\ cor' = Head(r2)
  BY <1>1, <1>3, <1>5, <1>9, GoNextGoes
<1> QED BY <1>1, <1>10 DEF Enters, InRing

\* Every call does one of these two things to the list or leaves it and control
\* alone, and fails no assertion, as long as Tie finds a slot.
LEMMA CoreStep ==
  ASSUME CoreInv, [CoreNext]_vars,
         Running => \A p \in Proc \ InRing : Tied(ring, p) # {}
  PROVE  /\ status' = "trap" => status = "trap"
         /\ UNCHANGED <<ring, cor>> \/ Leaves \/ \E p \in Proc : Enters(p)
<1> DEFINE Goal == /\ status' = "trap" => status = "trap"
                   /\ UNCHANGED <<ring, cor>> \/ Leaves \/ \E p \in Proc : Enters(p)
<1>0. /\ Agree(ring, body, state, corpse, stopped) /\ Control
      /\ OwnBodies /\ ring \in Seq(Proc)
  BY DEF CoreInv, Inv, Agree
<1>1. ASSUME NEW p \in Proc, Create(p) PROVE Goal
  BY <1>1 DEF Create
<1>2. ASSUME NEW p \in Proc, Start(p) PROVE Goal
  <2>1. /\ Running /\ state[p] = "free"
        /\ TieAndGo(ring, [body EXCEPT ![p] = p], state, p)
    BY <1>2 DEF Start
  <2>2. /\ Agree(ring, [body EXCEPT ![p] = p], state, corpse, stopped)
        /\ \A q \in Proc : [body EXCEPT ![p] = p][q] = q
        /\ p \notin Elems(ring) /\ p \notin stopped
    BY <1>0, <2>1 DEF Agree, OwnBodies
  <2>3. Tied(ring, p) # {}
    BY <2>1, <2>2 DEF InRing
  <2>4. Enters(p) /\ status' = status
    BY <2>1, <2>2, <2>3, TieAndGoEnters
  <2> QED BY <2>4
<1>3. ASSUME NEW p \in Proc, Activate(p) PROVE Goal
  <2>1. /\ Running /\ state[p] \in {"passive", "waiting"} /\ p \notin stopped
        /\ TieAndGo(ring, body, state, p)
    BY <1>3 DEF Activate
  <2>2. p \notin Elems(ring)
    BY <1>0, <2>1 DEF Agree
  <2>3. Tied(ring, p) # {}
    BY <2>1, <2>2 DEF InRing
  <2>4. Enters(p) /\ status' = status
    BY <1>0, <2>1, <2>2, <2>3, TieAndGoEnters DEF OwnBodies
  <2> QED BY <2>4
<1>4. ASSUME StopMe PROVE Goal
  <2>1. Running
    BY <1>4 DEF StopMe
  <2>2. CASE Tail(ring) = <<>>
    BY <1>4, <2>2 DEF StopMe
  <2>3. CASE Tail(ring) # <<>>
    <3>1. GoNext(Tail(ring), UnTieBody, UnTieState("passive"), Head(ring),
                 stopped \cup {Head(ring)})
      BY <1>4, <2>3 DEF StopMe
    <3>2. Agree(Tail(ring), UnTieBody, UnTieState("passive"), Head(ring),
                stopped \cup {Head(ring)})
      BY <1>0, <2>1, UnTieAgrees
    <3>3. \A q \in Proc : UnTieBody[q] = q
      BY <2>1, UnTieKeepsBodies
    <3>4. Leaves /\ status' = status
      BY <2>1, <2>3, <3>1, <3>2, <3>3, GoNextGoes DEF Leaves
    <3> QED BY <3>4
  <2> QED BY <2>2, <2>3
<1>5. ASSUME SuspendMe PROVE Goal
  <2>1. Running
    BY <1>5 DEF SuspendMe
  <2>2. CASE Tail(ring) = <<>> /\ hcnt = 0
    BY <1>5, <2>2 DEF SuspendMe
  <2>3. CASE ~(Tail(ring) = <<>> /\ hcnt = 0)
    <3>1. GoNext(Tail(ring), UnTieBody, UnTieState("passive"), corpse, stopped)
      BY <1>5, <2>3 DEF SuspendMe
    <3>2. Agree(Tail(ring), UnTieBody, UnTieState("passive"), corpse, stopped)
      BY <1>0, <2>1, UnTieAgrees
    <3>3. \A q \in Proc : UnTieBody[q] = q
      BY <2>1, UnTieKeepsBodies
    <3>4. Leaves /\ status' = status
      BY <2>1, <3>1, <3>2, <3>3, GoNextGoes DEF Leaves
    <3> QED BY <3>4
  <2> QED BY <2>2, <2>3
<1>6. ASSUME Wait PROVE Goal
  <2>1. Running /\ GoNext(Tail(ring), UnTieBody, UnTieState("waiting"), corpse, stopped)
    BY <1>6 DEF Wait
  <2>2. Agree(Tail(ring), UnTieBody, UnTieState("waiting"), corpse, stopped)
    BY <1>0, <2>1, UnTieAgrees
  <2>3. \A q \in Proc : UnTieBody[q] = q
    BY <2>1, UnTieKeepsBodies
  <2>4. Leaves /\ status' = status
    BY <2>1, <2>2, <2>3, GoNextGoes DEF Leaves
  <2> QED BY <2>4
<1>7. ASSUME NEW e \in Source, Attach(e) \/ Detach(e) PROVE Goal
  BY <1>7 DEF Attach, Detach
<1>8. ASSUME UNCHANGED vars PROVE Goal
  BY <1>8 DEF vars
<1> QED
  BY <1>1, <1>2, <1>3, <1>4, <1>5, <1>6, <1>7, <1>8 DEF CoreNext

\* The list stays ordered, and no assertion has failed.
OrderInv == CoreInv /\ AssertionsHold /\ Ordered(ring)

\* init leaves one process in the list.
LEMMA InitOrdered == Init => OrderInv
<1> SUFFICES ASSUME Init PROVE OrderInv
  OBVIOUS
<1>1. ring = <<Main>> /\ Len(ring) = 1 /\ status = "running"
  BY DEF Init
<1>2. Ordered(ring)
  BY <1>1 DEF Ordered
<1> QED BY <1>1, <1>2, InitCore DEF OrderInv, AssertionsHold

\* In an ordered list Tie finds a slot for every process that is not in it.
LEMMA SlotFound ==
  ASSUME AtMostOneUrgent, OrderInv, Running, NEW p \in Proc \ InRing
  PROVE  /\ ring \in Seq(Proc) /\ ring # <<>> /\ p \notin Elems(ring)
         /\ Tied(ring, p) # {}
         /\ \A q \in Tied(ring, p) : Placed(ring, q, p)
<1>1. ring \in Seq(Proc) /\ ring # <<>> /\ p \notin Elems(ring) /\ Ordered(ring)
  BY DEF OrderInv, CoreInv, Inv, Agree, Running, InRing
<1> QED BY <1>1, OrderedTied

\* Every call keeps the order and fails no assertion.
LEMMA NextOrdered ==
  ASSUME AtMostOneUrgent, OrderInv, [CoreNext]_vars
  PROVE  OrderInv'
<1>1. CoreInv'
  BY NextCore DEF OrderInv
<1>2. /\ status' = "trap" => status = "trap"
      /\ UNCHANGED <<ring, cor>> \/ Leaves \/ \E p \in Proc : Enters(p)
  BY CoreStep, SlotFound DEF OrderInv
<1>3. Ordered(ring')
  <2>1. CASE UNCHANGED <<ring, cor>>
    BY <2>1 DEF OrderInv
  <2>2. CASE Leaves
    <3>1. ring \in Seq(Proc) /\ ring # <<>> /\ Ordered(ring) /\ ring' = Tail(ring)
      BY <2>2 DEF Leaves, OrderInv, CoreInv, Inv, Agree, Running
    <3> QED BY <3>1, OrderedTail
  <2>3. ASSUME NEW p \in Proc, Enters(p) PROVE Ordered(ring')
    <3>1. /\ ring \in Seq(Proc) /\ ring # <<>> /\ p \notin Elems(ring)
          /\ Placed(ring, ring', p)
      BY <2>3, SlotFound DEF Enters
    <3> QED BY <3>1, PlacedOrdered DEF OrderInv
  <2> QED BY <1>2, <2>1, <2>2, <2>3
<1> QED BY <1>1, <1>2, <1>3 DEF OrderInv, AssertionsHold, Ordered

\* The order of the list holds in every reachable state of such a program.
LEMMA OrderInvariance == AtMostOneUrgent => (CoreSpec => []OrderInv)
<1> SUFFICES ASSUME AtMostOneUrgent PROVE CoreSpec => []OrderInv
  OBVIOUS
<1>1. OrderInv /\ [CoreNext]_vars => OrderInv'
  BY NextOrdered
<1> QED BY <1>1, InitOrdered, PTL DEF CoreSpec

\* With at most one process above the least urgency no ASSERT of Tie or GoNext
\* fails and no TRANSFER leads to a coroutine that has been disposed of, however
\* many processes enter and leave the list and whoever is stopped in between.
\* (With two such processes Tie's assertion does fail.)
THEOREM NoAssertionFails == AtMostOneUrgent => (CoreSpec => []AssertionsHold)
<1> SUFFICES ASSUME AtMostOneUrgent PROVE CoreSpec => []AssertionsHold
  OBVIOUS
<1>1. OrderInv => AssertionsHold
  BY DEF OrderInv
<1> QED BY <1>1, OrderInvariance, PTL

(***************************************************************************)
(* The refinement of Dispatcher.                                           *)
(***************************************************************************)

\* What the list says of the two variables of Dispatcher.
LEMMA ReadyIsList ==
  ASSUME CoreInv
  PROVE  /\ Ready = Elems(ring) /\ NoRepetition(ring) /\ ring \in Seq(Proc)
         /\ Running => ring # <<>> /\ cor = Head(ring) /\ cor \in Ready /\ cor \in Proc
<1>1. Ready = Elems(ring) /\ NoRepetition(ring) /\ ring \in Seq(Proc)
  BY DEF CoreInv, Inv, Agree, Ready
<1>2. Running => ring # <<>> /\ cor = Head(ring)
  BY DEF CoreInv, MeIsCaller, Running, Current
<1>3. Running => Head(ring) \in Elems(ring) /\ Head(ring) \in Proc
  BY <1>1, <1>2, TailProperties
<1> QED BY <1>1, <1>2, <1>3

\* StopMe, SuspendMe and Wait of a process that leaves the list are a Yield.
LEMMA LeavesYields ==
  ASSUME OrderInv, CoreInv', Leaves
  PROVE  D!Yield
<1>1. /\ ring \in Seq(Proc) /\ ring # <<>> /\ NoRepetition(ring) /\ Ordered(ring)
      /\ Ready = Elems(ring) /\ cor = Head(ring) /\ cor \in Ready
  BY ReadyIsList DEF OrderInv, Leaves
<1>2. /\ ring' = Tail(ring) /\ cor' = IF ring' = <<>> THEN cor ELSE Head(ring')
      /\ ring' \in Seq(Proc)
      /\ Elems(ring') = Elems(ring) \ {Head(ring)}
  BY <1>1, TailProperties DEF Leaves
<1>3. Ready' = Elems(ring')
  BY DEF CoreInv, Inv, Agree, Ready, Elems
<1>4. CASE ring' = <<>>
  <2>1. Ready' = {}
    BY <1>3, <1>4 DEF Elems
  <2> QED BY <1>1, <1>2, <1>3, <1>4, <2>1 DEF D!Yield
<1>5. CASE ring' # <<>>
  <2>1. \A q \in Elems(ring') : Urgency[q] <= Urgency[Head(ring')]
    BY <1>1, <1>2, <1>5, OrderedTail
  <2>2. Head(ring') \in Elems(ring')
    <3>1. Head(ring') = ring'[1] /\ 1 \in 1..Len(ring')
      BY <1>2, <1>5, EmptySeq
    <3> QED BY <3>1 DEF Elems
  <2>3. cor' \in D!MostUrgent(Ready') /\ Ready' # {}
    BY <1>2, <1>3, <1>5, <2>1, <2>2 DEF D!MostUrgent
  <2> QED BY <1>1, <1>2, <1>3, <2>3 DEF D!Yield
<1> QED BY <1>4, <1>5

\* Start, and Activate of a process that is not ready, are an Admit.
LEMMA EntersAdmits ==
  ASSUME AtMostOneUrgent, OrderInv, CoreInv', NEW p \in Proc, Enters(p)
  PROVE  D!Admit(p)
<1>1. /\ ring \in Seq(Proc) /\ ring # <<>> /\ NoRepetition(ring) /\ Ordered(ring)
      /\ Ready = Elems(ring) /\ cor = Head(ring) /\ cor \in Ready
  BY ReadyIsList DEF OrderInv, Enters
<1>2. p \notin Elems(ring) /\ ring' \in Tied(ring, p) /\ cor' = Head(ring')
  BY DEF Enters, InRing
<1>3. Elems(ring') = Elems(ring) \cup {p}
  BY <1>1, <1>2, TiedProperties
<1>4. Ready' = Elems(ring')
  BY DEF CoreInv, Inv, Agree, Ready, Elems
<1>5. Head(ring') = IF Urgency[p] > Urgency[Head(ring)] THEN p ELSE Head(ring)
  <2>1. Placed(ring, ring', p)
    BY <1>2, SlotFound DEF Enters
  <2> QED BY <1>1, <1>2, <2>1, PlacedOrdered
<1> QED BY <1>1, <1>2, <1>3, <1>4, <1>5 DEF D!Admit

\* The scheduler implements the Dispatcher: with at most one process above the
\* least urgency, the coroutine in control is at every moment that of a most
\* urgent ready process, which keeps control until it gives it up or a more
\* urgent one becomes ready. Tie, UnTie, the saved coroutines and the disposal of
\* corpses do not show.
THEOREM ImplementsDispatcher == AtMostOneUrgent => (CoreSpec => Dispatches)
<1> SUFFICES ASSUME AtMostOneUrgent PROVE CoreSpec => Dispatches
  OBVIOUS
<1>1. Init => D!Init
  BY ProcAssumption DEF Init, D!Init, Ready
<1>2. OrderInv /\ OrderInv' /\ [CoreNext]_vars => [D!Next]_(D!vars)
  <2> SUFFICES ASSUME OrderInv, OrderInv', [CoreNext]_vars
               PROVE  [D!Next]_(D!vars)
    OBVIOUS
  <2>1. UNCHANGED <<ring, cor>> \/ Leaves \/ \E p \in Proc : Enters(p)
    BY CoreStep, SlotFound DEF OrderInv
  <2>2. CASE UNCHANGED <<ring, cor>>
    <3>1. Ready = Elems(ring)
      BY ReadyIsList DEF OrderInv
    <3>2. Ready' = Elems(ring')
      BY DEF OrderInv, CoreInv, Inv, Agree, Ready, Elems
    <3>3. UNCHANGED <<Ready, cor>>
      BY <2>2, <3>1, <3>2
    <3> QED BY <3>3 DEF D!vars
  <2>3. CASE Leaves
    <3>1. D!Yield
      BY <2>3, LeavesYields DEF OrderInv
    <3> QED BY <3>1 DEF D!Next
  <2>4. ASSUME NEW p \in Proc, Enters(p) PROVE [D!Next]_(D!vars)
    <3>1. D!Admit(p)
      BY <2>4, EntersAdmits DEF OrderInv
    <3> QED BY <3>1 DEF D!Next
  <2> QED BY <2>1, <2>2, <2>3, <2>4
<1> QED BY <1>1, <1>2, OrderInvariance, PTL DEF CoreSpec, Dispatches, D!Spec

(***************************************************************************)
(* The order of equals.                                                    *)
(***************************************************************************)

\* An equal before p in r stands at a place in front of p's.
LEMMA Before ==
  ASSUME NEW r, NEW p, NEW x
  PROVE  x \in EqualsBefore(r, p) <=>
           \E j \in 1..Len(r) : /\ x = r[j] /\ Urgency[r[j]] = Urgency[p]
                                /\ \A k \in 1..j : r[k] # p
BY DEF EqualsBefore

\* Whoever leaves is in front of everybody.
LEMMA LeavesInOrder ==
  ASSUME NEW r \in Seq(Proc), r # <<>>, NEW p \in Proc, p # Head(r)
  PROVE  EqualsBefore(Tail(r), p) \subseteq EqualsBefore(r, p)
<1>1. PICK n \in Nat \ {0} : n = Len(r)
  BY EmptySeq
<1>2. PICK t \in Seq(Proc) :
        /\ t = Tail(r) /\ Head(r) = r[1]
        /\ Len(t) = n-1 /\ \A i \in 1..n-1 : t[i] = r[i+1]
  <2>1. /\ Tail(r) \in Seq(Proc) /\ Head(r) = r[1]
        /\ Len(Tail(r)) = Len(r)-1
        /\ \A i \in 1..Len(Tail(r)) : Tail(r)[i] = r[i+1]
    BY HeadTailProperties
  <2>2. Len(Tail(r)) = n-1 /\ \A i \in 1..n-1 : Tail(r)[i] = r[i+1]
    BY <2>1, <1>1
  <2> QED BY <2>1, <2>2
<1> SUFFICES ASSUME NEW x \in EqualsBefore(t, p) PROVE x \in EqualsBefore(r, p)
  BY <1>2
<1>3. PICK j \in 1..n-1 : /\ x = t[j] /\ Urgency[t[j]] = Urgency[p]
                          /\ \A k \in 1..j : t[k] # p
  <2>1. \E j \in 1..Len(t) : /\ x = t[j] /\ Urgency[t[j]] = Urgency[p]
                             /\ \A k \in 1..j : t[k] # p
    BY Before
  <2>2. Len(t) = n-1
    BY <1>2
  <2> QED BY <2>1, <2>2
<1>4. j+1 \in 1..Len(r) /\ x = r[j+1] /\ Urgency[r[j+1]] = Urgency[p]
  <2>1. j+1 \in 1..Len(r)
    BY <1>1
  <2>2. t[j] = r[j+1]
    BY <1>2
  <2> QED BY <1>3, <2>1, <2>2
<1>5. ASSUME NEW k \in 1..j+1 PROVE r[k] # p
  <2>1. CASE k = 1
    BY <1>2, <2>1
  <2>2. CASE k # 1
    <3>1. k-1 \in 1..j /\ k-1 \in 1..n-1 /\ (k-1)+1 = k
      BY <2>2
    <3>2. t[k-1] = r[k] /\ t[k-1] # p
      BY <1>2, <1>3, <3>1
    <3> QED BY <3>2
  <2> QED BY <2>1, <2>2
<1> QED BY <1>4, <1>5, Before

\* A newcomer is tied in behind its equals, and turning the list for a more
\* urgent one takes only the old head away from in front.
LEMMA EntersInOrder ==
  ASSUME NEW r \in Seq(Proc), r # <<>>, NEW q \in Proc, q \notin Elems(r),
         NEW r2, Placed(r, r2, q),
         NEW p \in Elems(r), p # Head(r), Urgency[p] = Urgency[Head(r)]
  PROVE  EqualsBefore(r2, p) \subseteq EqualsBefore(r, p)
<1>1. PICK n \in Nat \ {0} : n = Len(r)
  BY EmptySeq
<1>2. /\ Head(r) = r[1] /\ \A i \in 1..n : r[i] \in Proc
      /\ Len(r2) = n+1 /\ q # p
  BY <1>1, ElementOfSeq DEF Placed, Elems
<1>3. PICK m \in 2..n : r[m] = p
  <2>1. PICK m \in 1..n : r[m] = p
    BY <1>1 DEF Elems
  <2>2. m # 1
    BY <1>2, <2>1
  <2> QED BY <2>1, <2>2
<1>4. Urgency[q] \in Int /\ Urgency[r[1]] \in Int
  <2>1. r[1] \in Proc
    BY <1>2
  <2> QED BY <2>1, UrgencyAssumption
<1> SUFFICES ASSUME NEW x \in EqualsBefore(r2, p) PROVE x \in EqualsBefore(r, p)
  OBVIOUS
<1>5. PICK j \in 1..n+1 : /\ x = r2[j] /\ Urgency[r2[j]] = Urgency[p]
                          /\ \A k \in 1..j : r2[k] # p
  BY <1>2, Before
<1>6. CASE /\ Urgency[q] = Urgency[r[1]]
           /\ \A i \in 1..n+1 : r2[i] = IF i = n+1 THEN q ELSE r[i]
  <2>1. j # n+1
    <3>1. m \in 1..n+1 /\ m # n+1
      OBVIOUS
    <3>2. r2[m] = p
      BY <1>3, <1>6, <3>1
    <3> QED BY <1>5, <3>1, <3>2
  <2>2. j \in 1..Len(r) /\ r2[j] = r[j]
    BY <1>1, <1>6, <2>1
  <2>3. \A k \in 1..j : r2[k] = r[k]
    <3>1. \A k \in 1..j : k \in 1..n+1 /\ k # n+1
      BY <2>1
    <3> QED BY <3>1, <1>6
  <2> QED BY <1>5, <2>2, <2>3, Before
<1>7. CASE /\ Urgency[q] > Urgency[r[1]]
           /\ \A i \in 1..n+1 :
                r2[i] = IF i = 1 THEN q ELSE IF i = n+1 THEN r[1] ELSE r[i]
  <2>1. j # 1
    <3>1. r2[1] = q /\ Urgency[q] # Urgency[p]
      BY <1>2, <1>4, <1>7
    <3> QED BY <1>5, <3>1
  <2>2. j # n+1
    <3>1. m \in 1..n+1 /\ m # n+1 /\ m # 1
      OBVIOUS
    <3>2. r2[m] = p
      BY <1>3, <1>7, <3>1
    <3> QED BY <1>5, <3>1, <3>2
  <2>3. j \in 1..Len(r) /\ r2[j] = r[j]
    BY <1>1, <1>7, <2>1, <2>2
  <2>4. ASSUME NEW k \in 1..j PROVE r[k] # p
    <3>1. CASE k = 1
      BY <1>2, <3>1
    <3>2. CASE k # 1
      <4>1. k \in 1..n+1 /\ k # n+1
        BY <2>2
      <4> QED BY <1>5, <1>7, <3>2, <4>1
    <3> QED BY <3>1, <3>2
  <2> QED BY <1>5, <2>3, <2>4, Before
<1>8. CASE /\ Urgency[q] < Urgency[r[1]]
           /\ \A i \in 1..n+1 :
                r2[i] = IF i = 1 THEN r[1] ELSE IF i = 2 THEN q ELSE r[i-1]
  <2>1. j # 2
    <3>1. 2 \in 1..n+1
      OBVIOUS
    <3>2. r2[2] = q /\ Urgency[q] # Urgency[p]
      BY <1>2, <1>4, <1>8, <3>1
    <3> QED BY <1>5, <3>2
  <2>2. CASE j = 1
    <3>1. x = r[1] /\ Urgency[r[1]] = Urgency[p] /\ 1 \in 1..Len(r)
      BY <1>1, <1>5, <1>8, <2>2
    <3>2. \A k \in 1..1 : r[k] # p
      BY <1>2
    <3> QED BY <3>1, <3>2, Before
  <2>3. CASE j # 1
    <3>1. j-1 \in 1..Len(r) /\ r2[j] = r[j-1]
      BY <1>1, <1>8, <2>1, <2>3
    <3>2. ASSUME NEW k \in 1..j-1 PROVE r[k] # p
      <4>1. CASE k = 1
        BY <1>2, <4>1
      <4>2. CASE k # 1
        <5>1. k+1 \in 1..j /\ k+1 \in 1..n+1 /\ k+1 # 1 /\ k+1 # 2 /\ (k+1)-1 = k
          BY <4>2
        <5>2. r2[k+1] = r[k]
          BY <1>8, <5>1
        <5> QED BY <1>5, <5>1, <5>2
      <4> QED BY <4>1, <4>2
    <3> QED BY <1>5, <3>1, <3>2, Before
  <2> QED BY <2>2, <2>3
<1> QED BY <1>1, <1>6, <1>7, <1>8 DEF Placed

\* Ready processes of the same urgency are served in the order in which they
\* became ready: nobody gets in front of a waiting equal of the process in
\* control, whatever is called, whoever stops and whoever pre-empts.
THEOREM EqualsInOrder == AtMostOneUrgent => (CoreSpec => NoOvertaking)
<1> SUFFICES ASSUME AtMostOneUrgent PROVE CoreSpec => NoOvertaking
  OBVIOUS
<1> DEFINE Waits(p) == /\ p # Current /\ Urgency[p] = Urgency[Current]
                       /\ p \in InRing'
           InOrder == \A p \in InRing :
                        Waits(p) => EqualsBefore(ring', p) \subseteq EqualsBefore(ring, p)
<1>1. OrderInv /\ [CoreNext]_vars => InOrder
  <2> SUFFICES ASSUME OrderInv, [CoreNext]_vars, NEW p \in InRing, Waits(p)
               PROVE  EqualsBefore(ring', p) \subseteq EqualsBefore(ring, p)
    OBVIOUS
  <2>1. UNCHANGED <<ring, cor>> \/ Leaves \/ \E q \in Proc : Enters(q)
    BY CoreStep, SlotFound DEF OrderInv
  <2>2. /\ ring \in Seq(Proc) /\ ring # <<>> /\ p \in Elems(ring) /\ p \in Proc
        /\ p # Head(ring) /\ Urgency[p] = Urgency[Head(ring)]
    <3>1. ring \in Seq(Proc) /\ p \in Elems(ring)
      BY DEF OrderInv, CoreInv, Inv, Agree, InRing
    <3>2. ring # <<>> /\ p \in Proc
      <4>1. PICK i \in 1..Len(ring) : p = ring[i]
        BY <3>1 DEF Elems
      <4> QED BY <3>1, <4>1, ElementOfSeq
    <3> QED BY <3>1, <3>2 DEF Current
  <2>3. CASE UNCHANGED <<ring, cor>>
    BY <2>3
  <2>4. CASE Leaves
    BY <2>2, <2>4, LeavesInOrder DEF Leaves
  <2>5. ASSUME NEW q \in Proc, Enters(q)
        PROVE  EqualsBefore(ring', p) \subseteq EqualsBefore(ring, p)
    <3>1. q \notin Elems(ring) /\ Placed(ring, ring', q)
      BY <2>5, SlotFound DEF Enters
    <3> QED BY <2>2, <3>1, EntersInOrder
  <2> QED BY <2>1, <2>3, <2>4, <2>5
<1>2. OrderInv /\ [CoreNext]_vars => [InOrder]_vars
  BY <1>1
<1> QED BY <1>2, OrderInvariance, PTL DEF CoreSpec, NoOvertaking
=============================================================================
