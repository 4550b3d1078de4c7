--------------------------- MODULE BackstopProofs ---------------------------
(***************************************************************************)
(* What the backstop promises, for every number of pools, depositors and   *)
(* queued withdrawals.                                                     *)
(*                                                                         *)
(* First its books: types, shares and queues add up, it holds the tokens   *)
(* it accounts for, a queued share waits its time, and it implements the   *)
(* abstract Vault.                                                         *)
(*                                                                         *)
(* Then its BLND: every claim on it can be paid.  EmissionsCovered is not  *)
(* inductive: it counts what is promised rounded down, and rounding down   *)
(* again after a step may give less or more.  The invariant here counts in *)
(* units of 1 / Scalar14 token, where nothing is rounded: a share has      *)
(* earned the growth of the index, a stream still has to give eps for each *)
(* of its seconds.  Accruing then moves an amount from the stream to the   *)
(* shares, a grant from the pool to the stream, a claim from the contract  *)
(* to the claimant, and nothing is created.                                *)
(***************************************************************************)
EXTENDS BackstopProperties, ArithmeticProofs, SequenceTheorems

-----------------------------------------------------------------------------
(* The queue: what its entries add up to, from either end.                 *)

Queue == Seq(Q4W)

LEMMA QueueParts ==
    ASSUME NEW q \in Queue
    PROVE  /\ Len(q) \in Nat /\ DOMAIN q = 1..Len(q) /\ IsFiniteSet(1..Len(q))
           /\ \A i \in 1..Len(q) : q[i] \in Q4W /\ q[i].amount \in Nat /\ q[i].exp \in Nat
           /\ Amounts(q) \in [1..Len(q) -> Nat]
           /\ \A i \in 1..Len(q) : Amounts(q)[i] = q[i].amount
<1>1. Len(q) \in Nat /\ DOMAIN q = 1..Len(q)
  BY LenProperties DEF Queue
<1>2. IsFiniteSet(1..Len(q))
  BY <1>1, FS_Interval
<1>3. \A i \in 1..Len(q) : q[i] \in Q4W
  BY ElementOfSeq DEF Queue
<1>4. \A i \in 1..Len(q) : q[i].amount \in Nat /\ q[i].exp \in Nat
  BY <1>3 DEF Q4W
<1> QED
  BY <1>1, <1>2, <1>3, <1>4 DEF Amounts

LEMMA QueuedSums ==
    ASSUME NEW q \in Queue
    PROVE  /\ Queued(q) = Sum(Amounts(q), 1..Len(q))
           /\ Queued(q) \in Nat
           /\ \A k \in 0..Len(q) : /\ QueuedUpTo(q, k) = Sum(Amounts(q), 1..k)
                                   /\ QueuedUpTo(q, k) \in Nat
           /\ QueuedUpTo(q, 0) = 0
           /\ QueuedUpTo(q, Len(q)) = Queued(q)
<1>1. Queued(q) = Sum(Amounts(q), 1..Len(q))
  BY QueueParts, SumFunctionIsSum DEF Queued
<1>2. Queued(q) \in Nat
  BY QueueParts, SumFunctionNat DEF Queued
<1>3. \A k : QueuedUpTo(q, k) = Sum(Amounts(q), 1..k)
  BY DEF QueuedUpTo, Sum
<1>4. \A k \in 0..Len(q) : Sum(Amounts(q), 1..k) \in Nat
  <2>1. \A k \in 0..Len(q) : 1..k \in SUBSET (1..Len(q))
    BY QueueParts
  <2> QED
    BY <2>1, QueueParts, SumNat
<1>5. QueuedUpTo(q, 0) = 0
  <2>1. 1..0 = {}
    BY SMT
  <2> QED
    BY <1>3, <2>1, SumEmpty
<1> QED
  BY <1>1, <1>2, <1>3, <1>4, <1>5, QueueParts

\* A queue that holds n has a first entry that completes n.
LEMMA LastServedExists ==
    ASSUME NEW q \in Queue, q # <<>>, NEW n \in Nat, n <= Queued(q)
    PROVE  /\ LastServed(q, n) \in 1..Len(q)
           /\ n <= QueuedUpTo(q, LastServed(q, n))
<1> DEFINE Enough == {k \in 1..Len(q) : n <= QueuedUpTo(q, k)}
           T == {1..k : k \in Enough}
<1>1. Len(q) \in Nat \ {0}
  BY EmptySeq DEF Queue
<1>2. Len(q) \in Enough
  BY <1>1, QueuedSums
<1>3. T # {} /\ T \subseteq SUBSET (1..Len(q))
  BY <1>1, <1>2
<1>4. PICK U \in T : \A V \in T : ~(V \subseteq U /\ V # U)
  <2> DEFINE S == 1..Len(q)
  <2>1. IsFiniteSet(S) /\ T # {} /\ T \subseteq SUBSET S
    BY <1>3, QueueParts
  <2> HIDE DEF T, S
  <2> QED
    BY <2>1, SmallestSubset
<1>5. PICK k \in Enough : U = 1..k
  BY <1>4
<1>6. \A j \in Enough : j >= k
  <2> SUFFICES ASSUME NEW j \in Enough, j < k
               PROVE  FALSE
    BY <1>1
  <2>1. 1..j \subseteq 1..k /\ k \notin 1..j /\ k \in 1..k
    BY <1>1
  <2>2. 1..j \in T
    OBVIOUS
  <2> QED
    BY <1>4, <1>5, <2>1, <2>2
<1>7. \A j \in 1..(k - 1) : QueuedUpTo(q, j) < n
  <2> SUFFICES ASSUME NEW j \in 1..(k - 1)
               PROVE  QueuedUpTo(q, j) < n
    OBVIOUS
  <2>1. j \in 0..Len(q) /\ j \in 1..Len(q) /\ j < k
    BY <1>1
  <2>2. j \notin Enough
    BY <1>1, <1>6, <2>1
  <2>3. QueuedUpTo(q, j) \in Nat
    BY <2>1, QueuedSums
  <2> QED
    BY <2>1, <2>2, <2>3
<1>8. /\ k \in DOMAIN q
      /\ n <= QueuedUpTo(q, k) /\ \A j \in 1..(k - 1) : QueuedUpTo(q, j) < n
  BY <1>7, QueueParts
<1>9. /\ LastServed(q, n) \in DOMAIN q
      /\ n <= QueuedUpTo(q, LastServed(q, n))
  BY <1>8 DEF LastServed
<1> QED
  BY <1>9, QueueParts

\* The entries after the k-th hold the rest.
LEMMA QueuedAfter ==
    ASSUME NEW q \in Queue, NEW k \in 0..Len(q)
    PROVE  /\ SubSeq(q, k + 1, Len(q)) \in Queue
           /\ Queued(SubSeq(q, k + 1, Len(q))) = Queued(q) - QueuedUpTo(q, k)
<1> DEFINE later == SubSeq(q, k + 1, Len(q))
           m == Len(q) - k
<1>0. Len(q) \in Nat /\ k \in Nat /\ m \in Nat /\ k <= Len(q)
  BY QueueParts
<1>1. \A i \in (k + 1)..Len(q) : q[i] \in Q4W
  BY <1>0, QueueParts
<1>2. /\ later \in Queue
      /\ Len(later) = m
      /\ \A i \in 1..m : later[i] = q[k + i]
  <2>1. /\ later \in Seq(Q4W)
        /\ Len(later) = IF k + 1 <= Len(q) THEN Len(q) - (k + 1) + 1 ELSE 0
        /\ \A i \in 1..(Len(q) - (k + 1) + 1) : later[i] = q[k + 1 + i - 1]
    <3>1. k + 1 \in Int /\ Len(q) \in Int
      BY <1>0
    <3> QED
      BY <1>1, <3>1, SubSeqProperties
  <2>2. Len(later) = m /\ Len(q) - (k + 1) + 1 = m
    BY <1>0, <2>1
  <2>3. \A i \in 1..m : k + 1 + i - 1 = k + i
    BY <1>0
  <2> QED
    BY <2>1, <2>2, <2>3 DEF Queue
<1> HIDE DEF later
<1>3. Queued(later) = Sum(Amounts(q), (k + 1)..Len(q))
  <2> DEFINE S == 1..m
             T == (k + 1)..Len(q)
             h == [i \in S |-> k + i]
  <2>1. IsFiniteSet(S) /\ IsFiniteSet(T)
    BY <1>0, FS_Interval
  <2>2. h \in [S -> T] /\ \A i \in S : h[i] = k + i
    BY <1>0
  <2>3. \A x, y \in S : h[x] = h[y] => x = y
    BY <1>0
  <2>4. \A y \in T : \E x \in S : h[x] = y
    <3> TAKE y \in T
    <3>1. y - k \in S /\ h[y - k] = y
      BY <1>0
    <3> QED
      BY <3>1
  <2>5. \A x \in S : Amounts(later)[x] \in Int /\ Amounts(later)[x] = Amounts(q)[h[x]]
    <3> TAKE x \in S
    <3>1. Amounts(later)[x] = later[x].amount /\ Amounts(later)[x] \in Nat
      BY <1>2, QueueParts
    <3>2. h[x] \in 1..Len(q)
      BY <1>0, <2>2
    <3>3. Amounts(q)[h[x]] = q[h[x]].amount
      BY <3>2, QueueParts
    <3> QED
      BY <1>2, <2>2, <3>1, <3>3
  <2>6. Sum(Amounts(later), S) = Sum(Amounts(q), T)
    <3> HIDE DEF S, T, h
    <3> QED
      BY <2>1, <2>2, <2>3, <2>4, <2>5, SumRenamed
  <2> QED
    BY <1>2, <2>6, QueuedSums
<1>4. Sum(Amounts(q), 1..Len(q)) = Sum(Amounts(q), 1..k) + Sum(Amounts(q), (k + 1)..Len(q))
  <2>1. 1..Len(q) = (1..k) \cup ((k + 1)..Len(q)) /\ (1..k) \cap ((k + 1)..Len(q)) = {}
    BY <1>0
  <2>2. IsFiniteSet(1..k) /\ IsFiniteSet((k + 1)..Len(q))
    BY <1>0, FS_Interval
  <2>3. \A x \in (1..k) \cup ((k + 1)..Len(q)) : Amounts(q)[x] \in Int
    BY <2>1, QueueParts
  <2> QED
    BY <2>1, <2>2, <2>3, SumUnion
<1>5. Queued(q) = QueuedUpTo(q, k) + Queued(later)
  BY <1>3, <1>4, QueuedSums
<1>6. Queued(later) \in Nat /\ QueuedUpTo(q, k) \in Nat
  BY <1>2, QueuedSums
<1> QED
  BY <1>2, <1>5, <1>6 DEF later

LEMMA QueuedCons ==
    ASSUME NEW q \in Queue, NEW e \in Q4W
    PROVE  /\ <<e>> \o q \in Queue
           /\ Queued(<<e>> \o q) = e.amount + Queued(q)
<1> DEFINE r == <<e>> \o q
           rest == SubSeq(r, 1 + 1, Len(r))
<1>0. Len(q) \in Nat /\ e.amount \in Nat /\ Queued(q) \in Nat
  BY QueueParts, QueuedSums DEF Q4W
<1>1. /\ r \in Queue /\ Len(r) = 1 + Len(q)
      /\ r[1] = e
      /\ \A i \in 1..Len(q) : r[1 + i] = q[i]
  <2>1. <<e>> \in Seq(Q4W) /\ Len(<<e>>) = 1 /\ <<e>>[1] = e
    OBVIOUS
  <2>2. /\ r \in Seq(Q4W) /\ Len(r) = Len(<<e>>) + Len(q)
        /\ \A i \in 1..(Len(<<e>>) + Len(q)) :
             r[i] = IF i <= Len(<<e>>) THEN <<e>>[i] ELSE q[i - Len(<<e>>)]
    BY <2>1, ConcatProperties DEF Queue
  <2>3. 1 \in 1..(1 + Len(q)) /\ \A i \in 1..Len(q) : /\ 1 + i \in 1..(1 + Len(q))
                                                       /\ ~(1 + i <= 1) /\ 1 + i - 1 = i
    BY <1>0
  <2> HIDE DEF r
  <2> QED
    BY <2>1, <2>2, <2>3 DEF Queue
<1> HIDE DEF r
<1>2. 1 \in 0..Len(r) /\ 1 \in 1..Len(r)
  BY <1>0, <1>1
<1>3. rest \in Queue /\ Queued(rest) = Queued(r) - QueuedUpTo(r, 1)
  BY <1>1, <1>2, QueuedAfter
<1>4. rest = q
  <2>1. rest \in Seq(Q4W) /\ q \in Seq(Q4W)
    BY <1>3 DEF Queue
  <2>2. \A i \in (1 + 1)..Len(r) : r[i] \in Q4W
    BY <1>0, <1>1, QueueParts
  <2>3. /\ Len(rest) = IF 1 + 1 <= Len(r) THEN Len(r) - (1 + 1) + 1 ELSE 0
        /\ \A i \in 1..(Len(r) - (1 + 1) + 1) : rest[i] = r[1 + 1 + i - 1]
    <3>1. 1 + 1 \in Int /\ Len(r) \in Int
      BY <1>0, <1>1
    <3> QED
      BY <2>2, <3>1, SubSeqProperties
  <2>4. Len(rest) = Len(q)
    BY <1>0, <1>1, <2>3
  <2>5. \A i \in 1..Len(q) : rest[i] = q[i]
    <3> TAKE i \in 1..Len(q)
    <3>1. i \in 1..(Len(r) - (1 + 1) + 1) /\ 1 + 1 + i - 1 = 1 + i
      BY <1>0, <1>1
    <3> QED
      BY <1>1, <2>3, <3>1
  <2> HIDE DEF rest
  <2> QED
    BY <2>1, <2>4, <2>5, SeqEqual
<1>5. QueuedUpTo(r, 1) = e.amount
  <2>1. QueuedUpTo(r, 1) = Sum(Amounts(r), 1..1)
    BY <1>1, <1>2, QueuedSums
  <2>2. 1..1 = {1}
    BY SMT
  <2>3. Amounts(r)[1] = e.amount
    BY <1>1, <1>2, QueueParts
  <2>4. Sum(Amounts(r), {1}) = Amounts(r)[1]
    <3>1. Amounts(r)[1] \in Int
      BY <1>0, <2>3
    <3> QED
      BY <3>1, SumOne
  <2> QED
    BY <2>1, <2>2, <2>3, <2>4
<1>6. Queued(r) \in Nat
  BY <1>1, QueuedSums
<1>7. Queued(q) = Queued(r) - e.amount
  BY <1>3, <1>4, <1>5
<1>8. Queued(r) = e.amount + Queued(q)
  <2> DEFINE a == Queued(q)
             b == Queued(r)
             c == e.amount
  <2>1. a \in Nat /\ b \in Nat /\ c \in Nat /\ a = b - c
    BY <1>0, <1>6, <1>7
  <2> HIDE DEF a, b, c
  <2>2. b = c + a
    BY <2>1
  <2> QED
    BY <2>2 DEF a, b, c
<1> QED
  BY <1>1, <1>8 DEF r

LEMMA QueuedAppend ==
    ASSUME NEW q \in Queue, NEW e \in Q4W
    PROVE  /\ Append(q, e) \in Queue
           /\ Queued(Append(q, e)) = Queued(q) + e.amount
<1> DEFINE r == Append(q, e)
           n == Len(q)
<1>0. n \in Nat /\ e.amount \in Nat /\ Queued(q) \in Nat
  BY QueueParts, QueuedSums DEF Q4W
<1>1. /\ r \in Queue /\ Len(r) = n + 1 /\ r[n + 1] = e
      /\ \A i \in 1..n : r[i] = q[i]
  BY AppendProperties DEF Queue
<1> HIDE DEF r
<1>2. n + 1 \in 1..(n + 1) /\ (1..(n + 1)) \ {n + 1} = 1..n /\ 1..n \subseteq 1..(n + 1)
  BY <1>0
<1>3. Sum(Amounts(r), 1..(n + 1)) = Amounts(r)[n + 1] + Sum(Amounts(r), (1..(n + 1)) \ {n + 1})
  <2>1. IsFiniteSet(1..(n + 1)) /\ \A i \in 1..(n + 1) : Amounts(r)[i] \in Int
    BY <1>1, QueueParts
  <2> QED
    BY <1>2, <2>1, SumRemove
<1>4. Sum(Amounts(r), 1..n) = Sum(Amounts(q), 1..n)
  <2>1. IsFiniteSet(1..n) /\ \A i \in 1..n : Amounts(r)[i] = Amounts(q)[i]
    BY <1>1, <1>2, QueueParts
  <2> QED
    BY <2>1, SumSame
<1>5. Amounts(r)[n + 1] = e.amount
  BY <1>1, <1>2, QueueParts
<1>6. Queued(r) = Sum(Amounts(r), 1..(n + 1)) /\ Queued(q) = Sum(Amounts(q), 1..n)
  BY <1>1, QueuedSums
<1>7. Queued(r) = e.amount + Queued(q)
  BY <1>2, <1>3, <1>4, <1>5, <1>6
<1>8. Queued(r) = Queued(q) + e.amount
  <2> DEFINE a == Queued(q)
             c == e.amount
  <2>1. a \in Nat /\ c \in Nat /\ Queued(r) = c + a
    BY <1>0, <1>7
  <2> HIDE DEF a, c
  <2>2. Queued(r) = a + c
    BY <2>1
  <2> QED
    BY <2>2 DEF a, c
<1> QED
  BY <1>1, <1>8 DEF r

\* What is not served stays, and the last entry served keeps what is left of it.
LEMMA ServeTakes ==
    ASSUME NEW q \in Queue, NEW n \in Nat, CanServe(q, n)
    PROVE  /\ Serve(q, n) \in Queue
           /\ Queued(Serve(q, n)) = Queued(q) - n
<1>0. n <= Queued(q) /\ Queued(q) \in Nat
  BY QueuedSums DEF CanServe
<1>1. CASE q = <<>>
  <2>1. Queued(q) = 0
    <3>1. Len(q) = 0 /\ 1..0 = {}
      BY <1>1
    <3> QED
      BY <3>1, QueuedSums, SumEmpty
  <2> QED
    BY <1>0, <1>1, <2>1 DEF Serve
<1>2. CASE q # <<>>
  <2> DEFINE k == LastServed(q, n)
             left == QueuedUpTo(q, k) - n
             later == SubSeq(q, k + 1, Len(q))
             kept == [q[k] EXCEPT !.amount = left]
  <2>1. k \in 1..Len(q) /\ n <= QueuedUpTo(q, k)
    BY <1>0, <1>2, LastServedExists
  <2> HIDE DEF k
  <2>2. k \in 0..Len(q)
    BY <2>1, QueueParts
  <2>3. QueuedUpTo(q, k) \in Nat
    BY <2>2, QueuedSums
  <2>4. later \in Queue /\ Queued(later) = Queued(q) - QueuedUpTo(q, k)
    BY <2>2, QueuedAfter
  <2>5. left \in Nat
    BY <2>1, <2>3
  <2>6. Serve(q, n) = IF left = 0 THEN later ELSE <<kept>> \o later
    BY <1>2 DEF Serve, k
  <2>7. kept \in Q4W /\ kept.amount = left
    <3>1. q[k] \in Q4W
      BY <2>1, QueueParts
    <3> QED
      BY <2>5, <3>1 DEF Q4W
  <2> HIDE DEF kept, later
  <2>8. <<kept>> \o later \in Queue /\ Queued(<<kept>> \o later) = left + Queued(later)
    BY <2>4, <2>7, QueuedCons
  <2>9. CASE left = 0
    BY <1>0, <2>3, <2>4, <2>6, <2>9
  <2>10. CASE left # 0
    BY <1>0, <2>3, <2>4, <2>6, <2>8, <2>10
  <2> QED
    BY <2>9, <2>10
<1> QED
  BY <1>1, <1>2

LEMMA QueuedBackwards ==
    ASSUME NEW q \in Queue
    PROVE  /\ Backwards(q) \in Queue
           /\ Queued(Backwards(q)) = Queued(q)
<1> DEFINE r == Backwards(q)
           n == Len(q)
           S == 1..n
           h == [i \in S |-> n + 1 - i]
<1>0. n \in Nat /\ DOMAIN q = S
  BY QueueParts
<1>1. \A i \in S : n + 1 - i \in S
  BY <1>0
<1>2. r = [i \in S |-> q[n + 1 - i]]
  BY <1>0 DEF Backwards
<1>3. \A i \in S : r[i] = q[n + 1 - i] /\ r[i] \in Q4W
  BY <1>1, <1>2, QueueParts
<1>4. r \in Seq(Q4W) /\ DOMAIN r = S
  BY <1>0, <1>2, <1>3
<1>5. Len(r) = n /\ r \in Queue
  BY <1>0, <1>4 DEF Queue
<1> HIDE DEF r
<1>6. h \in [S -> S] /\ \A i \in S : h[i] = n + 1 - i
  BY <1>1
<1>7. \A x, y \in S : h[x] = h[y] => x = y
  BY <1>0
<1>8. \A y \in S : \E x \in S : h[x] = y
  <2> TAKE y \in S
  <2>1. n + 1 - y \in S /\ h[n + 1 - y] = y
    BY <1>0
  <2> QED
    BY <2>1
<1>9. \A x \in S : Amounts(r)[x] \in Int /\ Amounts(r)[x] = Amounts(q)[h[x]]
  <2> TAKE x \in S
  <2>1. Amounts(r)[x] = r[x].amount /\ Amounts(r)[x] \in Nat
    BY <1>5, QueueParts
  <2>2. h[x] \in 1..Len(q)
    BY <1>6
  <2>3. Amounts(q)[h[x]] = q[h[x]].amount
    BY <2>2, QueueParts
  <2> QED
    BY <1>3, <1>6, <2>1, <2>3
<1>10. IsFiniteSet(S)
  BY QueueParts
<1>11. Sum(Amounts(r), S) = Sum(Amounts(q), S)
  <2> HIDE DEF S, h
  <2> QED
    BY <1>6, <1>7, <1>8, <1>9, <1>10, SumRenamed
<1> QED
  BY <1>5, <1>11, QueuedSums DEF r

\* Served from the front, n comes out of entries whose lock is over.
LEMMA ServedWasUnlocked ==
    ASSUME NEW q \in Queue, NEW n \in Nat, CanServe(q, n),
           q # <<>> => \A i \in 1..LastServed(q, n) : q[i].exp <= now
    PROVE  n <= Unlocked(q)
<1> DEFINE open == [i \in DOMAIN q |-> IF q[i].exp <= now THEN q[i].amount ELSE 0]
<1>0. n <= Queued(q) /\ Queued(q) \in Nat
  BY QueuedSums DEF CanServe
<1>1. open \in [1..Len(q) -> Nat] /\ DOMAIN open = 1..Len(q)
  BY QueueParts
<1>2. Unlocked(q) = Sum(open, 1..Len(q))
  BY <1>1, SumFunctionIsSum DEF Unlocked
<1>3. CASE q = <<>>
  <2>1. Len(q) = 0 /\ 1..0 = {}
    BY <1>3
  <2>2. Queued(q) = 0 /\ Sum(open, 1..0) = 0
    BY <2>1, QueuedSums, SumEmpty
  <2> QED
    BY <1>0, <1>2, <2>1, <2>2
<1>4. CASE q # <<>>
  <2> DEFINE k == LastServed(q, n)
  <2>1. k \in 1..Len(q) /\ n <= QueuedUpTo(q, k)
    BY <1>0, <1>4, LastServedExists
  <2>2. \A i \in 1..k : q[i].exp <= now
    BY <1>4
  <2> HIDE DEF k
  <2>3. k \in 0..Len(q) /\ 1..k \subseteq 1..Len(q) /\ Len(q) \in Nat
    BY <2>1, QueueParts
  <2>4. \A i \in 1..k : Amounts(q)[i] = open[i]
    BY <2>2, <2>3, QueueParts
  <2> HIDE DEF open
  <2>5. IsFiniteSet(1..k) /\ IsFiniteSet((1..Len(q)) \ (1..k))
    BY <2>3, QueueParts, FS_Subset
  <2>6. QueuedUpTo(q, k) = Sum(open, 1..k)
    BY <2>3, <2>4, <2>5, QueuedSums, SumSame
  <2>7. Sum(open, 1..Len(q)) = Sum(open, 1..k) + Sum(open, (1..Len(q)) \ (1..k))
    <3>1. 1..Len(q) = (1..k) \cup ((1..Len(q)) \ (1..k))
      BY <2>3
    <3>2. (1..k) \cap ((1..Len(q)) \ (1..k)) = {}
      OBVIOUS
    <3>3. \A i \in (1..k) \cup ((1..Len(q)) \ (1..k)) : open[i] \in Int
      BY <1>1, <3>1
    <3>4. PICK S, T : S = 1..k /\ T = (1..Len(q)) \ (1..k)
      OBVIOUS
    <3>5. /\ IsFiniteSet(S) /\ IsFiniteSet(T) /\ S \cap T = {}
          /\ 1..Len(q) = S \cup T /\ \A i \in S \cup T : open[i] \in Int
      BY <2>5, <3>1, <3>2, <3>3, <3>4
    <3>6. Sum(open, S \cup T) = Sum(open, S) + Sum(open, T)
      BY <3>5, SumUnion
    <3> QED
      BY <3>4, <3>5, <3>6
  <2>8. Sum(open, (1..Len(q)) \ (1..k)) \in Nat /\ Sum(open, 1..k) \in Nat
    BY <1>1, <2>3, QueueParts, SumNat
  <2> QED
    BY <1>2, <2>1, <2>6, <2>7, <2>8
<1> QED
  BY <1>3, <1>4

-----------------------------------------------------------------------------
(* The accounts of one pool: its balance against those of its depositors.  *)

UserStake(ub) == ub.shares + Queued(ub.q4w)

Accounts(b, ub) ==
    /\ b.shares = SumFunction([u \in Users |-> UserStake(ub[u])])
    /\ b.q4w = SumFunction([u \in Users |-> Queued(ub[u].q4w)])

LEMMA UserParts ==
    ASSUME NEW ub \in UserBalance
    PROVE  /\ ub.shares \in Nat /\ ub.q4w \in Queue
           /\ Queued(ub.q4w) \in Nat /\ UserStake(ub) \in Nat
<1>1. ub.shares \in Nat /\ ub.q4w \in Queue
  BY DEF UserBalance, Queue
<1>2. Queued(ub.q4w) \in Nat
  BY <1>1, QueuedSums
<1> QED
  BY <1>1, <1>2 DEF UserStake

LEMMA PoolParts ==
    ASSUME NEW b \in PoolBalance
    PROVE  b.shares \in Nat /\ b.tokens \in Nat /\ b.q4w \in Nat
  BY DEF PoolBalance

\* Nobody owns more than there is, and what is queued is part of the shares.
LEMMA AccountsBound ==
    ASSUME NEW b \in PoolBalance, NEW ub \in [Users -> UserBalance], Accounts(b, ub)
    PROVE  /\ b.q4w <= b.shares
           /\ \A u \in Users : UserStake(ub[u]) <= b.shares /\ Queued(ub[u].q4w) <= b.q4w
           /\ b.shares - b.q4w = SumFunction([u \in Users |-> ub[u].shares])
<1> DEFINE stakes == [u \in Users |-> UserStake(ub[u])]
           queues == [u \in Users |-> Queued(ub[u].q4w)]
           active == [u \in Users |-> ub[u].shares]
<1>1. /\ IsFiniteSet(Users)
      /\ stakes \in [Users -> Nat] /\ queues \in [Users -> Nat] /\ active \in [Users -> Nat]
  BY BackstopAssumption, UserParts
<1>2. b.shares = SumFunction(stakes) /\ b.q4w = SumFunction(queues)
  BY DEF Accounts
<1>3. \A u \in Users : stakes[u] = active[u] + queues[u]
  BY DEF UserStake
<1>4. \A u \in Users : stakes[u] = UserStake(ub[u]) /\ queues[u] = Queued(ub[u].q4w)
  OBVIOUS
<1> HIDE DEF stakes, queues, active
<1>5. SumFunction(stakes) = SumFunction(active) + SumFunction(queues)
  <2>1. \A u \in Users : active[u] \in Int /\ queues[u] \in Int
    BY <1>1
  <2> QED
    BY <1>1, <1>3, <2>1, SumAdd, SumFunctionIsSum
<1>6. SumFunction(active) \in Nat /\ SumFunction(queues) \in Nat
  BY <1>1, SumFunctionNat
<1>7. \A u \in Users : stakes[u] <= SumFunction(stakes) /\ queues[u] <= SumFunction(queues)
  BY <1>1, SumFunctionBound
<1>8. b.q4w <= b.shares /\ b.shares - b.q4w = SumFunction(active)
  BY <1>2, <1>5, <1>6
<1> QED
  BY <1>2, <1>4, <1>7, <1>8 DEF active

LEMMA AccountsChange ==
    ASSUME NEW b \in PoolBalance, NEW c \in PoolBalance,
           NEW s \in [Users -> UserBalance], NEW t \in [Users -> UserBalance],
           NEW u \in Users, \A v \in Users \ {u} : t[v] = s[v],
           Accounts(b, s),
           c.shares = b.shares + UserStake(t[u]) - UserStake(s[u]),
           c.q4w = b.q4w + Queued(t[u].q4w) - Queued(s[u].q4w)
    PROVE  Accounts(c, t)
<1> DEFINE stakes(ub) == [v \in Users |-> UserStake(ub[v])]
           queues(ub) == [v \in Users |-> Queued(ub[v].q4w)]
<1>1. /\ IsFiniteSet(Users)
      /\ stakes(s) \in [Users -> Int] /\ queues(s) \in [Users -> Int]
      /\ stakes(t) \in [Users -> Int] /\ queues(t) \in [Users -> Int]
  BY BackstopAssumption, UserParts
<1>2. \A v \in Users \ {u} : stakes(t)[v] = stakes(s)[v] /\ queues(t)[v] = queues(s)[v]
  OBVIOUS
<1>3. /\ stakes(t)[u] = UserStake(t[u]) /\ stakes(s)[u] = UserStake(s[u])
      /\ queues(t)[u] = Queued(t[u].q4w) /\ queues(s)[u] = Queued(s[u].q4w)
  OBVIOUS
<1>4. b.shares = SumFunction(stakes(s)) /\ b.q4w = SumFunction(queues(s))
  BY DEF Accounts
<1>5. SumFunction(stakes(t)) = SumFunction(stakes(s)) + stakes(t)[u] - stakes(s)[u]
  <2> HIDE DEF stakes
  <2> QED
    BY <1>1, <1>2, SumFunctionUpdate
<1>6. SumFunction(queues(t)) = SumFunction(queues(s)) + queues(t)[u] - queues(s)[u]
  <2> HIDE DEF queues
  <2> QED
    BY <1>1, <1>2, SumFunctionUpdate
<1>7. c.shares = SumFunction(stakes(t)) /\ c.q4w = SumFunction(queues(t))
  BY <1>3, <1>4, <1>5, <1>6
<1> QED
  BY <1>7 DEF Accounts

-----------------------------------------------------------------------------
(* Emissions: the index of a pool only grows.                              *)

LEMMA ScalarsPositive ==
    /\ Scalar7 \in Nat /\ Scalar7 > 0
    /\ Scalar14 \in Nat /\ Scalar14 > 0 /\ Scalar14 = Scalar7 * Scalar7
    /\ EmissionPeriod \in Nat /\ EmissionPeriod > 0
<1>1. /\ Scalar7 \in Nat /\ Scalar7 > 0 /\ Scalar14 = Scalar7 * Scalar7
      /\ EmissionPeriod \in Nat /\ EmissionPeriod > 0
  BY EmissionAssumption
<1>2. Scalar7 * Scalar7 \in Nat /\ Scalar7 * Scalar7 > 0
  BY <1>1, SMT
<1> QED
  BY <1>1, <1>2

LEMMA EmissionParts ==
    ASSUME NEW d \in EmissionData
    PROVE  /\ d.eps \in Nat /\ d.expiration \in Nat /\ d.index \in Nat /\ d.last_time \in Nat
           /\ d # NoData
  BY NoDataAssumption DEF EmissionData

LEMMA UserEmissionParts ==
    ASSUME NEW e \in UserEmissionData
    PROVE  e.index \in Nat /\ e.accrued \in Nat /\ e # NoData
  BY NoDataAssumption DEF UserEmissionData

\* When update_emission_data changes anything.
Accrues(d, b, t) ==
    d # NoData /\ d.last_time < d.expiration /\ t # d.last_time /\ d.eps # 0 /\ b.shares # 0

LEMMA AccrueForward ==
    ASSUME NEW d \in EmissionData \cup {NoData}, NEW b \in PoolBalance, b.q4w <= b.shares,
           NEW t \in Nat, d # NoData => d.last_time <= t
    PROVE  /\ Accrue(d, b, t) \in EmissionData \cup {NoData}
           /\ Accrue(d, b, t) = NoData <=> d = NoData
           /\ d # NoData => /\ Accrue(d, b, t).last_time <= t
                            /\ d.index <= Accrue(d, b, t).index
           /\ ~Accrues(d, b, t) => Accrue(d, b, t) = d
           /\ Accrues(d, b, t) =>
                /\ IndexGrowth(d, b, t) \in Nat
                /\ Accrue(d, b, t) = [eps |-> d.eps, expiration |-> d.expiration,
                                      index |-> d.index + IndexGrowth(d, b, t), last_time |-> t]
<1>1. ASSUME ~Accrues(d, b, t) PROVE Accrue(d, b, t) = d
  <2>1. CASE d = NoData
    BY <2>1 DEF Accrue
  <2>2. CASE d # NoData
    <3>1. d \in EmissionData
      BY <2>2
    <3> QED
      BY <1>1, <2>2, <3>1, EmissionParts DEF Accrue, Accrues
  <2> QED
    BY <2>1, <2>2
<1>2. ASSUME Accrues(d, b, t)
      PROVE  /\ IndexGrowth(d, b, t) \in Nat
             /\ Accrue(d, b, t) = [eps |-> d.eps, expiration |-> d.expiration,
                                   index |-> d.index + IndexGrowth(d, b, t), last_time |-> t]
  <2>1. d \in EmissionData /\ d.last_time <= t /\ d.last_time < d.expiration
    BY <1>2 DEF Accrues
  <2>2. /\ d.eps \in Nat /\ d.expiration \in Nat /\ d.index \in Nat /\ d.last_time \in Nat
        /\ b.shares \in Nat /\ b.q4w \in Nat
    BY <2>1, EmissionParts, PoolParts
  <2> DEFINE until == IF t > d.expiration THEN d.expiration ELSE t
             unqueued == b.shares - b.q4w
  <2>3. until - d.last_time \in Nat /\ unqueued \in Nat
    BY <2>1, <2>2
  <2>4. (until - d.last_time) * d.eps \in Nat
    BY <2>2, <2>3, ProductNat
  <2>5. IndexGrowth(d, b, t) =
          IF unqueued = 0 THEN 0 ELSE DivFloor((until - d.last_time) * d.eps, unqueued, Scalar7)
    BY DEF IndexGrowth
  <2> HIDE DEF until, unqueued
  <2>6. unqueued # 0 => DivFloor((until - d.last_time) * d.eps, unqueued, Scalar7) \in Nat
    BY <2>3, <2>4, DivNat, ScalarsPositive
  <2>7. IndexGrowth(d, b, t) \in Nat
    BY <2>5, <2>6
  <2>8. Accrue(d, b, t) = [d EXCEPT !.index = @ + IndexGrowth(d, b, t), !.last_time = t]
    BY <1>2, <2>1, <2>2 DEF Accrue, Accrues
  <2> DEFINE g == d.index + IndexGrowth(d, b, t)
  <2>9. Accrue(d, b, t) = [d EXCEPT !.index = g, !.last_time = t]
    BY <2>8
  <2> HIDE DEF g
  <2>10. Accrue(d, b, t) = [eps |-> d.eps, expiration |-> d.expiration,
                            index |-> g, last_time |-> t]
    BY <2>1, <2>9 DEF EmissionData
  <2> QED
    BY <2>7, <2>10 DEF g
<1>3. CASE ~Accrues(d, b, t)
  <2>1. d # NoData => d.index \in Nat
    BY EmissionParts
  <2>2. Accrue(d, b, t) = d
    BY <1>1, <1>3
  <2>3. d # NoData => d.index <= d.index
    BY <2>1
  <2> QED
    BY <1>3, <2>2, <2>3
<1>4. CASE Accrues(d, b, t)
  <2> DEFINE a == Accrue(d, b, t)
             g == IndexGrowth(d, b, t)
  <2>1. d \in EmissionData
    BY <1>4 DEF Accrues
  <2>2. g \in Nat /\ a = [eps |-> d.eps, expiration |-> d.expiration,
                          index |-> d.index + g, last_time |-> t]
    BY <1>2, <1>4
  <2>3. d.eps \in Nat /\ d.expiration \in Nat /\ d.index \in Nat /\ d # NoData
    BY <2>1, EmissionParts
  <2> HIDE DEF a, g
  <2>4. d.index + g \in Nat /\ d.index <= d.index + g
    BY <2>2, <2>3
  <2>5. a \in EmissionData /\ a.last_time = t /\ a.index = d.index + g
    BY <2>2, <2>3, <2>4 DEF EmissionData
  <2>6. a # NoData
    BY <2>5, NoDataAssumption
  <2>7. a.last_time <= t /\ d.index <= a.index
    BY <2>4, <2>5
  <2>8. /\ a \in EmissionData \cup {NoData} /\ (a = NoData <=> d = NoData)
        /\ (d # NoData => a.last_time <= t /\ d.index <= a.index)
        /\ (Accrues(d, b, t) =>
              g \in Nat /\ a = [eps |-> d.eps, expiration |-> d.expiration,
                               index |-> d.index + g, last_time |-> t])
    BY <2>2, <2>3, <2>5, <2>6, <2>7
  <2> QED
    BY <1>4, <2>8 DEF a, g
<1> QED
  BY <1>3, <1>4

LEMMA OwedNat ==
    ASSUME NEW d \in EmissionData, NEW ue \in UserEmissionData \cup {NoData},
           ue # NoData => ue.index <= d.index, NEW shares \in Nat
    PROVE  Owed(d, ue, shares) \in Nat
<1>0. d.index \in Nat
  BY EmissionParts
<1>1. CASE ue = NoData
  <2>1. MulFloor(shares, d.index, Scalar14) \in Nat
    BY <1>0, MulNat, ScalarsPositive
  <2> QED
    BY <1>1, <2>1 DEF Owed
<1>2. CASE ue # NoData
  <2>1. ue.index \in Nat /\ ue.accrued \in Nat /\ ue.index <= d.index
    BY <1>2, UserEmissionParts
  <2>2. d.index - ue.index \in Nat
    BY <1>0, <2>1
  <2>3. MulFloor(shares, d.index - ue.index, Scalar14) \in Nat
    BY <2>2, MulNat, ScalarsPositive
  <2> QED
    BY <1>2, <2>1, <2>3 DEF Owed
<1> QED
  BY <1>1, <1>2

-----------------------------------------------------------------------------
(* The inductive invariant.  The type is not inductive: a withdrawal must  *)
(* find the tokens in the contract and the shares in the pool, a distri-   *)
(* bution must find no more queued than there is, and what a depositor is  *)
(* owed must not be negative.                                              *)

\* No clock of a pool's emissions is ahead of the ledger's, and nobody was
\* settled beyond the index of the pool.
EmissionsInOrder ==
    /\ \A p \in Pools : emissions[p] # NoData => emissions[p].last_time <= now
    /\ \A p \in Pools, u \in Users :
         user_emissions[p][u] # NoData =>
             emissions[p] # NoData /\ user_emissions[p][u].index <= emissions[p].index

\* An address the factory has not deployed to has earned nothing either: so no
\* claim can put a deposit there.
OnlyFactoryPools ==
    \A p \in Pools \ deployed :
        pool_balance[p] = NoPoolBalance /\ emissions[p] = NoData /\ rewards.accrued[p] = 0

BackstopInv ==
    /\ BackstopTypeOK /\ BackstopSharesAddUp /\ DepositsBacked
    /\ EmissionsInOrder /\ OnlyFactoryPools

LEMMA InvParts ==
    ASSUME BackstopInv
    PROVE  /\ now \in Nat /\ calls \in Nat /\ deployed \subseteq Pools
           /\ held.lp \in Nat /\ held.blnd \in Nat
           /\ held = [lp |-> held.lp, blnd |-> held.blnd, allowance |-> held.allowance]
           /\ held.allowance \in [Pools -> Nat]
           /\ \A p \in Pools :
                /\ pool_balance[p] \in PoolBalance
                /\ user_balance[p] \in [Users -> UserBalance]
                /\ emissions[p] \in EmissionData \cup {NoData}
                /\ user_emissions[p] \in [Users -> UserEmissionData \cup {NoData}]
                /\ Accounts(pool_balance[p], user_balance[p])
                /\ pool_balance[p].q4w <= pool_balance[p].shares
                /\ \A u \in Users : user_balance[p][u] \in UserBalance
<1>1. BackstopTypeOK /\ Deployable \subseteq Pools
  BY BackstopAssumption DEF BackstopInv
<1>2. \A p \in Pools : Accounts(pool_balance[p], user_balance[p])
  BY DEF BackstopInv, BackstopSharesAddUp, Stake, Accounts, UserStake
<1>3. \A p \in Pools : pool_balance[p] \in PoolBalance /\ user_balance[p] \in [Users -> UserBalance]
  BY <1>1 DEF BackstopTypeOK
<1>4. \A p \in Pools : pool_balance[p].q4w <= pool_balance[p].shares
  BY <1>2, <1>3, AccountsBound
<1> QED
  BY <1>1, <1>2, <1>3, <1>4 DEF BackstopTypeOK

LEMMA SharesAddUpIsAccounts ==
    BackstopSharesAddUp <=> \A p \in Pools : Accounts(pool_balance[p], user_balance[p])
  BY DEF BackstopSharesAddUp, Stake, Accounts, UserStake

LEMMA SharesAddUpIsAccountsNext ==
    BackstopSharesAddUp' <=> \A p \in Pools : Accounts(pool_balance'[p], user_balance'[p])
  BY DEF BackstopSharesAddUp, Stake, Accounts, UserStake

LEMMA BackedBound ==
    ASSUME BackstopInv, NEW p \in Pools
    PROVE  pool_balance[p].tokens <= held.lp
<1> DEFINE deposits == [q \in Pools |-> pool_balance[q].tokens]
<1>1. IsFiniteSet(Pools) /\ deposits \in [Pools -> Nat] /\ held.lp \in Nat
  BY BackstopAssumption, InvParts, PoolParts
<1>2. SumFunction(deposits) <= held.lp
  BY DEF BackstopInv, DepositsBacked, OfPools
<1>3. deposits[p] = pool_balance[p].tokens
  OBVIOUS
<1> HIDE DEF deposits
<1>4. deposits[p] <= SumFunction(deposits) /\ SumFunction(deposits) \in Nat
  BY <1>1, SumFunctionBound, SumFunctionNat
<1>5. deposits[p] \in Nat
  BY <1>1
<1> QED
  BY <1>1, <1>2, <1>3, <1>4, <1>5

\* Before shares change hands, the emissions of the pool are brought up to date.
LEMMA SettlingKeepsOrder ==
    ASSUME BackstopInv, NEW u \in Users, NEW p \in Pools, UpdateEmissions(u, p), now' = now
    PROVE  /\ emissions' \in [Pools -> EmissionData \cup {NoData}]
           /\ user_emissions' \in [Pools -> [Users -> UserEmissionData \cup {NoData}]]
           /\ EmissionsInOrder'
           /\ \A q \in Pools : emissions[q] = NoData => emissions'[q] = NoData
<1> DEFINE d == Accrue(emissions[p], pool_balance[p], now)
           ue == UpdateUser(d, user_emissions[p][u], user_balance[p][u].shares)
<1>1. /\ emissions \in [Pools -> EmissionData \cup {NoData}]
      /\ user_emissions \in [Pools -> [Users -> UserEmissionData \cup {NoData}]]
      /\ EmissionsInOrder /\ now \in Nat
  BY DEF BackstopInv, BackstopTypeOK
<1>2. /\ emissions[p] \in EmissionData \cup {NoData} /\ pool_balance[p] \in PoolBalance
      /\ pool_balance[p].q4w <= pool_balance[p].shares
      /\ emissions[p] # NoData => emissions[p].last_time <= now
      /\ user_emissions[p][u] \in UserEmissionData \cup {NoData}
      /\ user_balance[p][u].shares \in Nat
  BY <1>1, InvParts, UserParts DEF EmissionsInOrder
<1>3. /\ d \in EmissionData \cup {NoData} /\ (d = NoData <=> emissions[p] = NoData)
      /\ emissions[p] # NoData => d.last_time <= now /\ emissions[p].index <= d.index
  BY <1>1, <1>2, AccrueForward
<1>4. /\ emissions' = [emissions EXCEPT ![p] = d]
      /\ user_emissions' = IF d = NoData THEN user_emissions
                           ELSE [user_emissions EXCEPT ![p][u] = ue]
  BY DEF UpdateEmissions
<1> HIDE DEF d
<1>5. emissions' \in [Pools -> EmissionData \cup {NoData}]
  BY <1>1, <1>3, <1>4
<1>6. ASSUME NEW v \in Users, user_emissions[p][v] # NoData
      PROVE  d # NoData /\ user_emissions[p][v].index <= d.index
  <2>1. emissions[p] # NoData /\ user_emissions[p][v].index <= emissions[p].index
    BY <1>1, <1>6 DEF EmissionsInOrder
  <2>2. emissions[p] \in EmissionData /\ d \in EmissionData /\ user_emissions[p][v] \in UserEmissionData
    BY <1>1, <1>2, <1>3, <1>6, <2>1
  <2>3. emissions[p].index \in Nat /\ d.index \in Nat /\ user_emissions[p][v].index \in Nat
    BY <2>2, EmissionParts, UserEmissionParts
  <2> QED
    BY <1>3, <2>1, <2>3
<1>7. ASSUME d # NoData
      PROVE  ue \in UserEmissionData /\ ue.index <= d.index
  <2>1. d \in EmissionData
    BY <1>3, <1>7
  <2>2. Owed(d, user_emissions[p][u], user_balance[p][u].shares) \in Nat
    BY <1>2, <1>6, <2>1, OwedNat
  <2>3. d.index \in Nat
    BY <2>1, EmissionParts
  <2> QED
    BY <2>2, <2>3 DEF UpdateUser, UserEmissionData
<1> HIDE DEF ue
<1>8. user_emissions' \in [Pools -> [Users -> UserEmissionData \cup {NoData}]]
  BY <1>1, <1>4, <1>7
<1>9. EmissionsInOrder'
  <2>1. ASSUME NEW q \in Pools, emissions'[q] # NoData
        PROVE  emissions'[q].last_time <= now
    BY <1>1, <1>3, <1>4, <2>1 DEF EmissionsInOrder
  <2>2. ASSUME NEW q \in Pools, NEW v \in Users, user_emissions'[q][v] # NoData
        PROVE  emissions'[q] # NoData /\ user_emissions'[q][v].index <= emissions'[q].index
    <3>1. CASE q # p
      <4>1. emissions'[q] = emissions[q] /\ user_emissions'[q][v] = user_emissions[q][v]
        BY <1>1, <1>4, <3>1
      <4> QED
        BY <1>1, <2>2, <4>1 DEF EmissionsInOrder
    <3>2. CASE q = p /\ (d = NoData \/ v # u)
      <4>1. emissions'[p] = d /\ user_emissions'[p][v] = user_emissions[p][v]
        BY <1>1, <1>4, <3>2
      <4> QED
        BY <1>6, <2>2, <3>2, <4>1
    <3>3. CASE q = p /\ d # NoData /\ v = u
      <4>1. emissions'[p] = d /\ user_emissions'[p][u] = ue
        BY <1>1, <1>4, <3>3
      <4> QED
        BY <1>7, <3>3, <4>1
    <3> QED
      BY <3>1, <3>2, <3>3
  <2> QED
    BY <2>1, <2>2 DEF EmissionsInOrder
<1>10. \A q \in Pools : emissions[q] = NoData => emissions'[q] = NoData
  BY <1>1, <1>3, <1>4
<1> QED
  BY <1>5, <1>8, <1>9, <1>10

\* The deposit of one pool changes by what the contract's tokens change by.
LEMMA BackedChange ==
    ASSUME BackstopInv, NEW p \in Pools, NEW b \in PoolBalance, NEW lp \in Nat,
           pool_balance' = [pool_balance EXCEPT ![p] = b],
           lp = held.lp + b.tokens - pool_balance[p].tokens,
           held'.lp = lp
    PROVE  pool_balance' \in [Pools -> PoolBalance] /\ DepositsBacked'
<1> DEFINE before == [q \in Pools |-> pool_balance[q].tokens]
           after == [q \in Pools |-> pool_balance'[q].tokens]
<1>0. pool_balance \in [Pools -> PoolBalance]
  BY DEF BackstopInv, BackstopTypeOK
<1>1. /\ IsFiniteSet(Pools)
      /\ before \in [Pools -> Nat] /\ after \in [Pools -> Nat]
      /\ \A q \in Pools \ {p} : after[q] = before[q]
      /\ after[p] = b.tokens /\ before[p] = pool_balance[p].tokens
  BY <1>0, PoolParts, BackstopAssumption
<1>2. SumFunction(before) <= held.lp
  BY DEF BackstopInv, DepositsBacked, OfPools
<1> HIDE DEF before, after
<1>3. SumFunction(after) = SumFunction(before) + after[p] - before[p]
  <2>1. before \in [Pools -> Int] /\ after \in [Pools -> Int]
    BY <1>1
  <2> QED
    BY <1>1, <2>1, SumFunctionUpdate
<1>4. SumFunction(before) \in Nat /\ after[p] \in Nat /\ before[p] \in Nat /\ held.lp \in Nat
  BY <1>1, SumFunctionNat, InvParts
<1>5. SumFunction(after) <= lp
  BY <1>1, <1>2, <1>3, <1>4
<1>6. DepositsBacked'
  BY <1>5 DEF DepositsBacked, OfPools, after
<1> QED
  BY <1>0, <1>6

\* The balances of one pool, and of one of its depositors, change.
LEMMA BalancesChange ==
    ASSUME BackstopInv, NEW u \in Users, NEW p \in Pools,
           NEW b \in PoolBalance, NEW ub \in UserBalance,
           pool_balance' = [pool_balance EXCEPT ![p] = b],
           user_balance' = [user_balance EXCEPT ![p][u] = ub],
           b.shares = pool_balance[p].shares + UserStake(ub) - UserStake(user_balance[p][u]),
           b.q4w = pool_balance[p].q4w + Queued(ub.q4w) - Queued(user_balance[p][u].q4w)
    PROVE  /\ user_balance' \in [Pools -> [Users -> UserBalance]]
           /\ BackstopSharesAddUp'
<1>1. /\ pool_balance \in [Pools -> PoolBalance]
      /\ user_balance \in [Pools -> [Users -> UserBalance]]
  BY DEF BackstopInv, BackstopTypeOK
<1>2. /\ pool_balance' \in [Pools -> PoolBalance]
      /\ user_balance' \in [Pools -> [Users -> UserBalance]]
  BY <1>1
<1>3. pool_balance'[p] = b /\ user_balance'[p][u] = ub
  BY <1>1
<1>4. \A q \in Pools \ {p} : pool_balance'[q] = pool_balance[q] /\ user_balance'[q] = user_balance[q]
  BY <1>1
<1>5. ASSUME NEW q \in Pools
      PROVE  Accounts(pool_balance'[q], user_balance'[q])
  <2>1. Accounts(pool_balance[q], user_balance[q])
    BY InvParts
  <2>2. CASE q = p
    <3>1. \A v \in Users \ {u} : user_balance'[p][v] = user_balance[p][v]
      BY <1>1
    <3>2. /\ user_balance[p] \in [Users -> UserBalance]
          /\ user_balance'[p] \in [Users -> UserBalance]
          /\ pool_balance[p] \in PoolBalance
      BY <1>1, <1>2
    <3>3. /\ b.shares = pool_balance[p].shares + UserStake(user_balance'[p][u])
                          - UserStake(user_balance[p][u])
          /\ b.q4w = pool_balance[p].q4w + Queued(user_balance'[p][u].q4w)
                       - Queued(user_balance[p][u].q4w)
      BY <1>3
    <3>4. Accounts(b, user_balance'[p])
      BY <2>1, <2>2, <3>1, <3>2, <3>3, AccountsChange
    <3> QED
      BY <1>3, <2>2, <3>4
  <2>3. CASE q # p
    BY <1>4, <2>1, <2>3
  <2> QED
    BY <2>2, <2>3
<1> QED
  BY <1>2, <1>5, SharesAddUpIsAccountsNext

\* An invocation about one pool that leaves everything else alone.
LEMMA PoolCallKeepsInv ==
    ASSUME BackstopInv, NEW p \in Pools, NEW b \in PoolBalance, NEW lp \in Nat,
           CountCall,
           pool_balance' = [pool_balance EXCEPT ![p] = b],
           user_balance' \in [Pools -> [Users -> UserBalance]],
           BackstopSharesAddUp',
           p \notin deployed => b = NoPoolBalance,
           lp = held.lp + b.tokens - pool_balance[p].tokens,
           held' = [held EXCEPT !.lp = lp],
           emissions' \in [Pools -> EmissionData \cup {NoData}],
           user_emissions' \in [Pools -> [Users -> UserEmissionData \cup {NoData}]],
           EmissionsInOrder',
           \A q \in Pools : emissions[q] = NoData => emissions'[q] = NoData,
           UNCHANGED <<now, deployed, rewards, emitter>>,
           bad_debt' \subseteq Pools
    PROVE  BackstopInv'
<1>1. BackstopTypeOK
  BY DEF BackstopInv
<1>2. held' = [lp |-> lp, blnd |-> held.blnd, allowance |-> held.allowance] /\ held'.lp = lp
  <2>1. held \in [lp : Nat, blnd : Nat, allowance : [Pools -> Nat]]
    BY <1>1 DEF BackstopTypeOK
  <2> QED
    BY <2>1
<1>3. pool_balance' \in [Pools -> PoolBalance] /\ DepositsBacked'
  BY <1>2, BackedChange
<1>4. held' \in [lp : Nat, blnd : Nat, allowance : [Pools -> Nat]]
  BY <1>2, InvParts
<1>5. calls' \in Nat
  BY <1>1 DEF BackstopTypeOK, CountCall
<1>6. BackstopTypeOK'
  BY <1>1, <1>3, <1>4, <1>5 DEF BackstopTypeOK
<1>7. OnlyFactoryPools'
  <2>1. OnlyFactoryPools /\ pool_balance \in [Pools -> PoolBalance]
    BY <1>1 DEF BackstopInv, BackstopTypeOK
  <2>2. ASSUME NEW q \in Pools \ deployed
        PROVE  pool_balance'[q] = NoPoolBalance /\ emissions'[q] = NoData /\ rewards'.accrued[q] = 0
    <3>1. pool_balance[q] = NoPoolBalance /\ emissions[q] = NoData /\ rewards.accrued[q] = 0
      BY <2>1 DEF OnlyFactoryPools
    <3>2. pool_balance'[q] = IF q = p THEN b ELSE pool_balance[q]
      BY <2>1
    <3> QED
      BY <2>2, <3>1, <3>2
  <2> QED
    BY <2>2 DEF OnlyFactoryPools
<1> QED
  BY <1>3, <1>6, <1>7 DEF BackstopInv

-----------------------------------------------------------------------------
(* The operations on balances.                                             *)

LEMMA ConvertNat ==
    ASSUME NEW b \in PoolBalance, NEW n \in Nat
    PROVE  /\ ConvertToShares(b, n) \in Nat
           /\ ConvertToTokens(b, n) \in Nat
           /\ n <= b.shares => ConvertToTokens(b, n) <= b.tokens
<1>0. b.shares \in Nat /\ b.tokens \in Nat
  BY PoolParts
<1>1. ConvertToShares(b, n) \in Nat
  <2>1. ASSUME b.tokens # 0
        PROVE  MulFloor(n, b.shares, b.tokens) \in Nat
    <3>1. b.tokens \in Int /\ b.tokens > 0
      BY <1>0, <2>1
    <3> QED
      BY <1>0, <3>1, MulNat
  <2> QED
    BY <1>0, <2>1 DEF ConvertToShares
<1>2. /\ ConvertToTokens(b, n) \in Nat
      /\ n <= b.shares => ConvertToTokens(b, n) <= b.tokens
  <2>1. CASE b.shares = 0 \/ n = b.shares
    BY <1>0, <2>1 DEF ConvertToTokens
  <2>2. CASE b.shares # 0 /\ n # b.shares
    <3>0. b.shares \in Int /\ b.shares > 0
      BY <1>0, <2>2
    <3>1. MulFloor(n, b.tokens, b.shares) \in Nat
      BY <1>0, <3>0, MulNat
    <3>2. MulFloor(n, b.tokens, b.shares) = MulFloor(b.tokens, n, b.shares)
      <4>1. n * b.tokens = b.tokens * n
        BY <1>0, SMT
      <4> QED
        BY <4>1 DEF MulFloor
    <3>3. n <= b.shares => MulFloor(b.tokens, n, b.shares) <= b.tokens
      BY <1>0, <3>0, MulAtMost
    <3> QED
      BY <2>2, <3>1, <3>2, <3>3 DEF ConvertToTokens
  <2> QED
    BY <2>1, <2>2
<1> QED
  BY <1>1, <1>2

LEMMA IntoPool ==
    ASSUME NEW b \in PoolBalance, NEW n \in Nat, NEW m \in Nat
    PROVE  /\ DepositInto(b, n, m) \in PoolBalance
           /\ DepositInto(b, n, m).shares = b.shares + m
           /\ DepositInto(b, n, m).tokens = b.tokens + n
           /\ DepositInto(b, n, m).q4w = b.q4w
<1> DEFINE x == b.tokens + n
           y == b.shares + m
<1>1. x \in Nat /\ y \in Nat /\ b.q4w \in Nat
  BY PoolParts
<1>2. DepositInto(b, n, m) = [b EXCEPT !.tokens = x, !.shares = y]
  BY DEF DepositInto
<1> HIDE DEF x, y
<1>3. DepositInto(b, n, m) = [shares |-> y, tokens |-> x, q4w |-> b.q4w]
  BY <1>2 DEF PoolBalance
<1> QED
  BY <1>1, <1>3 DEF PoolBalance, x, y

LEMMA OutOfPool ==
    ASSUME NEW b \in PoolBalance, NEW n \in Nat, NEW m \in Nat, CanWithdrawFrom(b, n, m)
    PROVE  /\ WithdrawFrom(b, n, m) \in PoolBalance
           /\ WithdrawFrom(b, n, m).shares = b.shares - m
           /\ WithdrawFrom(b, n, m).tokens = b.tokens - n
           /\ WithdrawFrom(b, n, m).q4w = b.q4w - m
<1> DEFINE x == b.tokens - n
           y == b.shares - m
           z == b.q4w - m
<1>1. x \in Nat /\ y \in Nat /\ z \in Nat
  BY PoolParts DEF CanWithdrawFrom
<1>2. WithdrawFrom(b, n, m) = [b EXCEPT !.tokens = x, !.shares = y, !.q4w = z]
  BY DEF WithdrawFrom
<1> HIDE DEF x, y, z
<1>3. WithdrawFrom(b, n, m) = [shares |-> y, tokens |-> x, q4w |-> z]
  BY <1>2 DEF PoolBalance
<1> QED
  BY <1>1, <1>3 DEF PoolBalance, x, y, z

\* Depositing adds to a stake, queueing and taking back move within it, and a
\* withdrawal takes as much from it as from the queue.
LEMMA UserOperations ==
    ASSUME NEW ub \in UserBalance, NEW n \in Nat, NEW t \in Nat
    PROVE  /\ /\ AddShares(ub, n) \in UserBalance
              /\ AddShares(ub, n).shares = ub.shares + n /\ AddShares(ub, n).q4w = ub.q4w
           /\ n <= ub.shares =>
                /\ QueueShares(ub, n, t) \in UserBalance
                /\ QueueShares(ub, n, t).shares = ub.shares - n
                /\ Queued(QueueShares(ub, n, t).q4w) = Queued(ub.q4w) + n
           /\ CanServe(ub.q4w, n) =>
                /\ n <= Queued(ub.q4w)
                /\ WithdrawShares(ub, n) \in UserBalance
                /\ WithdrawShares(ub, n).shares = ub.shares
                /\ Queued(WithdrawShares(ub, n).q4w) = Queued(ub.q4w) - n
                /\ DequeueShares(ub, n) \in UserBalance
                /\ DequeueShares(ub, n).shares = ub.shares
                /\ Queued(DequeueShares(ub, n).q4w) = Queued(ub.q4w) - n
<1>0. ub.shares \in Nat /\ ub.q4w \in Queue /\ Queued(ub.q4w) \in Nat
  BY UserParts
<1>1. /\ AddShares(ub, n) \in UserBalance
      /\ AddShares(ub, n).shares = ub.shares + n /\ AddShares(ub, n).q4w = ub.q4w
  BY <1>0 DEF AddShares, UserBalance
<1>2. ASSUME n <= ub.shares
      PROVE  /\ QueueShares(ub, n, t) \in UserBalance
             /\ QueueShares(ub, n, t).shares = ub.shares - n
             /\ Queued(QueueShares(ub, n, t).q4w) = Queued(ub.q4w) + n
  <2> DEFINE e == [amount |-> n, exp |-> t + LockTime]
             q == Append(ub.q4w, e)
  <2>1. e \in Q4W /\ e.amount = n
    BY BalanceAssumption DEF Q4W
  <2>2. q \in Queue /\ Queued(q) = Queued(ub.q4w) + n
    BY <1>0, <2>1, QueuedAppend
  <2>3. QueueShares(ub, n, t) = [shares |-> ub.shares - n, q4w |-> q]
    <3> DEFINE x == ub.shares - n
    <3>1. QueueShares(ub, n, t) = [ub EXCEPT !.shares = x, !.q4w = q]
      BY DEF QueueShares
    <3> HIDE DEF x, q
    <3>2. QueueShares(ub, n, t) = [shares |-> x, q4w |-> q]
      BY <3>1 DEF UserBalance
    <3> QED
      BY <3>2 DEF x
  <2>4. ub.shares - n \in Nat
    BY <1>0, <1>2
  <2> HIDE DEF q
  <2> QED
    BY <2>2, <2>3, <2>4 DEF UserBalance, Queue
<1>3. ASSUME CanServe(ub.q4w, n)
      PROVE  /\ n <= Queued(ub.q4w)
             /\ WithdrawShares(ub, n) \in UserBalance
             /\ WithdrawShares(ub, n).shares = ub.shares
             /\ Queued(WithdrawShares(ub, n).q4w) = Queued(ub.q4w) - n
  <2>1. Serve(ub.q4w, n) \in Queue /\ Queued(Serve(ub.q4w, n)) = Queued(ub.q4w) - n
    BY <1>0, <1>3, ServeTakes
  <2>2. WithdrawShares(ub, n) = [shares |-> ub.shares, q4w |-> Serve(ub.q4w, n)]
    BY DEF WithdrawShares, UserBalance
  <2> QED
    BY <1>0, <1>3, <2>1, <2>2 DEF UserBalance, Queue, CanServe
<1>4. ASSUME CanServe(ub.q4w, n)
      PROVE  /\ DequeueShares(ub, n) \in UserBalance
             /\ DequeueShares(ub, n).shares = ub.shares
             /\ Queued(DequeueShares(ub, n).q4w) = Queued(ub.q4w) - n
  <2> DEFINE r == Backwards(ub.q4w)
             s == Serve(r, n)
             q == Backwards(s)
  <2>1. r \in Queue /\ Queued(r) = Queued(ub.q4w)
    BY <1>0, QueuedBackwards
  <2> HIDE DEF r
  <2>2. s \in Queue /\ Queued(s) = Queued(ub.q4w) - n
    BY <1>4, <2>1, ServeTakes DEF CanServe
  <2> HIDE DEF s
  <2>3. q \in Queue /\ Queued(q) = Queued(ub.q4w) - n
    BY <2>2, QueuedBackwards
  <2>4. DequeueShares(ub, n) = [shares |-> ub.shares, q4w |-> q]
    BY DEF DequeueShares, UserBalance, q, s, r
  <2> HIDE DEF q
  <2> QED
    BY <1>0, <2>3, <2>4 DEF UserBalance, Queue
<1> QED
  BY <1>1, <1>2, <1>3, <1>4

-----------------------------------------------------------------------------
(* Every invocation keeps the invariant.                                   *)

\* Shares exist in pools of the factory only.
LEMMA NothingElsewhere ==
    ASSUME BackstopInv, NEW p \in Pools \ deployed
    PROVE  /\ pool_balance[p] = NoPoolBalance
           /\ pool_balance[p].shares = 0 /\ pool_balance[p].tokens = 0 /\ pool_balance[p].q4w = 0
           /\ \A u \in Users : user_balance[p][u].shares = 0 /\ Queued(user_balance[p][u].q4w) = 0
<1>1. pool_balance[p] = NoPoolBalance
  BY DEF BackstopInv, OnlyFactoryPools
<1>2. pool_balance[p].shares = 0 /\ pool_balance[p].tokens = 0 /\ pool_balance[p].q4w = 0
  BY <1>1 DEF NoPoolBalance
<1>3. ASSUME NEW u \in Users
      PROVE  user_balance[p][u].shares = 0 /\ Queued(user_balance[p][u].q4w) = 0
  <2>0. /\ pool_balance[p] \in PoolBalance /\ user_balance[p] \in [Users -> UserBalance]
        /\ Accounts(pool_balance[p], user_balance[p])
    BY InvParts
  <2>1. UserStake(user_balance[p][u]) <= 0
    BY <1>2, <2>0, AccountsBound
  <2> QED
    BY <2>1, InvParts, UserParts DEF UserStake
<1> QED
  BY <1>1, <1>2, <1>3

LEMMA DepositKeepsInv ==
    ASSUME BackstopInv, NEW u \in Users, NEW p \in Pools, NEW n \in Nat, Deposit(u, p, n)
    PROVE  BackstopInv'
<1> DEFINE minted == ConvertToShares(pool_balance[p], n)
           b == DepositInto(pool_balance[p], n, minted)
           ub == AddShares(user_balance[p][u], minted)
           lp == held.lp + n
<1>0. /\ pool_balance[p] \in PoolBalance /\ user_balance[p][u] \in UserBalance
      /\ held.lp \in Nat /\ now \in Nat
  BY InvParts
<1>1. minted \in Nat
  BY <1>0, ConvertNat
<1>2. /\ CountCall /\ FromFactory(p) /\ UpdateEmissions(u, p)
      /\ pool_balance' = [pool_balance EXCEPT ![p] = b]
      /\ user_balance' = [user_balance EXCEPT ![p][u] = ub]
      /\ held' = [held EXCEPT !.lp = lp]
      /\ UNCHANGED <<now, deployed, rewards, emitter, bad_debt>>
  BY DEF Deposit
<1> HIDE DEF minted
<1>3. /\ b \in PoolBalance /\ b.shares = pool_balance[p].shares + minted
      /\ b.tokens = pool_balance[p].tokens + n /\ b.q4w = pool_balance[p].q4w
  <2>1. PICK x : x = pool_balance[p]
    OBVIOUS
  <2>2. x \in PoolBalance /\ b = DepositInto(x, n, minted)
    BY <1>0, <2>1
  <2>3. /\ DepositInto(x, n, minted) \in PoolBalance
        /\ DepositInto(x, n, minted).shares = x.shares + minted
        /\ DepositInto(x, n, minted).tokens = x.tokens + n
        /\ DepositInto(x, n, minted).q4w = x.q4w
    BY <1>1, <2>2, IntoPool
  <2> HIDE DEF b
  <2> QED
    BY <2>1, <2>2, <2>3
<1>4. /\ ub \in UserBalance /\ ub.shares = user_balance[p][u].shares + minted
      /\ ub.q4w = user_balance[p][u].q4w
  BY <1>0, <1>1, UserOperations
<1>5. lp \in Nat /\ lp = held.lp + b.tokens - pool_balance[p].tokens
  BY <1>0, <1>3, PoolParts
<1>6. p \in deployed
  <2>1. p \notin deployed => pool_balance[p].shares = 0
    BY NothingElsewhere
  <2> QED
    BY <1>2, <2>1 DEF FromFactory, Factory!IsPool
<1> HIDE DEF b, ub, lp
<1>7. /\ b.shares = pool_balance[p].shares + UserStake(ub) - UserStake(user_balance[p][u])
      /\ b.q4w = pool_balance[p].q4w + Queued(ub.q4w) - Queued(user_balance[p][u].q4w)
  BY <1>0, <1>1, <1>3, <1>4, PoolParts, UserParts DEF UserStake
<1>8. user_balance' \in [Pools -> [Users -> UserBalance]] /\ BackstopSharesAddUp'
  BY <1>2, <1>3, <1>4, <1>7, BalancesChange
<1>9. /\ emissions' \in [Pools -> EmissionData \cup {NoData}]
      /\ user_emissions' \in [Pools -> [Users -> UserEmissionData \cup {NoData}]]
      /\ EmissionsInOrder'
      /\ \A q \in Pools : emissions[q] = NoData => emissions'[q] = NoData
  BY <1>2, SettlingKeepsOrder
<1>10. bad_debt' \subseteq Pools
  BY <1>2 DEF BackstopInv, BackstopTypeOK
<1> QED
  BY <1>2, <1>3, <1>5, <1>6, <1>8, <1>9, <1>10, PoolCallKeepsInv

LEMMA QueueKeepsInv ==
    ASSUME BackstopInv, NEW u \in Users, NEW p \in Pools, NEW n \in Nat, QueueWithdrawal(u, p, n)
    PROVE  BackstopInv'
<1> DEFINE b == [pool_balance[p] EXCEPT !.q4w = @ + n]
           ub == QueueShares(user_balance[p][u], n, now)
<1>0. /\ pool_balance[p] \in PoolBalance /\ user_balance[p][u] \in UserBalance
      /\ held.lp \in Nat /\ now \in Nat
  BY InvParts
<1>1. /\ CountCall /\ n <= user_balance[p][u].shares /\ UpdateEmissions(u, p)
      /\ pool_balance' = [pool_balance EXCEPT ![p] = b]
      /\ user_balance' = [user_balance EXCEPT ![p][u] = ub]
      /\ UNCHANGED <<now, deployed, rewards, held, emitter, bad_debt>>
  BY DEF QueueWithdrawal, CanQueueShares
<1>2. b = [shares |-> pool_balance[p].shares, tokens |-> pool_balance[p].tokens,
           q4w |-> pool_balance[p].q4w + n]
  BY <1>0 DEF PoolBalance
<1>3. /\ b \in PoolBalance /\ b.shares = pool_balance[p].shares
      /\ b.tokens = pool_balance[p].tokens /\ b.q4w = pool_balance[p].q4w + n
  BY <1>0, <1>2, PoolParts DEF PoolBalance
<1>4. /\ ub \in UserBalance /\ ub.shares = user_balance[p][u].shares - n
      /\ Queued(ub.q4w) = Queued(user_balance[p][u].q4w) + n
  BY <1>0, <1>1, UserOperations
<1> HIDE DEF b, ub
<1>5. p \notin deployed => b = NoPoolBalance
  <2>1. ASSUME p \notin deployed
        PROVE  n = 0 /\ pool_balance[p].shares = 0 /\ pool_balance[p].tokens = 0
                /\ pool_balance[p].q4w = 0
    BY <1>1, <2>1, NothingElsewhere
  <2> QED
    BY <1>2, <2>1 DEF NoPoolBalance
<1>6. /\ b.shares = pool_balance[p].shares + UserStake(ub) - UserStake(user_balance[p][u])
      /\ b.q4w = pool_balance[p].q4w + Queued(ub.q4w) - Queued(user_balance[p][u].q4w)
  BY <1>0, <1>1, <1>3, <1>4, PoolParts, UserParts DEF UserStake
<1>7. user_balance' \in [Pools -> [Users -> UserBalance]] /\ BackstopSharesAddUp'
  BY <1>1, <1>3, <1>4, <1>6, BalancesChange
<1>8. /\ emissions' \in [Pools -> EmissionData \cup {NoData}]
      /\ user_emissions' \in [Pools -> [Users -> UserEmissionData \cup {NoData}]]
      /\ EmissionsInOrder'
      /\ \A q \in Pools : emissions[q] = NoData => emissions'[q] = NoData
  BY <1>1, SettlingKeepsOrder
<1>9. bad_debt' \subseteq Pools
  BY <1>1 DEF BackstopInv, BackstopTypeOK
<1>10. held' = [held EXCEPT !.lp = held.lp]
  BY <1>1, InvParts
<1>11. held.lp = held.lp + b.tokens - pool_balance[p].tokens
  BY <1>0, <1>3, PoolParts
<1> QED
  BY <1>0, <1>1, <1>3, <1>5, <1>7, <1>8, <1>9, <1>10, <1>11, PoolCallKeepsInv

LEMMA DequeueKeepsInv ==
    ASSUME BackstopInv, NEW u \in Users, NEW p \in Pools, NEW n \in Nat, DequeueWithdrawal(u, p, n)
    PROVE  BackstopInv'
<1> DEFINE b == [pool_balance[p] EXCEPT !.q4w = @ - n]
           taken == DequeueShares(user_balance[p][u], n)
           ub == AddShares(taken, n)
<1>0. /\ pool_balance[p] \in PoolBalance /\ user_balance[p][u] \in UserBalance
      /\ held.lp \in Nat /\ now \in Nat
  BY InvParts
<1>1. /\ CountCall /\ CanServe(user_balance[p][u].q4w, n) /\ n <= pool_balance[p].q4w
      /\ UpdateEmissions(u, p)
      /\ pool_balance' = [pool_balance EXCEPT ![p] = b]
      /\ user_balance' = [user_balance EXCEPT ![p][u] = ub]
      /\ UNCHANGED <<now, deployed, rewards, held, emitter, bad_debt>>
  BY DEF DequeueWithdrawal
<1>2. b = [shares |-> pool_balance[p].shares, tokens |-> pool_balance[p].tokens,
           q4w |-> pool_balance[p].q4w - n]
  BY <1>0 DEF PoolBalance
<1>3. /\ b \in PoolBalance /\ b.shares = pool_balance[p].shares
      /\ b.tokens = pool_balance[p].tokens /\ b.q4w = pool_balance[p].q4w - n
  <2>1. pool_balance[p].q4w - n \in Nat
    BY <1>0, <1>1, PoolParts
  <2> QED
    BY <1>0, <1>2, <2>1, PoolParts DEF PoolBalance
<1>4. /\ taken \in UserBalance /\ taken.shares = user_balance[p][u].shares
      /\ Queued(taken.q4w) = Queued(user_balance[p][u].q4w) - n
  BY <1>0, <1>1, UserOperations
<1> HIDE DEF b, taken
<1>5. ub \in UserBalance /\ ub.shares = taken.shares + n /\ ub.q4w = taken.q4w
  BY <1>0, <1>4, UserOperations
<1> HIDE DEF ub
<1>6. p \notin deployed => b = NoPoolBalance
  <2>1. ASSUME p \notin deployed
        PROVE  n = 0 /\ pool_balance[p].shares = 0 /\ pool_balance[p].tokens = 0
                /\ pool_balance[p].q4w = 0
    BY <1>1, <2>1, NothingElsewhere
  <2> QED
    BY <1>2, <2>1 DEF NoPoolBalance
<1>7. /\ b.shares = pool_balance[p].shares + UserStake(ub) - UserStake(user_balance[p][u])
      /\ b.q4w = pool_balance[p].q4w + Queued(ub.q4w) - Queued(user_balance[p][u].q4w)
  BY <1>0, <1>3, <1>4, <1>5, PoolParts, UserParts DEF UserStake
<1>8. user_balance' \in [Pools -> [Users -> UserBalance]] /\ BackstopSharesAddUp'
  BY <1>1, <1>3, <1>5, <1>7, BalancesChange
<1>9. /\ emissions' \in [Pools -> EmissionData \cup {NoData}]
      /\ user_emissions' \in [Pools -> [Users -> UserEmissionData \cup {NoData}]]
      /\ EmissionsInOrder'
      /\ \A q \in Pools : emissions[q] = NoData => emissions'[q] = NoData
  BY <1>1, SettlingKeepsOrder
<1>10. bad_debt' \subseteq Pools
  BY <1>1 DEF BackstopInv, BackstopTypeOK
<1>11. held' = [held EXCEPT !.lp = held.lp]
  BY <1>1, InvParts
<1>12. held.lp = held.lp + b.tokens - pool_balance[p].tokens
  BY <1>0, <1>3, PoolParts
<1> QED
  BY <1>0, <1>1, <1>3, <1>6, <1>8, <1>9, <1>10, <1>11, <1>12, PoolCallKeepsInv

LEMMA EmissionsUntouched ==
    ASSUME BackstopInv, UNCHANGED <<emissions, user_emissions, now>>
    PROVE  /\ emissions' \in [Pools -> EmissionData \cup {NoData}]
           /\ user_emissions' \in [Pools -> [Users -> UserEmissionData \cup {NoData}]]
           /\ EmissionsInOrder'
           /\ \A q \in Pools : emissions[q] = NoData => emissions'[q] = NoData
  BY DEF BackstopInv, BackstopTypeOK, EmissionsInOrder

LEMMA WithdrawKeepsInv ==
    ASSUME BackstopInv, NEW u \in Users, NEW p \in Pools, NEW n \in Nat, Withdraw(u, p, n)
    PROVE  BackstopInv'
<1> DEFINE paid == ConvertToTokens(pool_balance[p], n)
           b == WithdrawFrom(pool_balance[p], paid, n)
           ub == WithdrawShares(user_balance[p][u], n)
           lp == held.lp - paid
<1>0. /\ pool_balance[p] \in PoolBalance /\ user_balance[p][u] \in UserBalance
      /\ held.lp \in Nat /\ now \in Nat
  BY InvParts
<1>1. paid \in Nat
  BY <1>0, ConvertNat
<1>2. /\ CountCall /\ CanServe(user_balance[p][u].q4w, n)
      /\ paid # 0 /\ CanWithdrawFrom(pool_balance[p], paid, n)
      /\ pool_balance' = [pool_balance EXCEPT ![p] = b]
      /\ user_balance' = [user_balance EXCEPT ![p][u] = ub]
      /\ held' = [held EXCEPT !.lp = lp]
      /\ UNCHANGED <<now, deployed, emissions, user_emissions, rewards, emitter, bad_debt>>
  BY DEF Withdraw, CanWithdrawShares, emissionVars
<1> HIDE DEF paid
<1>3. /\ b \in PoolBalance /\ b.shares = pool_balance[p].shares - n
      /\ b.tokens = pool_balance[p].tokens - paid /\ b.q4w = pool_balance[p].q4w - n
  BY <1>0, <1>1, <1>2, OutOfPool
<1>4. /\ ub \in UserBalance /\ ub.shares = user_balance[p][u].shares
      /\ Queued(ub.q4w) = Queued(user_balance[p][u].q4w) - n
  BY <1>0, <1>2, UserOperations
<1>5. lp \in Nat /\ lp = held.lp + b.tokens - pool_balance[p].tokens
  BY <1>0, <1>1, <1>2, <1>3, PoolParts, BackedBound DEF CanWithdrawFrom
<1>6. p \in deployed
  <2>1. p \notin deployed => pool_balance[p].tokens = 0
    BY NothingElsewhere
  <2> QED
    BY <1>1, <1>2, <2>1 DEF CanWithdrawFrom
<1> HIDE DEF b, ub, lp
<1>7. /\ b.shares = pool_balance[p].shares + UserStake(ub) - UserStake(user_balance[p][u])
      /\ b.q4w = pool_balance[p].q4w + Queued(ub.q4w) - Queued(user_balance[p][u].q4w)
  BY <1>0, <1>3, <1>4, PoolParts, UserParts DEF UserStake
<1>8. user_balance' \in [Pools -> [Users -> UserBalance]] /\ BackstopSharesAddUp'
  BY <1>2, <1>3, <1>4, <1>7, BalancesChange
<1>9. bad_debt' \subseteq Pools
  BY <1>2 DEF BackstopInv, BackstopTypeOK
<1> QED
  BY <1>2, <1>3, <1>5, <1>6, <1>8, <1>9, EmissionsUntouched, PoolCallKeepsInv

\* Draws and donations leave the shares alone.
LEMMA TokensKeepInv ==
    ASSUME BackstopInv, NEW p \in Pools, NEW b \in PoolBalance, NEW lp \in Nat,
           CountCall, pool_balance' = [pool_balance EXCEPT ![p] = b],
           b.shares = pool_balance[p].shares, b.q4w = pool_balance[p].q4w,
           p \notin deployed => b.tokens = 0,
           lp = held.lp + b.tokens - pool_balance[p].tokens,
           held' = [held EXCEPT !.lp = lp], BadDebtMayChange(p),
           UNCHANGED <<now, deployed, user_balance, emissions, user_emissions, rewards, emitter>>
    PROVE  BackstopInv'
<1>1. BackstopTypeOK
  BY DEF BackstopInv
<1>2. user_balance' \in [Pools -> [Users -> UserBalance]]
  BY <1>1 DEF BackstopTypeOK
<1>3. BackstopSharesAddUp'
  <2>1. ASSUME NEW q \in Pools
        PROVE  Accounts(pool_balance'[q], user_balance'[q])
    <3>1. Accounts(pool_balance[q], user_balance[q])
      BY InvParts
    <3>2. pool_balance'[q].shares = pool_balance[q].shares /\ pool_balance'[q].q4w = pool_balance[q].q4w
      BY <1>1 DEF BackstopTypeOK
    <3> QED
      BY <3>1, <3>2 DEF Accounts
  <2> QED
    BY <2>1, SharesAddUpIsAccountsNext
<1>4. bad_debt' \subseteq Pools
  BY <1>1, BackstopAssumption DEF BackstopTypeOK, BadDebtMayChange
<1>5. p \notin deployed => b = NoPoolBalance
  <2>1. b = [shares |-> b.shares, tokens |-> b.tokens, q4w |-> b.q4w]
    BY DEF PoolBalance
  <2>2. ASSUME p \notin deployed
        PROVE  b.shares = 0 /\ b.q4w = 0 /\ b.tokens = 0
    BY <2>2, NothingElsewhere
  <2> QED
    BY <2>1, <2>2 DEF NoPoolBalance
<1> QED
  BY <1>2, <1>3, <1>4, <1>5, EmissionsUntouched, PoolCallKeepsInv

LEMMA DrawKeepsInv ==
    ASSUME BackstopInv, NEW p \in Pools, NEW n \in Nat, Draw(p, n)
    PROVE  BackstopInv'
<1> DEFINE b == WithdrawFrom(pool_balance[p], n, 0)
           lp == held.lp - n
<1>0. pool_balance[p] \in PoolBalance /\ held.lp \in Nat
  BY InvParts
<1>1. /\ CountCall /\ CanWithdrawFrom(pool_balance[p], n, 0) /\ BadDebtMayChange(p)
      /\ pool_balance' = [pool_balance EXCEPT ![p] = b]
      /\ held' = [held EXCEPT !.lp = lp]
      /\ UNCHANGED <<now, deployed, user_balance, emissions, user_emissions, rewards, emitter>>
  BY DEF Draw, emissionVars
<1>2. /\ b \in PoolBalance /\ b.shares = pool_balance[p].shares - 0
      /\ b.tokens = pool_balance[p].tokens - n /\ b.q4w = pool_balance[p].q4w - 0
  BY <1>0, <1>1, OutOfPool
<1> HIDE DEF b
<1>3. b.shares = pool_balance[p].shares /\ b.q4w = pool_balance[p].q4w
  BY <1>0, <1>2, PoolParts
<1>4. lp \in Nat /\ lp = held.lp + b.tokens - pool_balance[p].tokens
  BY <1>0, <1>1, <1>2, PoolParts, BackedBound DEF CanWithdrawFrom
<1>5. p \notin deployed => b.tokens = 0
  BY <1>1, <1>2, NothingElsewhere DEF CanWithdrawFrom
<1> HIDE DEF lp
<1> QED
  BY <1>1, <1>2, <1>3, <1>4, <1>5, TokensKeepInv

LEMMA DonateKeepsInv ==
    ASSUME BackstopInv, NEW p \in Pools, NEW n \in Nat, Donate(p, n)
    PROVE  BackstopInv'
<1> DEFINE b == DepositInto(pool_balance[p], n, 0)
           lp == held.lp + n
<1>0. pool_balance[p] \in PoolBalance /\ held.lp \in Nat
  BY InvParts
<1>1. /\ CountCall /\ FromFactory(p) /\ BadDebtMayChange(p)
      /\ pool_balance' = [pool_balance EXCEPT ![p] = b]
      /\ held' = [held EXCEPT !.lp = lp]
      /\ UNCHANGED <<now, deployed, user_balance, emissions, user_emissions, rewards, emitter>>
  BY DEF Donate, emissionVars
<1>2. /\ b \in PoolBalance /\ b.shares = pool_balance[p].shares + 0
      /\ b.tokens = pool_balance[p].tokens + n /\ b.q4w = pool_balance[p].q4w
  <2> DEFINE before == pool_balance[p]
  <2>1. before \in PoolBalance /\ 0 \in Nat
    BY <1>0
  <2>2. b = DepositInto(before, n, 0)
    OBVIOUS
  <2> HIDE DEF before, b
  <2>3. /\ b \in PoolBalance /\ b.shares = before.shares + 0
        /\ b.tokens = before.tokens + n /\ b.q4w = before.q4w
    BY <2>1, <2>2, IntoPool
  <2> QED
    BY <2>3 DEF before
<1> HIDE DEF b
<1>3. b.shares = pool_balance[p].shares
  BY <1>0, <1>2, PoolParts
<1>4. lp \in Nat /\ lp = held.lp + b.tokens - pool_balance[p].tokens
  BY <1>0, <1>2, PoolParts
<1>5. p \in deployed
  <2>1. p \notin deployed => pool_balance[p].shares = 0
    BY NothingElsewhere
  <2> QED
    BY <1>1, <2>1 DEF FromFactory, Factory!IsPool
<1> HIDE DEF lp
<1> QED
  BY <1>1, <1>2, <1>3, <1>4, <1>5, TokensKeepInv

-----------------------------------------------------------------------------
(* A claim, its parts named.                                               *)

AccruedNow(p) == Accrue(emissions[p], pool_balance[p], now)
Earned(u, P) == [p \in P |-> ClaimFrom(u, p, AccruedNow(p))]
PartsOf(u, P, out) == [p \in P |-> PartOf(Earned(u, P)[p], SumFunction(Earned(u, P)), out)]
MintedFor(u, P, out) == [p \in P |-> ConvertToShares(pool_balance[p], PartsOf(u, P, out)[p])]

NothingClaimed(u, P) == SumFunction(Earned(u, P)) = 0 /\ UNCHANGED <<balanceVars, held>>

ClaimDeposits(u, P, out) ==
    /\ SumFunction(Earned(u, P)) > 0 /\ SumFunction(Earned(u, P)) <= held.blnd
    /\ pool_balance' = [p \in Pools |->
         IF p \in P /\ PartsOf(u, P, out)[p] > 0
         THEN DepositInto(pool_balance[p], PartsOf(u, P, out)[p], MintedFor(u, P, out)[p])
         ELSE pool_balance[p]]
    /\ user_balance' = [p \in Pools |->
         IF p \in P /\ PartsOf(u, P, out)[p] > 0
         THEN [user_balance[p] EXCEPT ![u] = AddShares(@, MintedFor(u, P, out)[p])]
         ELSE user_balance[p]]
    /\ held' = [held EXCEPT !.lp = @ + out, !.blnd = @ - SumFunction(Earned(u, P))]

LEMMA ClaimIs ==
    ASSUME NEW u, NEW P, NEW out, Claim(u, P, out)
    PROVE  /\ CountCall
           /\ \A p \in P : emissions[p] # NoData
           /\ emissions' = [p \in Pools |-> IF p \in P THEN AccruedNow(p) ELSE emissions[p]]
           /\ user_emissions' = [p \in Pools |->
                IF p \in P THEN [user_emissions[p] EXCEPT ![u] = ClaimUser(AccruedNow(p))]
                ELSE user_emissions[p]]
           /\ NothingClaimed(u, P) \/ ClaimDeposits(u, P, out)
           /\ UNCHANGED <<now, deployed, rewards, emitter, bad_debt>>
<1> DEFINE d == [p \in P |-> AccruedNow(p)]
           amount == [p \in P |-> ClaimFrom(u, p, d[p])]
           part == [p \in P |-> PartOf(amount[p], SumFunction(amount), out)]
           minted == [p \in P |-> ConvertToShares(pool_balance[p], part[p])]
<1>1. \A p \in P : d[p] = AccruedNow(p)
  OBVIOUS
<1>2. amount = Earned(u, P)
  BY <1>1 DEF Earned
<1>3. part = PartsOf(u, P, out)
  BY <1>2 DEF PartsOf
<1>4. minted = MintedFor(u, P, out)
  BY <1>3 DEF MintedFor
<1>5. /\ CountCall
      /\ \A p \in P : emissions[p] # NoData
      /\ emissions' = [p \in Pools |-> IF p \in P THEN d[p] ELSE emissions[p]]
      /\ user_emissions' = [p \in Pools |->
           IF p \in P THEN [user_emissions[p] EXCEPT ![u] = ClaimUser(d[p])]
           ELSE user_emissions[p]]
      /\ \/ /\ SumFunction(amount) = 0
            /\ UNCHANGED <<balanceVars, held>>
         \/ /\ SumFunction(amount) > 0 /\ SumFunction(amount) <= held.blnd
            /\ pool_balance' = [p \in Pools |->
                 IF p \in P /\ part[p] > 0
                 THEN DepositInto(pool_balance[p], part[p], minted[p])
                 ELSE pool_balance[p]]
            /\ user_balance' = [p \in Pools |->
                 IF p \in P /\ part[p] > 0
                 THEN [user_balance[p] EXCEPT ![u] = AddShares(@, minted[p])]
                 ELSE user_balance[p]]
            /\ held' = [held EXCEPT !.lp = @ + out, !.blnd = @ - SumFunction(amount)]
      /\ UNCHANGED <<now, deployed, rewards, emitter, bad_debt>>
  BY DEF Claim, AccruedNow
<1>6. NothingClaimed(u, P) \/ ClaimDeposits(u, P, out)
  <2> HIDE DEF amount, part, minted
  <2> QED
    BY <1>2, <1>3, <1>4, <1>5 DEF NothingClaimed, ClaimDeposits
<1> HIDE DEF amount, part, minted
<1>7. emissions' = [p \in Pools |-> IF p \in P THEN AccruedNow(p) ELSE emissions[p]]
  BY <1>1, <1>5
<1>8. user_emissions' = [p \in Pools |->
        IF p \in P THEN [user_emissions[p] EXCEPT ![u] = ClaimUser(AccruedNow(p))]
        ELSE user_emissions[p]]
  BY <1>1, <1>5
<1> QED
  BY <1>5, <1>6, <1>7, <1>8

LEMMA ClaimAmounts ==
    ASSUME BackstopInv, NEW u \in Users, NEW P \in SUBSET Pools, \A p \in P : emissions[p] # NoData
    PROVE  /\ IsFiniteSet(P)
           /\ Earned(u, P) \in [P -> Nat]
           /\ SumFunction(Earned(u, P)) \in Nat
           /\ \A p \in P :
                /\ emissions[p] \in EmissionData /\ AccruedNow(p) \in EmissionData
                /\ AccruedNow(p) # NoData
                /\ AccruedNow(p).last_time <= now /\ emissions[p].index <= AccruedNow(p).index
                /\ \A v \in Users : user_emissions[p][v] # NoData =>
                     user_emissions[p][v].index <= AccruedNow(p).index
<1>1. IsFiniteSet(P)
  BY BackstopAssumption, FS_Subset
<1>2. ASSUME NEW p \in P
      PROVE  /\ emissions[p] \in EmissionData /\ AccruedNow(p) \in EmissionData
             /\ AccruedNow(p) # NoData
             /\ AccruedNow(p).last_time <= now /\ emissions[p].index <= AccruedNow(p).index
             /\ \A v \in Users : user_emissions[p][v] # NoData =>
                  user_emissions[p][v].index <= AccruedNow(p).index
  <2>1. /\ emissions[p] \in EmissionData \cup {NoData} /\ pool_balance[p] \in PoolBalance
        /\ pool_balance[p].q4w <= pool_balance[p].shares /\ now \in Nat
        /\ emissions[p] # NoData
    BY InvParts
  <2>2. emissions[p].last_time <= now
    BY <2>1 DEF BackstopInv, EmissionsInOrder
  <2>3. /\ AccruedNow(p) \in EmissionData \cup {NoData} /\ AccruedNow(p) # NoData
        /\ AccruedNow(p).last_time <= now /\ emissions[p].index <= AccruedNow(p).index
    BY <2>1, <2>2, AccrueForward DEF AccruedNow
  <2>4. emissions[p] \in EmissionData /\ AccruedNow(p) \in EmissionData
    BY <2>1, <2>3
  <2>5. ASSUME NEW v \in Users, user_emissions[p][v] # NoData
        PROVE  user_emissions[p][v].index <= AccruedNow(p).index
    <3>1. user_emissions[p][v].index <= emissions[p].index
      BY <2>5 DEF BackstopInv, EmissionsInOrder
    <3>2. user_emissions[p][v] \in UserEmissionData
      BY <2>5, InvParts
    <3>3. user_emissions[p][v].index \in Nat /\ emissions[p].index \in Nat /\ AccruedNow(p).index \in Nat
      BY <2>4, <3>2, EmissionParts, UserEmissionParts
    <3> QED
      BY <2>3, <3>1, <3>3
  <2> QED
    BY <2>3, <2>4, <2>5
<1>3. ASSUME NEW p \in P
      PROVE  ClaimFrom(u, p, AccruedNow(p)) \in Nat
  <2>1. /\ user_emissions[p][u] \in UserEmissionData \cup {NoData}
        /\ user_balance[p][u].shares \in Nat
    BY InvParts, UserParts
  <2>2. user_emissions[p][u] # NoData => user_emissions[p][u].index <= AccruedNow(p).index
    BY <1>2
  <2> QED
    BY <1>2, <2>1, <2>2, OwedNat DEF ClaimFrom
<1>4. Earned(u, P) \in [P -> Nat]
  BY <1>3 DEF Earned
<1> QED
  BY <1>1, <1>2, <1>4, SumFunctionNat

\* The parts of the LP tokens add up to no more than all of them.
LEMMA ClaimPartsFit ==
    ASSUME BackstopInv, NEW u \in Users, NEW P \in SUBSET Pools, NEW out \in Nat,
           \A p \in P : emissions[p] # NoData, SumFunction(Earned(u, P)) > 0
    PROVE  /\ PartsOf(u, P, out) \in [P -> Nat]
           /\ MintedFor(u, P, out) \in [P -> Nat]
           /\ SumFunction(PartsOf(u, P, out)) <= out
<1> DEFINE amount == Earned(u, P)
           claimed == SumFunction(amount)
           part == PartsOf(u, P, out)
<1>1. IsFiniteSet(P) /\ amount \in [P -> Nat] /\ claimed \in Nat /\ claimed > 0
  BY ClaimAmounts
<1>2. ASSUME NEW p \in P
      PROVE  part[p] \in Nat /\ claimed * part[p] <= out * amount[p]
  <2>1. part[p] = FloorDiv(out * amount[p], claimed)
    BY DEF PartsOf, PartOf, MulFloor
  <2> HIDE DEF amount, claimed, part
  <2>2. amount[p] \in Nat /\ out * amount[p] \in Nat
    BY <1>1, ProductNat
  <2>3. FloorDiv(out * amount[p], claimed) \in Nat
    BY <1>1, <2>2, FloorDivNat
  <2>4. claimed * FloorDiv(out * amount[p], claimed) <= out * amount[p]
    BY <1>1, <2>2, FloorDivBounds
  <2> QED
    BY <2>1, <2>3, <2>4
<1>3. part \in [P -> Nat]
  BY <1>2 DEF PartsOf
<1>4. SumFunction(part) <= out
  <2> HIDE DEF amount, part
  <2> QED
    BY <1>1, <1>2, <1>3, SharedOut
<1>5. MintedFor(u, P, out) \in [P -> Nat]
  <2>1. ASSUME NEW p \in P
        PROVE  ConvertToShares(pool_balance[p], part[p]) \in Nat
    BY <1>2, InvParts, ConvertNat
  <2> QED
    BY <2>1 DEF MintedFor
<1> QED
  BY <1>3, <1>4, <1>5

\* What the claim does to one pool: n tokens enter it, for m shares.
ClaimChange(u, P, out, p, n, m) ==
    /\ p \in P => n = PartsOf(u, P, out)[p]
    /\ p \notin P => n = 0
    /\ n > 0 => m = ConvertToShares(pool_balance[p], n)
    /\ n = 0 => m = 0 /\ pool_balance'[p] = pool_balance[p] /\ user_balance'[p] = user_balance[p]
    /\ pool_balance'[p] \in PoolBalance
    /\ pool_balance'[p].tokens = pool_balance[p].tokens + n
    /\ pool_balance'[p].shares = pool_balance[p].shares + m
    /\ pool_balance'[p].q4w = pool_balance[p].q4w
    /\ user_balance'[p] \in [Users -> UserBalance]
    /\ \A v \in Users \ {u} : user_balance'[p][v] = user_balance[p][v]
    /\ user_balance'[p][u].shares = user_balance[p][u].shares + m
    /\ user_balance'[p][u].q4w = user_balance[p][u].q4w

LEMMA ClaimChanges ==
    ASSUME BackstopInv, NEW u \in Users, NEW P \in SUBSET Pools, NEW out \in Nat,
           \A p \in P : emissions[p] # NoData, ClaimDeposits(u, P, out), NEW p \in Pools
    PROVE  \E n, m \in Nat : ClaimChange(u, P, out, p, n, m)
<1>0. /\ pool_balance[p] \in PoolBalance /\ user_balance[p] \in [Users -> UserBalance]
      /\ user_balance[p][u] \in UserBalance
  BY InvParts
<1>1. PartsOf(u, P, out) \in [P -> Nat] /\ MintedFor(u, P, out) \in [P -> Nat]
  BY ClaimPartsFit DEF ClaimDeposits
<1>2. CASE p \in P /\ PartsOf(u, P, out)[p] > 0
  <2> DEFINE n == PartsOf(u, P, out)[p]
             m == MintedFor(u, P, out)[p]
  <2>1. n \in Nat /\ m \in Nat /\ n > 0
    BY <1>1, <1>2
  <2>2. m = ConvertToShares(pool_balance[p], n)
    BY <1>2 DEF MintedFor
  <2>3. /\ pool_balance'[p] = DepositInto(pool_balance[p], n, m)
        /\ user_balance'[p] = [user_balance[p] EXCEPT ![u] = AddShares(user_balance[p][u], m)]
    BY <1>2 DEF ClaimDeposits
  <2>4. n = PartsOf(u, P, out)[p]
    OBVIOUS
  <2> HIDE DEF n, m
  <2>5. /\ pool_balance'[p] \in PoolBalance
        /\ pool_balance'[p].shares = pool_balance[p].shares + m
        /\ pool_balance'[p].tokens = pool_balance[p].tokens + n
        /\ pool_balance'[p].q4w = pool_balance[p].q4w
    <3> DEFINE b == pool_balance[p]
               c == pool_balance'[p]
    <3>1. b \in PoolBalance /\ c = DepositInto(b, n, m)
      BY <1>0, <2>3
    <3> HIDE DEF b, c
    <3>2. c \in PoolBalance /\ c.shares = b.shares + m /\ c.tokens = b.tokens + n /\ c.q4w = b.q4w
      BY <2>1, <3>1, IntoPool
    <3> QED
      BY <3>2 DEF b, c
  <2>6. /\ AddShares(user_balance[p][u], m) \in UserBalance
        /\ AddShares(user_balance[p][u], m).shares = user_balance[p][u].shares + m
        /\ AddShares(user_balance[p][u], m).q4w = user_balance[p][u].q4w
    BY <1>0, <2>1, UserOperations
  <2> QED
    BY <1>0, <1>2, <2>1, <2>2, <2>3, <2>4, <2>5, <2>6 DEF ClaimChange
<1>3. CASE ~(p \in P /\ PartsOf(u, P, out)[p] > 0)
  <2>1. pool_balance'[p] = pool_balance[p] /\ user_balance'[p] = user_balance[p]
    BY <1>3 DEF ClaimDeposits
  <2>2. p \in P => PartsOf(u, P, out)[p] = 0
    BY <1>1, <1>3
  <2>3. /\ pool_balance[p].tokens = pool_balance[p].tokens + 0
        /\ pool_balance[p].shares = pool_balance[p].shares + 0
        /\ user_balance[p][u].shares = user_balance[p][u].shares + 0
    BY <1>0, PoolParts, UserParts
  <2> QED
    BY <1>0, <2>1, <2>2, <2>3 DEF ClaimChange
<1> QED
  BY <1>2, <1>3

LEMMA ClaimKeepsInv ==
    ASSUME BackstopInv, NEW u \in Users, NEW P \in SUBSET Pools, NEW out \in Nat, Claim(u, P, out)
    PROVE  BackstopInv'
<1>0. /\ CountCall
      /\ \A p \in P : emissions[p] # NoData
      /\ emissions' = [p \in Pools |-> IF p \in P THEN AccruedNow(p) ELSE emissions[p]]
      /\ user_emissions' = [p \in Pools |->
           IF p \in P THEN [user_emissions[p] EXCEPT ![u] = ClaimUser(AccruedNow(p))]
           ELSE user_emissions[p]]
      /\ NothingClaimed(u, P) \/ ClaimDeposits(u, P, out)
      /\ UNCHANGED <<now, deployed, rewards, emitter, bad_debt>>
  BY ClaimIs
<1>1. BackstopTypeOK /\ EmissionsInOrder /\ OnlyFactoryPools
  BY DEF BackstopInv
<1>2. ASSUME NEW p \in P
      PROVE  /\ AccruedNow(p) \in EmissionData /\ AccruedNow(p) # NoData
             /\ AccruedNow(p).last_time <= now /\ AccruedNow(p).index \in Nat
             /\ \A v \in Users : user_emissions[p][v] # NoData =>
                  user_emissions[p][v].index <= AccruedNow(p).index
             /\ ClaimUser(AccruedNow(p)) \in UserEmissionData
             /\ ClaimUser(AccruedNow(p)).index <= AccruedNow(p).index
  <2>1. /\ AccruedNow(p) \in EmissionData /\ AccruedNow(p) # NoData
        /\ AccruedNow(p).last_time <= now
        /\ \A v \in Users : user_emissions[p][v] # NoData =>
             user_emissions[p][v].index <= AccruedNow(p).index
    BY <1>0, ClaimAmounts
  <2>2. AccruedNow(p).index \in Nat
    BY <2>1, EmissionParts
  <2> QED
    BY <2>1, <2>2 DEF ClaimUser, UserEmissionData
<1>3. /\ emissions' \in [Pools -> EmissionData \cup {NoData}]
      /\ user_emissions' \in [Pools -> [Users -> UserEmissionData \cup {NoData}]]
  <2>1. emissions' \in [Pools -> EmissionData \cup {NoData}]
    BY <1>0, <1>1, <1>2 DEF BackstopTypeOK
  <2>2. ASSUME NEW p \in Pools
        PROVE  user_emissions'[p] \in [Users -> UserEmissionData \cup {NoData}]
    <3>1. user_emissions[p] \in [Users -> UserEmissionData \cup {NoData}]
      BY InvParts
    <3> QED
      BY <1>0, <1>2, <3>1
  <2> QED
    BY <1>0, <2>1, <2>2
<1>4. EmissionsInOrder'
  <2>1. ASSUME NEW p \in Pools, emissions'[p] # NoData
        PROVE  emissions'[p].last_time <= now
    BY <1>0, <1>1, <1>2, <2>1 DEF EmissionsInOrder
  <2>2. ASSUME NEW p \in Pools, NEW v \in Users, user_emissions'[p][v] # NoData
        PROVE  emissions'[p] # NoData /\ user_emissions'[p][v].index <= emissions'[p].index
    <3>0. user_emissions[p] \in [Users -> UserEmissionData \cup {NoData}]
      BY InvParts
    <3>1. CASE p \notin P
      <4>1. emissions'[p] = emissions[p] /\ user_emissions'[p] = user_emissions[p]
        BY <1>0, <3>1
      <4> QED
        BY <1>1, <2>2, <4>1 DEF EmissionsInOrder
    <3>2. CASE p \in P
      <4>1. /\ emissions'[p] = AccruedNow(p)
            /\ user_emissions'[p] = [user_emissions[p] EXCEPT ![u] = ClaimUser(AccruedNow(p))]
        BY <1>0, <3>2
      <4>2. user_emissions'[p][v] =
              IF v = u THEN ClaimUser(AccruedNow(p)) ELSE user_emissions[p][v]
        BY <3>0, <4>1
      <4> QED
        BY <1>2, <2>2, <3>2, <4>1, <4>2
    <3> QED
      BY <3>1, <3>2
  <2> QED
    BY <1>0, <2>1, <2>2 DEF EmissionsInOrder
<1>5. /\ pool_balance' \in [Pools -> PoolBalance]
      /\ user_balance' \in [Pools -> [Users -> UserBalance]]
      /\ held' \in [lp : Nat, blnd : Nat, allowance : [Pools -> Nat]]
      /\ BackstopSharesAddUp' /\ DepositsBacked'
  <2>1. CASE NothingClaimed(u, P)
    <3>1. UNCHANGED <<pool_balance, user_balance, held>>
      BY <2>1 DEF NothingClaimed, balanceVars
    <3>2. BackstopSharesAddUp'
      BY <3>1, InvParts, SharesAddUpIsAccountsNext
    <3>3. DepositsBacked'
      BY <3>1 DEF BackstopInv, DepositsBacked, OfPools
    <3> QED
      BY <1>1, <3>1, <3>2, <3>3 DEF BackstopTypeOK
  <2>2. CASE ClaimDeposits(u, P, out)
    <3> DEFINE claimed == SumFunction(Earned(u, P))
               before == [p \in Pools |-> pool_balance[p].tokens]
               after == [p \in Pools |-> pool_balance'[p].tokens]
               part == PartsOf(u, P, out)
               added == [p \in Pools |-> IF p \in P THEN part[p] ELSE 0]
    <3>0. claimed > 0 /\ claimed <= held.blnd /\ claimed \in Nat /\ IsFiniteSet(P)
      BY <1>0, <2>2, ClaimAmounts DEF ClaimDeposits
    <3>1. part \in [P -> Nat] /\ SumFunction(part) <= out
      BY <1>0, <3>0, ClaimPartsFit
    <3>2. ASSUME NEW p \in Pools
          PROVE  /\ pool_balance'[p] \in PoolBalance
                 /\ user_balance'[p] \in [Users -> UserBalance]
                 /\ Accounts(pool_balance'[p], user_balance'[p])
                 /\ pool_balance'[p].tokens = pool_balance[p].tokens + added[p]
      <4>1. PICK n \in Nat, m \in Nat : ClaimChange(u, P, out, p, n, m)
        BY <1>0, <2>2, ClaimChanges
      <4>2. added[p] = n
        BY <4>1 DEF ClaimChange
      <4>3. /\ pool_balance[p] \in PoolBalance /\ user_balance[p] \in [Users -> UserBalance]
            /\ user_balance[p][u] \in UserBalance /\ user_balance'[p][u] \in UserBalance
            /\ Accounts(pool_balance[p], user_balance[p])
        BY <4>1, InvParts DEF ClaimChange
      <4> HIDE DEF added, part
      <4>4. /\ pool_balance'[p].shares = pool_balance[p].shares
                 + UserStake(user_balance'[p][u]) - UserStake(user_balance[p][u])
            /\ pool_balance'[p].q4w = pool_balance[p].q4w
                 + Queued(user_balance'[p][u].q4w) - Queued(user_balance[p][u].q4w)
        BY <4>1, <4>3, PoolParts, UserParts DEF UserStake, ClaimChange
      <4> DEFINE b == pool_balance[p]
                 c == pool_balance'[p]
                 s == user_balance[p]
                 t == user_balance'[p]
      <4>5. /\ b \in PoolBalance /\ c \in PoolBalance
            /\ s \in [Users -> UserBalance] /\ t \in [Users -> UserBalance]
            /\ \A v \in Users \ {u} : t[v] = s[v]
            /\ Accounts(b, s)
            /\ c.shares = b.shares + UserStake(t[u]) - UserStake(s[u])
            /\ c.q4w = b.q4w + Queued(t[u].q4w) - Queued(s[u].q4w)
        BY <4>1, <4>3, <4>4 DEF ClaimChange
      <4>6. Accounts(c, t)
        <5> HIDE DEF b, c, s, t
        <5> QED
          BY <4>5, AccountsChange
      <4> QED
        BY <4>1, <4>2, <4>6 DEF ClaimChange
    <3>3. DOMAIN pool_balance' = Pools /\ DOMAIN user_balance' = Pools
      BY <2>2 DEF ClaimDeposits
    <3>4. /\ pool_balance' \in [Pools -> PoolBalance]
          /\ user_balance' \in [Pools -> [Users -> UserBalance]]
          /\ BackstopSharesAddUp'
      <4>1. pool_balance' = [p \in Pools |-> pool_balance'[p]]
        BY <2>2 DEF ClaimDeposits
      <4>2. user_balance' = [p \in Pools |-> user_balance'[p]]
        BY <2>2 DEF ClaimDeposits
      <4> QED
        BY <3>2, <4>1, <4>2, SharesAddUpIsAccountsNext
    <3>5. held' = [lp |-> held.lp + out, blnd |-> held.blnd - claimed, allowance |-> held.allowance]
      <4>1. held \in [lp : Nat, blnd : Nat, allowance : [Pools -> Nat]]
        BY <1>1 DEF BackstopTypeOK
      <4> DEFINE x == held.lp + out
                 y == held.blnd - claimed
      <4>2. held' = [held EXCEPT !.lp = x, !.blnd = y]
        BY <2>2 DEF ClaimDeposits
      <4> HIDE DEF x, y
      <4>3. held' = [lp |-> x, blnd |-> y, allowance |-> held.allowance]
        BY <4>1, <4>2
      <4> QED
        BY <4>3 DEF x, y
    <3>6. held' \in [lp : Nat, blnd : Nat, allowance : [Pools -> Nat]]
      <4>1. held.lp + out \in Nat /\ held.blnd - claimed \in Nat
        BY <3>0, InvParts
      <4> HIDE DEF claimed
      <4> QED
        BY <3>5, <4>1, InvParts
    <3>7. IsFiniteSet(Pools) /\ \A p \in Pools :
            before[p] \in Nat /\ added[p] \in Nat /\ after[p] \in Nat
            /\ after[p] = before[p] + added[p]
      BY <3>1, <3>2, InvParts, PoolParts, BackstopAssumption
    <3>8. Sum(after, Pools) = Sum(before, Pools) + Sum(added, Pools)
      <4> HIDE DEF before, after, added
      <4>1. \A p \in Pools : before[p] \in Int /\ added[p] \in Int /\ after[p] = before[p] + added[p]
        BY <3>7
      <4> QED
        BY <3>7, <4>1, SumAdd
    <3>9. Sum(added, Pools) = SumFunction(part)
      <4>1. \A p \in Pools \ P : added[p] = 0
        OBVIOUS
      <4>2. \A p \in P : added[p] = part[p]
        OBVIOUS
      <4>3. DOMAIN part = P
        BY <3>1
      <4> HIDE DEF added, part
      <4>4. \A p \in Pools : added[p] \in Int
        BY <3>7
      <4>5. Sum(added, Pools) = Sum(added, P)
        BY <3>7, <4>1, <4>4, SumOnPart
      <4>6. Sum(added, P) = Sum(part, P)
        BY <3>0, <4>2, SumSame
      <4> QED
        BY <4>3, <4>5, <4>6, SumFunctionIsSum
    <3>10. DepositsBacked'
      <4>1. SumFunction(before) <= held.lp
        BY DEF BackstopInv, DepositsBacked, OfPools
      <4>2. /\ SumFunction(before) = Sum(before, Pools) /\ SumFunction(after) = Sum(after, Pools)
            /\ before \in [Pools -> Nat]
        BY <3>7, SumFunctionIsSum
      <4>3. held.lp \in Nat /\ held'.lp = held.lp + out
        BY <3>5, InvParts
      <4>4. SumFunction(part) \in Nat
        BY <3>0, <3>1, SumFunctionNat
      <4> HIDE DEF before, after, added, part
      <4>5. SumFunction(before) \in Nat
        BY <3>7, <4>2, SumFunctionNat
      <4>6. SumFunction(after) <= held'.lp
        BY <3>1, <3>8, <3>9, <4>1, <4>2, <4>3, <4>4, <4>5
      <4> QED
        BY <4>6 DEF DepositsBacked, OfPools, after
    <3> QED
      BY <3>4, <3>6, <3>10
  <2> QED
    BY <1>0, <2>1, <2>2
<1>6. OnlyFactoryPools'
  <2>1. ASSUME NEW q \in Pools \ deployed
        PROVE  pool_balance'[q] = NoPoolBalance /\ emissions'[q] = NoData /\ rewards'.accrued[q] = 0
    <3>1. pool_balance[q] = NoPoolBalance /\ emissions[q] = NoData /\ rewards.accrued[q] = 0
      BY <1>1 DEF OnlyFactoryPools
    <3>2. q \notin P
      BY <1>0, <3>1
    <3>3. pool_balance'[q] = pool_balance[q] /\ emissions'[q] = emissions[q]
      BY <1>0, <3>2 DEF NothingClaimed, ClaimDeposits, balanceVars
    <3> QED
      BY <1>0, <3>1, <3>3
  <2> QED
    BY <1>0, <2>1 DEF OnlyFactoryPools
<1>7. calls' \in Nat
  BY <1>0, <1>1 DEF BackstopTypeOK, CountCall
<1>8. BackstopTypeOK'
  BY <1>0, <1>1, <1>3, <1>5, <1>7 DEF BackstopTypeOK
<1> QED
  BY <1>4, <1>5, <1>6, <1>8 DEF BackstopInv

\* What leaves the balances alone.
LEMMA BalancesKept ==
    ASSUME BackstopInv, UNCHANGED balanceVars,
           now' \in Nat, now <= now', calls' \in Nat,
           deployed \subseteq deployed', deployed' \subseteq Deployable,
           emissions' \in [Pools -> EmissionData \cup {NoData}],
           user_emissions' = user_emissions,
           EmissionsInOrder',
           \A p \in Pools \ deployed : emissions[p] = NoData => emissions'[p] = NoData,
           rewards' \in Rewards,
           \A p \in Pools \ deployed : rewards.accrued[p] = 0 => rewards'.accrued[p] = 0,
           held' \in [lp : Nat, blnd : Nat, allowance : [Pools -> Nat]], held'.lp = held.lp,
           emitter' \in [last : Nat \cup {NoData}, dropped : BOOLEAN],
           bad_debt' \subseteq Pools
    PROVE  BackstopInv'
<1>1. pool_balance' = pool_balance /\ user_balance' = user_balance
  BY DEF balanceVars
<1>2. BackstopTypeOK'
  BY <1>1 DEF BackstopInv, BackstopTypeOK
<1>3. BackstopSharesAddUp'
  BY <1>1, InvParts, SharesAddUpIsAccountsNext
<1>4. DepositsBacked'
  BY <1>1 DEF BackstopInv, DepositsBacked, OfPools
<1>5. OnlyFactoryPools'
  BY <1>1 DEF BackstopInv, OnlyFactoryPools
<1> QED
  BY <1>2, <1>3, <1>4, <1>5 DEF BackstopInv

LEMMA RewardParts ==
    ASSUME NEW r \in Rewards
    PROVE  /\ r.zone \subseteq Pools /\ r.accrued \in [Pools -> Nat]
           /\ r.gulped_at \in [Pools -> Nat] /\ r.last_distribution \in Nat
           /\ r.status \in {"Unset", "Backfill", "Emitter"} /\ r.backfill \in Nat
  BY DEF Rewards

\* The invocations about the reward zone change only rewards.
LEMMA RewardsKeepInv ==
    ASSUME BackstopInv, CountCall, rewards' \in Rewards,
           \A p \in Pools \ deployed : rewards.accrued[p] = 0 => rewards'.accrued[p] = 0,
           UNCHANGED <<now, deployed, balanceVars, emissionVars, held, emitter, bad_debt>>
    PROVE  BackstopInv'
<1>1. BackstopTypeOK
  BY DEF BackstopInv
<1>2. calls' \in Nat /\ now' = now /\ deployed' = deployed
  BY <1>1 DEF BackstopTypeOK, CountCall
<1>3. EmissionsInOrder'
  BY DEF BackstopInv, EmissionsInOrder, emissionVars
<1> QED
  BY <1>1, <1>2, <1>3, BalancesKept DEF BackstopTypeOK, emissionVars

LEMMA ZoneKeepsInv ==
    ASSUME BackstopInv,
           \/ \E p \in Pools : AddReward(p) \/ RemoveReward(p)
           \/ \E p, out \in Pools : SwapReward(p, out)
    PROVE  BackstopInv'
<1>1. rewards \in Rewards
  BY DEF BackstopInv, BackstopTypeOK
<1>2. PICK zone \in SUBSET Pools :
        /\ CountCall /\ rewards' = [rewards EXCEPT !.zone = zone]
        /\ UNCHANGED <<now, deployed, balanceVars, emissionVars, held, emitter, bad_debt>>
  <2>1. ASSUME NEW p \in Pools, AddReward(p)
        PROVE  \E zone \in SUBSET Pools :
                 /\ CountCall /\ rewards' = [rewards EXCEPT !.zone = zone]
                 /\ UNCHANGED <<now, deployed, balanceVars, emissionVars, held, emitter, bad_debt>>
    <3>1. rewards.zone \cup {p} \in SUBSET Pools
      BY <1>1, RewardParts
    <3> QED
      BY <2>1, <3>1 DEF AddReward
  <2>2. ASSUME NEW p \in Pools, RemoveReward(p)
        PROVE  \E zone \in SUBSET Pools :
                 /\ CountCall /\ rewards' = [rewards EXCEPT !.zone = zone]
                 /\ UNCHANGED <<now, deployed, balanceVars, emissionVars, held, emitter, bad_debt>>
    <3>1. rewards.zone \ {p} \in SUBSET Pools
      BY <1>1, RewardParts
    <3> QED
      BY <2>2, <3>1 DEF RemoveReward
  <2>3. ASSUME NEW p \in Pools, NEW out \in Pools, SwapReward(p, out)
        PROVE  \E zone \in SUBSET Pools :
                 /\ CountCall /\ rewards' = [rewards EXCEPT !.zone = zone]
                 /\ UNCHANGED <<now, deployed, balanceVars, emissionVars, held, emitter, bad_debt>>
    <3>1. (rewards.zone \ {out}) \cup {p} \in SUBSET Pools
      BY <1>1, RewardParts
    <3> QED
      BY <2>3, <3>1 DEF SwapReward
  <2> QED
    BY <2>1, <2>2, <2>3
<1>3. rewards' \in Rewards /\ rewards'.accrued = rewards.accrued
  BY <1>1, <1>2 DEF Rewards
<1> QED
  BY <1>2, <1>3, RewardsKeepInv

LEMMA DistributionTimeNat ==
    ASSUME BackstopInv
    PROVE  /\ DistributionTime \in Nat
           /\ NewStatus \in {"Backfill", "Emitter"}
<1>1. emitter.last \in Nat \cup {NoData} /\ now \in Nat
  BY DEF BackstopInv, BackstopTypeOK
<1> QED
  BY <1>1 DEF DistributionTime, Backfilling, NewStatus

LEMMA StartDistributionKeepsInv ==
    ASSUME BackstopInv, StartDistribution
    PROVE  BackstopInv'
<1>1. rewards \in Rewards
  BY DEF BackstopInv, BackstopTypeOK
<1>2. rewards' = [rewards EXCEPT !.status = NewStatus, !.last_distribution = DistributionTime]
  BY DEF StartDistribution
<1>3. rewards' \in Rewards /\ rewards'.accrued = rewards.accrued
  BY <1>1, <1>2, DistributionTimeNat DEF Rewards
<1> QED
  BY <1>3, RewardsKeepInv DEF StartDistribution

\* The tokens of a deposit that are not about to leave.
LEMMA NonQueuedNat ==
    ASSUME BackstopInv, NEW p \in Pools
    PROVE  /\ NonQueuedTokens(pool_balance[p]) \in Nat
           /\ p \notin deployed => NonQueuedTokens(pool_balance[p]) = 0
<1> DEFINE b == pool_balance[p]
<1>1. b \in PoolBalance /\ b.q4w <= b.shares
  BY InvParts
<1>2. p \notin deployed => b.shares = 0 /\ b.tokens = 0
  BY NothingElsewhere
<1> HIDE DEF b
<1>3. b.tokens \in Nat /\ b.q4w \in Nat
  BY <1>1, PoolParts
<1>4. ConvertToTokens(b, b.q4w) \in Nat /\ ConvertToTokens(b, b.q4w) <= b.tokens
  BY <1>1, <1>3, ConvertNat
<1>5. NonQueuedTokens(b) \in Nat
  BY <1>3, <1>4 DEF NonQueuedTokens
<1>6. p \notin deployed => NonQueuedTokens(b) = 0
  BY <1>2 DEF NonQueuedTokens, ConvertToTokens
<1> QED
  BY <1>5, <1>6 DEF b

LEMMA DistributedNat ==
    ASSUME BackstopInv, Distribute
    PROVE  /\ NewEmissions \in Nat /\ ZoneTokens \in Nat /\ ZoneTokens > 0
           /\ \A p \in rewards.zone :
                /\ PoolEmissions(p) \in Nat
                /\ p \notin deployed => PoolEmissions(p) = 0
<1>0. rewards \in Rewards /\ rewards.zone \subseteq Pools /\ rewards.backfill \in Nat
      /\ rewards.last_distribution \in Nat
  BY RewardParts DEF BackstopInv, BackstopTypeOK
<1>1. ZoneTokens \in Nat /\ ZoneTokens > 0
  <2>1. IsFiniteSet(rewards.zone)
    BY <1>0, BackstopAssumption, FS_Subset
  <2>2. [p \in rewards.zone |-> NonQueuedTokens(pool_balance[p])] \in [rewards.zone -> Nat]
    BY <1>0, NonQueuedNat
  <2>3. ZoneTokens \in Nat
    BY <2>1, <2>2, SumFunctionNat DEF ZoneTokens
  <2> QED
    BY <2>3 DEF Distribute
<1>2. NewEmissions \in Nat
  <2> DEFINE elapsed == DistributionTime - rewards.last_distribution
  <2>1. elapsed \in Nat
    BY <1>0, DistributionTimeNat, BackstopAssumption DEF Distribute
  <2> HIDE DEF elapsed
  <2>2. elapsed * Scalar7 \in Nat
    BY <2>1, ScalarsPositive, ProductNat
  <2>3. Backfilling => MaxBackfill - rewards.backfill \in Nat
    BY <1>0, BackstopAssumption DEF Distribute
  <2> QED
    BY <2>2, <2>3 DEF NewEmissions, elapsed
<1>3. ASSUME NEW p \in rewards.zone
      PROVE  /\ PoolEmissions(p) \in Nat
             /\ p \notin deployed => PoolEmissions(p) = 0
  <2> DEFINE n == NonQueuedTokens(pool_balance[p])
             z == ZoneTokens
             ratio == DivFloor(n, z, Scalar7)
  <2>1. n \in Nat /\ (p \notin deployed => n = 0)
    BY <1>0, NonQueuedNat
  <2>2. z \in Int /\ z > 0
    BY <1>1
  <2>3. PoolEmissions(p) = MulFloor(ratio, NewEmissions, Scalar7)
    BY DEF PoolEmissions
  <2> HIDE DEF n, z
  <2>4. ratio \in Nat
    BY <2>1, <2>2, ScalarsPositive, DivNat
  <2>5. n = 0 => ratio = 0
    <3>1. 0 * Scalar7 = 0
      BY ScalarsPositive, SMT
    <3>2. FloorDiv(0, z) = 0
      <4>1. FloorDiv(0, z) \in Nat
        BY <2>2, FloorDivNat
      <4>2. FloorDiv(0, z) <= 0
        <5>1. 0 < z * 0 + z
          BY <2>2, SMT
        <5> QED
          BY <2>2, <5>1, FloorDivUpper
      <4> QED
        BY <4>1, <4>2
    <3> QED
      BY <3>1, <3>2 DEF DivFloor
  <2> HIDE DEF ratio
  <2>6. MulFloor(ratio, NewEmissions, Scalar7) \in Nat
    BY <1>2, <2>4, ScalarsPositive, MulNat
  <2>7. ratio = 0 => MulFloor(ratio, NewEmissions, Scalar7) = 0
    <3>1. MulFloor(NewEmissions, 0, Scalar7) <= 0
      <4>1. FloorDiv(NewEmissions * 0, Scalar7) <= 0
        <5>1. NewEmissions * 0 = 0 /\ 0 < Scalar7 * 0 + Scalar7
          BY <1>2, ScalarsPositive, SMT
        <5> QED
          BY <5>1, ScalarsPositive, FloorDivUpper
      <4> QED
        BY <4>1 DEF MulFloor
    <3>2. 0 * NewEmissions = NewEmissions * 0
      BY <1>2, SMT
    <3>3. ratio = 0 => MulFloor(ratio, NewEmissions, Scalar7) <= 0
      BY <3>1, <3>2 DEF MulFloor
    <3> QED
      BY <2>6, <3>3
  <2> QED
    BY <2>1, <2>3, <2>5, <2>6, <2>7
<1> QED
  BY <1>1, <1>2, <1>3

LEMMA DistributeKeepsInv ==
    ASSUME BackstopInv, Distribute
    PROVE  BackstopInv'
<1> DEFINE accrued == [p \in Pools |-> IF p \in rewards.zone
                                       THEN rewards.accrued[p] + PoolEmissions(p)
                                       ELSE rewards.accrued[p]]
           backfill == IF Backfilling THEN rewards.backfill + NewEmissions ELSE rewards.backfill
<1>1. rewards \in Rewards
  BY DEF BackstopInv, BackstopTypeOK
<1>2. rewards' = [rewards EXCEPT !.status = NewStatus, !.backfill = backfill,
                                 !.last_distribution = DistributionTime, !.accrued = accrued]
  BY DEF Distribute
<1>3. accrued \in [Pools -> Nat]
  BY <1>1, RewardParts, DistributedNat
<1>4. backfill \in Nat
  BY <1>1, RewardParts, DistributedNat
<1>5. \A p \in Pools \ deployed : rewards.accrued[p] = 0 => accrued[p] = 0
  BY DistributedNat
<1> HIDE DEF accrued, backfill
<1>6. rewards' \in Rewards /\ rewards'.accrued = accrued
  BY <1>1, <1>2, <1>3, <1>4, DistributionTimeNat DEF Rewards
<1> QED
  BY <1>5, <1>6, RewardsKeepInv DEF Distribute

\* What is gulped is a stream whose clock starts now and whose index goes on.
LEMMA SetEpsType ==
    ASSUME BackstopInv, NEW p \in Pools, NEW tokens \in Nat
    PROVE  LET s == SetEps(emissions[p], pool_balance[p], tokens, now)
           IN  /\ s \in EmissionData /\ s # NoData /\ s.last_time = now
               /\ s.expiration = now + EmissionPeriod
               /\ LeftToEmit(AccruedNow(p), now) \in Nat
               /\ s.eps = ((tokens + LeftToEmit(AccruedNow(p), now)) * Scalar7) \div EmissionPeriod
               /\ s.index = IF emissions[p] = NoData THEN 0 ELSE AccruedNow(p).index
               /\ emissions[p] # NoData => emissions[p].index <= s.index
<1> DEFINE s == SetEps(emissions[p], pool_balance[p], tokens, now)
           a == AccruedNow(p)
           left == LeftToEmit(a, now)
<1>0. /\ emissions[p] \in EmissionData \cup {NoData} /\ pool_balance[p] \in PoolBalance
      /\ pool_balance[p].q4w <= pool_balance[p].shares /\ now \in Nat
      /\ emissions[p] # NoData => emissions[p].last_time <= now
  BY InvParts DEF BackstopInv, EmissionsInOrder
<1>1. /\ a \in EmissionData \cup {NoData} /\ (a = NoData <=> emissions[p] = NoData)
      /\ emissions[p] # NoData => emissions[p].index <= a.index
  BY <1>0, AccrueForward DEF AccruedNow
<1>2. s = [eps |-> ((tokens + left) * Scalar7) \div EmissionPeriod,
           expiration |-> now + EmissionPeriod,
           index |-> IF emissions[p] = NoData THEN 0 ELSE a.index,
           last_time |-> now]
  BY DEF SetEps, AccruedNow
<1> HIDE DEF a
<1>3. left \in Nat
  <2>1. CASE a # NoData /\ a.expiration > now
    <3>1. a.eps \in Nat /\ a.expiration \in Nat
      BY <1>1, <2>1, EmissionParts
    <3>2. a.expiration - now \in Nat
      BY <1>0, <2>1, <3>1
    <3>3. Scalar7 \in Int /\ Scalar7 > 0
      BY ScalarsPositive
    <3>4. MulFloor(a.eps, a.expiration - now, Scalar7) \in Nat
      BY <3>1, <3>2, <3>3, MulNat
    <3> QED
      BY <2>1, <3>4 DEF LeftToEmit
  <2>2. CASE ~(a # NoData /\ a.expiration > now)
    BY <2>2 DEF LeftToEmit
  <2> QED
    BY <2>1, <2>2
<1> HIDE DEF left
<1>4. ((tokens + left) * Scalar7) \div EmissionPeriod \in Nat
  <2>1. tokens + left \in Nat
    BY <1>3
  <2>2. (tokens + left) * Scalar7 \in Nat
    BY <2>1, ScalarsPositive, ProductNat
  <2> DEFINE m == (tokens + left) * Scalar7
  <2>3. FloorDiv(m, EmissionPeriod) \in Nat
    BY <2>2, ScalarsPositive, FloorDivNat
  <2> QED
    BY <2>3, ScalarsPositive DEF FloorDiv
<1>5. now + EmissionPeriod \in Nat
  BY <1>0, ScalarsPositive
<1>6. (IF emissions[p] = NoData THEN 0 ELSE a.index) \in Nat
  BY <1>1, EmissionParts
<1>7. s \in EmissionData
  BY <1>0, <1>2, <1>4, <1>5, <1>6 DEF EmissionData
<1>8. s # NoData
  BY <1>7, EmissionParts
<1> HIDE DEF s
<1>9. /\ s.last_time = now /\ s.expiration = now + EmissionPeriod
      /\ s.eps = ((tokens + left) * Scalar7) \div EmissionPeriod
      /\ s.index = IF emissions[p] = NoData THEN 0 ELSE a.index
  BY <1>2
<1>10. emissions[p] # NoData => emissions[p].index <= s.index
  BY <1>1, <1>9
<1> QED
  BY <1>3, <1>7, <1>8, <1>9, <1>10 DEF s, a, left

LEMMA GulpKeepsInv ==
    ASSUME BackstopInv, NEW p \in Pools, GulpEmissions(p)
    PROVE  BackstopInv'
<1> DEFINE due == rewards.accrued[p]
           forPool == MulFloor(due, BorrowShare, Scalar7)
           forDepositors == MulFloor(due, DepositShare, Scalar7)
           s == SetEps(emissions[p], pool_balance[p], forDepositors, now)
<1>0. /\ BackstopTypeOK /\ rewards \in Rewards /\ now \in Nat
      /\ rewards.accrued \in [Pools -> Nat] /\ due \in Nat
  BY RewardParts DEF BackstopInv, BackstopTypeOK
<1> HIDE DEF due
<1>1. forPool \in Nat /\ forDepositors \in Nat
  <2>1. BorrowShare \in Nat /\ DepositShare \in Nat /\ Scalar7 \in Int /\ Scalar7 > 0
    BY BackstopAssumption, ScalarsPositive
  <2> QED
    BY <1>0, <2>1, MulNat
<1>2. /\ CountCall /\ due > 0
      /\ held' = [held EXCEPT !.allowance[p] = @ + forPool]
      /\ rewards' = [rewards EXCEPT !.accrued[p] = 0, !.gulped_at[p] = now]
      /\ emissions' = [emissions EXCEPT ![p] = s]
      /\ UNCHANGED <<now, deployed, balanceVars, user_emissions, emitter, bad_debt>>
  BY DEF GulpEmissions, due
<1>3. /\ s \in EmissionData /\ s # NoData /\ s.last_time = now
      /\ emissions[p] # NoData => emissions[p].index <= s.index
  BY <1>1, SetEpsType
<1> HIDE DEF forPool, s
<1>4. emissions' \in [Pools -> EmissionData \cup {NoData}]
      /\ \A q \in Pools : emissions'[q] = IF q = p THEN s ELSE emissions[q]
  BY <1>0, <1>2, <1>3 DEF BackstopTypeOK
<1>5. EmissionsInOrder'
  <2>1. ASSUME NEW q \in Pools, emissions'[q] # NoData
        PROVE  emissions'[q].last_time <= now
    BY <1>0, <1>3, <1>4, <2>1 DEF BackstopInv, EmissionsInOrder
  <2>2. ASSUME NEW q \in Pools, NEW v \in Users, user_emissions[q][v] # NoData
        PROVE  emissions'[q] # NoData /\ user_emissions[q][v].index <= emissions'[q].index
    <3>1. emissions[q] # NoData /\ user_emissions[q][v].index <= emissions[q].index
      BY <2>2 DEF BackstopInv, EmissionsInOrder
    <3>2. emissions[q] \in EmissionData /\ user_emissions[q][v] \in UserEmissionData
      BY <2>2, <3>1, InvParts
    <3>3. user_emissions[q][v].index \in Nat /\ emissions[q].index \in Nat /\ s.index \in Nat
      BY <1>3, <3>2, EmissionParts, UserEmissionParts
    <3> QED
      BY <1>3, <1>4, <3>1, <3>3
  <2> QED
    BY <1>2, <2>1, <2>2 DEF EmissionsInOrder
<1>6. /\ rewards' \in Rewards
      /\ \A q \in Pools : rewards'.accrued[q] = IF q = p THEN 0 ELSE rewards.accrued[q]
  <2> DEFINE accrued == [rewards.accrued EXCEPT ![p] = 0]
             gulped == [rewards.gulped_at EXCEPT ![p] = now]
  <2>1. rewards' = [rewards EXCEPT !.accrued = accrued, !.gulped_at = gulped]
    BY <1>2
  <2>2. accrued \in [Pools -> Nat] /\ gulped \in [Pools -> Nat]
    BY <1>0, RewardParts
  <2>3. \A q \in Pools : accrued[q] = IF q = p THEN 0 ELSE rewards.accrued[q]
    BY <1>0
  <2> HIDE DEF accrued, gulped
  <2>4. rewards' \in Rewards /\ rewards'.accrued = accrued
    BY <1>0, <2>1, <2>2 DEF Rewards
  <2> QED
    BY <2>3, <2>4
<1>7. held' \in [lp : Nat, blnd : Nat, allowance : [Pools -> Nat]] /\ held'.lp = held.lp
  <2> DEFINE allowance == [held.allowance EXCEPT ![p] = @ + forPool]
  <2>1. held' = [held EXCEPT !.allowance = allowance]
    BY <1>2
  <2>2. held \in [lp : Nat, blnd : Nat, allowance : [Pools -> Nat]]
    BY <1>0 DEF BackstopTypeOK
  <2>3. allowance \in [Pools -> Nat]
    BY <1>1, InvParts
  <2> HIDE DEF allowance
  <2> QED
    BY <2>1, <2>2, <2>3
<1>8. p \in deployed
  BY <1>2 DEF BackstopInv, OnlyFactoryPools, due
<1>9. calls' \in Nat
  BY <1>0, <1>2 DEF BackstopTypeOK, CountCall
<1>10. now' \in Nat /\ now <= now' /\ deployed \subseteq deployed' /\ deployed' \subseteq Deployable
       /\ emitter' \in [last : Nat \cup {NoData}, dropped : BOOLEAN] /\ bad_debt' \subseteq Pools
  BY <1>0, <1>2 DEF BackstopTypeOK
<1>11. \A q \in Pools \ deployed :
         /\ emissions[q] = NoData => emissions'[q] = NoData
         /\ rewards.accrued[q] = 0 => rewards'.accrued[q] = 0
  BY <1>4, <1>6, <1>8
<1> QED
  BY <1>2, <1>4, <1>5, <1>6, <1>7, <1>9, <1>10, <1>11, BalancesKept

\* What happens to the tokens outside deposits, in the emitter and the factory.
LEMMA OutsideKeepsInv ==
    ASSUME BackstopInv, UNCHANGED <<balanceVars, emissionVars, rewards>>,
           now' \in Nat, now <= now', calls' \in Nat,
           deployed \subseteq deployed', deployed' \subseteq Deployable,
           held' \in [lp : Nat, blnd : Nat, allowance : [Pools -> Nat]], held'.lp = held.lp,
           emitter' \in [last : Nat \cup {NoData}, dropped : BOOLEAN],
           bad_debt' \subseteq Pools
    PROVE  BackstopInv'
<1>1. BackstopTypeOK /\ now \in Nat /\ emissions' = emissions /\ user_emissions' = user_emissions
  BY DEF BackstopInv, BackstopTypeOK, emissionVars
<1>2. EmissionsInOrder'
  <2>1. ASSUME NEW p \in Pools, emissions[p] # NoData
        PROVE  emissions[p].last_time <= now'
    <3>1. emissions[p] \in EmissionData /\ emissions[p].last_time <= now
      BY <2>1, InvParts DEF BackstopInv, EmissionsInOrder
    <3>2. emissions[p].last_time \in Nat
      BY <3>1, EmissionParts
    <3> QED
      BY <1>1, <3>1, <3>2
  <2> QED
    BY <1>1, <2>1 DEF BackstopInv, EmissionsInOrder
<1> QED
  BY <1>1, <1>2, BalancesKept DEF BackstopTypeOK

LEMMA DropKeepsInv ==
    ASSUME BackstopInv, Drop
    PROVE  BackstopInv'
<1> DEFINE blnd == held.blnd + rewards.backfill
<1>1. BackstopTypeOK
  BY DEF BackstopInv
<1>2. /\ CountCall
      /\ emitter' = [emitter EXCEPT !.dropped = TRUE] /\ held' = [held EXCEPT !.blnd = blnd]
      /\ UNCHANGED <<now, deployed, balanceVars, emissionVars, rewards, bad_debt>>
  BY DEF Drop
<1>3. blnd \in Nat
  BY <1>1, InvParts, RewardParts DEF BackstopTypeOK
<1> HIDE DEF blnd
<1>4. held' \in [lp : Nat, blnd : Nat, allowance : [Pools -> Nat]] /\ held'.lp = held.lp
  BY <1>1, <1>2, <1>3 DEF BackstopTypeOK
<1>5. emitter' \in [last : Nat \cup {NoData}, dropped : BOOLEAN]
  BY <1>1, <1>2 DEF BackstopTypeOK
<1>6. now' \in Nat /\ now <= now' /\ calls' \in Nat
  BY <1>1, <1>2 DEF BackstopTypeOK, CountCall
<1> QED
  BY <1>1, <1>2, <1>4, <1>5, <1>6, OutsideKeepsInv DEF BackstopTypeOK

LEMMA EmitterKeepsInv ==
    ASSUME BackstopInv, EmitterSwitches \/ EmitterDistributes
    PROVE  BackstopInv'
<1>1. BackstopTypeOK /\ now \in Nat
  BY DEF BackstopInv, BackstopTypeOK
<1>2. /\ emitter' = [emitter EXCEPT !.last = now]
      /\ UNCHANGED <<now, deployed, balanceVars, emissionVars, rewards, bad_debt, calls>>
  BY DEF EmitterSwitches, EmitterDistributes
<1>3. emitter' \in [last : Nat \cup {NoData}, dropped : BOOLEAN]
  BY <1>1, <1>2 DEF BackstopTypeOK
<1>4. held' \in [lp : Nat, blnd : Nat, allowance : [Pools -> Nat]] /\ held'.lp = held.lp
  <2>1. CASE EmitterSwitches
    BY <1>1, <2>1 DEF EmitterSwitches, BackstopTypeOK
  <2>2. CASE EmitterDistributes
    <3> DEFINE blnd == held.blnd + (now - emitter.last) * Scalar7
    <3>1. held' = [held EXCEPT !.blnd = blnd] /\ emitter.last # NoData /\ emitter.last < now
      BY <2>2 DEF EmitterDistributes
    <3>2. emitter.last \in Nat /\ now - emitter.last \in Nat
      BY <1>1, <3>1 DEF BackstopTypeOK
    <3>3. (now - emitter.last) * Scalar7 \in Nat
      BY <3>2, ScalarsPositive, ProductNat
    <3>4. blnd \in Nat
      BY <3>3, InvParts
    <3> HIDE DEF blnd
    <3> QED
      BY <1>1, <3>1, <3>4 DEF BackstopTypeOK
  <2> QED
    BY <2>1, <2>2
<1>5. now' \in Nat /\ now <= now' /\ calls' \in Nat
  BY <1>1, <1>2 DEF BackstopTypeOK
<1> QED
  BY <1>1, <1>2, <1>3, <1>4, <1>5, OutsideKeepsInv DEF BackstopTypeOK

LEMMA PoolPaysKeepsInv ==
    ASSUME BackstopInv, NEW p \in Pools, PoolPays(p)
    PROVE  BackstopInv'
<1> DEFINE blnd == held.blnd - held.allowance[p]
           allowance == [held.allowance EXCEPT ![p] = 0]
<1>1. BackstopTypeOK
  BY DEF BackstopInv
<1>2. /\ CountCall /\ held.allowance[p] <= held.blnd
      /\ held' = [held EXCEPT !.allowance = allowance, !.blnd = blnd]
      /\ UNCHANGED <<now, deployed, balanceVars, emissionVars, rewards, emitter, bad_debt>>
  BY DEF PoolPays
<1>3. blnd \in Nat /\ allowance \in [Pools -> Nat]
  BY <1>2, InvParts
<1> HIDE DEF blnd, allowance
<1>4. held' \in [lp : Nat, blnd : Nat, allowance : [Pools -> Nat]] /\ held'.lp = held.lp
  BY <1>1, <1>2, <1>3 DEF BackstopTypeOK
<1>5. now' \in Nat /\ now <= now' /\ calls' \in Nat
  BY <1>1, <1>2 DEF BackstopTypeOK, CountCall
<1> QED
  BY <1>1, <1>2, <1>4, <1>5, OutsideKeepsInv DEF BackstopTypeOK

LEMMA EnvironmentKeepsInv ==
    ASSUME BackstopInv,
           \/ \E p \in Deployable, args \in DeployArgs : DeployPool(p, args)
           \/ \E p \in Indebted : BadDebtChanges(p)
           \/ \E dt \in Ticks : Tick(dt)
    PROVE  BackstopInv'
<1>1. BackstopTypeOK
  BY DEF BackstopInv
<1>2. CASE \E p \in Deployable, args \in DeployArgs : DeployPool(p, args)
  <2>1. PICK p \in Deployable, args \in DeployArgs : DeployPool(p, args)
    BY <1>2
  <2>2. /\ deployed' = deployed \cup {p}
        /\ UNCHANGED <<now, balanceVars, emissionVars, rewards, held, emitter, bad_debt, calls>>
    BY <2>1 DEF DeployPool, Factory!Deploy
  <2>3. now' \in Nat /\ now <= now' /\ calls' \in Nat
    BY <1>1, <2>2 DEF BackstopTypeOK
  <2> QED
    BY <1>1, <2>2, <2>3, OutsideKeepsInv DEF BackstopTypeOK
<1>3. CASE \E p \in Indebted : BadDebtChanges(p)
  <2>1. PICK p \in Indebted : BadDebtChanges(p)
    BY <1>3
  <2>2. /\ bad_debt' \subseteq Pools
        /\ UNCHANGED <<now, deployed, balanceVars, emissionVars, rewards, held, emitter, calls>>
    BY <1>1, <2>1, BackstopAssumption DEF BadDebtChanges, BackstopTypeOK
  <2>3. now' \in Nat /\ now <= now' /\ calls' \in Nat
    BY <1>1, <2>2 DEF BackstopTypeOK
  <2> QED
    BY <1>1, <2>2, <2>3, OutsideKeepsInv DEF BackstopTypeOK
<1>4. CASE \E dt \in Ticks : Tick(dt)
  <2>1. PICK dt \in Ticks : Tick(dt)
    BY <1>4
  <2>2. /\ now' = now + dt /\ dt \in Nat
        /\ UNCHANGED <<deployed, balanceVars, emissionVars, rewards, held, emitter, bad_debt, calls>>
    BY <2>1, BackstopAssumption DEF Tick
  <2>3. now' \in Nat /\ now <= now' /\ calls' \in Nat
    BY <1>1, <2>2 DEF BackstopTypeOK
  <2> QED
    BY <1>1, <2>2, <2>3, OutsideKeepsInv DEF BackstopTypeOK
<1> QED
  BY <1>2, <1>3, <1>4

-----------------------------------------------------------------------------
(* The invariant holds of the specification.                               *)

LEMMA InitKeepsInv == Init => BackstopInv
<1> SUFFICES ASSUME Init PROVE BackstopInv
  OBVIOUS
<1>0. IsFiniteSet(Pools) /\ IsFiniteSet(Users) /\ StartTime \in Nat /\ 0 \in Nat
  BY BackstopAssumption
<1>1. NoPoolBalance \in PoolBalance /\ NoUserBalance \in UserBalance
  <2>1. <<>> \in Queue
    BY DEF Queue
  <2> QED
    BY <2>1 DEF NoPoolBalance, NoUserBalance, PoolBalance, UserBalance, Queue
<1>2. BackstopTypeOK
  <2>1. rewards \in Rewards
    <3> DEFINE zeros == [p \in Pools |-> 0]
    <3>1. zeros \in [Pools -> Nat]
      OBVIOUS
    <3>2. rewards = [zone |-> {}, accrued |-> zeros, gulped_at |-> zeros,
                     last_distribution |-> 0, status |-> "Unset", backfill |-> 0]
      BY DEF Init
    <3> HIDE DEF zeros
    <3> QED
      BY <3>1, <3>2 DEF Rewards
  <2>2. held \in [lp : Nat, blnd : Nat, allowance : [Pools -> Nat]]
    BY DEF Init
  <2>3. emitter \in [last : Nat \cup {NoData}, dropped : BOOLEAN]
    BY DEF Init
  <2>4. /\ now \in Nat /\ calls \in Nat /\ deployed \subseteq Deployable /\ bad_debt \subseteq Pools
        /\ emissions \in [Pools -> EmissionData \cup {NoData}]
        /\ user_emissions \in [Pools -> [Users -> UserEmissionData \cup {NoData}]]
    BY <1>0 DEF Init
  <2>5. /\ pool_balance \in [Pools -> PoolBalance]
        /\ user_balance \in [Pools -> [Users -> UserBalance]]
    BY <1>1 DEF Init
  <2> QED
    BY <2>1, <2>2, <2>3, <2>4, <2>5 DEF BackstopTypeOK
<1>3. BackstopSharesAddUp
  <2>1. Queued(<<>>) = 0
    <3>1. <<>> \in Queue /\ Len(<<>>) = 0
      BY DEF Queue
    <3> DEFINE q == <<>>
    <3> HIDE DEF q
    <3>2. q \in Queue => Queued(q) = QueuedUpTo(q, Len(q)) /\ QueuedUpTo(q, 0) = 0
      BY QueuedSums
    <3> QED
      BY <3>1, <3>2 DEF q
  <2>2. ASSUME NEW p \in Pools
        PROVE  Accounts(pool_balance[p], user_balance[p])
    <3> DEFINE stakes == [u \in Users |-> UserStake(user_balance[p][u])]
               queues == [u \in Users |-> Queued(user_balance[p][u].q4w)]
    <3>1. \A u \in Users : stakes[u] = 0 /\ queues[u] = 0
      BY <2>1 DEF Init, NoUserBalance, UserStake
    <3>2. pool_balance[p].shares = 0 /\ pool_balance[p].q4w = 0
      BY DEF Init, NoPoolBalance
    <3> HIDE DEF stakes, queues
    <3>3. stakes \in [Users -> Nat] /\ queues \in [Users -> Nat]
      BY <3>1 DEF stakes, queues
    <3>4. SumFunction(stakes) = 0 /\ SumFunction(queues) = 0
      BY <1>0, <3>1, <3>3, SumFunctionZero
    <3> QED
      BY <3>2, <3>4 DEF Accounts, stakes, queues
  <2> QED
    BY <2>2, SharesAddUpIsAccounts
<1>4. DepositsBacked
  <2> DEFINE deposits == [p \in Pools |-> pool_balance[p].tokens]
  <2>1. \A p \in Pools : deposits[p] = 0
    BY DEF Init, NoPoolBalance
  <2>2. deposits \in [Pools -> Nat]
    BY <2>1
  <2> HIDE DEF deposits
  <2>3. SumFunction(deposits) = 0
    BY <1>0, <2>1, <2>2, SumFunctionZero
  <2>4. held.lp = 0
    BY DEF Init
  <2> QED
    BY <2>3, <2>4 DEF DepositsBacked, OfPools, deposits
<1>5. EmissionsInOrder
  BY DEF Init, EmissionsInOrder
<1>6. OnlyFactoryPools
  BY DEF Init, OnlyFactoryPools
<1> QED
  BY <1>2, <1>3, <1>4, <1>5, <1>6 DEF BackstopInv

LEMMA NextKeepsInv ==
    ASSUME BackstopInv, [Next]_backstopVars
    PROVE  BackstopInv'
<1>1. CASE \E u \in Users, p \in Pools : UserCall(u, p)
  <2>1. PICK u \in Users, p \in Pools : UserCall(u, p)
    BY <1>1
  <2>2. CASE \E n \in Deposits : Deposit(u, p, n)
    BY <2>2, DepositKeepsInv, BackstopAssumption
  <2>3. CASE \E n \in Queues : QueueWithdrawal(u, p, n)
    BY <2>3, QueueKeepsInv, BackstopAssumption
  <2>4. CASE \E n \in Queues : DequeueWithdrawal(u, p, n)
    BY <2>4, DequeueKeepsInv, BackstopAssumption
  <2>5. CASE \E n \in Withdrawals : Withdraw(u, p, n)
    BY <2>5, WithdrawKeepsInv, BackstopAssumption
  <2> QED
    BY <2>1, <2>2, <2>3, <2>4, <2>5 DEF UserCall
<1>2. CASE \E u \in Users, P \in SUBSET Pools, out \in LpAmounts : Claim(u, P, out)
  BY <1>2, ClaimKeepsInv, BackstopAssumption
<1>3. CASE \E p \in Pools : PoolCall(p) \/ PoolPays(p)
  <2>1. PICK p \in Pools : PoolCall(p) \/ PoolPays(p)
    BY <1>3
  <2>2. CASE \E n \in Draws : Draw(p, n)
    BY <2>2, DrawKeepsInv, BackstopAssumption
  <2>3. CASE \E n \in Donations : Donate(p, n)
    BY <2>3, DonateKeepsInv, BackstopAssumption
  <2>4. CASE GulpEmissions(p)
    BY <2>4, GulpKeepsInv
  <2>5. CASE PoolPays(p)
    BY <2>5, PoolPaysKeepsInv
  <2> QED
    BY <2>1, <2>2, <2>3, <2>4, <2>5 DEF PoolCall
<1>4. CASE RewardCall
  BY <1>4, ZoneKeepsInv, StartDistributionKeepsInv, DistributeKeepsInv, DropKeepsInv DEF RewardCall
<1>5. CASE EmitterSwitches \/ EmitterDistributes
  BY <1>5, EmitterKeepsInv
<1>6. CASE \/ \E p \in Deployable, args \in DeployArgs : DeployPool(p, args)
           \/ \E p \in Indebted : BadDebtChanges(p)
           \/ \E dt \in Ticks : Tick(dt)
  BY <1>6, EnvironmentKeepsInv
<1>7. CASE UNCHANGED backstopVars
  <2>1. UNCHANGED <<now, deployed, balanceVars, emissionVars, rewards, held, emitter, bad_debt, calls>>
    BY <1>7 DEF backstopVars, balanceVars, emissionVars
  <2>2. now' \in Nat /\ now <= now' /\ calls' \in Nat
    BY <2>1 DEF BackstopInv, BackstopTypeOK
  <2> QED
    BY <2>1, <2>2, OutsideKeepsInv DEF BackstopInv, BackstopTypeOK
<1> QED
  BY <1>1, <1>2, <1>3, <1>4, <1>5, <1>6, <1>7 DEF Next

\* In every reachable state of the backstop (backstop/src) the balances, the
\* queues, the contract's tokens, the clocks of the emissions and the factory's
\* pools agree as the inductive invariant says.
THEOREM BackstopInvariant == Spec => []BackstopInv
<1>1. Init => BackstopInv
  BY InitKeepsInv
<1>2. BackstopInv /\ [Next]_backstopVars => BackstopInv'
  BY NextKeepsInv
<1> QED
  BY <1>1, <1>2, PTL DEF Spec

\* Every value the contract stores has its type: no balance, queue, index or
\* accrual ever goes below zero, whatever is withdrawn, drawn or claimed.
THEOREM BackstopTypeCorrect == Spec => []BackstopTypeOK
<1>1. BackstopInv => BackstopTypeOK
  BY DEF BackstopInv
<1> QED
  BY <1>1, BackstopInvariant, PTL

\* The shares of a pool are those of its depositors and its queued shares are
\* those in their queues: deposit, queue_withdrawal, dequeue_withdrawal,
\* withdraw and claim keep the two ledgers of the contract in step.
THEOREM SharesAddUp == Spec => []BackstopSharesAddUp
<1>1. BackstopInv => BackstopSharesAddUp
  BY DEF BackstopInv
<1> QED
  BY <1>1, BackstopInvariant, PTL

\* The contract holds the LP tokens it owes its pools: withdraw and draw never
\* pay out of another pool's deposit, and a claim deposits what the AMM gave.
THEOREM DepositsAreBacked == Spec => []DepositsBacked
<1>1. BackstopInv => DepositsBacked
  BY DEF BackstopInv
<1> QED
  BY <1>1, BackstopInvariant, PTL

\* Only a pool of the factory ever has a deposit (require_is_from_pool_factory
\* asks it for an empty pool only).
THEOREM DepositsOnlyInPools == Spec => []OnlyPoolsHoldDeposits
<1>1. BackstopInv => OnlyPoolsHoldDeposits
  BY DEF BackstopInv, OnlyFactoryPools, OnlyPoolsHoldDeposits
<1> QED
  BY <1>1, BackstopInvariant, PTL

-----------------------------------------------------------------------------
(* What a step does to the stakes and the deposits.                        *)

StakesKept == \A p \in Pools, u \in Users :
    UserStake(user_balance'[p][u]) = UserStake(user_balance[p][u])

\* A user enters: n tokens in a pool, for the shares they convert to.
EntersPool(u, p, n, m) ==
    /\ n > 0 => m = ConvertToShares(pool_balance[p], n)
    /\ n = 0 => m = 0
    /\ pool_balance'[p].tokens = pool_balance[p].tokens + n
    /\ UserStake(user_balance'[p][u]) = UserStake(user_balance[p][u]) + m
    /\ \A v \in Users \ {u} : UserStake(user_balance'[p][v]) = UserStake(user_balance[p][v])

Enters(u) == \A p \in Pools : \E n, m \in Nat : EntersPool(u, p, n, m)

\* A user leaves one pool with n of its shares.
Leaves(u, p, n) ==
    LET paid == ConvertToTokens(pool_balance[p], n)
    IN /\ CanWithdrawShares(user_balance[p][u], n, now)
       /\ paid # 0 /\ paid <= pool_balance[p].tokens
       /\ pool_balance'[p].tokens = pool_balance[p].tokens - paid
       /\ UserStake(user_balance'[p][u]) = UserStake(user_balance[p][u]) - n
       /\ \A v \in Users \ {u} : UserStake(user_balance'[p][v]) = UserStake(user_balance[p][v])
       /\ \A q \in Pools \ {p} : /\ pool_balance'[q] = pool_balance[q]
                                 /\ user_balance'[q] = user_balance[q]

\* The tokens of one pool move, at most.
Shifts(p) ==
    /\ pool_balance' \in [Pools -> PoolBalance]
    /\ \A q \in Pools \ {p} : pool_balance'[q].tokens = pool_balance[q].tokens
    /\ StakesKept

Idles == (\A p \in Pools : pool_balance'[p].tokens = pool_balance[p].tokens) /\ StakesKept

LEMMA StateFunctions ==
    ASSUME BackstopInv
    PROVE  /\ pool_balance \in [Pools -> PoolBalance]
           /\ user_balance \in [Pools -> [Users -> UserBalance]]
           /\ \A p \in Pools, u \in Users :
                /\ pool_balance[p].tokens \in Nat /\ pool_balance[p].shares \in Nat
                /\ user_balance[p][u].shares \in Nat /\ Queued(user_balance[p][u].q4w) \in Nat
                /\ UserStake(user_balance[p][u]) \in Nat
  BY PoolParts, UserParts DEF BackstopInv, BackstopTypeOK

LEMMA DepositEnters ==
    ASSUME BackstopInv, NEW u \in Users, NEW p \in Pools, NEW n \in Nat, Deposit(u, p, n)
    PROVE  Enters(u)
<1> DEFINE minted == ConvertToShares(pool_balance[p], n)
           b == DepositInto(pool_balance[p], n, minted)
           ub == AddShares(user_balance[p][u], minted)
<1>0. /\ pool_balance[p] \in PoolBalance /\ user_balance[p][u] \in UserBalance /\ now \in Nat
  BY InvParts
<1>1. minted \in Nat /\ minted > 0
  BY <1>0, ConvertNat DEF Deposit
<1>2. /\ pool_balance' = [pool_balance EXCEPT ![p] = b]
      /\ user_balance' = [user_balance EXCEPT ![p][u] = ub]
  BY DEF Deposit
<1>3. n = 0 => minted = 0
  <2>1. ASSUME n = 0, pool_balance[p].tokens # 0
        PROVE  MulFloor(n, pool_balance[p].shares, pool_balance[p].tokens) = 0
    <3>1. /\ pool_balance[p].tokens \in Int /\ pool_balance[p].tokens > 0
          /\ pool_balance[p].shares \in Nat
      BY <1>0, <2>1, PoolParts
    <3>2. MulFloor(n, pool_balance[p].shares, pool_balance[p].tokens) = 0 \div pool_balance[p].tokens
      BY <2>1, <3>1 DEF MulFloor, FloorDiv
    <3> QED
      BY <3>1, <3>2, SMT
  <2> QED
    BY <2>1 DEF ConvertToShares
<1>4. b.tokens = pool_balance[p].tokens + n
  BY <1>0, <1>1, IntoPool
<1>5. ub.shares = user_balance[p][u].shares + minted /\ ub.q4w = user_balance[p][u].q4w
  BY <1>0, <1>1, UserOperations
<1>6. n > 0 => minted = ConvertToShares(pool_balance[p], n)
  OBVIOUS
<1> HIDE DEF b, ub, minted
<1>7. UserStake(ub) = UserStake(user_balance[p][u]) + minted
  BY <1>0, <1>1, <1>5, UserParts DEF UserStake
<1>8. EntersPool(u, p, n, minted)
  BY <1>2, <1>3, <1>4, <1>6, <1>7, StateFunctions DEF EntersPool
<1>9. ASSUME NEW q \in Pools, q # p
      PROVE  EntersPool(u, q, 0, 0)
  <2>1. pool_balance'[q] = pool_balance[q] /\ user_balance'[q] = user_balance[q]
    BY <1>2, <1>9, StateFunctions
  <2>2. /\ pool_balance[q].tokens = pool_balance[q].tokens + 0
        /\ UserStake(user_balance[q][u]) = UserStake(user_balance[q][u]) + 0
    BY StateFunctions
  <2> QED
    BY <2>1, <2>2 DEF EntersPool
<1> QED
  BY <1>1, <1>8, <1>9 DEF Enters

LEMMA ClaimEnters ==
    ASSUME BackstopInv, NEW u \in Users, NEW P \in SUBSET Pools, NEW out \in Nat, Claim(u, P, out)
    PROVE  Enters(u)
<1>1. /\ \A p \in P : emissions[p] # NoData
      /\ NothingClaimed(u, P) \/ ClaimDeposits(u, P, out)
  BY ClaimIs
<1>2. CASE NothingClaimed(u, P)
  <2>1. pool_balance' = pool_balance /\ user_balance' = user_balance
    BY <1>2 DEF NothingClaimed, balanceVars
  <2>2. ASSUME NEW p \in Pools
        PROVE  EntersPool(u, p, 0, 0)
    <3>1. /\ pool_balance[p].tokens = pool_balance[p].tokens + 0
          /\ UserStake(user_balance[p][u]) = UserStake(user_balance[p][u]) + 0
      BY StateFunctions
    <3> QED
      BY <2>1, <3>1 DEF EntersPool
  <2> QED
    BY <2>2 DEF Enters
<1>3. CASE ClaimDeposits(u, P, out)
  <2>1. ASSUME NEW p \in Pools
        PROVE  \E n, m \in Nat : EntersPool(u, p, n, m)
    <3>1. PICK n \in Nat, m \in Nat : ClaimChange(u, P, out, p, n, m)
      BY <1>1, <1>3, ClaimChanges
    <3>2. UserStake(user_balance'[p][u]) = UserStake(user_balance[p][u]) + m
      BY <3>1, StateFunctions DEF ClaimChange, UserStake
    <3> QED
      BY <3>1, <3>2 DEF ClaimChange, EntersPool
  <2> QED
    BY <2>1 DEF Enters
<1> QED
  BY <1>1, <1>2, <1>3

LEMMA QueueIdles ==
    ASSUME BackstopInv, NEW u \in Users, NEW p \in Pools, NEW n \in Nat,
           QueueWithdrawal(u, p, n) \/ DequeueWithdrawal(u, p, n)
    PROVE  Idles
<1>0. user_balance[p][u] \in UserBalance /\ now \in Nat /\ pool_balance[p] \in PoolBalance
  BY InvParts
<1>1. ASSUME NEW ub, user_balance' = [user_balance EXCEPT ![p][u] = ub],
             UserStake(ub) = UserStake(user_balance[p][u])
      PROVE  StakesKept
  BY <1>1, StateFunctions DEF StakesKept
<1>2. CASE QueueWithdrawal(u, p, n)
  <2> DEFINE ub == QueueShares(user_balance[p][u], n, now)
  <2>1. /\ n <= user_balance[p][u].shares
        /\ user_balance' = [user_balance EXCEPT ![p][u] = ub]
        /\ pool_balance' = [pool_balance EXCEPT ![p].q4w = @ + n]
    BY <1>2 DEF QueueWithdrawal, CanQueueShares
  <2>2. /\ ub.shares = user_balance[p][u].shares - n
        /\ Queued(ub.q4w) = Queued(user_balance[p][u].q4w) + n
    BY <1>0, <2>1, UserOperations
  <2> HIDE DEF ub
  <2>3. UserStake(ub) = UserStake(user_balance[p][u])
    BY <1>0, <2>2, UserParts DEF UserStake
  <2>4. StakesKept
    BY <1>1, <2>1, <2>3
  <2>5. \A q \in Pools : pool_balance'[q].tokens = pool_balance[q].tokens
    BY <2>1, StateFunctions DEF PoolBalance
  <2> QED
    BY <2>4, <2>5 DEF Idles
<1>3. CASE DequeueWithdrawal(u, p, n)
  <2> DEFINE taken == DequeueShares(user_balance[p][u], n)
             ub == AddShares(taken, n)
  <2>1. /\ CanServe(user_balance[p][u].q4w, n)
        /\ user_balance' = [user_balance EXCEPT ![p][u] = ub]
        /\ pool_balance' = [pool_balance EXCEPT ![p].q4w = @ - n]
    BY <1>3 DEF DequeueWithdrawal
  <2>2. /\ taken \in UserBalance /\ taken.shares = user_balance[p][u].shares
        /\ Queued(taken.q4w) = Queued(user_balance[p][u].q4w) - n
    BY <1>0, <2>1, UserOperations
  <2> HIDE DEF taken
  <2>3. ub.shares = taken.shares + n /\ ub.q4w = taken.q4w
    BY <1>0, <2>2, UserOperations
  <2> HIDE DEF ub
  <2>4. UserStake(ub) = UserStake(user_balance[p][u])
    BY <1>0, <2>2, <2>3, UserParts DEF UserStake
  <2>5. StakesKept
    BY <1>1, <2>1, <2>4
  <2>6. \A q \in Pools : pool_balance'[q].tokens = pool_balance[q].tokens
    BY <2>1, StateFunctions DEF PoolBalance
  <2> QED
    BY <2>5, <2>6 DEF Idles
<1> QED
  BY <1>2, <1>3

LEMMA WithdrawLeaves ==
    ASSUME BackstopInv, NEW u \in Users, NEW p \in Pools, NEW n \in Nat, Withdraw(u, p, n)
    PROVE  Leaves(u, p, n)
<1> DEFINE paid == ConvertToTokens(pool_balance[p], n)
           b == WithdrawFrom(pool_balance[p], paid, n)
           ub == WithdrawShares(user_balance[p][u], n)
<1>0. user_balance[p][u] \in UserBalance /\ now \in Nat /\ pool_balance[p] \in PoolBalance
  BY InvParts
<1>1. paid \in Nat
  BY <1>0, ConvertNat
<1>2. /\ CanWithdrawShares(user_balance[p][u], n, now) /\ CanServe(user_balance[p][u].q4w, n)
      /\ paid # 0 /\ CanWithdrawFrom(pool_balance[p], paid, n)
      /\ pool_balance' = [pool_balance EXCEPT ![p] = b]
      /\ user_balance' = [user_balance EXCEPT ![p][u] = ub]
  BY DEF Withdraw, CanWithdrawShares
<1>3. b.tokens = pool_balance[p].tokens - paid
  <2> HIDE DEF paid
  <2> QED
    BY <1>0, <1>1, <1>2, OutOfPool
<1>4. ub.shares = user_balance[p][u].shares /\ Queued(ub.q4w) = Queued(user_balance[p][u].q4w) - n
  BY <1>0, <1>2, UserOperations
<1>5. paid = ConvertToTokens(pool_balance[p], n) /\ paid <= pool_balance[p].tokens
  BY <1>2 DEF CanWithdrawFrom
<1> HIDE DEF paid, b, ub
<1>6. UserStake(ub) = UserStake(user_balance[p][u]) - n
  BY <1>0, <1>4, UserParts DEF UserStake
<1>7. /\ pool_balance'[p] = b /\ user_balance'[p][u] = ub
      /\ \A v \in Users \ {u} : user_balance'[p][v] = user_balance[p][v]
      /\ \A q \in Pools \ {p} : pool_balance'[q] = pool_balance[q] /\ user_balance'[q] = user_balance[q]
  BY <1>2, StateFunctions
<1> QED
  BY <1>2, <1>3, <1>5, <1>6, <1>7 DEF Leaves

LEMMA PoolMoves ==
    ASSUME BackstopInv, BackstopInv', NEW p \in Pools, NEW n \in Nat, Draw(p, n) \/ Donate(p, n)
    PROVE  Shifts(p)
<1>1. /\ user_balance' = user_balance
      /\ \A q \in Pools \ {p} : pool_balance'[q] = pool_balance[q]
  BY StateFunctions DEF Draw, Donate
<1>2. pool_balance' \in [Pools -> PoolBalance]
  BY DEF BackstopInv, BackstopTypeOK
<1> QED
  BY <1>1, <1>2 DEF Shifts, StakesKept

\* Every step is one of the four.
LEMMA StepKinds ==
    ASSUME BackstopInv, BackstopInv', [Next]_backstopVars
    PROVE  \/ \E u \in Users : Enters(u)
           \/ \E u \in Users, p \in Pools, n \in Nat : Leaves(u, p, n)
           \/ \E p \in Pools : Shifts(p)
           \/ Idles
<1>0. ASSUME UNCHANGED balanceVars PROVE Idles
  BY <1>0 DEF balanceVars, Idles, StakesKept
<1>1. CASE \E u \in Users, p \in Pools : UserCall(u, p)
  <2>1. PICK u \in Users, p \in Pools : UserCall(u, p)
    BY <1>1
  <2>2. CASE \E n \in Deposits : Deposit(u, p, n)
    BY <2>2, DepositEnters, BackstopAssumption
  <2>3. CASE \E n \in Queues : QueueWithdrawal(u, p, n)
    BY <2>3, QueueIdles, BackstopAssumption
  <2>4. CASE \E n \in Queues : DequeueWithdrawal(u, p, n)
    BY <2>4, QueueIdles, BackstopAssumption
  <2>5. CASE \E n \in Withdrawals : Withdraw(u, p, n)
    BY <2>5, WithdrawLeaves, BackstopAssumption
  <2> QED
    BY <2>1, <2>2, <2>3, <2>4, <2>5 DEF UserCall
<1>2. CASE \E u \in Users, P \in SUBSET Pools, out \in LpAmounts : Claim(u, P, out)
  BY <1>2, ClaimEnters, BackstopAssumption
<1>3. CASE \E p \in Pools : PoolCall(p) \/ PoolPays(p)
  <2>1. PICK p \in Pools : PoolCall(p) \/ PoolPays(p)
    BY <1>3
  <2>2. CASE \E n \in Draws : Draw(p, n)
    BY <2>2, PoolMoves, BackstopAssumption
  <2>3. CASE \E n \in Donations : Donate(p, n)
    BY <2>3, PoolMoves, BackstopAssumption
  <2>4. CASE GulpEmissions(p) \/ PoolPays(p)
    BY <1>0, <2>4 DEF GulpEmissions, PoolPays
  <2> QED
    BY <2>1, <2>2, <2>3, <2>4 DEF PoolCall
<1>4. CASE RewardCall
  BY <1>0, <1>4 DEF RewardCall, AddReward, RemoveReward, SwapReward, StartDistribution,
                    Distribute, Drop
<1>5. CASE \/ EmitterSwitches \/ EmitterDistributes
           \/ \E p \in Deployable, args \in DeployArgs : DeployPool(p, args)
           \/ \E p \in Indebted : BadDebtChanges(p)
           \/ \E dt \in Ticks : Tick(dt)
  BY <1>0, <1>5 DEF EmitterSwitches, EmitterDistributes, DeployPool, BadDebtChanges, Tick
<1>6. CASE UNCHANGED backstopVars
  BY <1>0, <1>6 DEF backstopVars, balanceVars
<1> QED
  BY <1>1, <1>2, <1>3, <1>4, <1>5, <1>6 DEF Next

-----------------------------------------------------------------------------
(* The vault.                                                              *)

LEMMA StakeIs == \A p, u : Stake(p, u) = UserStake(user_balance[p][u])
  BY DEF Stake, UserStake

LEMMA StakeIsNext == \A p, u : Stake(p, u)' = UserStake(user_balance'[p][u])
  BY DEF Stake, UserStake

\* The sum the vault takes is the sum of this module.
LEMMA SameSum ==
    ASSUME NEW f
    PROVE  AbstractVault!SumFunction(f) = SumFunction(f)
<1>1. AbstractVault!SumFunction(f) = (CHOOSE g : SumsOn(f, g, DOMAIN f))[DOMAIN f]
  BY DEF AbstractVault!SumFunction, AbstractVault!SumFunctionOnSet,
         AbstractVault!FoldFunctionOnSet, AbstractVault!MapThenFoldSet, SumsOn, SumStep, Pick
<1>2. SumFunction(f) = (CHOOSE g : SumsOn(f, g, DOMAIN f))[DOMAIN f]
  BY SumIsChoice, SumFunctionIsSum
<1> QED
  BY <1>1, <1>2

\* The total of the vault is the number of shares of the pool.
LEMMA TotalIsShares ==
    ASSUME BackstopInv, NEW p \in Pools
    PROVE  AbstractVault!Total(p) = pool_balance[p].shares
<1>1. pool_balance[p].shares = SumFunction([u \in Users |-> Stake(p, u)])
  BY DEF BackstopInv, BackstopSharesAddUp
<1> DEFINE stakes == [q \in Pools |-> [u \in Users |-> Stake(q, u)]]
<1>2. AbstractVault!Total(p) = SumFunction(stakes[p])
  BY SameSum DEF AbstractVault!Total
<1>3. stakes[p] = [u \in Users |-> Stake(p, u)]
  OBVIOUS
<1> HIDE DEF stakes
<1>4. SumFunction(stakes[p]) = SumFunction([u \in Users |-> Stake(p, u)])
  BY <1>3
<1> QED
  BY <1>1, <1>2, <1>4

LEMMA EntryIsFair ==
    ASSUME NEW b \in PoolBalance, NEW n \in Nat, NEW m \in Nat,
           n > 0 => m = ConvertToShares(b, n), n = 0 => m = 0
    PROVE  AbstractVault!FairEntry(b.shares, b.tokens, n, m)
<1>0. b.shares \in Nat /\ b.tokens \in Nat
  BY PoolParts
<1>1. CASE n = 0
  <2>1. m * b.tokens = 0 /\ n * b.shares = 0
    BY <1>0, <1>1, SMT
  <2> QED
    BY <1>0, <1>1, <2>1 DEF AbstractVault!FairEntry
<1>2. CASE n > 0 /\ b.shares = 0
  BY <1>0, <1>2 DEF AbstractVault!FairEntry, ConvertToShares
<1>3. CASE n > 0 /\ b.shares # 0 /\ b.tokens = 0
  <2>1. m = 0
    BY <1>3 DEF ConvertToShares
  <2>2. m * b.tokens = 0 /\ n * b.shares >= 0
    BY <1>0, <2>1, SMT
  <2> QED
    BY <1>0, <1>3, <2>1, <2>2 DEF AbstractVault!FairEntry
<1>4. CASE n > 0 /\ b.shares # 0 /\ b.tokens # 0
  <2>1. n * b.shares \in Nat /\ b.tokens \in Int /\ b.tokens > 0
    BY <1>0, <1>4, ProductNat
  <2>2. m = FloorDiv(n * b.shares, b.tokens)
    BY <1>4 DEF ConvertToShares, MulFloor
  <2>3. b.tokens * m <= n * b.shares
    <3> DEFINE x == n * b.shares
    <3>1. b.tokens * FloorDiv(x, b.tokens) <= x
      <4>1. x \in Nat
        BY <2>1
      <4> HIDE DEF x
      <4> QED
        BY <2>1, <4>1, FloorDivBounds
    <3> QED
      BY <2>2, <3>1
  <2>4. b.tokens * m = m * b.tokens
    BY <1>0, SMT
  <2> QED
    BY <1>0, <1>4, <2>3, <2>4 DEF AbstractVault!FairEntry
<1> QED
  BY <1>1, <1>2, <1>3, <1>4

LEMMA ExitIsFair ==
    ASSUME NEW b \in PoolBalance, NEW n \in Nat, NEW paid, paid = ConvertToTokens(b, n),
           paid # 0, paid <= b.tokens
    PROVE  AbstractVault!FairExit(b.shares, b.tokens, paid, n)
<1>0. b.shares \in Nat /\ b.tokens \in Nat /\ paid \in Nat
  BY PoolParts, ConvertNat
<1>1. b.shares # 0
  BY DEF ConvertToTokens
<1>2. CASE n = b.shares
  <2>1. paid = b.tokens
    BY <1>1, <1>2 DEF ConvertToTokens
  <2>2. paid * b.shares = n * b.tokens
    BY <1>0, <1>2, <2>1, SMT
  <2>3. paid * b.shares <= n * b.tokens
    BY <1>0, <2>2, ProductNat
  <2> QED
    BY <1>0, <1>1, <1>2, <2>3 DEF AbstractVault!FairExit
<1>3. CASE n # b.shares
  <2>1. n * b.tokens \in Nat /\ b.shares \in Int /\ b.shares > 0
    BY <1>0, <1>1, ProductNat
  <2>2. paid = FloorDiv(n * b.tokens, b.shares)
    BY <1>1, <1>3 DEF ConvertToTokens, MulFloor
  <2>3. b.shares * paid <= n * b.tokens
    <3> DEFINE x == n * b.tokens
    <3>1. b.shares * FloorDiv(x, b.shares) <= x
      <4>1. x \in Nat
        BY <2>1
      <4> HIDE DEF x
      <4> QED
        BY <2>1, <4>1, FloorDivBounds
    <3> QED
      BY <2>2, <3>1
  <2>4. paid * b.shares <= n * b.tokens
    <3>1. b.shares * paid = paid * b.shares
      BY <1>0, SMT
    <3> QED
      BY <2>3, <3>1
  <2>5. n > 0
    <3>1. ASSUME n = 0 PROVE FALSE
      <4>1. n * b.tokens = 0
        BY <1>0, <3>1, SMT
      <4>2. paid * b.shares > 0
        BY <1>0, <1>1, SMT
      <4> QED
        BY <1>0, <2>4, <4>1, <4>2, ProductNat
    <3> QED
      BY <3>1
  <2> QED
    BY <1>0, <2>4, <2>5 DEF AbstractVault!FairExit
<1> QED
  BY <1>2, <1>3

\* The vault's variables, one by one.
LEMMA VaultParts ==
    ASSUME BackstopInv
    PROVE  \A p \in Pools :
             /\ [q \in Pools |-> pool_balance[q].tokens][p] = pool_balance[p].tokens
             /\ \A u \in Users :
                  [q \in Pools |-> [v \in Users |-> Stake(q, v)]][p][u] = UserStake(user_balance[p][u])
  BY StakeIs

LEMMA EntersJoins ==
    ASSUME BackstopInv, NEW u \in Users, Enters(u)
    PROVE  AbstractVault!Join(u, Pools)
<1>1. ASSUME NEW p \in Pools
      PROVE  /\ AbstractVault!FairEntry(AbstractVault!Total(p), pool_balance[p].tokens,
                  pool_balance'[p].tokens - pool_balance[p].tokens,
                  Stake(p, u)' - Stake(p, u))
             /\ \A v \in Users \ {u} : Stake(p, v)' = Stake(p, v)
  <2>1. PICK n \in Nat, m \in Nat : EntersPool(u, p, n, m)
    BY DEF Enters
  <2>2. /\ pool_balance'[p].tokens - pool_balance[p].tokens = n
        /\ Stake(p, u)' - Stake(p, u) = m
        /\ \A v \in Users \ {u} : Stake(p, v)' = Stake(p, v)
    BY <2>1, StakeIs, StakeIsNext, StateFunctions DEF EntersPool
  <2>3. AbstractVault!FairEntry(pool_balance[p].shares, pool_balance[p].tokens, n, m)
    BY <2>1, InvParts, EntryIsFair DEF EntersPool
  <2> QED
    BY <2>2, <2>3, TotalIsShares
<1> QED
  BY <1>1 DEF AbstractVault!Join, AbstractVault!OnlyStakeOf

LEMMA LeavesLeaves ==
    ASSUME BackstopInv, NEW u \in Users, NEW p \in Pools, NEW n \in Nat, Leaves(u, p, n)
    PROVE  AbstractVault!Leave(u, p)
<1> DEFINE paid == ConvertToTokens(pool_balance[p], n)
<1>1. /\ paid # 0 /\ paid <= pool_balance[p].tokens
      /\ pool_balance'[p].tokens = pool_balance[p].tokens - paid
      /\ UserStake(user_balance'[p][u]) = UserStake(user_balance[p][u]) - n
      /\ \A v \in Users \ {u} : UserStake(user_balance'[p][v]) = UserStake(user_balance[p][v])
      /\ \A q \in Pools \ {p} : pool_balance'[q] = pool_balance[q] /\ user_balance'[q] = user_balance[q]
  BY DEF Leaves
<1>2. paid \in Nat /\ AbstractVault!FairExit(pool_balance[p].shares, pool_balance[p].tokens, paid, n)
  BY <1>1, InvParts, ConvertNat, ExitIsFair
<1> HIDE DEF paid
<1>3. pool_balance[p].tokens - pool_balance'[p].tokens = paid /\ Stake(p, u) - Stake(p, u)' = n
  BY <1>1, <1>2, StakeIs, StakeIsNext, StateFunctions
<1>4. \A v \in Users \ {u} : Stake(p, v)' = Stake(p, v)
  BY <1>1, StakeIs, StakeIsNext
<1>5. \A q \in Pools \ {p} : /\ pool_balance'[q].tokens = pool_balance[q].tokens
                             /\ \A v \in Users : Stake(q, v)' = Stake(q, v)
  BY <1>1, StakeIs, StakeIsNext
<1>6. AbstractVault!FairExit(AbstractVault!Total(p), pool_balance[p].tokens,
        pool_balance[p].tokens - pool_balance'[p].tokens, Stake(p, u) - Stake(p, u)')
  BY <1>2, <1>3, TotalIsShares
<1> QED
  BY <1>4, <1>5, <1>6 DEF AbstractVault!Leave, AbstractVault!OnlyStakeOf

LEMMA StepOfVault ==
    ASSUME BackstopInv, BackstopInv', [Next]_backstopVars
    PROVE  [AbstractVault!Next]_(AbstractVault!vars)
<1>1. CASE \E u \in Users : Enters(u)
  <2>1. Pools \in SUBSET Pools
    OBVIOUS
  <2> QED
    BY <1>1, <2>1, EntersJoins DEF AbstractVault!Next
<1>2. CASE \E u \in Users, p \in Pools, n \in Nat : Leaves(u, p, n)
  BY <1>2, LeavesLeaves DEF AbstractVault!Next
<1>3. CASE \E p \in Pools : Shifts(p)
  <2>1. PICK p \in Pools : Shifts(p)
    BY <1>3
  <2>2. pool_balance'[p].tokens >= 0
    BY <2>1, PoolParts DEF Shifts
  <2>3. \A q \in Pools \ {p} : pool_balance'[q].tokens = pool_balance[q].tokens
    BY <2>1 DEF Shifts
  <2>4. \A q \in Pools, u \in Users : Stake(q, u)' = Stake(q, u)
    BY <2>1, StakeIs, StakeIsNext DEF Shifts, StakesKept
  <2>5. AbstractVault!DrawOrDonate(p)
    BY <2>2, <2>3, <2>4 DEF AbstractVault!DrawOrDonate
  <2> QED
    BY <2>5 DEF AbstractVault!Next
<1>4. CASE Idles
  <2>1. \A q \in Pools, u \in Users : Stake(q, u)' = Stake(q, u)
    BY <1>4, StakeIs, StakeIsNext DEF Idles, StakesKept
  <2> QED
    BY <1>4, <2>1 DEF Idles, AbstractVault!vars
<1> QED
  BY <1>1, <1>2, <1>3, <1>4, StepKinds

LEMMA VaultInit ==
    ASSUME Init
    PROVE  AbstractVault!Init
<1>1. \A p \in Pools : pool_balance[p].tokens = 0
  BY DEF Init, NoPoolBalance
<1>2. ASSUME NEW p \in Pools, NEW u \in Users
      PROVE  Stake(p, u) = 0
  <2>1. BackstopInv
    BY InitKeepsInv
  <2>2. pool_balance[p].shares = 0
    BY DEF Init, NoPoolBalance
  <2>3. UserStake(user_balance[p][u]) <= 0 /\ UserStake(user_balance[p][u]) \in Nat
    BY <2>1, <2>2, InvParts, AccountsBound, StateFunctions
  <2> QED
    BY <2>3, StakeIs
<1> QED
  BY <1>1, <1>2 DEF AbstractVault!Init

\* The backstop is a vault per pool (Vault.tla): no deposit, claim, withdrawal,
\* queueing or dequeueing of pool.rs and user.rs changes the value of another
\* depositor's share in the pool by its rounding, and only a draw lowers it.
THEOREM BackstopIsVault == Spec => ImplementsVault
<1>1. Init => AbstractVault!Init
  BY VaultInit
<1>2. BackstopInv /\ BackstopInv' /\ [Next]_backstopVars => [AbstractVault!Next]_(AbstractVault!vars)
  BY StepOfVault
<1> QED
  BY <1>1, <1>2, BackstopInvariant, PTL DEF Spec, ImplementsVault, AbstractVault!Spec

\* Each step of the contract, whatever came before it, is a step of the vault.
THEOREM EveryStepOfVault == Spec => VaultSteps
<1>1. BackstopInv /\ BackstopInv' /\ [Next]_backstopVars => [AbstractVault!Next]_(AbstractVault!vars)
  BY StepOfVault
<1> QED
  BY <1>1, BackstopInvariant, PTL DEF Spec, VaultSteps

\* A stake shrinks by what is unlocked at most: neither partial withdrawals nor
\* dequeue_shares_for_withdrawal from the other end of the queue let a share out
\* before its Q4W_LOCK_TIME.
THEOREM LocksHold == Spec => NoEarlyExit
<1> DEFINE Held == \A p \in Pools, u \in Users :
                     Stake(p, u)' < Stake(p, u) =>
                       Stake(p, u) - Stake(p, u)' <= Unlocked(user_balance[p][u].q4w)
<1>1. ASSUME BackstopInv, BackstopInv', [Next]_backstopVars
      PROVE  Held
  <2> SUFFICES ASSUME NEW p \in Pools, NEW u \in Users, Stake(p, u)' < Stake(p, u)
               PROVE  Stake(p, u) - Stake(p, u)' <= Unlocked(user_balance[p][u].q4w)
    OBVIOUS
  <2>0. /\ Stake(p, u) = UserStake(user_balance[p][u]) /\ UserStake(user_balance[p][u]) \in Nat
        /\ Stake(p, u)' = UserStake(user_balance'[p][u])
    BY <1>1, StakeIs, StakeIsNext, StateFunctions
  <2>1. ASSUME NEW v \in Users, Enters(v) PROVE FALSE
    <3>1. PICK n \in Nat, m \in Nat : EntersPool(v, p, n, m)
      BY <2>1 DEF Enters
    <3> QED
      BY <2>0, <3>1 DEF EntersPool
  <2>2. ASSUME NEW v \in Users, NEW q \in Pools, NEW n \in Nat, Leaves(v, q, n)
        PROVE  Stake(p, u) - Stake(p, u)' <= Unlocked(user_balance[p][u].q4w)
    <3>1. /\ CanWithdrawShares(user_balance[q][v], n, now)
          /\ UserStake(user_balance'[q][v]) = UserStake(user_balance[q][v]) - n
          /\ \A w \in Users \ {v} : UserStake(user_balance'[q][w]) = UserStake(user_balance[q][w])
          /\ \A r \in Pools \ {q} : user_balance'[r] = user_balance[r]
      BY <2>2 DEF Leaves
    <3>2. p = q /\ u = v
      BY <2>0, <3>1
    <3>3. user_balance[p][u].q4w \in Queue
      <4>1. user_balance[p][u] \in UserBalance
        BY <1>1, InvParts
      <4> QED
        BY <4>1, UserParts
    <3>4. n <= Unlocked(user_balance[p][u].q4w)
      BY <3>1, <3>2, <3>3, ServedWasUnlocked DEF CanWithdrawShares
    <3>5. Stake(p, u) - Stake(p, u)' = n
      BY <2>0, <3>1, <3>2
    <3> QED
      BY <3>4, <3>5
  <2>3. ASSUME (\E q \in Pools : Shifts(q)) \/ Idles PROVE FALSE
    <3>1. StakesKept
      BY <2>3 DEF Shifts, Idles
    <3> QED
      BY <2>0, <3>1 DEF StakesKept
  <2> QED
    BY <1>1, <2>1, <2>2, <2>3, StepKinds
<1>2. BackstopInv /\ BackstopInv' /\ [Next]_backstopVars => [Held]_backstopVars
  BY <1>1
<1> QED
  BY <1>2, BackstopInvariant, PTL DEF Spec, NoEarlyExit

-----------------------------------------------------------------------------
(* The backstop's emissions.                                               *)

-----------------------------------------------------------------------------
(* What is owed on behalf of one pool, not rounded.                        *)

IndexOf(d) == IF d = NoData THEN 0 ELSE d.index

\* To a user with entry ue and n shares that are not queued, at index i.
Entitled(ue, i, n) ==
    IF ue = NoData THEN n * i ELSE Scalar14 * ue.accrued + n * (i - ue.index)

Entitlements(d, ues, ubs) == [u \in Users |-> Entitled(ues[u], IndexOf(d), ubs[u].shares)]

\* What the stream has still to give.
Streaming(d) ==
    IF d # NoData /\ d.expiration > d.last_time
    THEN (d.eps * (d.expiration - d.last_time)) * Scalar7 ELSE 0

EntitledBy(d, ues, ubs) == Streaming(d) + SumFunction(Entitlements(d, ues, ubs))

\* The entries of a pool's users fit the pool's emissions d.
Fits(d, ues) ==
    \A u \in Users : ues[u] # NoData => d # NoData /\ ues[u].index <= d.index

LEMMA EntitledNat ==
    ASSUME NEW ue \in UserEmissionData \cup {NoData}, NEW i \in Nat, NEW n \in Nat,
           ue # NoData => ue.index <= i
    PROVE  Entitled(ue, i, n) \in Nat
<1>1. CASE ue = NoData
  BY <1>1, ProductNat DEF Entitled
<1>2. CASE ue # NoData
  <2>1. ue.index \in Nat /\ ue.accrued \in Nat
    BY <1>2, UserEmissionParts
  <2>2. i - ue.index \in Nat
    BY <1>2, <2>1
  <2> DEFINE x == Scalar14 * ue.accrued
             y == n * (i - ue.index)
  <2>3. x \in Nat /\ y \in Nat
    BY <2>1, <2>2, ScalarsPositive, ProductNat
  <2>4. Entitled(ue, i, n) = x + y
    BY <1>2 DEF Entitled
  <2> HIDE DEF x, y
  <2> QED
    BY <2>3, <2>4
<1> QED
  BY <1>1, <1>2

\* What is paid is no more than the entitlement.
LEMMA OwedFits ==
    ASSUME NEW d \in EmissionData, NEW ue \in UserEmissionData \cup {NoData},
           ue # NoData => ue.index <= d.index, NEW n \in Nat
    PROVE  Scalar14 * Owed(d, ue, n) <= Entitled(ue, d.index, n)
<1>0. d.index \in Nat /\ Scalar14 \in Int /\ Scalar14 > 0
  BY EmissionParts, ScalarsPositive
<1>1. ASSUME NEW i \in Nat
      PROVE  /\ Scalar14 * MulFloor(n, i, Scalar14) <= n * i
             /\ MulFloor(n, i, Scalar14) \in Nat /\ n * i \in Nat
  <2> DEFINE x == n * i
  <2>1. x \in Nat
    BY ProductNat
  <2>2. MulFloor(n, i, Scalar14) = FloorDiv(x, Scalar14)
    BY DEF MulFloor
  <2> HIDE DEF x
  <2>3. Scalar14 * FloorDiv(x, Scalar14) <= x /\ FloorDiv(x, Scalar14) \in Nat
    BY <1>0, <2>1, FloorDivBounds, FloorDivNat
  <2> QED
    BY <2>1, <2>2, <2>3 DEF x
<1>2. CASE ue = NoData
  BY <1>0, <1>1, <1>2 DEF Owed, Entitled
<1>3. CASE ue # NoData
  <2>1. ue.index \in Nat /\ ue.accrued \in Nat
    BY <1>3, UserEmissionParts
  <2> DEFINE i == d.index - ue.index
             a == ue.accrued
             f == MulFloor(n, i, Scalar14)
             x == n * i
  <2>2. i \in Nat
    BY <1>0, <1>3, <2>1
  <2>3. Owed(d, ue, n) = a + f /\ Entitled(ue, d.index, n) = Scalar14 * a + x
    BY <1>3 DEF Owed, Entitled
  <2>4. a \in Nat
    BY <2>1
  <2> HIDE DEF i, a
  <2>5. Scalar14 * f <= x /\ f \in Nat /\ x \in Nat
    BY <1>1, <2>2
  <2> HIDE DEF f, x
  <2>6. Scalar14 * (a + f) = Scalar14 * a + Scalar14 * f
    BY <1>0, <2>4, <2>5, SMT
  <2>7. Scalar14 * a \in Nat /\ Scalar14 * f \in Nat
    BY <2>4, <2>5, ScalarsPositive, ProductNat
  <2> QED
    BY <2>3, <2>5, <2>6, <2>7
<1> QED
  BY <1>2, <1>3

\* Settled, with or without a claim, a user is entitled to what was written down.
LEMMA SettledFits ==
    ASSUME NEW d \in EmissionData, NEW ue \in UserEmissionData \cup {NoData},
           ue # NoData => ue.index <= d.index, NEW n \in Nat, NEW m \in Nat
    PROVE  /\ Entitled(UpdateUser(d, ue, n), d.index, m) <= Entitled(ue, d.index, n)
           /\ Scalar14 * Owed(d, ue, n) + Entitled(ClaimUser(d), d.index, m)
                <= Entitled(ue, d.index, n)
<1>0. d.index \in Nat /\ Scalar14 \in Nat /\ Owed(d, ue, n) \in Nat
  BY EmissionParts, ScalarsPositive, OwedNat
<1> DEFINE owed == Owed(d, ue, n)
           i == d.index
<1>1. UpdateUser(d, ue, n) = [index |-> i, accrued |-> owed] /\ ClaimUser(d) = [index |-> i, accrued |-> 0]
  BY DEF UpdateUser, ClaimUser
<1>2. i \in Nat /\ owed \in Nat
  BY <1>0
<1>3. Scalar14 * owed <= Entitled(ue, i, n)
  BY OwedFits
<1> HIDE DEF owed, i
<1>4. [index |-> i, accrued |-> owed] \in UserEmissionData
      /\ [index |-> i, accrued |-> 0] \in UserEmissionData
  BY <1>2 DEF UserEmissionData
<1>5. /\ Entitled([index |-> i, accrued |-> owed], i, m) = Scalar14 * owed + m * (i - i)
      /\ Entitled([index |-> i, accrued |-> 0], i, m) = Scalar14 * 0 + m * (i - i)
  BY <1>4, UserEmissionParts DEF Entitled
<1>6. m * (i - i) = 0 /\ Scalar14 * 0 = 0
  BY <1>0, <1>2, SMT
<1>7. Scalar14 * owed \in Nat
  BY <1>0, <1>2, ProductNat
<1>8. /\ Entitled(UpdateUser(d, ue, n), i, m) = Scalar14 * owed
      /\ Scalar14 * owed + Entitled(ClaimUser(d), i, m) = Scalar14 * owed
  BY <1>1, <1>5, <1>6, <1>7
<1> QED
  BY <1>3, <1>8 DEF owed, i

LEMMA EntitlementsNat ==
    ASSUME NEW d \in EmissionData \cup {NoData},
           NEW ues \in [Users -> UserEmissionData \cup {NoData}], Fits(d, ues),
           NEW ubs \in [Users -> UserBalance]
    PROVE  /\ Entitlements(d, ues, ubs) \in [Users -> Nat]
           /\ SumFunction(Entitlements(d, ues, ubs)) \in Nat
           /\ Streaming(d) \in Nat
           /\ EntitledBy(d, ues, ubs) \in Nat
           /\ IndexOf(d) \in Nat
<1>1. IndexOf(d) \in Nat
  BY EmissionParts DEF IndexOf
<1>2. ASSUME NEW u \in Users
      PROVE  Entitled(ues[u], IndexOf(d), ubs[u].shares) \in Nat
  <2>1. ubs[u].shares \in Nat /\ ues[u] \in UserEmissionData \cup {NoData}
    BY UserParts
  <2>2. ues[u] # NoData => ues[u].index <= IndexOf(d)
    BY DEF Fits, IndexOf
  <2> QED
    BY <1>1, <2>1, <2>2, EntitledNat
<1>3. Entitlements(d, ues, ubs) \in [Users -> Nat]
  BY <1>2 DEF Entitlements
<1>4. SumFunction(Entitlements(d, ues, ubs)) \in Nat
  BY <1>3, BackstopAssumption, SumFunctionNat
<1>5. Streaming(d) \in Nat
  <2>1. CASE d # NoData /\ d.expiration > d.last_time
    <3>1. d.eps \in Nat /\ d.expiration \in Nat /\ d.last_time \in Nat
      BY <2>1, EmissionParts
    <3>2. d.expiration - d.last_time \in Nat
      BY <2>1, <3>1
    <3>3. d.eps * (d.expiration - d.last_time) \in Nat
      BY <3>1, <3>2, ProductNat
    <3>4. (d.eps * (d.expiration - d.last_time)) * Scalar7 \in Nat
      BY <3>3, ScalarsPositive, ProductNat
    <3> QED
      BY <2>1, <3>4 DEF Streaming
  <2>2. CASE ~(d # NoData /\ d.expiration > d.last_time)
    BY <2>2 DEF Streaming
  <2> QED
    BY <2>1, <2>2
<1> QED
  BY <1>1, <1>3, <1>4, <1>5 DEF EntitledBy

-----------------------------------------------------------------------------
(* Accruing: the stream pays for the growth of the index.                  *)

\* One unit of index is one unit for each share.
LEMMA EntitledGrows ==
    ASSUME NEW ue \in UserEmissionData \cup {NoData}, NEW i \in Nat, NEW g \in Nat, NEW n \in Nat
    PROVE  Entitled(ue, i + g, n) = Entitled(ue, i, n) + g * n
<1>1. CASE ue = NoData
  <2>1. n * (i + g) = n * i + g * n
    BY SMT
  <2> QED
    BY <1>1, <2>1 DEF Entitled
<1>2. CASE ue # NoData
  <2> DEFINE j == ue.index
             x == Scalar14 * ue.accrued
  <2>1. j \in Nat /\ x \in Nat
    BY <1>2, UserEmissionParts, ScalarsPositive, ProductNat
  <2>2. Entitled(ue, i + g, n) = x + n * ((i + g) - j) /\ Entitled(ue, i, n) = x + n * (i - j)
    BY <1>2 DEF Entitled
  <2> HIDE DEF j, x
  <2>3. n * ((i + g) - j) = n * (i - j) + g * n
    BY <2>1, SMT
  <2>4. n * (i - j) \in Int /\ g * n \in Int
    BY <2>1, ProductInt
  <2> QED
    BY <2>1, <2>2, <2>3, <2>4
<1> QED
  BY <1>1, <1>2

\* The growth of the index, over the shares it is paid to, is what the stream
\* gives in the time since.
LEMMA GrowthIsPaid ==
    ASSUME NEW d \in EmissionData, NEW b \in PoolBalance, b.q4w <= b.shares,
           NEW t \in Nat, d.last_time <= t, Accrues(d, b, t)
    PROVE  /\ IndexGrowth(d, b, t) \in Nat
           /\ IndexGrowth(d, b, t) * (b.shares - b.q4w) \in Nat
           /\ IndexGrowth(d, b, t) * (b.shares - b.q4w) + Streaming(Accrue(d, b, t))
                <= Streaming(d)
<1> DEFINE until == IF t > d.expiration THEN d.expiration ELSE t
           m == b.shares - b.q4w
           g == IndexGrowth(d, b, t)
           eps == d.eps
           last == d.last_time
           end == d.expiration
           spent == (until - last) * eps
           rest == IF end > t THEN end - t ELSE 0
<1>1. /\ eps \in Nat /\ last \in Nat /\ end \in Nat /\ m \in Nat
      /\ last < end /\ last <= t
  BY EmissionParts, PoolParts DEF Accrues
<1>2. /\ g \in Nat
      /\ Accrue(d, b, t) = [eps |-> eps, expiration |-> end, index |-> d.index + g, last_time |-> t]
  BY AccrueForward
<1>3. g = IF m = 0 THEN 0 ELSE DivFloor(spent, m, Scalar7)
  BY DEF IndexGrowth
<1>4. until - last \in Nat /\ rest \in Nat /\ (until - last) + rest = end - last
  BY <1>1
<1>5. Streaming(d) = (eps * (end - last)) * Scalar7
  BY <1>1, EmissionParts DEF Streaming
<1> HIDE DEF g
<1>6. Streaming(Accrue(d, b, t)) = (eps * rest) * Scalar7
  <2> DEFINE a == Accrue(d, b, t)
  <2>1. a # NoData
    BY AccrueForward, EmissionParts
  <2>2. a.eps = eps /\ a.expiration = end /\ a.last_time = t
    BY <1>2
  <2> HIDE DEF a
  <2>3. Streaming(a) = IF end > t THEN (eps * (end - t)) * Scalar7 ELSE 0
    BY <2>1, <2>2 DEF Streaming
  <2>4. (eps * 0) * Scalar7 = 0
    BY <1>1, ScalarsPositive, SMT
  <2> QED
    BY <2>3, <2>4 DEF a
<1> HIDE DEF until, rest, m, eps, last, end
<1>7. spent \in Nat /\ Scalar7 \in Nat /\ spent * Scalar7 \in Nat
  BY <1>1, <1>4, ScalarsPositive, ProductNat
<1>8. g * m \in Nat /\ g * m <= spent * Scalar7
  <2>1. CASE m = 0
    <3>1. g * m = 0
      BY <1>2, <2>1, SMT
    <3> QED
      BY <1>7, <3>1
  <2>2. CASE m # 0
    <3> DEFINE x == spent * Scalar7
    <3>1. m \in Int /\ m > 0 /\ x \in Nat
      BY <1>1, <1>7, <2>2
    <3>2. g = FloorDiv(x, m)
      BY <1>3, <2>2 DEF DivFloor
    <3> HIDE DEF x
    <3>3. m * g <= x
      BY <3>1, <3>2, FloorDivBounds
    <3>4. m * g = g * m
      BY <1>1, <1>2, SMT
    <3>5. g * m \in Nat
      BY <1>1, <1>2, ProductNat
    <3> QED
      BY <3>3, <3>4, <3>5 DEF x
  <2> QED
    BY <2>1, <2>2
<1>9. spent * Scalar7 + (eps * rest) * Scalar7 = (eps * (end - last)) * Scalar7
  <2> DEFINE x == until - last
  <2>1. x \in Nat /\ x + rest = end - last
    BY <1>4
  <2>2. spent = x * eps
    OBVIOUS
  <2> HIDE DEF x, spent
  <2>3. x * eps + eps * rest = eps * (x + rest)
    BY <1>1, <1>4, <2>1, SMT
  <2> DEFINE y == x * eps
             z == eps * rest
  <2>4. y \in Nat /\ z \in Nat
    BY <1>1, <1>4, <2>1, ProductNat
  <2>5. y * Scalar7 + z * Scalar7 = (y + z) * Scalar7
    <3> HIDE DEF y, z
    <3> QED
      BY <1>7, <2>4, SMT
  <2> QED
    BY <2>1, <2>2, <2>3, <2>5
<1>10. (eps * rest) * Scalar7 \in Nat
  BY <1>1, <1>4, <1>7, ProductNat
<1>11. g * m + (eps * rest) * Scalar7 <= (eps * (end - last)) * Scalar7
  <2> DEFINE x == g * m
             y == spent * Scalar7
             z == (eps * rest) * Scalar7
             w == (eps * (end - last)) * Scalar7
  <2>1. x \in Nat /\ y \in Nat /\ z \in Nat /\ x <= y /\ y + z = w
    BY <1>7, <1>8, <1>9, <1>10
  <2> HIDE DEF x, y, z, w
  <2>2. x + z <= w
    BY <2>1
  <2> QED
    BY <2>2 DEF x, z, w
<1>12. g * m + Streaming(Accrue(d, b, t)) <= Streaming(d)
  BY <1>5, <1>6, <1>11
<1> QED
  BY <1>2, <1>8, <1>12 DEF g, m

\* Accruing entitles the users to nothing new.
LEMMA AccrualIsPaid ==
    ASSUME NEW d \in EmissionData \cup {NoData}, NEW b \in PoolBalance,
           NEW ues \in [Users -> UserEmissionData \cup {NoData}], Fits(d, ues),
           NEW ubs \in [Users -> UserBalance], Accounts(b, ubs),
           NEW t \in Nat, d # NoData => d.last_time <= t
    PROVE  /\ EntitledBy(Accrue(d, b, t), ues, ubs) <= EntitledBy(d, ues, ubs)
           /\ Fits(Accrue(d, b, t), ues)
<1> DEFINE a == Accrue(d, b, t)
           g == IndexGrowth(d, b, t)
           m == b.shares - b.q4w
           before == Entitlements(d, ues, ubs)
           after == Entitlements(a, ues, ubs)
           active == [u \in Users |-> ubs[u].shares]
           growth == [u \in Users |-> g * active[u]]
<1>0. b.q4w <= b.shares /\ m = SumFunction(active)
  BY AccountsBound
<1>1. /\ a \in EmissionData \cup {NoData} /\ (a = NoData <=> d = NoData)
      /\ d # NoData => d.index <= a.index
      /\ ~Accrues(d, b, t) => a = d
      /\ Accrues(d, b, t) => a.index = d.index + g /\ g \in Nat
  BY <1>0, AccrueForward
<1>2. Fits(a, ues)
  <2>1. ASSUME NEW u \in Users, ues[u] # NoData
        PROVE  a # NoData /\ ues[u].index <= a.index
    <3>1. d # NoData /\ ues[u].index <= d.index /\ a # NoData /\ ues[u] \in UserEmissionData
      BY <1>1, <2>1 DEF Fits
    <3>2. d.index \in Nat /\ a.index \in Nat /\ ues[u].index \in Nat
      BY <1>1, <3>1, EmissionParts, UserEmissionParts
    <3> QED
      BY <1>1, <3>1, <3>2
  <2> QED
    BY <2>1 DEF Fits
<1>3. CASE ~Accrues(d, b, t)
  BY <1>1, <1>2, <1>3, EntitlementsNat
<1>4. CASE Accrues(d, b, t)
  <2>1. d \in EmissionData /\ d # NoData /\ d.last_time <= t
    BY <1>4 DEF Accrues
  <2>2. /\ g \in Nat /\ g * m \in Nat /\ g * m + Streaming(a) <= Streaming(d)
    BY <1>0, <1>4, <2>1, GrowthIsPaid
  <2>3. d.index \in Nat /\ IndexOf(d) = d.index /\ IndexOf(a) = d.index + g
    BY <1>1, <1>4, <2>1, EmissionParts DEF IndexOf
  <2>4. active \in [Users -> Nat]
    BY UserParts
  <2>5. \A u \in Users : before[u] = Entitled(ues[u], d.index, active[u])
    BY <2>3 DEF Entitlements
  <2>6. \A u \in Users : after[u] = Entitled(ues[u], d.index + g, active[u])
    BY <2>3 DEF Entitlements
  <2>7. before \in [Users -> Nat] /\ after \in [Users -> Nat]
        /\ SumFunction(before) \in Nat /\ SumFunction(after) \in Nat
        /\ Streaming(a) \in Nat /\ Streaming(d) \in Nat
    BY <1>1, <1>2, EntitlementsNat
  <2>8. \A u \in Users : growth[u] = g * active[u]
    OBVIOUS
  <2> DEFINE i == d.index
  <2>9. i \in Nat
    BY <2>3
  <2> HIDE DEF g, active, before, after, i
  <2>10. \A u \in Users : growth[u] \in Int /\ active[u] \in Int
    BY <2>2, <2>4, <2>8, ProductNat
  <2>11. \A u \in Users : after[u] = before[u] + growth[u]
    <3> SUFFICES ASSUME NEW u \in Users PROVE after[u] = before[u] + growth[u]
      OBVIOUS
    <3>1. ues[u] \in UserEmissionData \cup {NoData} /\ active[u] \in Nat
      BY <2>4
    <3>2. PICK ue, n : ue = ues[u] /\ n = active[u]
      OBVIOUS
    <3>3. ue \in UserEmissionData \cup {NoData} /\ n \in Nat /\ g \in Nat
      BY <2>2, <3>1, <3>2
    <3>4. Entitled(ue, i + g, n) = Entitled(ue, i, n) + g * n
      BY <2>9, <3>3, EntitledGrows
    <3> QED
      BY <2>5, <2>6, <2>8, <3>2, <3>4 DEF i
  <2> HIDE DEF growth
  <2>12. IsFiniteSet(Users) /\ DOMAIN before = Users /\ DOMAIN after = Users
         /\ DOMAIN growth = Users /\ DOMAIN active = Users
    BY <2>4, <2>7, BackstopAssumption DEF growth
  <2>13. Sum(after, Users) = Sum(before, Users) + Sum(growth, Users)
    <3>1. \A u \in Users : before[u] \in Int
      BY <2>7
    <3> QED
      BY <2>10, <2>11, <2>12, <3>1, SumAdd
  <2>14. Sum(growth, Users) = g * Sum(active, Users)
    BY <2>2, <2>8, <2>10, <2>12, SumTimes
  <2>15. SumFunction(after) = SumFunction(before) + g * m
    BY <1>0, <2>12, <2>13, <2>14, SumFunctionIsSum
  <2>16. SumFunction(after) + Streaming(a) <= SumFunction(before) + Streaming(d)
    BY <2>2, <2>7, <2>15
  <2>17. EntitledBy(a, ues, ubs) <= EntitledBy(d, ues, ubs)
    BY <2>7, <2>16 DEF EntitledBy, before, after
  <2> QED
    BY <1>2, <2>17
<1> QED
  BY <1>3, <1>4

-----------------------------------------------------------------------------
(* Users are settled one at a time.                                        *)

LEMMA OneUserSettled ==
    ASSUME NEW d \in EmissionData \cup {NoData}, NEW u \in Users, NEW c \in Nat,
           NEW ues \in [Users -> UserEmissionData \cup {NoData}], Fits(d, ues),
           NEW ves \in [Users -> UserEmissionData \cup {NoData}], Fits(d, ves),
           NEW ubs \in [Users -> UserBalance], NEW vbs \in [Users -> UserBalance],
           \A v \in Users \ {u} : ves[v] = ues[v] /\ vbs[v].shares = ubs[v].shares,
           c + Entitled(ves[u], IndexOf(d), vbs[u].shares) <= Entitled(ues[u], IndexOf(d), ubs[u].shares)
    PROVE  c + EntitledBy(d, ves, vbs) <= EntitledBy(d, ues, ubs)
<1> DEFINE before == Entitlements(d, ues, ubs)
           after == Entitlements(d, ves, vbs)
<1>1. /\ before \in [Users -> Nat] /\ SumFunction(before) \in Nat /\ Streaming(d) \in Nat
      /\ after \in [Users -> Nat] /\ SumFunction(after) \in Nat
  BY EntitlementsNat
<1>2. \A v \in Users : /\ before[v] = Entitled(ues[v], IndexOf(d), ubs[v].shares)
                       /\ after[v] = Entitled(ves[v], IndexOf(d), vbs[v].shares)
  BY DEF Entitlements
<1>3. c + after[u] <= before[u]
  BY <1>2
<1>4. \A v \in Users \ {u} : after[v] = before[v]
  BY <1>2
<1> HIDE DEF before, after
<1>5. SumFunction(after) = SumFunction(before) + after[u] - before[u]
  <2>1. IsFiniteSet(Users) /\ before \in [Users -> Int] /\ after \in [Users -> Int]
    BY <1>1, BackstopAssumption
  <2> QED
    BY <1>4, <2>1, SumFunctionUpdate
<1>6. before[u] \in Nat /\ after[u] \in Nat
  BY <1>1
<1>7. c + (Streaming(d) + SumFunction(after)) <= Streaming(d) + SumFunction(before)
  BY <1>1, <1>3, <1>5, <1>6
<1> QED
  BY <1>7 DEF EntitledBy, before, after

-----------------------------------------------------------------------------
(* What the contract owes, against what it has.                            *)

\* On behalf of pool p: to the pool, its users, its stream and its depositors.
Owing(p) ==
    Scalar14 * (rewards.accrued[p] + held.allowance[p])
      + EntitledBy(emissions[p], user_emissions[p], user_balance[p])

Funds == held.blnd + (IF emitter.dropped THEN 0 ELSE rewards.backfill)

\* Received from the emitter, and not yet distributed to the pools.
Undistributed ==
    IF rewards.status = "Emitter"
    THEN (emitter.last - rewards.last_distribution) * Scalar7 ELSE 0

Solvent == SumFunction([p \in Pools |-> Owing(p)]) <= Scalar14 * (Funds - Undistributed)

\* The emitter, once it has switched to this backstop, stays with it; seconds are
\* counted from the emitter's clock only after distribute was told so.
EmissionClock ==
    /\ emitter.dropped => emitter.last # NoData
    /\ rewards.status = "Emitter" =>
         emitter.last # NoData /\ rewards.last_distribution <= emitter.last
    /\ rewards.last_distribution # 0 => rewards.status # "Unset"

CoveredInv == BackstopInv /\ EmissionClock /\ Solvent

\* The parts of the state that what is owed is made of.
OwingParts(p) ==
    /\ emissions[p] \in EmissionData \cup {NoData}
    /\ emissions[p] # NoData => emissions[p].last_time <= now
    /\ user_emissions[p] \in [Users -> UserEmissionData \cup {NoData}]
    /\ Fits(emissions[p], user_emissions[p])
    /\ user_balance[p] \in [Users -> UserBalance]
    /\ pool_balance[p] \in PoolBalance /\ pool_balance[p].q4w <= pool_balance[p].shares
    /\ Accounts(pool_balance[p], user_balance[p])
    /\ rewards.accrued[p] \in Nat /\ held.allowance[p] \in Nat
    /\ EntitledBy(emissions[p], user_emissions[p], user_balance[p]) \in Nat
    /\ Owing(p) \in Nat

FundsParts ==
    /\ rewards \in Rewards /\ held.blnd \in Nat /\ Funds \in Nat
    /\ emitter.last \in Nat \cup {NoData} /\ emitter.dropped \in BOOLEAN /\ now \in Nat

LEMMA InvOwing == BackstopInv => (\A p \in Pools : OwingParts(p)) /\ FundsParts
<1> SUFFICES ASSUME BackstopInv PROVE (\A p \in Pools : OwingParts(p)) /\ FundsParts
  OBVIOUS
<1>1. ASSUME NEW p \in Pools PROVE OwingParts(p)
  <2> DEFINE e == EntitledBy(emissions[p], user_emissions[p], user_balance[p])
             n == rewards.accrued[p] + held.allowance[p]
  <2>1. /\ emissions[p] \in EmissionData \cup {NoData}
        /\ user_emissions[p] \in [Users -> UserEmissionData \cup {NoData}]
        /\ user_balance[p] \in [Users -> UserBalance]
        /\ pool_balance[p] \in PoolBalance /\ pool_balance[p].q4w <= pool_balance[p].shares
        /\ Accounts(pool_balance[p], user_balance[p])
        /\ held.allowance[p] \in Nat
    BY InvParts
  <2>2. /\ emissions[p] # NoData => emissions[p].last_time <= now
        /\ Fits(emissions[p], user_emissions[p])
    BY DEF BackstopInv, EmissionsInOrder, Fits
  <2>3. rewards.accrued[p] \in Nat
    BY RewardParts DEF BackstopInv, BackstopTypeOK
  <2>4. e \in Nat
    BY <2>1, <2>2, EntitlementsNat
  <2>5. n \in Nat
    BY <2>1, <2>3
  <2> HIDE DEF e, n
  <2>6. Scalar14 * n \in Nat
    BY <2>5, ScalarsPositive, ProductNat
  <2>7. Scalar14 * n + e \in Nat
    BY <2>4, <2>6
  <2> QED
    BY <2>1, <2>2, <2>3, <2>4, <2>7 DEF OwingParts, Owing, e, n
<1>2. FundsParts
  <2>1. /\ rewards \in Rewards /\ held.blnd \in Nat /\ now \in Nat
        /\ emitter.last \in Nat \cup {NoData} /\ emitter.dropped \in BOOLEAN
    BY InvParts DEF BackstopInv, BackstopTypeOK
  <2>2. rewards.backfill \in Nat
    BY <2>1, RewardParts
  <2> QED
    BY <2>1, <2>2 DEF FundsParts, Funds
<1> QED
  BY <1>1, <1>2

LEMMA InvOwingNext == BackstopInv' => ((\A p \in Pools : OwingParts(p)) /\ FundsParts)'
  BY InvOwing, PTL

LEMMA UndistributedNat ==
    ASSUME BackstopInv, EmissionClock
    PROVE  Undistributed \in Nat
<1>1. CASE rewards.status = "Emitter"
  <2> DEFINE n == emitter.last - rewards.last_distribution
  <2>1. n \in Nat
    <3>1. emitter.last \in Nat /\ rewards.last_distribution \in Nat
          /\ rewards.last_distribution <= emitter.last
      BY <1>1, InvOwing, RewardParts DEF FundsParts, EmissionClock
    <3> QED
      BY <3>1
  <2>2. n * Scalar7 \in Nat
    BY <2>1, ScalarsPositive, ProductNat
  <2> QED
    BY <1>1, <2>2 DEF Undistributed
<1>2. CASE rewards.status # "Emitter"
  BY <1>2 DEF Undistributed
<1> QED
  BY <1>1, <1>2

\* What is paid out on behalf of the pools leaves the funds, and no more does.
LEMMA SolventStep ==
    ASSUME BackstopInv, BackstopInv', Solvent, NEW x \in [Pools -> Int],
           \A p \in Pools : Owing(p)' + Scalar14 * x[p] <= Owing(p),
           Undistributed \in Int, Undistributed' \in Int,
           Funds - Undistributed - SumFunction(x) <= Funds' - Undistributed'
    PROVE  Solvent'
<1> DEFINE before == [p \in Pools |-> Owing(p)]
           after == [p \in Pools |-> Owing(p)']
           scaled == [p \in Pools |-> Scalar14 * x[p]]
           moved == [p \in Pools |-> after[p] + scaled[p]]
           total == SumFunction(x)
           k == Funds - Undistributed
           l == Funds' - Undistributed'
<1>0. IsFiniteSet(Pools) /\ Scalar14 \in Nat /\ Scalar14 > 0
  BY BackstopAssumption, ScalarsPositive
<1>1. \A p \in Pools : Owing(p) \in Nat /\ Owing(p)' \in Nat
  BY InvOwing, InvOwingNext DEF OwingParts
<1>2. /\ before \in [Pools -> Int] /\ after \in [Pools -> Int]
      /\ \A p \in Pools : before[p] = Owing(p) /\ after[p] = Owing(p)'
  BY <1>1
<1>3. \A p \in Pools : x[p] \in Int /\ scaled[p] = Scalar14 * x[p] /\ scaled[p] \in Int
  BY <1>0, ProductInt
<1>4. \A p \in Pools : moved[p] = after[p] + scaled[p] /\ moved[p] \in Int /\ moved[p] <= before[p]
  BY <1>1, <1>3
<1>5. SumFunction(before) <= Scalar14 * k
  BY DEF Solvent
<1>6. k \in Int /\ l \in Int /\ k - total <= l
  BY InvOwing, InvOwingNext DEF FundsParts
<1>7. DOMAIN before = Pools /\ DOMAIN after = Pools /\ DOMAIN x = Pools
  OBVIOUS
<1> HIDE DEF before, after, scaled, moved, k, l
<1>8. SumFunction(before) = Sum(before, Pools) /\ SumFunction(after) = Sum(after, Pools)
      /\ total = Sum(x, Pools)
  BY <1>7, SumFunctionIsSum
<1>9. Sum(moved, Pools) = Sum(after, Pools) + Sum(scaled, Pools)
  <2>1. \A p \in Pools : after[p] \in Int /\ scaled[p] \in Int /\ moved[p] = after[p] + scaled[p]
    BY <1>2, <1>3, <1>4
  <2> QED
    BY <1>0, <2>1, SumAdd
<1>10. Sum(scaled, Pools) = Scalar14 * Sum(x, Pools)
  BY <1>0, <1>3, SumTimes
<1>11. Sum(moved, Pools) <= Sum(before, Pools)
  <2>1. \A p \in Pools : moved[p] \in Int /\ before[p] \in Int /\ moved[p] <= before[p]
    BY <1>2, <1>4
  <2> QED
    BY <1>0, <2>1, SumAtMost
<1>12. Sum(after, Pools) \in Int /\ Sum(before, Pools) \in Int /\ Sum(x, Pools) \in Int
  BY <1>0, <1>2, <1>3, SumInt
<1> HIDE DEF total
<1>13. Sum(after, Pools) <= Scalar14 * k - Scalar14 * total
  <2> DEFINE y == Scalar14 * k
             z == Scalar14 * total
  <2>1. y \in Int /\ z \in Int
    BY <1>0, <1>6, <1>8, <1>12, ProductInt
  <2>2. Sum(after, Pools) + z <= y
    BY <1>5, <1>8, <1>9, <1>10, <1>11, <1>12, <2>1
  <2> HIDE DEF y, z
  <2>3. Sum(after, Pools) <= y - z
    BY <1>12, <2>1, <2>2
  <2> QED
    BY <2>3 DEF y, z
<1>14. Scalar14 * k - Scalar14 * total <= Scalar14 * l
  <2>1. total \in Int /\ k - total \in Int
    BY <1>6, <1>8, <1>12
  <2>2. Scalar14 * (k - total) <= Scalar14 * l
    BY <1>0, <1>6, <2>1, ProductMonotone
  <2>3. Scalar14 * (k - total) = Scalar14 * k - Scalar14 * total
    BY <1>0, <1>6, <2>1, SMT
  <2> QED
    BY <2>2, <2>3
<1>15. SumFunction(after) <= Scalar14 * l
  <2>1. Scalar14 * k \in Int /\ Scalar14 * total \in Int /\ Scalar14 * l \in Int
    BY <1>0, <1>6, <1>8, <1>12, ProductInt
  <2> QED
    BY <1>8, <1>12, <1>13, <1>14, <2>1
<1> QED
  BY <1>15 DEF Solvent, after, l

LEMMA UndistributedNatNow == BackstopInv /\ EmissionClock => Undistributed \in Nat
  BY UndistributedNat

LEMMA UndistributedNatNext == BackstopInv' /\ EmissionClock' => (Undistributed \in Nat)'
  BY UndistributedNatNow, PTL

\* Steps that pay nothing out.
LEMMA NothingSpent ==
    ASSUME CoveredInv, BackstopInv', EmissionClock',
           \A p \in Pools : Owing(p)' <= Owing(p),
           Funds - Undistributed <= Funds' - Undistributed'
    PROVE  CoveredInv'
<1> DEFINE x == [p \in Pools |-> 0]
<1>1. BackstopInv /\ EmissionClock /\ Solvent
  BY DEF CoveredInv
<1>2. Undistributed \in Int /\ Undistributed' \in Int
  BY <1>1, UndistributedNat, UndistributedNatNext
<1>3. Funds \in Int /\ Funds' \in Int
  BY <1>1, InvOwing, InvOwingNext DEF FundsParts
<1>4. x \in [Pools -> Int] /\ \A p \in Pools : x[p] = 0
  OBVIOUS
<1>5. SumFunction(x) = 0
  <2>1. x \in [Pools -> Nat]
    OBVIOUS
  <2> HIDE DEF x
  <2> QED
    BY <1>4, <2>1, BackstopAssumption, SumFunctionZero
<1> HIDE DEF x
<1>6. ASSUME NEW p \in Pools
      PROVE  Owing(p)' + Scalar14 * x[p] <= Owing(p)
  <2>1. Scalar14 * x[p] = 0
    BY <1>4, ScalarsPositive, SMT
  <2>2. Owing(p)' \in Nat /\ Owing(p)' <= Owing(p)
    BY InvOwingNext DEF OwingParts
  <2> QED
    BY <2>1, <2>2
<1>7. Funds - Undistributed - SumFunction(x) <= Funds' - Undistributed'
  <2> DEFINE f == Funds
             g == Funds'
             a == Undistributed
             b == Undistributed'
             total == SumFunction(x)
  <2>1. f \in Int /\ g \in Int /\ a \in Int /\ b \in Int /\ f - a <= g - b /\ total = 0
    BY <1>2, <1>3, <1>5
  <2> HIDE DEF f, g, a, b, total
  <2>2. f - a - total <= g - b
    BY <2>1
  <2> QED
    BY <2>2 DEF f, g, a, b, total
<1>8. Solvent'
  BY <1>1, <1>2, <1>4, <1>6, <1>7, SolventStep
<1> QED
  BY <1>8 DEF CoveredInv

\* Steps that leave the tokens, the distribution and the emitter alone.
LEMMA FundsUntouched ==
    ASSUME CoveredInv, BackstopInv', \A p \in Pools : Owing(p)' <= Owing(p),
           rewards'.status = rewards.status, rewards'.backfill = rewards.backfill,
           rewards'.last_distribution = rewards.last_distribution,
           held'.blnd = held.blnd, UNCHANGED emitter
    PROVE  CoveredInv'
<1>1. Funds' = Funds /\ Undistributed' = Undistributed
  BY DEF Funds, Undistributed
<1>2. EmissionClock'
  BY DEF CoveredInv, EmissionClock
<1>3. Funds - Undistributed <= Funds' - Undistributed'
  <2>1. Funds \in Int /\ Undistributed \in Int
    BY InvOwing, UndistributedNat DEF CoveredInv, FundsParts
  <2> QED
    BY <1>1, <2>1
<1> QED
  BY <1>2, <1>3, NothingSpent

LEMMA OwingSame ==
    ASSUME UNCHANGED <<emissions, user_emissions>>,
           rewards'.accrued = rewards.accrued, held'.allowance = held.allowance,
           \A p \in Pools, u \in Users : user_balance'[p][u].shares = user_balance[p][u].shares
    PROVE  \A p \in Pools : Owing(p)' = Owing(p)
<1> SUFFICES ASSUME NEW p \in Pools PROVE Owing(p)' = Owing(p)
  OBVIOUS
<1>1. Entitlements(emissions'[p], user_emissions'[p], user_balance'[p])
        = Entitlements(emissions[p], user_emissions[p], user_balance[p])
  BY DEF Entitlements
<1>2. EntitledBy(emissions'[p], user_emissions'[p], user_balance'[p])
        = EntitledBy(emissions[p], user_emissions[p], user_balance[p])
  BY <1>1 DEF EntitledBy
<1> QED
  BY <1>2 DEF Owing

LEMMA OwingFalls ==
    ASSUME BackstopInv, NEW p \in Pools, OwingParts(p)',
           rewards'.accrued[p] = rewards.accrued[p], held'.allowance[p] = held.allowance[p],
           EntitledBy(emissions'[p], user_emissions'[p], user_balance'[p])
             <= EntitledBy(emissions[p], user_emissions[p], user_balance[p])
    PROVE  Owing(p)' <= Owing(p)
<1> DEFINE n == Scalar14 * (rewards.accrued[p] + held.allowance[p])
           e == EntitledBy(emissions[p], user_emissions[p], user_balance[p])
           f == EntitledBy(emissions'[p], user_emissions'[p], user_balance'[p])
<1>1. e \in Nat /\ f \in Nat /\ f <= e
  BY InvOwing DEF OwingParts
<1>2. Owing(p) = n + e /\ Owing(p)' = n + f
  BY DEF Owing
<1>3. n \in Nat
  <2>1. rewards.accrued[p] + held.allowance[p] \in Nat
    BY InvOwing DEF OwingParts
  <2> QED
    BY <2>1, ScalarsPositive, ProductNat
<1> HIDE DEF n, e, f
<1> QED
  BY <1>1, <1>2, <1>3

\* Settling a user in a pool before the user's shares change.
LEMMA OwingSettled ==
    ASSUME BackstopInv, BackstopInv', NEW u \in Users, NEW p \in Pools, UpdateEmissions(u, p),
           rewards'.accrued = rewards.accrued, held'.allowance = held.allowance,
           \A q \in Pools \ {p} : user_balance'[q] = user_balance[q],
           \A v \in Users \ {u} : user_balance'[p][v] = user_balance[p][v]
    PROVE  \A q \in Pools : Owing(q)' <= Owing(q)
<1> DEFINE d == emissions[p]
           b == pool_balance[p]
           a == Accrue(d, b, now)
           ues == user_emissions[p]
           ves == user_emissions'[p]
           ubs == user_balance[p]
           vbs == user_balance'[p]
           n == ubs[u].shares
           m == vbs[u].shares
<1>0. /\ emissions \in [Pools -> EmissionData \cup {NoData}]
      /\ user_emissions \in [Pools -> [Users -> UserEmissionData \cup {NoData}]]
  BY DEF BackstopInv, BackstopTypeOK
<1>1. /\ emissions' = [emissions EXCEPT ![p] = a]
      /\ user_emissions' = IF a = NoData THEN user_emissions
                           ELSE [user_emissions EXCEPT ![p][u] = UpdateUser(a, ues[u], n)]
  BY DEF UpdateEmissions
<1>2. emissions'[p] = a
  BY <1>0, <1>1
<1>3. /\ d \in EmissionData \cup {NoData} /\ b \in PoolBalance /\ b.q4w <= b.shares
      /\ d # NoData => d.last_time <= now
      /\ ues \in [Users -> UserEmissionData \cup {NoData}] /\ Fits(d, ues)
      /\ ubs \in [Users -> UserBalance] /\ Accounts(b, ubs) /\ now \in Nat
  BY InvOwing DEF OwingParts, FundsParts
<1>4. /\ a \in EmissionData \cup {NoData} /\ Fits(a, ves)
      /\ ves \in [Users -> UserEmissionData \cup {NoData}]
      /\ vbs \in [Users -> UserBalance]
      /\ OwingParts(p)'
  BY <1>2, InvOwingNext DEF OwingParts
<1>5. /\ \A v \in Users \ {u} : ves[v] = ues[v]
      /\ a = NoData => ves = ues
      /\ a # NoData => ves[u] = UpdateUser(a, ues[u], n)
  BY <1>0, <1>1
<1>6. n \in Nat /\ m \in Nat
  BY <1>3, <1>4, UserParts
<1>7. \A v \in Users \ {u} : vbs[v].shares = ubs[v].shares
  OBVIOUS
<1> HIDE DEF a, ves, vbs
<1>8. EntitledBy(a, ues, ubs) <= EntitledBy(d, ues, ubs) /\ Fits(a, ues)
  BY <1>3, AccrualIsPaid DEF a
<1> HIDE DEF d, b, ues, ubs, n, m
<1>9. Entitled(ves[u], IndexOf(a), m) <= Entitled(ues[u], IndexOf(a), n)
  <2>1. CASE a = NoData
    <3>1. ues[u] = NoData /\ ves[u] = NoData /\ IndexOf(a) = 0
      BY <1>5, <1>8, <2>1 DEF Fits, IndexOf
    <3>2. m * 0 = 0 /\ n * 0 = 0
      BY <1>6, SMT
    <3> QED
      BY <3>1, <3>2 DEF Entitled
  <2>2. CASE a # NoData
    <3>1. a \in EmissionData /\ IndexOf(a) = a.index /\ ues[u] \in UserEmissionData \cup {NoData}
          /\ (ues[u] # NoData => ues[u].index <= a.index)
      BY <1>3, <1>4, <1>8, <2>2 DEF Fits, IndexOf
    <3> QED
      BY <1>5, <1>6, <2>2, <3>1, SettledFits
  <2> QED
    BY <2>1, <2>2
<1>10. EntitledBy(a, ves, vbs) <= EntitledBy(a, ues, ubs)
  <2>1. Entitled(ves[u], IndexOf(a), m) \in Nat /\ Entitled(ues[u], IndexOf(a), n) \in Nat
    <3>1. /\ Entitlements(a, ves, vbs) \in [Users -> Nat]
          /\ Entitlements(a, ues, ubs) \in [Users -> Nat]
      BY <1>3, <1>4, <1>8, EntitlementsNat
    <3>2. /\ Entitlements(a, ves, vbs)[u] = Entitled(ves[u], IndexOf(a), m)
          /\ Entitlements(a, ues, ubs)[u] = Entitled(ues[u], IndexOf(a), n)
      BY DEF Entitlements, m, n
    <3> QED
      BY <3>1, <3>2
  <2>2. 0 + Entitled(ves[u], IndexOf(a), vbs[u].shares) <= Entitled(ues[u], IndexOf(a), ubs[u].shares)
    BY <1>9, <2>1 DEF m, n
  <2>3. 0 + EntitledBy(a, ves, vbs) <= EntitledBy(a, ues, ubs)
    <3>1. 0 \in Nat
      OBVIOUS
    <3> QED
      BY <1>3, <1>4, <1>5, <1>7, <1>8, <2>2, <3>1, OneUserSettled
  <2>4. EntitledBy(a, ves, vbs) \in Nat
    BY <1>4, EntitlementsNat
  <2> QED
    BY <2>3, <2>4
<1>11. EntitledBy(a, ves, vbs) <= EntitledBy(d, ues, ubs)
  <2>1. /\ EntitledBy(a, ves, vbs) \in Nat /\ EntitledBy(a, ues, ubs) \in Nat
        /\ EntitledBy(d, ues, ubs) \in Nat
    BY <1>3, <1>4, <1>8, EntitlementsNat
  <2> QED
    BY <1>8, <1>10, <2>1
<1>12. Owing(p)' <= Owing(p)
  <2>1. EntitledBy(emissions'[p], user_emissions'[p], user_balance'[p])
          <= EntitledBy(emissions[p], user_emissions[p], user_balance[p])
    BY <1>2, <1>11 DEF d, ues, ubs, ves, vbs
  <2> QED
    BY <1>4, <2>1, OwingFalls
<1>13. ASSUME NEW q \in Pools, q # p
       PROVE  Owing(q)' <= Owing(q)
  <2>1. emissions'[q] = emissions[q] /\ user_emissions'[q] = user_emissions[q]
    BY <1>0, <1>1, <1>13
  <2>2. user_balance'[q] = user_balance[q]
    BY <1>13
  <2>3. OwingParts(q)' /\ EntitledBy(emissions[q], user_emissions[q], user_balance[q]) \in Nat
    BY InvOwing, InvOwingNext DEF OwingParts
  <2>4. EntitledBy(emissions'[q], user_emissions'[q], user_balance'[q])
          <= EntitledBy(emissions[q], user_emissions[q], user_balance[q])
    BY <2>1, <2>2, <2>3
  <2> QED
    BY <2>3, <2>4, OwingFalls
<1> QED
  BY <1>12, <1>13

-----------------------------------------------------------------------------
(* The operations of depositors and pools.                                 *)

LEMMA QueueCovered ==
    ASSUME CoveredInv, BackstopInv', NEW u \in Users, NEW p \in Pools, NEW n \in Nat,
           \/ Deposit(u, p, n) \/ QueueWithdrawal(u, p, n) \/ DequeueWithdrawal(u, p, n)
    PROVE  CoveredInv'
<1>0. BackstopInv /\ BackstopTypeOK
  BY DEF CoveredInv, BackstopInv
<1>1. UpdateEmissions(u, p) /\ UNCHANGED <<rewards, emitter>>
  BY DEF Deposit, QueueWithdrawal, DequeueWithdrawal
<1>2. held'.blnd = held.blnd /\ held'.allowance = held.allowance
  BY <1>0 DEF Deposit, QueueWithdrawal, DequeueWithdrawal, BackstopTypeOK
<1>3. PICK ub : user_balance' = [user_balance EXCEPT ![p][u] = ub]
  BY DEF Deposit, QueueWithdrawal, DequeueWithdrawal
<1>4. /\ \A q \in Pools \ {p} : user_balance'[q] = user_balance[q]
      /\ \A v \in Users \ {u} : user_balance'[p][v] = user_balance[p][v]
  BY <1>0, <1>3 DEF BackstopTypeOK
<1>5. \A q \in Pools : Owing(q)' <= Owing(q)
  BY <1>0, <1>1, <1>2, <1>4, OwingSettled
<1> QED
  BY <1>1, <1>2, <1>5, FundsUntouched

\* What leaves the entitlements and the BLND alone.
LEMMA OwingUntouched ==
    ASSUME CoveredInv, BackstopInv', UNCHANGED <<emissions, user_emissions, emitter>>,
           rewards'.accrued = rewards.accrued, rewards'.status = rewards.status,
           rewards'.backfill = rewards.backfill,
           rewards'.last_distribution = rewards.last_distribution,
           held'.blnd = held.blnd, held'.allowance = held.allowance,
           \A p \in Pools, u \in Users : user_balance'[p][u].shares = user_balance[p][u].shares
    PROVE  CoveredInv'
<1>1. \A p \in Pools : Owing(p)' = Owing(p)
  BY OwingSame
<1>2. \A p \in Pools : Owing(p) \in Nat
  BY InvOwing DEF CoveredInv, OwingParts
<1>3. \A p \in Pools : Owing(p)' <= Owing(p)
  BY <1>1, <1>2
<1> QED
  BY <1>3, FundsUntouched

LEMMA WithdrawCovered ==
    ASSUME CoveredInv, BackstopInv', NEW u \in Users, NEW p \in Pools, NEW n \in Nat,
           Withdraw(u, p, n)
    PROVE  CoveredInv'
<1>0. BackstopTypeOK
  BY DEF CoveredInv, BackstopInv
<1>1. UNCHANGED <<emissions, user_emissions, rewards, emitter>>
  BY DEF Withdraw, emissionVars
<1>2. held'.blnd = held.blnd /\ held'.allowance = held.allowance
  BY <1>0 DEF Withdraw, BackstopTypeOK
<1>3. user_balance' = [user_balance EXCEPT ![p][u] = WithdrawShares(user_balance[p][u], n)]
  BY DEF Withdraw
<1>4. user_balance[p][u] \in UserBalance
  BY <1>0 DEF BackstopTypeOK
<1>5. WithdrawShares(user_balance[p][u], n).shares = user_balance[p][u].shares
  BY <1>4 DEF WithdrawShares, UserBalance
<1>6. \A q \in Pools, v \in Users : user_balance'[q][v].shares = user_balance[q][v].shares
  BY <1>0, <1>3, <1>5 DEF BackstopTypeOK
<1> QED
  BY <1>1, <1>2, <1>6, OwingUntouched

LEMMA PoolMovesCovered ==
    ASSUME CoveredInv, BackstopInv', NEW p \in Pools, NEW n \in Nat, Draw(p, n) \/ Donate(p, n)
    PROVE  CoveredInv'
<1>0. BackstopTypeOK
  BY DEF CoveredInv, BackstopInv
<1>1. UNCHANGED <<emissions, user_emissions, rewards, emitter, user_balance>>
  BY DEF Draw, Donate, emissionVars
<1>2. held'.blnd = held.blnd /\ held'.allowance = held.allowance
  BY <1>0 DEF Draw, Donate, BackstopTypeOK
<1> QED
  BY <1>1, <1>2, OwingUntouched

LEMMA ZoneCovered ==
    ASSUME CoveredInv, BackstopInv',
           \/ \E p \in Pools : AddReward(p) \/ RemoveReward(p)
           \/ \E p, out \in Pools : SwapReward(p, out)
    PROVE  CoveredInv'
<1>0. rewards \in Rewards
  BY DEF CoveredInv, BackstopInv, BackstopTypeOK
<1>1. UNCHANGED <<emissions, user_emissions, held, emitter, user_balance>>
  BY DEF AddReward, RemoveReward, SwapReward, emissionVars, balanceVars
<1>2. \E zone : rewards' = [rewards EXCEPT !.zone = zone]
  BY DEF AddReward, RemoveReward, SwapReward
<1>3. /\ rewards'.accrued = rewards.accrued /\ rewards'.status = rewards.status
      /\ rewards'.backfill = rewards.backfill
      /\ rewards'.last_distribution = rewards.last_distribution
  BY <1>0, <1>2 DEF Rewards
<1> QED
  BY <1>1, <1>3, OwingUntouched

LEMMA EnvironmentCovered ==
    ASSUME CoveredInv, BackstopInv',
           \/ \E p \in Deployable, args \in DeployArgs : DeployPool(p, args)
           \/ \E p \in Indebted : BadDebtChanges(p)
           \/ \E dt \in Ticks : Tick(dt)
           \/ UNCHANGED backstopVars
    PROVE  CoveredInv'
<1>1. UNCHANGED <<emissions, user_emissions, rewards, held, emitter, user_balance>>
  BY DEF DeployPool, BadDebtChanges, Tick, backstopVars, emissionVars, balanceVars
<1> QED
  BY <1>1, OwingUntouched

-----------------------------------------------------------------------------
(* The clock of the distribution, and the emitter.                         *)

\* Nothing of what is owed changes with the emitter, or with when it pays.
LEMMA OwingAway ==
    ASSUME BackstopInv, UNCHANGED <<emissions, user_emissions, user_balance>>,
           rewards'.accrued = rewards.accrued, held'.allowance = held.allowance
    PROVE  \A p \in Pools : Owing(p)' <= Owing(p)
<1>1. \A p \in Pools : Owing(p)' = Owing(p)
  BY OwingSame
<1>2. \A p \in Pools : Owing(p) \in Nat
  BY InvOwing DEF OwingParts
<1> QED
  BY <1>1, <1>2

\* The seconds before the start are not counted.
LEMMA StartDistributionCovered ==
    ASSUME CoveredInv, BackstopInv', StartDistribution
    PROVE  CoveredInv'
<1>0. BackstopInv /\ EmissionClock /\ rewards \in Rewards /\ FundsParts
  BY InvOwing DEF CoveredInv, BackstopInv, BackstopTypeOK
<1>1. /\ rewards' = [rewards EXCEPT !.status = NewStatus, !.last_distribution = DistributionTime]
      /\ Backfilling => rewards.status # "Emitter"
      /\ UNCHANGED <<emissions, user_emissions, user_balance, held, emitter>>
  BY DEF StartDistribution, emissionVars, balanceVars
<1>2. /\ rewards'.accrued = rewards.accrued /\ rewards'.backfill = rewards.backfill
      /\ rewards'.status = NewStatus /\ rewards'.last_distribution = DistributionTime
  BY <1>0, <1>1 DEF Rewards
<1>3. Funds' = Funds
  BY <1>1, <1>2 DEF Funds
<1>4. Backfilling \/ (emitter.last \in Nat /\ DistributionTime = emitter.last)
  BY <1>0 DEF FundsParts, Backfilling, DistributionTime
<1>5. EmissionClock'
  BY <1>0, <1>1, <1>2, <1>4 DEF EmissionClock, NewStatus, Backfilling
<1>6. Undistributed' = 0
  <2>1. CASE Backfilling
    BY <1>2, <2>1 DEF Undistributed, NewStatus
  <2>2. CASE ~Backfilling
    <3>1. Undistributed' = (emitter.last - emitter.last) * Scalar7
      BY <1>1, <1>2, <1>4, <2>2 DEF Undistributed, NewStatus
    <3>2. emitter.last - emitter.last = 0
      BY <1>4, <2>2
    <3>3. 0 * Scalar7 = 0
      BY ScalarsPositive, SMT
    <3> QED
      BY <3>1, <3>2, <3>3
  <2> QED
    BY <2>1, <2>2
<1>7. Funds - Undistributed <= Funds' - Undistributed'
  <2>1. Undistributed \in Nat /\ Funds \in Nat
    BY <1>0, UndistributedNat DEF FundsParts
  <2> QED
    BY <1>3, <1>6, <2>1
<1> QED
  BY <1>0, <1>1, <1>2, <1>5, <1>7, OwingAway, NothingSpent

LEMMA DropCovered ==
    ASSUME CoveredInv, BackstopInv', Drop
    PROVE  CoveredInv'
<1>0. BackstopInv /\ EmissionClock /\ BackstopTypeOK /\ FundsParts
  BY InvOwing DEF CoveredInv, BackstopInv
<1> DEFINE blnd == held.blnd + rewards.backfill
<1>1. /\ ~Backfilling /\ ~emitter.dropped
      /\ emitter' = [emitter EXCEPT !.dropped = TRUE] /\ held' = [held EXCEPT !.blnd = blnd]
      /\ UNCHANGED <<emissions, user_emissions, user_balance, rewards>>
  BY DEF Drop, emissionVars, balanceVars
<1>2. Funds = blnd
  BY <1>1 DEF Funds
<1> HIDE DEF blnd
<1>3. /\ held'.blnd = blnd /\ held'.allowance = held.allowance
      /\ emitter'.last = emitter.last /\ emitter'.dropped
  BY <1>0, <1>1 DEF BackstopTypeOK
<1>4. blnd \in Nat
  BY <1>0, <1>2 DEF FundsParts
<1>5. Funds' = blnd
  BY <1>3, <1>4 DEF Funds
<1>6. Undistributed' = Undistributed
  BY <1>1, <1>3 DEF Undistributed
<1>7. EmissionClock'
  BY <1>0, <1>1, <1>3 DEF EmissionClock, Backfilling
<1>8. Funds - Undistributed <= Funds' - Undistributed'
  <2>1. Undistributed \in Nat
    BY <1>0, UndistributedNat
  <2> QED
    BY <1>2, <1>4, <1>5, <1>6, <2>1
<1>9. \A p \in Pools : Owing(p)' <= Owing(p)
  BY <1>0, <1>1, <1>3, OwingAway
<1> QED
  BY <1>7, <1>8, <1>9, NothingSpent

\* The emitter has paid for no second before it switched.
LEMMA EmitterSwitchesCovered ==
    ASSUME CoveredInv, BackstopInv', EmitterSwitches
    PROVE  CoveredInv'
<1>0. BackstopInv /\ EmissionClock /\ BackstopTypeOK /\ FundsParts
  BY InvOwing DEF CoveredInv, BackstopInv
<1>1. /\ emitter.last = NoData /\ emitter' = [emitter EXCEPT !.last = now]
      /\ UNCHANGED <<emissions, user_emissions, user_balance, rewards, held>>
  BY DEF EmitterSwitches, emissionVars, balanceVars
<1>2. emitter'.last = now /\ emitter'.dropped = emitter.dropped /\ now \in Nat /\ now # NoData
  BY <1>0, <1>1, NoDataAssumption DEF BackstopTypeOK
<1>3. rewards.status # "Emitter"
  BY <1>0, <1>1 DEF EmissionClock
<1>4. Funds' = Funds /\ Undistributed' = 0 /\ Undistributed = 0
  BY <1>1, <1>2, <1>3 DEF Funds, Undistributed
<1>5. EmissionClock'
  BY <1>0, <1>1, <1>2, <1>3 DEF EmissionClock
<1>6. Funds - Undistributed <= Funds' - Undistributed'
  BY <1>0, <1>4 DEF FundsParts
<1> QED
  BY <1>0, <1>1, <1>5, <1>6, OwingAway, NothingSpent

\* What arrives waits for its distribution.
LEMMA EmitterDistributesCovered ==
    ASSUME CoveredInv, BackstopInv', EmitterDistributes
    PROVE  CoveredInv'
<1>0. BackstopInv /\ EmissionClock /\ BackstopTypeOK /\ FundsParts
  BY InvOwing DEF CoveredInv, BackstopInv
<1> DEFINE last == emitter.last
           blnd == held.blnd + (now - last) * Scalar7
           arrived == (now - last) * Scalar7
           more == IF emitter.dropped THEN 0 ELSE rewards.backfill
           start == rewards.last_distribution
<1>1. /\ last # NoData /\ last < now /\ emitter' = [emitter EXCEPT !.last = now]
      /\ held' = [held EXCEPT !.blnd = blnd]
      /\ UNCHANGED <<emissions, user_emissions, user_balance, rewards>>
  BY DEF EmitterDistributes, emissionVars, balanceVars
<1>2. last \in Nat /\ now \in Nat /\ held.blnd \in Nat /\ rewards.backfill \in Nat /\ start \in Nat
      /\ now # NoData
  BY <1>0, <1>1, RewardParts, NoDataAssumption DEF FundsParts
<1>3. emitter'.last = now /\ emitter'.dropped = emitter.dropped
  BY <1>0, <1>1 DEF BackstopTypeOK
<1>4. held'.blnd = blnd /\ held'.allowance = held.allowance
  <2> HIDE DEF blnd
  <2> QED
    BY <1>0, <1>1 DEF BackstopTypeOK
<1>5. more \in Nat /\ arrived \in Nat
  <2>1. now - last \in Nat
    BY <1>1, <1>2
  <2> QED
    BY <1>2, <2>1, ScalarsPositive, ProductNat
<1>6. Funds = held.blnd + more /\ Funds' = held.blnd + arrived + more
  BY <1>1, <1>3, <1>4 DEF Funds
<1>7. EmissionClock'
  <2>1. rewards.status = "Emitter" => start <= now
    BY <1>0, <1>1, <1>2 DEF EmissionClock
  <2> QED
    BY <1>0, <1>1, <1>2, <1>3, <2>1 DEF EmissionClock
<1>8. Funds - Undistributed <= Funds' - Undistributed'
  <2>1. CASE rewards.status = "Emitter"
    <3> DEFINE x == (last - start) * Scalar7
               y == (now - start) * Scalar7
    <3>1. Undistributed = x /\ Undistributed' = y
      BY <1>1, <1>3, <2>1 DEF Undistributed
    <3>2. y = x + arrived
      <4> HIDE DEF last, start
      <4>1. Scalar7 \in Int
        BY ScalarsPositive
      <4> QED
        BY <1>2, <4>1, SMT
    <3>3. x \in Int
      <4>1. last - start \in Int /\ Scalar7 \in Int
        BY <1>2, ScalarsPositive
      <4> QED
        BY <4>1, ProductInt
    <3> HIDE DEF x, y, arrived, more
    <3> QED
      BY <1>2, <1>5, <1>6, <3>1, <3>2, <3>3
  <2>2. CASE rewards.status # "Emitter"
    <3>1. Undistributed = 0 /\ Undistributed' = 0
      BY <1>1, <2>2 DEF Undistributed
    <3> HIDE DEF arrived, more
    <3> QED
      BY <1>2, <1>5, <1>6, <3>1
  <2> QED
    BY <2>1, <2>2
<1> QED
  BY <1>0, <1>1, <1>4, <1>7, <1>8, OwingAway, NothingSpent

-----------------------------------------------------------------------------
(* Payments to the pools, and distributions to them.                       *)

\* What a pool is due or may draw changes, what its depositors are due does not.
LEMMA OwingMoves ==
    ASSUME BackstopInv, BackstopInv', NEW p \in Pools, NEW y \in Int,
           UNCHANGED <<emissions, user_emissions, user_balance>>,
           rewards'.accrued[p] + held'.allowance[p] + y = rewards.accrued[p] + held.allowance[p]
    PROVE  Owing(p)' + Scalar14 * y <= Owing(p)
<1> DEFINE m == rewards'.accrued[p] + held'.allowance[p]
           n == rewards.accrued[p] + held.allowance[p]
           e == EntitledBy(emissions[p], user_emissions[p], user_balance[p])
<1>1. e \in Nat /\ n \in Nat
  BY InvOwing DEF OwingParts
<1>2. m \in Nat
  BY InvOwingNext DEF OwingParts
<1>3. Owing(p) = Scalar14 * n + e /\ Owing(p)' = Scalar14 * m + e
  BY DEF Owing
<1>4. m + y = n
  OBVIOUS
<1> HIDE DEF m, n, e
<1>5. Scalar14 * m + Scalar14 * y = Scalar14 * n
  <2>1. Scalar14 \in Int
    BY ScalarsPositive
  <2>2. Scalar14 * (m + y) = Scalar14 * m + Scalar14 * y
    BY <1>2, <2>1, SMT
  <2> QED
    BY <1>4, <2>2
<1>6. Scalar14 * m \in Int /\ Scalar14 * y \in Int /\ Scalar14 * n \in Int
  BY <1>1, <1>2, ScalarsPositive, ProductInt
<1> QED
  BY <1>1, <1>3, <1>5, <1>6

LEMMA PoolPaysCovered ==
    ASSUME CoveredInv, BackstopInv', NEW p \in Pools, PoolPays(p)
    PROVE  CoveredInv'
<1>0. BackstopInv /\ EmissionClock /\ Solvent /\ BackstopTypeOK /\ FundsParts
  BY InvOwing DEF CoveredInv, BackstopInv
<1> DEFINE paid == held.allowance[p]
           blnd == held.blnd - paid
           allowance == [held.allowance EXCEPT ![p] = 0]
           x == [q \in Pools |-> IF q = p THEN paid ELSE 0]
           more == IF emitter.dropped THEN 0 ELSE rewards.backfill
<1>1. /\ held' = [held EXCEPT !.allowance = allowance, !.blnd = blnd]
      /\ UNCHANGED <<emissions, user_emissions, user_balance, rewards, emitter>>
  BY DEF PoolPays, emissionVars, balanceVars
<1>2. paid \in Nat /\ held.allowance \in [Pools -> Nat] /\ held.blnd \in Nat
  BY <1>0, InvParts
<1>3. \A q \in Pools : allowance[q] + x[q] = held.allowance[q] /\ x[q] \in Int
  BY <1>2
<1>4. x \in [Pools -> Int] /\ SumFunction(x) = paid
  <2>1. IsFiniteSet(Pools) /\ DOMAIN x = Pools /\ x[p] = paid /\ \A q \in Pools \ {p} : x[q] = 0
    BY BackstopAssumption
  <2> HIDE DEF x
  <2>2. Sum(x, Pools) = Sum(x, {p})
    <3>1. \A q \in Pools : x[q] \in Int
      BY <1>3
    <3>2. {p} \in SUBSET Pools /\ \A q \in Pools \ {p} : x[q] = 0
      BY <2>1
    <3> QED
      BY <2>1, <3>1, <3>2, SumOnPart
  <2>3. Sum(x, {p}) = x[p]
    BY <1>3, SumOne
  <2> QED
    BY <1>3, <2>1, <2>2, <2>3, SumFunctionIsSum DEF x
<1> HIDE DEF x, allowance
<1>5. held'.allowance = allowance /\ held'.blnd = blnd
  <2> HIDE DEF blnd
  <2> QED
    BY <1>0, <1>1 DEF BackstopTypeOK
<1>6. ASSUME NEW q \in Pools
      PROVE  Owing(q)' + Scalar14 * x[q] <= Owing(q)
  <2> DEFINE y == x[q]
  <2>1. /\ rewards.accrued[q] \in Nat /\ allowance[q] + y = held.allowance[q] /\ y \in Int
        /\ held.allowance[q] \in Nat
    BY <1>0, <1>2, <1>3, InvOwing DEF OwingParts
  <2>2. allowance[q] \in Nat
    BY <1>2 DEF allowance
  <2> HIDE DEF y
  <2>3. rewards'.accrued[q] + held'.allowance[q] + y = rewards.accrued[q] + held.allowance[q]
    BY <1>1, <1>5, <2>1, <2>2
  <2>4. Owing(q)' + Scalar14 * y <= Owing(q)
    BY <1>0, <1>1, <2>1, <2>3, OwingMoves
  <2> QED
    BY <2>4 DEF y
<1>7. Undistributed' = Undistributed /\ Undistributed \in Int /\ Undistributed' \in Int
  <2>1. Undistributed' = Undistributed
    BY <1>1 DEF Undistributed
  <2> QED
    BY <1>0, <2>1, UndistributedNat
<1>8. Funds - Undistributed - SumFunction(x) <= Funds' - Undistributed'
  <2>1. Funds = held.blnd + more /\ Funds' = blnd + more
    BY <1>1, <1>5 DEF Funds
  <2>2. more \in Nat
    BY <1>0, RewardParts DEF FundsParts
  <2> DEFINE f == Funds
             g == Funds'
             a == Undistributed
             total == SumFunction(x)
  <2>3. f = held.blnd + more /\ g = held.blnd - paid + more /\ a \in Int /\ total = paid
    BY <1>4, <1>7, <2>1
  <2> HIDE DEF f, g, a, total, paid, more
  <2>4. f - a - total <= g - a
    BY <1>2, <2>2, <2>3
  <2> QED
    BY <1>7, <2>4 DEF f, g, a, total
<1>9. Solvent'
  BY <1>0, <1>4, <1>6, <1>7, <1>8, SolventStep
<1>10. EmissionClock'
  BY <1>0, <1>1 DEF EmissionClock
<1> QED
  BY <1>9, <1>10 DEF CoveredInv

\* The pools of the zone receive no more than was emitted: two roundings, both down.
LEMMA DistributedWhole ==
    ASSUME BackstopInv, Distribute
    PROVE  /\ [p \in rewards.zone |-> PoolEmissions(p)] \in [rewards.zone -> Nat]
           /\ SumFunction([p \in rewards.zone |-> PoolEmissions(p)]) <= NewEmissions
           /\ SumFunction([p \in rewards.zone |-> PoolEmissions(p)]) \in Nat
<1> DEFINE zone == rewards.zone
           f == [p \in zone |-> NonQueuedTokens(pool_balance[p])]
           z == SumFunction(f)
           g == [p \in zone |-> DivFloor(f[p], z, Scalar7)]
           h == [p \in zone |-> PoolEmissions(p)]
           n == NewEmissions
           scaled == [p \in zone |-> Scalar7 * h[p]]
           bound == [p \in zone |-> n * g[p]]
<1>0. Scalar7 \in Nat /\ Scalar7 \in Int /\ Scalar7 > 0
  BY ScalarsPositive
<1>1. zone \subseteq Pools /\ IsFiniteSet(zone)
  BY BackstopAssumption, RewardParts, FS_Subset DEF BackstopInv, BackstopTypeOK
<1>2. n \in Nat /\ z \in Nat /\ z > 0 /\ ZoneTokens = z /\ h \in [zone -> Nat]
  BY DistributedNat DEF ZoneTokens
<1>3. f \in [zone -> Nat]
  BY <1>1, NonQueuedNat
<1>4. \A p \in zone : g[p] = DivFloor(f[p], z, Scalar7)
  OBVIOUS
<1>5. \A p \in zone : h[p] = MulFloor(g[p], n, Scalar7)
  BY <1>2, <1>4 DEF PoolEmissions
<1>6. \A p \in zone : scaled[p] = Scalar7 * h[p] /\ bound[p] = n * g[p]
  OBVIOUS
<1>7. DOMAIN g = zone /\ DOMAIN h = zone
  OBVIOUS
<1>8. g = [p \in zone |-> g[p]]
  OBVIOUS
<1> HIDE DEF zone, f, z, g, h, n, scaled, bound
<1>9. ASSUME NEW p \in zone
      PROVE  g[p] \in Nat /\ z * g[p] <= Scalar7 * f[p]
  <2> DEFINE x == f[p] * Scalar7
  <2>1. f[p] \in Nat /\ x \in Nat
    BY <1>0, <1>3, ProductNat
  <2>2. g[p] = FloorDiv(x, z)
    BY <1>4 DEF DivFloor
  <2>3. x = Scalar7 * f[p]
    BY <1>0, <2>1, SMT
  <2> HIDE DEF x
  <2>4. FloorDiv(x, z) \in Nat /\ z * FloorDiv(x, z) <= x
    <3>1. z \in Int
      BY <1>2
    <3> QED
      BY <1>2, <2>1, <3>1, FloorDivBounds, FloorDivNat
  <2> QED
    BY <2>2, <2>3, <2>4
<1>10. g \in [zone -> Nat]
  BY <1>8, <1>9
<1>11. Sum(g, zone) <= Scalar7 /\ Sum(g, zone) \in Nat
  <2>1. z = SumFunction(f)
    BY DEF z
  <2>2. SumFunction(f) > 0 /\ \A p \in zone : SumFunction(f) * g[p] <= Scalar7 * f[p]
    BY <1>2, <1>9, <2>1
  <2>3. SumFunction(g) <= Scalar7
    BY <1>0, <1>1, <1>3, <1>10, <2>2, SharedOut
  <2> QED
    BY <1>1, <1>7, <1>10, <2>3, SumFunctionIsSum, SumFunctionNat
<1>12. ASSUME NEW p \in zone
       PROVE  scaled[p] \in Int /\ bound[p] \in Int /\ scaled[p] <= bound[p]
  <2> DEFINE x == g[p] * n
  <2>1. g[p] \in Nat /\ h[p] \in Nat /\ x \in Nat
    BY <1>2, <1>9, ProductNat
  <2>2. h[p] = FloorDiv(x, Scalar7)
    BY <1>5 DEF MulFloor
  <2>3. x = n * g[p]
    BY <1>2, <2>1, SMT
  <2> HIDE DEF x
  <2>4. Scalar7 * FloorDiv(x, Scalar7) <= x
    BY <1>0, <2>1, FloorDivBounds
  <2>5. Scalar7 * h[p] \in Nat
    BY <1>0, <2>1, ProductNat
  <2> QED
    BY <1>6, <2>1, <2>2, <2>3, <2>4, <2>5
<1>13. Sum(scaled, zone) <= Sum(bound, zone)
  BY <1>1, <1>12, SumAtMost
<1>14. Sum(scaled, zone) = Scalar7 * Sum(h, zone) /\ Sum(h, zone) \in Nat
  <2>1. \A p \in zone : h[p] \in Int /\ h[p] \in Nat
    BY <1>2
  <2> QED
    BY <1>0, <1>1, <1>6, <2>1, SumTimes, SumNat
<1>15. Sum(bound, zone) = n * Sum(g, zone)
  <2>1. \A p \in zone : g[p] \in Int
    BY <1>10
  <2> QED
    BY <1>1, <1>2, <1>6, <2>1, SumTimes
<1>16. Sum(h, zone) <= n
  <2> DEFINE a == Sum(h, zone)
             c == Sum(g, zone)
  <2>1. a \in Nat /\ c \in Nat /\ c <= Scalar7 /\ Scalar7 * a <= n * c
    BY <1>11, <1>13, <1>14, <1>15
  <2> HIDE DEF a, c
  <2>2. n * c <= n * Scalar7
    BY <1>0, <1>2, <2>1, ProductMonotone
  <2>3. n * Scalar7 = Scalar7 * n
    BY <1>0, <1>2, SMT
  <2>4. Scalar7 * a < Scalar7 * n + Scalar7
    <3>1. Scalar7 * a \in Nat /\ n * c \in Nat /\ Scalar7 * n \in Nat
      BY <1>0, <1>2, <2>1, ProductNat
    <3> QED
      BY <1>0, <2>1, <2>2, <2>3, <3>1
  <2>5. a <= n
    BY <1>0, <1>2, <2>1, <2>4, Cancel
  <2> QED
    BY <2>5 DEF a
<1>17. h \in [zone -> Nat] /\ SumFunction(h) <= n /\ SumFunction(h) \in Nat
  BY <1>2, <1>7, <1>14, <1>16, SumFunctionIsSum
<1> QED
  BY <1>17 DEF h, n, zone

LEMMA DistributeCovered ==
    ASSUME CoveredInv, BackstopInv', Distribute
    PROVE  CoveredInv'
<1>0. BackstopInv /\ EmissionClock /\ Solvent /\ BackstopTypeOK /\ FundsParts /\ rewards \in Rewards
  BY InvOwing DEF CoveredInv, BackstopInv, BackstopTypeOK
<1> DEFINE zone == rewards.zone
           h == [p \in zone |-> PoolEmissions(p)]
           x == [q \in Pools |-> IF q \in zone THEN -h[q] ELSE 0]
           accrued == [q \in Pools |-> IF q \in zone THEN rewards.accrued[q] + PoolEmissions(q)
                                       ELSE rewards.accrued[q]]
           backfill == IF Backfilling THEN rewards.backfill + NewEmissions ELSE rewards.backfill
           n == NewEmissions
           total == SumFunction(x)
<1>1. /\ rewards' = [rewards EXCEPT !.status = NewStatus, !.backfill = backfill,
                       !.last_distribution = DistributionTime, !.accrued = accrued]
      /\ Backfilling => rewards.status # "Emitter"
      /\ rewards.last_distribution # 0 /\ ~NeedsReset
      /\ UNCHANGED <<emissions, user_emissions, user_balance, held, emitter>>
  BY DEF Distribute, emissionVars, balanceVars
<1>2. h \in [zone -> Nat] /\ SumFunction(h) <= n /\ SumFunction(h) \in Nat /\ n \in Nat
      /\ zone \subseteq Pools /\ IsFiniteSet(Pools) /\ IsFiniteSet(zone)
  BY <1>0, DistributedWhole, DistributedNat, RewardParts, BackstopAssumption, FS_Subset
<1>3. \A q \in Pools : x[q] = IF q \in zone THEN -h[q] ELSE 0
  OBVIOUS
<1>4. \A q \in Pools : accrued[q] = IF q \in zone THEN rewards.accrued[q] + h[q]
                                    ELSE rewards.accrued[q]
  OBVIOUS
<1>5. x \in [Pools -> Int] /\ DOMAIN h = zone
  BY <1>2
<1> HIDE DEF x, h, accrued
<1>6. total = -SumFunction(h) /\ total \in Int
  <2>1. Sum(x, Pools) = Sum(x, zone)
    <3>1. zone \in SUBSET Pools /\ \A q \in Pools : x[q] \in Int
      BY <1>2, <1>5
    <3>2. \A q \in Pools \ zone : x[q] = 0
      BY <1>3
    <3> HIDE DEF zone
    <3> QED
      BY <1>2, <3>1, <3>2, SumOnPart
  <2>2. Sum(x, zone) = (-1) * Sum(h, zone)
    <3>1. \A q \in zone : h[q] \in Int /\ x[q] = (-1) * h[q]
      BY <1>2, <1>3
    <3> HIDE DEF zone
    <3>2. -1 \in Int
      OBVIOUS
    <3> QED
      BY <1>2, <3>1, <3>2, SumTimes
  <2>3. SumFunction(h) = Sum(h, zone) /\ total = Sum(x, Pools)
    BY <1>5, SumFunctionIsSum
  <2> QED
    BY <1>2, <2>1, <2>2, <2>3
<1>7. /\ rewards'.accrued = accrued /\ rewards'.backfill = backfill
      /\ rewards'.status = NewStatus /\ rewards'.last_distribution = DistributionTime
  <2> HIDE DEF backfill
  <2> QED
    BY <1>0, <1>1 DEF Rewards
<1>8. ASSUME NEW q \in Pools
      PROVE  Owing(q)' + Scalar14 * x[q] <= Owing(q)
  <2>1. rewards.accrued[q] \in Nat /\ held.allowance[q] \in Nat /\ held'.allowance[q] = held.allowance[q]
    BY <1>0, <1>1, InvOwing DEF OwingParts
  <2>2. rewards'.accrued[q] = accrued[q]
    BY <1>7
  <2> DEFINE y == x[q]
  <2>3. accrued[q] + y = rewards.accrued[q] /\ accrued[q] \in Int /\ y \in Int
    BY <1>2, <1>3, <1>4, <2>1
  <2> HIDE DEF y
  <2>4. rewards'.accrued[q] + held'.allowance[q] + y = rewards.accrued[q] + held.allowance[q]
    BY <2>1, <2>2, <2>3
  <2>5. Owing(q)' + Scalar14 * y <= Owing(q)
    BY <1>0, <1>1, <2>3, <2>4, OwingMoves
  <2> QED
    BY <2>5 DEF y
<1>9. Backfilling \/ (emitter.last \in Nat /\ DistributionTime = emitter.last)
  BY <1>0 DEF FundsParts, Backfilling, DistributionTime
<1>10. EmissionClock'
  BY <1>0, <1>1, <1>7, <1>9 DEF EmissionClock, NewStatus, Backfilling
<1>11. Undistributed' = 0 /\ Undistributed \in Nat
  <2>1. CASE Backfilling
    BY <1>0, <1>7, <2>1, UndistributedNat DEF Undistributed, NewStatus
  <2>2. CASE ~Backfilling
    <3>1. Undistributed' = (emitter.last - emitter.last) * Scalar7
      BY <1>1, <1>7, <1>9, <2>2 DEF Undistributed, NewStatus
    <3>2. emitter.last - emitter.last = 0
      BY <1>9, <2>2
    <3>3. 0 * Scalar7 = 0
      BY ScalarsPositive, SMT
    <3> QED
      BY <1>0, <3>1, <3>2, <3>3, UndistributedNat
  <2> QED
    BY <2>1, <2>2
<1>12. Funds - Undistributed + n <= Funds'
  <2>1. CASE Backfilling
    <3>1. ~emitter.dropped /\ Undistributed = 0
      BY <1>0, <1>1, <2>1 DEF EmissionClock, Backfilling, Undistributed
    <3>2. Funds = held.blnd + rewards.backfill /\ Funds' = held.blnd + (rewards.backfill + n)
      BY <1>1, <1>7, <2>1, <3>1 DEF Funds
    <3>3. held.blnd \in Nat /\ rewards.backfill \in Nat
      BY <1>0, RewardParts DEF FundsParts
    <3> HIDE DEF n
    <3> QED
      BY <1>2, <3>1, <3>2, <3>3
  <2>2. CASE ~Backfilling
    <3>1. rewards.status = "Emitter"
      BY <1>0, <1>1, <2>2, RewardParts DEF EmissionClock, NeedsReset
    <3>2. Undistributed = n
      BY <1>9, <2>2, <3>1 DEF Undistributed, NewEmissions
    <3>3. Funds' = Funds
      BY <1>1, <1>7, <2>2 DEF Funds
    <3> HIDE DEF n
    <3> QED
      BY <1>0, <1>2, <3>2, <3>3 DEF FundsParts
  <2> QED
    BY <2>1, <2>2
<1>13. Funds - Undistributed - total <= Funds' - Undistributed'
  <2> DEFINE f == Funds
             g == Funds'
             a == Undistributed
             s == SumFunction(h)
  <2>1. f \in Int /\ g \in Int /\ a \in Int
    BY <1>0, <1>11, InvOwingNext DEF FundsParts
  <2>2. f - a + n <= g /\ total = -s /\ s \in Int /\ s <= n
    BY <1>2, <1>6, <1>12
  <2> HIDE DEF f, g, a, s, n, total
  <2>3. f - a - total <= g - 0
    BY <1>2, <2>1, <2>2
  <2> QED
    BY <1>11, <2>3 DEF f, g, a
<1>14. Solvent'
  BY <1>0, <1>5, <1>8, <1>11, <1>13, SolventStep
<1> QED
  BY <1>10, <1>14 DEF CoveredInv

-----------------------------------------------------------------------------
(* A gulp merges what is new into what is left of the stream.              *)

\* The two shares of what is due are no more than it.
LEMMA GulpSplit ==
    ASSUME NEW due \in Nat
    PROVE  /\ MulFloor(due, BorrowShare, Scalar7) \in Nat
           /\ MulFloor(due, DepositShare, Scalar7) \in Nat
           /\ MulFloor(due, BorrowShare, Scalar7) + MulFloor(due, DepositShare, Scalar7) <= due
<1> DEFINE x == due * BorrowShare
           y == due * DepositShare
           m == FloorDiv(x, Scalar7)
           n == FloorDiv(y, Scalar7)
<1>1. /\ Scalar7 \in Int /\ Scalar7 > 0 /\ BorrowShare \in Nat /\ DepositShare \in Nat
      /\ DepositShare + BorrowShare = Scalar7
  BY BackstopAssumption, ScalarsPositive
<1>2. x \in Nat /\ y \in Nat
  BY <1>1, ProductNat
<1>3. x + y = Scalar7 * due
  BY <1>1, SMT
<1> HIDE DEF x, y
<1>4. /\ m \in Nat /\ n \in Nat /\ m \in Int /\ n \in Int
      /\ Scalar7 * m <= x /\ Scalar7 * n <= y
  <2>1. m \in Nat /\ n \in Nat
    BY <1>1, <1>2, FloorDivNat
  <2>2. Scalar7 * m <= x
    BY <1>1, <1>2, FloorDivBounds
  <2>3. Scalar7 * n <= y
    BY <1>1, <1>2, FloorDivBounds
  <2> QED
    BY <2>1, <2>2, <2>3
<1> HIDE DEF m, n
<1>5. Scalar7 * (m + n) = Scalar7 * m + Scalar7 * n
  BY <1>1, <1>4, SMT
<1>6. Scalar7 * (m + n) < Scalar7 * due + Scalar7
  <2>1. Scalar7 * m \in Int /\ Scalar7 * n \in Int
    BY <1>1, <1>4, ProductInt
  <2> QED
    BY <1>1, <1>2, <1>3, <1>4, <1>5, <2>1
<1>7. m + n <= due
  <2>1. m + n \in Int /\ due \in Int
    BY <1>4
  <2> QED
    BY <1>1, <1>6, <2>1, Cancel
<1> QED
  BY <1>4, <1>7 DEF m, n, x, y, MulFloor

\* What is left of a stream is taken from it.
LEMMA LeftIsStreaming ==
    ASSUME NEW d \in EmissionData \cup {NoData}, NEW t \in Nat, d # NoData => d.last_time <= t
    PROVE  LeftToEmit(d, t) \in Nat /\ Scalar14 * LeftToEmit(d, t) <= Streaming(d)
<1>0. Scalar7 \in Int /\ Scalar7 > 0 /\ Scalar7 \in Nat /\ Scalar14 = Scalar7 * Scalar7
  BY ScalarsPositive, EmissionAssumption
<1>1. CASE d # NoData /\ d.expiration > t
  <2> DEFINE eps == d.eps
             rest == d.expiration - t
             span == d.expiration - d.last_time
             x == eps * rest
             y == eps * span
             left == FloorDiv(x, Scalar7)
  <2>1. eps \in Nat /\ rest \in Nat /\ span \in Nat /\ rest <= span
    BY <1>1, EmissionParts
  <2>2. LeftToEmit(d, t) = left
    BY <1>1 DEF LeftToEmit, MulFloor
  <2>3. Streaming(d) = y * Scalar7
    <3>1. d.expiration > d.last_time
      BY <1>1, EmissionParts
    <3> QED
      BY <1>1, <3>1 DEF Streaming
  <2> HIDE DEF eps, rest, span
  <2>4. x \in Nat /\ y \in Nat /\ x <= y
    BY <2>1, ProductNat, ProductMonotone
  <2> HIDE DEF x, y
  <2>5. left \in Nat /\ Scalar7 * left <= x
    BY <1>0, <2>4, FloorDivBounds, FloorDivNat
  <2> HIDE DEF left
  <2> DEFINE u == Scalar7 * left
  <2>6. u \in Nat /\ u <= y
    <3>1. u \in Nat
      BY <1>0, <2>5, ProductNat
    <3> QED
      BY <2>4, <2>5, <3>1
  <2>7. (Scalar7 * Scalar7) * left = (Scalar7 * left) * Scalar7
    BY <1>0, <2>5, SMT
  <2> HIDE DEF u
  <2>8. u * Scalar7 <= y * Scalar7
    BY <1>0, <2>4, <2>6, ProductMonotone
  <2> QED
    BY <1>0, <2>2, <2>3, <2>5, <2>7, <2>8 DEF u
<1>2. CASE ~(d # NoData /\ d.expiration > t)
  <2>1. LeftToEmit(d, t) = 0
    BY <1>2 DEF LeftToEmit
  <2>2. Scalar14 * 0 = 0
    BY <1>0, ScalarsPositive, SMT
  <2>3. Streaming(d) \in Nat
    <3>1. CASE d # NoData /\ d.expiration > d.last_time
      <4>1. d.eps \in Nat /\ d.expiration - d.last_time \in Nat
        BY <3>1, EmissionParts
      <4>2. (d.eps * (d.expiration - d.last_time)) * Scalar7 \in Nat
        BY <1>0, <4>1, ProductNat
      <4> QED
        BY <3>1, <4>2 DEF Streaming
    <3>2. CASE ~(d # NoData /\ d.expiration > d.last_time)
      BY <3>2 DEF Streaming
    <3> QED
      BY <3>1, <3>2
  <2> QED
    BY <2>1, <2>2, <2>3
<1> QED
  BY <1>1, <1>2

\* The merged stream gives what is new and what is left, and no more.
LEMMA MergedStream ==
    ASSUME BackstopInv, NEW p \in Pools, NEW tokens \in Nat
    PROVE  LET s == SetEps(emissions[p], pool_balance[p], tokens, now)
           IN  /\ s \in EmissionData /\ Fits(s, user_emissions[p])
               /\ EntitledBy(s, user_emissions[p], user_balance[p])
                    <= Scalar14 * tokens
                         + EntitledBy(emissions[p], user_emissions[p], user_balance[p])
<1> DEFINE d == emissions[p]
           b == pool_balance[p]
           ues == user_emissions[p]
           ubs == user_balance[p]
           s == SetEps(d, b, tokens, now)
           a == Accrue(d, b, now)
           left == LeftToEmit(a, now)
           shares == SumFunction(Entitlements(a, ues, ubs))
<1>0. /\ d \in EmissionData \cup {NoData} /\ b \in PoolBalance /\ b.q4w <= b.shares
      /\ d # NoData => d.last_time <= now
      /\ ues \in [Users -> UserEmissionData \cup {NoData}] /\ Fits(d, ues)
      /\ ubs \in [Users -> UserBalance] /\ Accounts(b, ubs) /\ now \in Nat
  BY InvOwing DEF OwingParts, FundsParts
<1>1. /\ a \in EmissionData \cup {NoData} /\ (a = NoData <=> d = NoData)
      /\ a # NoData => a.last_time <= now
  BY <1>0, AccrueForward
<1>2. /\ s \in EmissionData /\ s # NoData /\ s.last_time = now
      /\ s.expiration = now + EmissionPeriod /\ left \in Nat
      /\ s.eps = ((tokens + left) * Scalar7) \div EmissionPeriod
      /\ s.index = IF d = NoData THEN 0 ELSE a.index
  BY SetEpsType DEF AccruedNow
<1> HIDE DEF s
<1>3. EntitledBy(a, ues, ubs) <= EntitledBy(d, ues, ubs) /\ Fits(a, ues)
  BY <1>0, AccrualIsPaid
<1> HIDE DEF a
<1>4. Scalar14 * left <= Streaming(a)
  BY <1>0, <1>1, LeftIsStreaming
<1> HIDE DEF d, b, ues, ubs
<1>5. IndexOf(s) = IndexOf(a)
  BY <1>1, <1>2 DEF IndexOf
<1>6. Fits(s, ues)
  BY <1>2, <1>3, <1>5 DEF Fits, IndexOf
<1>7. Entitlements(s, ues, ubs) = Entitlements(a, ues, ubs)
  BY <1>5 DEF Entitlements
<1>8. /\ shares \in Nat /\ Streaming(a) \in Nat /\ Streaming(s) \in Nat
      /\ EntitledBy(a, ues, ubs) \in Nat /\ EntitledBy(d, ues, ubs) \in Nat
  BY <1>0, <1>1, <1>2, <1>3, <1>6, EntitlementsNat
<1>9. EntitledBy(s, ues, ubs) = Streaming(s) + shares /\ EntitledBy(a, ues, ubs) = Streaming(a) + shares
  BY <1>7 DEF EntitledBy
<1> HIDE DEF left, shares
<1>10. Streaming(s) <= Scalar14 * tokens + Scalar14 * left
  <2> DEFINE x == (tokens + left) * Scalar7
             eps == s.eps
  <2>0. /\ Scalar7 \in Nat /\ Scalar14 = Scalar7 * Scalar7
        /\ EmissionPeriod \in Int /\ EmissionPeriod > 0 /\ EmissionPeriod \in Nat
    BY ScalarsPositive, EmissionAssumption
  <2>1. x \in Nat
    <3>1. tokens + left \in Nat
      BY <1>2
    <3> QED
      BY <2>0, <3>1, ProductNat
  <2>2. eps = FloorDiv(x, EmissionPeriod)
    BY <1>2, <2>0 DEF FloorDiv
  <2>3. Streaming(s) = (eps * EmissionPeriod) * Scalar7
    <3>1. s.expiration > s.last_time /\ s.expiration - s.last_time = EmissionPeriod
      BY <1>0, <1>2, <2>0
    <3> QED
      BY <1>2, <3>1 DEF Streaming
  <2>4. x * Scalar7 = Scalar14 * tokens + Scalar14 * left
    <3>1. ((tokens + left) * Scalar7) * Scalar7
            = (Scalar7 * Scalar7) * tokens + (Scalar7 * Scalar7) * left
      BY <1>2, <2>0, SMT
    <3> QED
      BY <2>0, <3>1
  <2> HIDE DEF x, eps
  <2>5. eps \in Nat /\ EmissionPeriod * eps <= x
    BY <2>0, <2>1, <2>2, FloorDivBounds, FloorDivNat
  <2>6. eps * EmissionPeriod = EmissionPeriod * eps
    BY <2>0, <2>5, SMT
  <2> DEFINE y == eps * EmissionPeriod
  <2>7. y \in Nat /\ y <= x
    <3>1. y \in Nat
      BY <2>0, <2>5, ProductNat
    <3> QED
      BY <2>5, <2>6, <3>1
  <2> HIDE DEF y
  <2>8. y * Scalar7 <= x * Scalar7
    BY <2>0, <2>1, <2>7, ProductMonotone
  <2> QED
    BY <2>3, <2>4, <2>8 DEF y
<1>11. EntitledBy(s, ues, ubs) <= Scalar14 * tokens + EntitledBy(d, ues, ubs)
  <2>1. Scalar14 * tokens \in Nat /\ Scalar14 * left \in Nat
    BY <1>2, ScalarsPositive, ProductNat
  <2> QED
    BY <1>3, <1>4, <1>8, <1>9, <1>10, <2>1
<1> QED
  BY <1>2, <1>6, <1>11 DEF s, d, b, ues, ubs

LEMMA GulpCovered ==
    ASSUME CoveredInv, BackstopInv', NEW p \in Pools, GulpEmissions(p)
    PROVE  CoveredInv'
<1> DEFINE due == rewards.accrued[p]
           forPool == MulFloor(due, BorrowShare, Scalar7)
           forDepositors == MulFloor(due, DepositShare, Scalar7)
           s == SetEps(emissions[p], pool_balance[p], forDepositors, now)
           accrued == [rewards.accrued EXCEPT ![p] = 0]
           gulped == [rewards.gulped_at EXCEPT ![p] = now]
           allowance == [held.allowance EXCEPT ![p] = @ + forPool]
           granted == held.allowance[p]
           e == EntitledBy(emissions[p], user_emissions[p], user_balance[p])
           f == EntitledBy(s, user_emissions[p], user_balance[p])
<1>0. BackstopInv /\ BackstopTypeOK /\ rewards \in Rewards
  BY DEF CoveredInv, BackstopInv, BackstopTypeOK
<1>1. /\ held' = [held EXCEPT !.allowance = allowance]
      /\ rewards' = [rewards EXCEPT !.accrued = accrued, !.gulped_at = gulped]
      /\ emissions' = [emissions EXCEPT ![p] = s]
      /\ UNCHANGED <<user_emissions, user_balance, emitter>>
  BY DEF GulpEmissions, balanceVars
<1>2. due \in Nat /\ granted \in Nat /\ e \in Nat
  BY <1>0, InvOwing DEF OwingParts
<1>3. forPool \in Nat /\ forDepositors \in Nat /\ forPool + forDepositors <= due
  <2> HIDE DEF due
  <2> QED
    BY <1>2, GulpSplit
<1> HIDE DEF forPool, forDepositors
<1>4. f <= Scalar14 * forDepositors + e
  BY <1>0, <1>3, MergedStream
<1>5. /\ \A q \in Pools : emissions'[q] = IF q = p THEN s ELSE emissions[q]
      /\ \A q \in Pools : accrued[q] = IF q = p THEN 0 ELSE rewards.accrued[q]
      /\ \A q \in Pools : allowance[q] = IF q = p THEN granted + forPool ELSE held.allowance[q]
  <2> HIDE DEF s
  <2>1. emissions \in [Pools -> EmissionData \cup {NoData}] /\ rewards.accrued \in [Pools -> Nat]
        /\ held.allowance \in [Pools -> Nat]
    BY <1>0, InvParts, RewardParts DEF BackstopTypeOK
  <2> QED
    BY <1>1, <2>1
<1> HIDE DEF s, accrued, gulped, allowance
<1>6. /\ rewards'.accrued = accrued /\ rewards'.status = rewards.status
      /\ rewards'.backfill = rewards.backfill
      /\ rewards'.last_distribution = rewards.last_distribution
      /\ held'.allowance = allowance /\ held'.blnd = held.blnd
  BY <1>0, <1>1 DEF Rewards, BackstopTypeOK
<1>7. Owing(p)' <= Owing(p)
  <2>1. Owing(p) = Scalar14 * (due + granted) + e
    BY DEF Owing
  <2>2. Owing(p)' = Scalar14 * (0 + (granted + forPool)) + f
    BY <1>1, <1>5, <1>6 DEF Owing
  <2>3. f \in Nat
    <3>1. EntitledBy(emissions'[p], user_emissions'[p], user_balance'[p]) \in Nat
      BY InvOwingNext DEF OwingParts
    <3> QED
      BY <1>1, <1>5, <3>1
  <2> HIDE DEF due, granted, e, f
  <2> DEFINE k == granted + forPool + forDepositors
             l == due + granted
  <2>4. k \in Nat /\ l \in Nat /\ k <= l /\ 0 + (granted + forPool) = granted + forPool
    BY <1>2, <1>3
  <2>5. Scalar14 * (granted + forPool) + Scalar14 * forDepositors = Scalar14 * k
    <3>1. Scalar14 \in Int
      BY ScalarsPositive
    <3> QED
      BY <1>2, <1>3, <3>1, SMT
  <2> HIDE DEF k
  <2>6. Scalar14 * k <= Scalar14 * l
    BY <2>4, ScalarsPositive, ProductMonotone
  <2>7. /\ Scalar14 * (granted + forPool) \in Nat /\ Scalar14 * forDepositors \in Nat
        /\ Scalar14 * k \in Nat /\ Scalar14 * l \in Nat
    <3>1. granted + forPool \in Nat
      BY <1>2, <1>3
    <3> QED
      BY <1>3, <2>4, <3>1, ScalarsPositive, ProductNat
  <2>8. Owing(p)' <= Scalar14 * l + e
    BY <1>2, <1>4, <2>2, <2>3, <2>4, <2>5, <2>6, <2>7
  <2> QED
    BY <2>1, <2>8
<1>8. ASSUME NEW q \in Pools, q # p
      PROVE  Owing(q)' <= Owing(q)
  <2>1. Owing(q)' = Owing(q)
    BY <1>1, <1>5, <1>6, <1>8 DEF Owing
  <2> QED
    BY <1>0, <2>1, InvOwing DEF OwingParts
<1>9. \A q \in Pools : Owing(q)' <= Owing(q)
  BY <1>7, <1>8
<1> QED
  BY <1>1, <1>6, <1>9, FundsUntouched

-----------------------------------------------------------------------------
(* A claim pays every pool's part of it, and settles the user there.       *)

LEMMA ClaimPays ==
    ASSUME BackstopInv, BackstopInv', NEW u \in Users, NEW P \in SUBSET Pools, NEW out \in Nat,
           Claim(u, P, out), NEW p \in P
    PROVE  Scalar14 * Earned(u, P)[p]
             + EntitledBy(emissions'[p], user_emissions'[p], user_balance'[p])
             <= EntitledBy(emissions[p], user_emissions[p], user_balance[p])
<1> DEFINE d == emissions[p]
           b == pool_balance[p]
           a == AccruedNow(p)
           ues == user_emissions[p]
           ves == user_emissions'[p]
           ubs == user_balance[p]
           vbs == user_balance'[p]
           n == ubs[u].shares
           m == vbs[u].shares
           owed == Owed(a, ues[u], n)
           c == Scalar14 * owed
<1>0. /\ p \in Pools /\ d # NoData
      /\ \A q \in P : emissions[q] # NoData
      /\ emissions' = [q \in Pools |-> IF q \in P THEN AccruedNow(q) ELSE emissions[q]]
      /\ user_emissions' = [q \in Pools |->
           IF q \in P THEN [user_emissions[q] EXCEPT ![u] = ClaimUser(AccruedNow(q))]
           ELSE user_emissions[q]]
      /\ NothingClaimed(u, P) \/ ClaimDeposits(u, P, out)
  BY ClaimIs
<1>1. emissions'[p] = a /\ ves = [ues EXCEPT ![u] = ClaimUser(a)]
  BY <1>0
<1>2. /\ d \in EmissionData \cup {NoData} /\ b \in PoolBalance /\ b.q4w <= b.shares
      /\ d # NoData => d.last_time <= now
      /\ ues \in [Users -> UserEmissionData \cup {NoData}] /\ Fits(d, ues)
      /\ ubs \in [Users -> UserBalance] /\ Accounts(b, ubs) /\ now \in Nat
  BY <1>0, InvOwing DEF OwingParts, FundsParts
<1>3. /\ a \in EmissionData /\ a # NoData
      /\ \A v \in Users : ues[v] # NoData => ues[v].index <= a.index
  BY <1>0, ClaimAmounts
<1>4. /\ Fits(a, ves) /\ ves \in [Users -> UserEmissionData \cup {NoData}]
      /\ vbs \in [Users -> UserBalance]
  BY <1>0, <1>1, InvOwingNext DEF OwingParts
<1>5. \A v \in Users \ {u} : ves[v] = ues[v] /\ vbs[v].shares = ubs[v].shares
  <2>1. \A v \in Users \ {u} : ves[v] = ues[v]
    BY <1>1, <1>2
  <2>2. CASE NothingClaimed(u, P)
    BY <2>1, <2>2 DEF NothingClaimed, balanceVars
  <2>3. CASE ClaimDeposits(u, P, out)
    <3>1. PICK x, y \in Nat : ClaimChange(u, P, out, p, x, y)
      BY <1>0, <2>3, ClaimChanges
    <3> QED
      BY <2>1, <3>1 DEF ClaimChange
  <2> QED
    BY <1>0, <2>2, <2>3
<1>6. ves[u] = ClaimUser(a)
  BY <1>1, <1>2
<1>7. Earned(u, P)[p] = owed
  BY DEF Earned, ClaimFrom
<1> HIDE DEF ves, vbs
<1>8. n \in Nat /\ m \in Nat /\ ues[u] \in UserEmissionData \cup {NoData}
  BY <1>2, <1>4, UserParts
<1>9. EntitledBy(a, ues, ubs) <= EntitledBy(d, ues, ubs) /\ Fits(a, ues)
  BY <1>2, AccrualIsPaid DEF AccruedNow
<1> HIDE DEF d, b, a, ues, ubs
<1>10. owed \in Nat /\ c \in Nat
  BY <1>3, <1>8, OwedNat, ScalarsPositive, ProductNat
<1>11. c + Entitled(ves[u], IndexOf(a), m) <= Entitled(ues[u], IndexOf(a), n)
  <2>1. IndexOf(a) = a.index
    BY <1>3 DEF IndexOf
  <2>2. c + Entitled(ClaimUser(a), a.index, m) <= Entitled(ues[u], a.index, n)
    BY <1>3, <1>8, SettledFits
  <2> QED
    BY <1>6, <2>1, <2>2
<1> HIDE DEF c
<1>12. c + EntitledBy(a, ves, vbs) <= EntitledBy(a, ues, ubs)
  BY <1>2, <1>3, <1>4, <1>5, <1>9, <1>10, <1>11, OneUserSettled
<1>13. /\ EntitledBy(a, ves, vbs) \in Nat /\ EntitledBy(a, ues, ubs) \in Nat
       /\ EntitledBy(d, ues, ubs) \in Nat
  BY <1>2, <1>3, <1>4, <1>9, EntitlementsNat
<1>14. c + EntitledBy(a, ves, vbs) <= EntitledBy(d, ues, ubs)
  BY <1>9, <1>10, <1>12, <1>13
<1> HIDE DEF owed
<1> QED
  BY <1>1, <1>7, <1>14 DEF c, d, ues, ubs, ves, vbs

LEMMA ClaimCovered ==
    ASSUME CoveredInv, BackstopInv', NEW u \in Users, NEW P \in SUBSET Pools, NEW out \in Nat,
           Claim(u, P, out)
    PROVE  CoveredInv'
<1>0. BackstopInv /\ EmissionClock /\ Solvent /\ BackstopTypeOK /\ FundsParts
  BY InvOwing DEF CoveredInv, BackstopInv
<1> DEFINE earned == Earned(u, P)
           claimed == SumFunction(earned)
           x == [q \in Pools |-> IF q \in P THEN earned[q] ELSE 0]
           more == IF emitter.dropped THEN 0 ELSE rewards.backfill
<1>1. /\ \A q \in P : emissions[q] # NoData
      /\ emissions' = [q \in Pools |-> IF q \in P THEN AccruedNow(q) ELSE emissions[q]]
      /\ user_emissions' = [q \in Pools |->
           IF q \in P THEN [user_emissions[q] EXCEPT ![u] = ClaimUser(AccruedNow(q))]
           ELSE user_emissions[q]]
      /\ NothingClaimed(u, P) \/ ClaimDeposits(u, P, out)
      /\ UNCHANGED <<rewards, emitter>>
  BY ClaimIs
<1>2. earned \in [P -> Nat] /\ claimed \in Nat /\ IsFiniteSet(P) /\ IsFiniteSet(Pools)
  BY <1>0, <1>1, ClaimAmounts, BackstopAssumption
<1>3. held'.blnd = held.blnd - claimed /\ held'.allowance = held.allowance /\ held.blnd \in Nat
  <2>1. held.blnd \in Nat
    BY <1>0 DEF FundsParts
  <2>2. CASE NothingClaimed(u, P)
    <3>1. held' = held /\ claimed = 0
      BY <2>2 DEF NothingClaimed
    <3> HIDE DEF claimed
    <3> QED
      BY <2>1, <3>1
  <2>3. CASE ClaimDeposits(u, P, out)
    <3> DEFINE blnd == held.blnd - claimed
               lp == held.lp + out
    <3>1. held' = [held EXCEPT !.lp = lp, !.blnd = blnd]
      BY <2>3 DEF ClaimDeposits
    <3> HIDE DEF blnd, lp, claimed
    <3>2. held'.blnd = blnd /\ held'.allowance = held.allowance
      BY <1>0, <3>1 DEF BackstopTypeOK
    <3> QED
      BY <2>1, <3>2 DEF blnd
  <2> QED
    BY <1>1, <2>2, <2>3
<1>4. \A q \in Pools : x[q] = IF q \in P THEN earned[q] ELSE 0
  OBVIOUS
<1>5. x \in [Pools -> Int] /\ DOMAIN earned = P
  BY <1>2
<1>6. SumFunction(x) = claimed
  <2> HIDE DEF x, earned
  <2>1. Sum(x, Pools) = Sum(x, P)
    <3>1. (\A q \in Pools : x[q] \in Int) /\ (\A q \in Pools \ P : x[q] = 0)
      BY <1>4, <1>5
    <3> QED
      BY <1>2, <3>1, SumOnPart
  <2>2. Sum(x, P) = Sum(earned, P)
    BY <1>2, <1>4, SumSame
  <2> QED
    BY <1>5, <2>1, <2>2, SumFunctionIsSum
<1> HIDE DEF x
<1>7. ASSUME NEW q \in P
      PROVE  Owing(q)' + Scalar14 * x[q] <= Owing(q)
  <2> DEFINE e == EntitledBy(emissions[q], user_emissions[q], user_balance[q])
             f == EntitledBy(emissions'[q], user_emissions'[q], user_balance'[q])
             k == Scalar14 * (rewards.accrued[q] + held.allowance[q])
             y == Scalar14 * earned[q]
  <2>1. y + f <= e
    BY <1>0, ClaimPays
  <2>2. Owing(q) = k + e /\ Owing(q)' = k + f
    BY <1>1, <1>3 DEF Owing
  <2>3. q \in Pools /\ x[q] = earned[q]
    BY <1>4
  <2>4. e \in Nat /\ f \in Nat /\ k \in Nat /\ y \in Nat
    <3>1. e \in Nat /\ rewards.accrued[q] \in Nat /\ held.allowance[q] \in Nat
      BY <1>0, <2>3, InvOwing DEF OwingParts
    <3>2. f \in Nat
      BY <2>3, InvOwingNext DEF OwingParts
    <3>3. rewards.accrued[q] + held.allowance[q] \in Nat
      BY <3>1
    <3>4. earned[q] \in Nat
      BY <1>2
    <3> QED
      BY <3>1, <3>2, <3>3, <3>4, ScalarsPositive, ProductNat
  <2>5. Owing(q)' + y <= Owing(q)
    <3> HIDE DEF e, f, k, y
    <3> QED
      BY <2>1, <2>2, <2>4
  <2> QED
    BY <2>3, <2>5
<1>8. ASSUME NEW q \in Pools, q \notin P
      PROVE  Owing(q)' + Scalar14 * x[q] <= Owing(q)
  <2>1. emissions'[q] = emissions[q] /\ user_emissions'[q] = user_emissions[q]
    BY <1>1, <1>8
  <2>2. \A v \in Users : user_balance'[q][v].shares = user_balance[q][v].shares
    <3>1. CASE NothingClaimed(u, P)
      BY <3>1 DEF NothingClaimed, balanceVars
    <3>2. CASE ClaimDeposits(u, P, out)
      <4>1. user_balance'[q] = user_balance[q]
        BY <1>8, <3>2 DEF ClaimDeposits
      <4> QED
        BY <4>1
    <3> QED
      BY <1>1, <3>1, <3>2
  <2>3. Entitlements(emissions'[q], user_emissions'[q], user_balance'[q])
          = Entitlements(emissions[q], user_emissions[q], user_balance[q])
    BY <2>1, <2>2 DEF Entitlements
  <2>4. Owing(q)' = Owing(q)
    BY <1>1, <1>3, <2>1, <2>3 DEF Owing, EntitledBy
  <2>5. Scalar14 * x[q] = 0
    <3>1. x[q] = 0
      BY <1>4, <1>8
    <3> QED
      BY <3>1, ScalarsPositive, SMT
  <2>6. Owing(q) \in Nat
    BY <1>0, InvOwing DEF OwingParts
  <2> QED
    BY <2>4, <2>5, <2>6
<1>9. \A q \in Pools : Owing(q)' + Scalar14 * x[q] <= Owing(q)
  BY <1>7, <1>8
<1>10. Undistributed' = Undistributed /\ Undistributed \in Int /\ Undistributed' \in Int
  <2>1. Undistributed' = Undistributed
    BY <1>1 DEF Undistributed
  <2> QED
    BY <1>0, <2>1, UndistributedNat
<1>11. Funds - Undistributed - SumFunction(x) <= Funds' - Undistributed'
  <2>1. Funds = held.blnd + more /\ Funds' = held.blnd - claimed + more
    BY <1>1, <1>3 DEF Funds
  <2>2. more \in Nat
    BY <1>0, RewardParts DEF FundsParts
  <2> DEFINE f == Funds
             g == Funds'
             a == Undistributed
             total == SumFunction(x)
  <2>3. f = held.blnd + more /\ g = held.blnd - claimed + more /\ a \in Int /\ total = claimed
    BY <1>6, <1>10, <2>1
  <2> HIDE DEF f, g, a, total, claimed, more
  <2>4. f - a - total <= g - a
    BY <1>2, <1>3, <2>2, <2>3
  <2> QED
    BY <1>10, <2>4 DEF f, g, a, total
<1>12. Solvent'
  BY <1>0, <1>5, <1>9, <1>10, <1>11, SolventStep
<1>13. EmissionClock'
  BY <1>0, <1>1 DEF EmissionClock
<1> QED
  BY <1>12, <1>13 DEF CoveredInv

-----------------------------------------------------------------------------
(* The invariant holds, and what is promised is covered.                   *)

LEMMA InitCovered == Init => CoveredInv
<1> SUFFICES ASSUME Init PROVE CoveredInv
  OBVIOUS
<1>0. BackstopInv
  BY InitKeepsInv
<1>1. EmissionClock
  BY DEF Init, EmissionClock
<1> DEFINE owing == [p \in Pools |-> Owing(p)]
<1>2. ASSUME NEW p \in Pools
      PROVE  Owing(p) = 0
  <2> DEFINE entitled == Entitlements(emissions[p], user_emissions[p], user_balance[p])
  <2>1. rewards.accrued[p] = 0 /\ held.allowance[p] = 0 /\ emissions[p] = NoData
    BY DEF Init
  <2>2. \A u \in Users : entitled[u] = 0
    <3>1. \A u \in Users : user_emissions[p][u] = NoData /\ user_balance[p][u].shares = 0
      BY DEF Init, NoUserBalance
    <3>2. 0 * 0 = 0
      OBVIOUS
    <3> QED
      BY <2>1, <3>1, <3>2 DEF Entitlements, Entitled, IndexOf
  <2>3. entitled \in [Users -> Nat]
    BY <2>2 DEF Entitlements
  <2> HIDE DEF entitled
  <2>4. SumFunction(entitled) = 0
    BY <2>2, <2>3, BackstopAssumption, SumFunctionZero
  <2>5. Streaming(emissions[p]) = 0
    BY <2>1 DEF Streaming
  <2>6. Scalar14 * (0 + 0) = 0
    BY ScalarsPositive, SMT
  <2> QED
    BY <2>1, <2>4, <2>5, <2>6 DEF Owing, EntitledBy, entitled
<1>3. SumFunction(owing) = 0
  <2>1. owing \in [Pools -> Nat] /\ \A p \in Pools : owing[p] = 0
    BY <1>2
  <2> HIDE DEF owing
  <2> QED
    BY <2>1, BackstopAssumption, SumFunctionZero
<1>4. Funds = 0 /\ Undistributed = 0
  BY DEF Init, Funds, Undistributed
<1>5. Scalar14 * (0 - 0) = 0
  BY ScalarsPositive, SMT
<1>6. Solvent
  BY <1>3, <1>4, <1>5 DEF Solvent
<1> QED
  BY <1>0, <1>1, <1>6 DEF CoveredInv

LEMMA NextCovered ==
    ASSUME CoveredInv, [Next]_backstopVars
    PROVE  CoveredInv'
<1>0. BackstopInv'
  BY NextKeepsInv DEF CoveredInv
<1>1. CASE \E u \in Users, p \in Pools : UserCall(u, p)
  <2>1. PICK u \in Users, p \in Pools : UserCall(u, p)
    BY <1>1
  <2>2. CASE \E n \in Deposits : Deposit(u, p, n)
    BY <1>0, <2>2, QueueCovered, BackstopAssumption
  <2>3. CASE \E n \in Queues : QueueWithdrawal(u, p, n) \/ DequeueWithdrawal(u, p, n)
    BY <1>0, <2>3, QueueCovered, BackstopAssumption
  <2>4. CASE \E n \in Withdrawals : Withdraw(u, p, n)
    BY <1>0, <2>4, WithdrawCovered, BackstopAssumption
  <2> QED
    BY <2>1, <2>2, <2>3, <2>4 DEF UserCall
<1>2. CASE \E u \in Users, P \in SUBSET Pools, out \in LpAmounts : Claim(u, P, out)
  BY <1>0, <1>2, ClaimCovered, BackstopAssumption
<1>3. CASE \E p \in Pools : PoolCall(p) \/ PoolPays(p)
  <2>1. PICK p \in Pools : PoolCall(p) \/ PoolPays(p)
    BY <1>3
  <2>2. CASE (\E n \in Draws : Draw(p, n)) \/ (\E n \in Donations : Donate(p, n))
    BY <1>0, <2>2, PoolMovesCovered, BackstopAssumption
  <2>3. CASE GulpEmissions(p)
    BY <1>0, <2>3, GulpCovered
  <2>4. CASE PoolPays(p)
    BY <1>0, <2>4, PoolPaysCovered
  <2> QED
    BY <2>1, <2>2, <2>3, <2>4 DEF PoolCall
<1>4. CASE RewardCall
  <2>1. CASE StartDistribution
    BY <1>0, <2>1, StartDistributionCovered
  <2>2. CASE Distribute
    BY <1>0, <2>2, DistributeCovered
  <2>3. CASE Drop
    BY <1>0, <2>3, DropCovered
  <2>4. CASE \/ \E p \in Pools : AddReward(p) \/ RemoveReward(p)
             \/ \E p, out \in Pools : SwapReward(p, out)
    BY <1>0, <2>4, ZoneCovered
  <2> QED
    BY <1>4, <2>1, <2>2, <2>3, <2>4 DEF RewardCall
<1>5. CASE EmitterSwitches
  BY <1>0, <1>5, EmitterSwitchesCovered
<1>6. CASE EmitterDistributes
  BY <1>0, <1>6, EmitterDistributesCovered
<1>7. CASE \/ \E p \in Deployable, args \in DeployArgs : DeployPool(p, args)
           \/ \E p \in Indebted : BadDebtChanges(p)
           \/ \E dt \in Ticks : Tick(dt)
           \/ UNCHANGED backstopVars
  BY <1>0, <1>7, EnvironmentCovered
<1> QED
  BY <1>1, <1>2, <1>3, <1>4, <1>5, <1>6, <1>7 DEF Next

\* What is promised on behalf of a pool, rounded down at every stage, is owed.
LEMMA PromisedIsOwed ==
    ASSUME BackstopInv, NEW p \in Pools
    PROVE  Promised(p) \in Nat /\ Scalar14 * Promised(p) <= Owing(p)
<1> DEFINE d == emissions[p]
           ues == user_emissions[p]
           ubs == user_balance[p]
           unclaimed == [u \in Users |-> Unclaimed(p, u)]
           entitled == Entitlements(d, ues, ubs)
           scaled == [u \in Users |-> Scalar14 * unclaimed[u]]
           due == rewards.accrued[p] + held.allowance[p]
           stream == Unemitted(d)
           total == SumFunction(unclaimed)
<1>0. /\ d \in EmissionData \cup {NoData} /\ Fits(d, ues)
      /\ ues \in [Users -> UserEmissionData \cup {NoData}] /\ ubs \in [Users -> UserBalance]
      /\ due \in Nat /\ Owing(p) \in Nat
  BY InvOwing DEF OwingParts
<1>1. Promised(p) = due + stream + total
  BY DEF Promised, OfUsers
<1>2. Owing(p) = Scalar14 * due + (Streaming(d) + SumFunction(entitled))
  BY DEF Owing, EntitledBy
<1>3. /\ entitled \in [Users -> Nat] /\ SumFunction(entitled) \in Nat /\ Streaming(d) \in Nat
      /\ IndexOf(d) \in Nat
  BY <1>0, EntitlementsNat
<1>4. stream \in Nat /\ Scalar14 * stream <= Streaming(d)
  <2>1. CASE d = NoData
    <3>1. stream = 0 /\ Scalar14 * 0 = 0
      BY <2>1, ScalarsPositive, SMT DEF Unemitted
    <3> HIDE DEF stream
    <3> QED
      BY <1>3, <3>1
  <2>2. CASE d # NoData
    <3>1. d.last_time \in Nat
      BY <1>0, <2>2, EmissionParts
    <3>2. stream = LeftToEmit(d, d.last_time)
      BY <2>2 DEF Unemitted, LeftToEmit
    <3>3. /\ LeftToEmit(d, d.last_time) \in Nat
          /\ Scalar14 * LeftToEmit(d, d.last_time) <= Streaming(d)
      <4> DEFINE t == d.last_time
      <4>1. t \in Nat /\ d.last_time <= t
        BY <3>1
      <4> HIDE DEF t
      <4>2. LeftToEmit(d, t) \in Nat /\ Scalar14 * LeftToEmit(d, t) <= Streaming(d)
        BY <1>0, <4>1, LeftIsStreaming
      <4> QED
        BY <4>2 DEF t
    <3> HIDE DEF stream
    <3> QED
      BY <3>2, <3>3
  <2> QED
    BY <2>1, <2>2
<1>5. ASSUME NEW u \in Users
      PROVE  unclaimed[u] \in Nat /\ scaled[u] \in Nat /\ scaled[u] <= entitled[u]
  <2> DEFINE ue == ues[u]
             n == ubs[u].shares
             c == Unclaimed(p, u)
  <2>1. /\ n \in Nat /\ ue \in UserEmissionData \cup {NoData}
        /\ entitled[u] = Entitled(ue, IndexOf(d), n)
    BY <1>0, UserParts DEF Entitlements
  <2>2. CASE d = NoData
    <3>1. c = 0 /\ ue = NoData
      BY <1>0, <2>2 DEF Unclaimed, Fits
    <3>2. n * 0 = 0 /\ Scalar14 * 0 = 0
      BY <2>1, ScalarsPositive, SMT
    <3>3. entitled[u] = n * 0
      BY <2>1, <2>2, <3>1 DEF Entitled, IndexOf
    <3> HIDE DEF c, n
    <3> QED
      BY <3>1, <3>2, <3>3 DEF c
  <2>3. CASE d # NoData
    <3>1. d \in EmissionData /\ IndexOf(d) = d.index /\ (ue # NoData => ue.index <= d.index)
      BY <1>0, <2>3 DEF Fits, IndexOf
    <3>2. c = Owed(d, ue, n)
      BY <2>3 DEF Unclaimed
    <3> HIDE DEF d, ue, n, entitled
    <3>3. Owed(d, ue, n) \in Nat /\ Scalar14 * Owed(d, ue, n) <= Entitled(ue, d.index, n)
      BY <2>1, <3>1, OwedNat, OwedFits
    <3> HIDE DEF c
    <3>4. Scalar14 * c \in Nat
      BY <3>2, <3>3, ScalarsPositive, ProductNat
    <3> QED
      BY <2>1, <3>1, <3>2, <3>3, <3>4 DEF c
  <2> QED
    BY <2>2, <2>3
<1>6. \A u \in Users : scaled[u] = Scalar14 * unclaimed[u]
  OBVIOUS
<1>7. DOMAIN unclaimed = Users /\ DOMAIN entitled = Users /\ IsFiniteSet(Users)
      /\ unclaimed \in [Users -> Nat]
  BY <1>5, BackstopAssumption DEF Entitlements
<1> HIDE DEF unclaimed, entitled, scaled, stream, d
<1>8. Scalar14 * total <= SumFunction(entitled) /\ total \in Nat
  <2>1. Sum(scaled, Users) <= Sum(entitled, Users)
    <3>1. \A u \in Users : scaled[u] \in Int /\ entitled[u] \in Int /\ scaled[u] <= entitled[u]
      BY <1>3, <1>5
    <3> QED
      BY <1>7, <3>1, SumAtMost
  <2>2. Sum(scaled, Users) = Scalar14 * Sum(unclaimed, Users)
    <3>1. Scalar14 \in Int /\ \A u \in Users : unclaimed[u] \in Int
      BY <1>5, ScalarsPositive
    <3> QED
      BY <1>6, <1>7, <3>1, SumTimes
  <2> QED
    BY <1>7, <2>1, <2>2, SumFunctionIsSum, SumFunctionNat
<1> HIDE DEF total, due
<1>9. due + stream + total \in Nat
  BY <1>0, <1>4, <1>8
<1>10. Scalar14 * (due + stream + total) = Scalar14 * due + Scalar14 * stream + Scalar14 * total
  <2>1. Scalar14 \in Int
    BY ScalarsPositive
  <2> QED
    BY <1>0, <1>4, <1>8, <2>1, SMT
<1>11. Scalar14 * due \in Nat /\ Scalar14 * stream \in Nat /\ Scalar14 * total \in Nat
  BY <1>0, <1>4, <1>8, ScalarsPositive, ProductNat
<1>12. Scalar14 * (due + stream + total) <= Owing(p)
  BY <1>2, <1>3, <1>4, <1>8, <1>10, <1>11
<1> QED
  BY <1>1, <1>9, <1>12

LEMMA SolventCovers ==
    ASSUME CoveredInv
    PROVE  EmissionsCovered
<1> DEFINE promised == [p \in Pools |-> Promised(p)]
           owing == [p \in Pools |-> Owing(p)]
           scaled == [p \in Pools |-> Scalar14 * promised[p]]
           f == Funds
           w == Undistributed
           total == SumFunction(promised)
<1>0. BackstopInv /\ IsFiniteSet(Pools) /\ Scalar14 \in Nat /\ Scalar14 \in Int /\ Scalar14 > 0
  BY BackstopAssumption, ScalarsPositive DEF CoveredInv
<1>1. f \in Nat /\ w \in Nat
  BY <1>0, InvOwing, UndistributedNat DEF FundsParts, CoveredInv
<1>2. SumFunction(owing) <= Scalar14 * (f - w)
  BY DEF CoveredInv, Solvent
<1>3. \A p \in Pools : promised[p] \in Nat /\ owing[p] \in Nat /\ Scalar14 * promised[p] <= owing[p]
  <2>1. \A p \in Pools : Owing(p) \in Nat
    BY <1>0, InvOwing DEF OwingParts
  <2> QED
    BY <1>0, <2>1, PromisedIsOwed
<1>4. \A p \in Pools : scaled[p] = Scalar14 * promised[p]
  OBVIOUS
<1>5. DOMAIN promised = Pools /\ DOMAIN owing = Pools /\ promised \in [Pools -> Nat]
  BY <1>3
<1> HIDE DEF promised, owing, scaled, f, w
<1>6. Scalar14 * total <= SumFunction(owing) /\ total \in Nat /\ SumFunction(owing) \in Int
  <2>1. Sum(scaled, Pools) <= Sum(owing, Pools)
    <3>1. \A p \in Pools : scaled[p] \in Int /\ owing[p] \in Int /\ scaled[p] <= owing[p]
      <4>1. \A p \in Pools : scaled[p] \in Nat
        BY <1>0, <1>3, <1>4, ProductNat
      <4> QED
        BY <1>3, <1>4, <4>1
    <3> QED
      BY <1>0, <3>1, SumAtMost
  <2>2. Sum(scaled, Pools) = Scalar14 * Sum(promised, Pools)
    <3>1. \A p \in Pools : promised[p] \in Int
      BY <1>3
    <3> QED
      BY <1>0, <1>4, <3>1, SumTimes
  <2>3. Sum(owing, Pools) \in Int
    <3>1. \A p \in Pools : owing[p] \in Int
      BY <1>3
    <3> QED
      BY <1>0, <3>1, SumInt
  <2> QED
    BY <1>0, <1>5, <2>1, <2>2, <2>3, SumFunctionIsSum, SumFunctionNat
<1> HIDE DEF total
<1>7. Scalar14 * total < Scalar14 * (f - w) + Scalar14
  <2>1. Scalar14 * total \in Int /\ Scalar14 * (f - w) \in Int
    BY <1>0, <1>1, <1>6, ProductInt
  <2> QED
    BY <1>0, <1>2, <1>6, <2>1
<1>8. total <= f - w
  <2>1. total \in Int /\ f - w \in Int
    BY <1>1, <1>6
  <2> QED
    BY <1>0, <1>7, <2>1, Cancel
<1>9. total <= f
  BY <1>1, <1>6, <1>8
<1> QED
  BY <1>9 DEF EmissionsCovered, OfPools, Funds, promised, total, f

\* In every reachable state, counted without rounding, what the backstop owes to
\* pools, streams and depositors is within the BLND it has received or may still
\* drop, less what it has yet to distribute (emissions/manager.rs, distributor.rs).
THEOREM CoveredInvariant == Spec => []CoveredInv
<1>1. Init => CoveredInv
  BY InitCovered
<1>2. CoveredInv /\ [Next]_backstopVars => CoveredInv'
  BY NextCovered
<1> QED
  BY <1>1, <1>2, PTL DEF Spec

\* Every claim on the backstop's BLND can be paid, whatever the order of deposits,
\* queues, distributions, gulps, claims, the emitter's switch and the drop.
THEOREM ClaimsAreCovered == Spec => []EmissionsCovered
<1>1. CoveredInv => EmissionsCovered
  BY SolventCovers
<1> QED
  BY <1>1, CoveredInvariant, PTL
=============================================================================
