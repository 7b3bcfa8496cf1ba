--------------------------- MODULE QueueTheorems ----------------------------
(***************************************************************************)
(* What the proofs need of the queues and channels of the code: pushing at *)
(* the back, popping the head, putting back at the front and removing in   *)
(* the middle, for queues that hold an element at most once.               *)
(***************************************************************************)
EXTENDS SequencesExt, SequenceTheorems, TLAPS

\* Vec::push in submit_task, Sender::send on a channel.
LEMMA PushBack ==
    ASSUME NEW S, NEW q \in Seq(S), NEW x \in S
    PROVE  /\ Append(q, x) \in Seq(S)
           /\ Range(Append(q, x)) = Range(q) \cup {x}
           /\ IsInjective(q) /\ x \notin Range(q) => IsInjective(Append(q, x))
<1>1. /\ Append(q, x) \in Seq(S)
      /\ DOMAIN q = 1..Len(q) /\ Len(q) \in Nat
      /\ DOMAIN Append(q, x) = 1..(Len(q) + 1)
      /\ Append(q, x)[Len(q) + 1] = x
      /\ \A i \in 1..Len(q) : Append(q, x)[i] = q[i]
  OBVIOUS
<1> DEFINE r == Append(q, x)
<1> HIDE DEF r
<1>2. Range(r) = Range(q) \cup {x}
  BY <1>1 DEF Range, r
<1>3. IsInjective(q) /\ x \notin Range(q) => IsInjective(r)
  BY <1>1 DEF IsInjective, Range, r
<1> QED
  BY <1>1, <1>2, <1>3 DEF r

\* queue.remove(0) in schedule_next, Receiver::recv on a channel.
LEMMA PopFront ==
    ASSUME NEW S, NEW q \in Seq(S), q # <<>>
    PROVE  /\ Head(q) \in S
           /\ Tail(q) \in Seq(S)
           /\ Head(q) \in Range(q)
           /\ IsInjective(q) => IsInjective(Tail(q))
           /\ IsInjective(q) => Range(Tail(q)) = Range(q) \ {Head(q)}
<1>1. /\ Head(q) \in S
      /\ Head(q) = q[1]
      /\ DOMAIN q = 1..Len(q) /\ Len(q) \in Nat /\ Len(q) >= 1
      /\ Tail(q) \in Seq(S)
      /\ DOMAIN Tail(q) = 1..(Len(q) - 1)
      /\ \A i \in 1..(Len(q) - 1) : Tail(q)[i] = q[i + 1]
  OBVIOUS
<1> DEFINE r == Tail(q)
<1> HIDE DEF r
<1>2. Head(q) \in Range(q)
  BY <1>1 DEF Range
<1>3. IsInjective(q) => IsInjective(r)
  BY <1>1 DEF IsInjective, r
<1>4. ASSUME IsInjective(q) PROVE Range(r) = Range(q) \ {Head(q)}
  <2>1. ASSUME NEW y \in Range(r) PROVE y \in Range(q) \ {Head(q)}
    BY <1>1, <1>4, <2>1 DEF Range, IsInjective, r
  <2>2. ASSUME NEW y \in Range(q) \ {Head(q)} PROVE y \in Range(r)
    <3>1. PICK i \in 1..Len(q) : y = q[i] /\ i # 1
      BY <1>1, <2>2 DEF Range
    <3>2. i - 1 \in 1..(Len(q) - 1) /\ r[i - 1] = y
      BY <1>1, <3>1 DEF r
    <3> QED
      BY <1>1, <3>2 DEF Range, r
  <2> QED
    BY <2>1, <2>2
<1> QED
  BY <1>1, <1>2, <1>3, <1>4 DEF r

\* queue.insert(0, task) in schedule_next.
LEMMA PushFront ==
    ASSUME NEW S, NEW q \in Seq(S), NEW x \in S
    PROVE  /\ <<x>> \o q \in Seq(S)
           /\ Range(<<x>> \o q) = Range(q) \cup {x}
           /\ IsInjective(q) /\ x \notin Range(q) => IsInjective(<<x>> \o q)
<1>1. /\ <<x>> \o q \in Seq(S)
      /\ DOMAIN q = 1..Len(q) /\ Len(q) \in Nat
      /\ DOMAIN (<<x>> \o q) = 1..(Len(q) + 1)
      /\ (<<x>> \o q)[1] = x
      /\ \A i \in 1..Len(q) : (<<x>> \o q)[i + 1] = q[i]
  OBVIOUS
<1> DEFINE r == <<x>> \o q
<1> HIDE DEF r
<1>2. \A i \in 2..(Len(q) + 1) : i - 1 \in 1..Len(q) /\ r[i] = q[i - 1]
  <2> SUFFICES ASSUME NEW i \in 2..(Len(q) + 1)
               PROVE  i - 1 \in 1..Len(q) /\ r[i] = q[i - 1]
    OBVIOUS
  <2>1. i - 1 \in 1..Len(q) /\ (i - 1) + 1 = i
    BY <1>1
  <2> QED
    BY <1>1, <2>1 DEF r
<1>3. Range(r) = Range(q) \cup {x}
  <2>1. ASSUME NEW y \in Range(r) PROVE y \in Range(q) \cup {x}
    <3>1. PICK i \in 1..(Len(q) + 1) : y = r[i]
      BY <1>1, <2>1 DEF Range, r
    <3>2. CASE i = 1
      BY <1>1, <3>1, <3>2 DEF r
    <3>3. CASE i # 1
      BY <1>1, <1>2, <3>1, <3>3 DEF Range
    <3> QED
      BY <3>2, <3>3
  <2>2. ASSUME NEW y \in Range(q) PROVE y \in Range(r)
    <3>1. PICK i \in 1..Len(q) : y = q[i]
      BY <1>1, <2>2 DEF Range
    <3>2. i + 1 \in 1..(Len(q) + 1) /\ r[i + 1] = y
      BY <1>1, <3>1 DEF r
    <3> QED
      BY <1>1, <3>2 DEF Range, r
  <2>3. x \in Range(r)
    BY <1>1 DEF Range, r
  <2> QED
    BY <2>1, <2>2, <2>3
<1>4. ASSUME IsInjective(q), x \notin Range(q) PROVE IsInjective(r)
  <2> SUFFICES ASSUME NEW i \in 1..(Len(q) + 1), NEW j \in 1..(Len(q) + 1),
                      r[i] = r[j]
               PROVE  i = j
    BY <1>1 DEF IsInjective, r
  <2>1. CASE i = 1 /\ j # 1
    BY <1>1, <1>2, <1>4, <2>1 DEF Range, r
  <2>2. CASE i # 1 /\ j = 1
    BY <1>1, <1>2, <1>4, <2>2 DEF Range, r
  <2>3. CASE i # 1 /\ j # 1
    BY <1>1, <1>2, <1>4, <2>3 DEF IsInjective
  <2> QED
    BY <2>1, <2>2, <2>3
<1> QED
  BY <1>1, <1>3, <1>4 DEF r

\* queue.remove(pos) in cancel_task: what is left, position by position.
LEMMA RemoveAtElements ==
    ASSUME NEW S, NEW q \in Seq(S), NEW k \in DOMAIN q
    PROVE  /\ RemoveAt(q, k) \in Seq(S)
           /\ DOMAIN q = 1..Len(q) /\ Len(q) \in Nat /\ k \in 1..Len(q)
           /\ DOMAIN RemoveAt(q, k) = 1..(Len(q) - 1)
           /\ \A i \in 1..(k - 1) : RemoveAt(q, k)[i] = q[i]
           /\ \A i \in k..(Len(q) - 1) : RemoveAt(q, k)[i] = q[i + 1]
<1> DEFINE a == SubSeq(q, 1, k - 1)
           b == SubSeq(q, k + 1, Len(q))
           r == RemoveAt(q, k)
<1>1. /\ a \in Seq(S) /\ Len(a) = k - 1
      /\ \A i \in 1..(k - 1) : a[i] = q[i]
  OBVIOUS
<1>2. /\ b \in Seq(S) /\ Len(b) = Len(q) - k
      /\ \A i \in 1..(Len(q) - k) : b[i] = q[k + i]
  OBVIOUS
<1>3. r = a \o b
  BY DEF RemoveAt
<1> HIDE DEF a, b, r
<1>4. /\ r \in Seq(S)
      /\ DOMAIN q = 1..Len(q) /\ Len(q) \in Nat /\ k \in 1..Len(q)
      /\ DOMAIN r = 1..(Len(q) - 1)
      /\ \A i \in 1..(k - 1) : r[i] = q[i]
      /\ \A i \in k..(Len(q) - 1) : r[i] = q[i + 1]
  <2>1. k \in 1..Len(q) /\ Len(q) \in Nat /\ DOMAIN q = 1..Len(q)
    OBVIOUS
  <2>2. /\ a \o b \in Seq(S) /\ Len(a \o b) = Len(a) + Len(b)
        /\ \A i \in 1..(Len(a) + Len(b)) :
              (a \o b)[i] = IF i <= Len(a) THEN a[i] ELSE b[i - Len(a)]
    BY <1>1, <1>2, ConcatProperties
  <2>3. \A i \in k..(Len(q) - 1) : r[i] = q[i + 1]
    <3> SUFFICES ASSUME NEW i \in k..(Len(q) - 1) PROVE r[i] = q[i + 1]
      OBVIOUS
    <3>1. i - (k - 1) \in 1..(Len(q) - k) /\ k + (i - (k - 1)) = i + 1
      BY <2>1
    <3>2. i \in 1..(Len(a) + Len(b)) /\ ~(i <= Len(a))
      BY <1>1, <1>2, <2>1
    <3>3. r[i] = b[i - (k - 1)]
      BY <1>1, <1>3, <2>2, <3>2
    <3> QED
      BY <1>2, <3>1, <3>3
  <2>4. r \in Seq(S) /\ DOMAIN r = 1..(Len(q) - 1)
    <3>1. r \in Seq(S) /\ Len(r) = Len(q) - 1
      BY <1>1, <1>2, <1>3, <2>1, <2>2
    <3> QED
      BY <3>1
  <2>5. \A i \in 1..(k - 1) : r[i] = q[i]
    BY <1>1, <1>2, <1>3, <2>1, <2>2
  <2> QED
    BY <2>1, <2>3, <2>4, <2>5
<1> QED
  BY <1>4 DEF r

\* queue.remove(pos) in cancel_task.
LEMMA RemoveMiddle ==
    ASSUME NEW S, NEW q \in Seq(S), NEW k \in DOMAIN q
    PROVE  /\ RemoveAt(q, k) \in Seq(S)
           /\ IsInjective(q) => IsInjective(RemoveAt(q, k))
           /\ IsInjective(q) => Range(RemoveAt(q, k)) = Range(q) \ {q[k]}
<1> DEFINE r == RemoveAt(q, k)
<1>4. /\ r \in Seq(S)
      /\ DOMAIN q = 1..Len(q) /\ Len(q) \in Nat /\ k \in 1..Len(q)
      /\ DOMAIN r = 1..(Len(q) - 1)
      /\ \A i \in 1..(k - 1) : r[i] = q[i]
      /\ \A i \in k..(Len(q) - 1) : r[i] = q[i + 1]
  BY RemoveAtElements
<1> HIDE DEF r
<1>5. ASSUME IsInjective(q) PROVE IsInjective(r)
  <2> SUFFICES ASSUME NEW i \in 1..(Len(q) - 1), NEW j \in 1..(Len(q) - 1),
                      r[i] = r[j]
               PROVE  i = j
    BY <1>4 DEF IsInjective
  <2>1. CASE i < k /\ j < k
    <3>1. i \in 1..(k - 1) /\ j \in 1..(k - 1) /\ i \in DOMAIN q /\ j \in DOMAIN q
      BY <1>4, <2>1
    <3> QED
      BY <1>4, <1>5, <3>1 DEF IsInjective
  <2>2. CASE i < k /\ j >= k
    <3>1. /\ i \in DOMAIN q /\ j + 1 \in DOMAIN q /\ i # j + 1
          /\ r[i] = q[i] /\ r[j] = q[j + 1]
      BY <1>4, <2>2
    <3> QED
      BY <1>5, <3>1 DEF IsInjective
  <2>3. CASE i >= k /\ j < k
    <3>1. /\ j \in DOMAIN q /\ i + 1 \in DOMAIN q /\ j # i + 1
          /\ r[j] = q[j] /\ r[i] = q[i + 1]
      BY <1>4, <2>3
    <3> QED
      BY <1>5, <3>1 DEF IsInjective
  <2>4. CASE i >= k /\ j >= k
    BY <1>4, <1>5, <2>4 DEF IsInjective
  <2> QED
    BY <1>4, <2>1, <2>2, <2>3, <2>4
<1>6. ASSUME IsInjective(q) PROVE Range(r) = Range(q) \ {q[k]}
  <2>1. ASSUME NEW y \in Range(r) PROVE y \in Range(q) \ {q[k]}
    <3>1. PICK i \in 1..(Len(q) - 1) : y = r[i]
      BY <1>4, <2>1 DEF Range
    <3>2. CASE i < k
      BY <1>4, <1>6, <3>1, <3>2 DEF Range, IsInjective
    <3>3. CASE i >= k
      BY <1>4, <1>6, <3>1, <3>3 DEF Range, IsInjective
    <3> QED
      BY <1>4, <3>2, <3>3
  <2>2. ASSUME NEW y \in Range(q) \ {q[k]} PROVE y \in Range(r)
    <3>1. PICK i \in 1..Len(q) : y = q[i] /\ i # k
      BY <1>4, <2>2 DEF Range
    <3>2. CASE i < k
      BY <1>4, <3>1, <3>2 DEF Range
    <3>3. CASE i > k
      <4>1. i - 1 \in k..(Len(q) - 1) /\ r[i - 1] = y
        BY <1>4, <3>1, <3>3
      <4> QED
        BY <1>4, <4>1 DEF Range
    <3> QED
      BY <1>4, <3>1, <3>2, <3>3
  <2> QED
    BY <2>1, <2>2
<1> QED
  BY <1>4, <1>5, <1>6 DEF r

-----------------------------------------------------------------------------
(* Queues in the order of a ranking of their elements.                     *)

Rising(q, R) ==
    \A i, j \in DOMAIN q : i < j => <<q[i], q[j]>> \in R

\* A push of an element that follows all others.
LEMMA RisingPush ==
    ASSUME NEW S, NEW q \in Seq(S), NEW x \in S, NEW R, Rising(q, R),
           \A i \in DOMAIN q : <<q[i], x>> \in R
    PROVE  Rising(Append(q, x), R)
<1>1. /\ DOMAIN q = 1..Len(q) /\ Len(q) \in Nat
      /\ DOMAIN Append(q, x) = 1..(Len(q) + 1)
      /\ Append(q, x)[Len(q) + 1] = x
      /\ \A i \in 1..Len(q) : Append(q, x)[i] = q[i]
  OBVIOUS
<1> DEFINE r == Append(q, x)
<1> HIDE DEF r
<1> SUFFICES ASSUME NEW i \in 1..(Len(q) + 1), NEW j \in 1..(Len(q) + 1), i < j
             PROVE  <<r[i], r[j]>> \in R
  BY <1>1 DEF Rising, r
<1>2. i \in 1..Len(q) /\ r[i] = q[i]
  BY <1>1 DEF r
<1>3. CASE j = Len(q) + 1
  BY <1>1, <1>2, <1>3 DEF r
<1>4. CASE j # Len(q) + 1
  <2>1. j \in 1..Len(q) /\ r[j] = q[j]
    BY <1>1, <1>4 DEF r
  <2> QED
    BY <1>1, <1>2, <2>1 DEF Rising
<1> QED
  BY <1>3, <1>4

\* A pop: the head precedes all that stay.
LEMMA RisingPop ==
    ASSUME NEW S, NEW q \in Seq(S), q # <<>>, NEW R, Rising(q, R)
    PROVE  /\ Rising(Tail(q), R)
           /\ \A i \in DOMAIN Tail(q) : <<Head(q), Tail(q)[i]>> \in R
<1>1. /\ Head(q) = q[1]
      /\ DOMAIN q = 1..Len(q) /\ Len(q) \in Nat /\ Len(q) >= 1
      /\ DOMAIN Tail(q) = 1..(Len(q) - 1)
      /\ \A i \in 1..(Len(q) - 1) : Tail(q)[i] = q[i + 1]
  OBVIOUS
<1> DEFINE r == Tail(q)
<1> HIDE DEF r
<1>2. \A i \in 1..(Len(q) - 1) : i + 1 \in 1..Len(q) /\ 1 < i + 1 /\ r[i] = q[i + 1]
  BY <1>1 DEF r
<1>3. \A i \in 1..(Len(q) - 1) : <<q[1], r[i]>> \in R
  BY <1>1, <1>2 DEF Rising
<1>4. ASSUME NEW i \in 1..(Len(q) - 1), NEW j \in 1..(Len(q) - 1), i < j
      PROVE  <<r[i], r[j]>> \in R
  <2>1. i + 1 < j + 1
    BY <1>4
  <2> QED
    BY <1>1, <1>2, <2>1 DEF Rising
<1> QED
  BY <1>1, <1>3, <1>4 DEF Rising, r

\* Putting back at the front an element that precedes all others.
LEMMA RisingPutBack ==
    ASSUME NEW S, NEW q \in Seq(S), NEW x \in S, NEW R, Rising(q, R),
           \A i \in DOMAIN q : <<x, q[i]>> \in R
    PROVE  Rising(<<x>> \o q, R)
<1>1. /\ DOMAIN q = 1..Len(q) /\ Len(q) \in Nat
      /\ DOMAIN (<<x>> \o q) = 1..(Len(q) + 1)
      /\ (<<x>> \o q)[1] = x
      /\ \A i \in 1..Len(q) : (<<x>> \o q)[i + 1] = q[i]
  OBVIOUS
<1> DEFINE r == <<x>> \o q
<1> HIDE DEF r
<1>2. \A i \in 2..(Len(q) + 1) : i - 1 \in 1..Len(q) /\ r[i] = q[i - 1]
  <2> SUFFICES ASSUME NEW i \in 2..(Len(q) + 1)
               PROVE  i - 1 \in 1..Len(q) /\ r[i] = q[i - 1]
    OBVIOUS
  <2>1. i - 1 \in 1..Len(q) /\ (i - 1) + 1 = i
    BY <1>1
  <2> QED
    BY <1>1, <2>1 DEF r
<1> SUFFICES ASSUME NEW i \in 1..(Len(q) + 1), NEW j \in 1..(Len(q) + 1), i < j
             PROVE  <<r[i], r[j]>> \in R
  BY <1>1 DEF Rising, r
<1>3. j \in 2..(Len(q) + 1)
  BY <1>1
<1>4. CASE i = 1
  BY <1>1, <1>2, <1>3, <1>4 DEF r
<1>5. CASE i # 1
  <2>1. i \in 2..(Len(q) + 1) /\ i - 1 < j - 1
    BY <1>1, <1>5
  <2> QED
    BY <1>1, <1>2, <1>3, <2>1 DEF Rising
<1> QED
  BY <1>4, <1>5

\* A removal in the middle.
LEMMA RisingRemove ==
    ASSUME NEW S, NEW q \in Seq(S), NEW k \in DOMAIN q, NEW R, Rising(q, R)
    PROVE  Rising(RemoveAt(q, k), R)
<1> DEFINE r == RemoveAt(q, k)
<1>1. /\ DOMAIN q = 1..Len(q) /\ Len(q) \in Nat /\ k \in 1..Len(q)
      /\ DOMAIN r = 1..(Len(q) - 1)
      /\ \A i \in 1..(k - 1) : r[i] = q[i]
      /\ \A i \in k..(Len(q) - 1) : r[i] = q[i + 1]
  BY RemoveAtElements
<1> HIDE DEF r
<1> SUFFICES ASSUME NEW i \in 1..(Len(q) - 1), NEW j \in 1..(Len(q) - 1), i < j
             PROVE  <<r[i], r[j]>> \in R
  BY <1>1 DEF Rising, r
<1>2. CASE j < k
  <2>1. i \in 1..Len(q) /\ j \in 1..Len(q) /\ r[i] = q[i] /\ r[j] = q[j]
    BY <1>1, <1>2
  <2> QED
    BY <1>1, <2>1 DEF Rising
<1>3. CASE i < k /\ j >= k
  <2>1. /\ i \in 1..Len(q) /\ j + 1 \in 1..Len(q) /\ i < j + 1
        /\ r[i] = q[i] /\ r[j] = q[j + 1]
    BY <1>1, <1>3
  <2> QED
    BY <1>1, <2>1 DEF Rising
<1>4. CASE i >= k
  <2>1. /\ i + 1 \in 1..Len(q) /\ j + 1 \in 1..Len(q) /\ i + 1 < j + 1
        /\ r[i] = q[i + 1] /\ r[j] = q[j + 1]
    BY <1>1, <1>4
  <2> QED
    BY <1>1, <2>1 DEF Rising
<1> QED
  BY <1>1, <1>2, <1>3, <1>4

=============================================================================
