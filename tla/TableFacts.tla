----------------------------- MODULE TableFacts -----------------------------
(***************************************************************************)
(* Facts about the tables and arrays of the runtime, for every key and     *)
(* value: what the proofs about the scheduler and the worker pool cite.    *)
(***************************************************************************)
EXTENDS Tables, SequenceTheorems, TLAPS

\* A put keeps a table a table, and its other entries.
LEMMA PutTable ==
    ASSUME NEW K, NEW V, NEW t, IsTable(t, K, V), NEW k \in K, NEW v \in V
    PROVE  /\ IsTable(Put(t, k, v), K, V)
           /\ DOMAIN Put(t, k, v) = DOMAIN t \cup {k}
           /\ Put(t, k, v)[k] = v
           /\ \A x \in DOMAIN t \ {k} : Put(t, k, v)[x] = t[x]
BY DEF IsTable, Put

\* A del keeps a table a table, and its other entries.
LEMMA DelTable ==
    ASSUME NEW K, NEW V, NEW t, IsTable(t, K, V), NEW k
    PROVE  /\ IsTable(Del(t, k), K, V)
           /\ DOMAIN Del(t, k) = DOMAIN t \ {k}
           /\ \A x \in DOMAIN t \ {k} : Del(t, k)[x] = t[x]
BY DEF IsTable, Del

\* The empty table is a table.
LEMMA EmptyTable ==
    ASSUME NEW K, NEW V
    PROVE  IsTable(Empty, K, V) /\ DOMAIN Empty = {}
BY DEF IsTable, Empty

\* The values of an array.
LEMMA RangeSeq ==
    ASSUME NEW S, NEW q \in Seq(S)
    PROVE  /\ Range(q) \subseteq S
           /\ Range(q) = {q[i] : i \in 1..Len(q)}
           /\ \A x : x \in Range(q) <=> \E i \in 1..Len(q) : q[i] = x
BY DEF Range

\* push adds one value at the end.
LEMMA AppendRange ==
    ASSUME NEW S, NEW q \in Seq(S), NEW e \in S
    PROVE  /\ Append(q, e) \in Seq(S)
           /\ Range(Append(q, e)) = Range(q) \cup {e}
           /\ Distinct(q) /\ e \notin Range(q) => Distinct(Append(q, e))
<1>1. Append(q, e) \in Seq(S) /\ Len(Append(q, e)) = Len(q) + 1
  OBVIOUS
<1>2. /\ \A i \in 1..Len(q) : Append(q, e)[i] = q[i]
      /\ Append(q, e)[Len(q) + 1] = e
  OBVIOUS
<1>3. Range(Append(q, e)) = Range(q) \cup {e}
  <2>1. \A x : x \in Range(Append(q, e)) <=> \E i \in 1..(Len(q) + 1) : Append(q, e)[i] = x
    BY <1>1, RangeSeq
  <2>2. \A x : x \in Range(q) <=> \E i \in 1..Len(q) : q[i] = x
    BY RangeSeq
  <2>3. \A i : i \in 1..(Len(q) + 1) <=> i \in 1..Len(q) \/ i = Len(q) + 1
    OBVIOUS
  <2> QED BY <1>2, <2>1, <2>2, <2>3
<1>4. ASSUME Distinct(q), e \notin Range(q) PROVE Distinct(Append(q, e))
  <2>1. \A i \in 1..Len(q) : q[i] # e
    BY <1>4, RangeSeq
  <2> QED BY <1>1, <1>2, <1>4, <2>1 DEF Distinct
<1> QED BY <1>1, <1>3, <1>4

\* pop takes the last value off.
LEMMA PopRange ==
    ASSUME NEW S, NEW q \in Seq(S), q # <<>>
    PROVE  /\ Front(q) \in Seq(S)
           /\ Last(q) \in Range(q)
           /\ Last(q) \in S
           /\ Range(Front(q)) \subseteq Range(q) /\ Range(q) \ {Last(q)} \subseteq Range(Front(q))
           /\ Distinct(q) => Distinct(Front(q)) /\ Last(q) \notin Range(Front(q))
<1>1. Len(q) \in Nat \ {0}
  OBVIOUS
<1>2. /\ Front(q) \in Seq(S) /\ Len(Front(q)) = Len(q) - 1
      /\ \A i \in 1..(Len(q) - 1) : Front(q)[i] = q[i]
  <2>1. \A i \in 1..(Len(q) - 1) : q[i] \in S
    BY <1>1
  <2>2. /\ SubSeq(q, 1, Len(q) - 1) \in Seq(S)
        /\ Len(SubSeq(q, 1, Len(q) - 1)) = IF 1 <= Len(q) - 1 THEN Len(q) - 1 - 1 + 1 ELSE 0
        /\ \A i \in 1..(Len(q) - 1 - 1 + 1) : SubSeq(q, 1, Len(q) - 1)[i] = q[1 + i - 1]
    BY <1>1, <2>1, SubSeqProperties
  <2>3. Front(q) = SubSeq(q, 1, Len(q) - 1)
    BY DEF Front
  <2>4. ASSUME NEW m \in Nat, m = Len(q) PROVE Len(Front(q)) = m - 1
    <3>1. CASE m = 1
      BY <2>2, <2>3, <2>4, <3>1
    <3>2. CASE m > 1
      BY <2>2, <2>3, <2>4, <3>2
    <3> QED BY <1>1, <2>4, <3>1, <3>2
  <2>5. ASSUME NEW m \in Nat, m = Len(q), NEW i \in 1..(m - 1) PROVE Front(q)[i] = q[i]
    <3>1. SubSeq(q, 1, m - 1)[i] = q[1 + i - 1]
      BY <2>2, <2>5
    <3> QED BY <2>3, <2>5, <3>1
  <2> QED BY <1>1, <2>2, <2>3, <2>4, <2>5
<1>3. Last(q) = q[Len(q)]
  BY DEF Last
<1>4. \A x : x \in Range(Front(q)) <=> \E i \in 1..(Len(q) - 1) : q[i] = x
  BY <1>2, RangeSeq
<1>5. Last(q) \in Range(q) /\ Last(q) \in S
  BY <1>1, <1>3, RangeSeq
<1>6. Range(Front(q)) \subseteq Range(q) /\ Range(q) \ {Last(q)} \subseteq Range(Front(q))
  BY <1>1, <1>3, <1>4, RangeSeq
<1>7. ASSUME Distinct(q) PROVE Distinct(Front(q)) /\ Last(q) \notin Range(Front(q))
  BY <1>1, <1>2, <1>3, <1>4, <1>7 DEF Distinct
<1> QED BY <1>2, <1>5, <1>6, <1>7

\* Taking the first value off.
LEMMA TailRange ==
    ASSUME NEW S, NEW q \in Seq(S), q # <<>>
    PROVE  /\ Tail(q) \in Seq(S)
           /\ Head(q) \in S
           /\ Range(q) = {Head(q)} \cup Range(Tail(q))
           /\ Distinct(q) => Distinct(Tail(q)) /\ Head(q) \notin Range(Tail(q))
<1>1. Len(q) \in Nat \ {0}
  OBVIOUS
<1>2. /\ Tail(q) \in Seq(S) /\ Len(Tail(q)) = Len(q) - 1
      /\ \A i \in 1..(Len(q) - 1) : Tail(q)[i] = q[i + 1]
  BY <1>1
<1>3. Head(q) = q[1] /\ Head(q) \in S
  BY <1>1
<1>4. \A x : x \in Range(Tail(q)) <=> \E i \in 1..(Len(q) - 1) : q[i + 1] = x
  <2>1. \A x : x \in Range(Tail(q)) <=> \E i \in 1..(Len(q) - 1) : Tail(q)[i] = x
    BY <1>2, RangeSeq
  <2> QED BY <1>2, <2>1
<1>5. \A i : i \in 1..Len(q) <=> i = 1 \/ (i - 1 \in 1..(Len(q) - 1) /\ i \in Nat)
  BY <1>1
<1>6. ASSUME NEW x PROVE x \in Range(q) <=> x = Head(q) \/ x \in Range(Tail(q))
  <2>1. x \in Range(q) <=> \E i \in 1..Len(q) : q[i] = x
    BY RangeSeq
  <2>2. ASSUME x \in Range(q) PROVE x = Head(q) \/ x \in Range(Tail(q))
    <3>1. PICK i \in 1..Len(q) : q[i] = x
      BY <2>1, <2>2
    <3>2. CASE i = 1
      BY <3>1, <3>2, <1>3
    <3>3. CASE i # 1
      <4>1. i - 1 \in 1..(Len(q) - 1) /\ (i - 1) + 1 = i
        BY <3>1, <3>3, <1>1
      <4> QED BY <3>1, <4>1, <1>4
    <3> QED BY <3>2, <3>3
  <2>3. ASSUME x \in Range(Tail(q)) PROVE x \in Range(q)
    <3>1. PICK i \in 1..(Len(q) - 1) : q[i + 1] = x
      BY <1>4, <2>3
    <3>2. i + 1 \in 1..Len(q)
      BY <1>1
    <3> QED BY <3>1, <3>2, <2>1
  <2>4. Head(q) \in Range(q)
    BY <1>1, <1>3, RangeSeq
  <2> QED BY <2>2, <2>3, <2>4
<1>7. ASSUME Distinct(q) PROVE Distinct(Tail(q)) /\ Head(q) \notin Range(Tail(q))
  BY <1>1, <1>2, <1>3, <1>4, <1>7 DEF Distinct
<1> QED BY <1>2, <1>3, <1>6, <1>7

\* leave-array takes out one value and keeps every other in the array.
LEMMA LeaveArrayRange ==
    ASSUME NEW S, NEW q \in Seq(S), NEW f
    PROVE  /\ LeaveArray(q, f) \in Seq(S)
           /\ Range(LeaveArray(q, f)) \subseteq Range(q)
           /\ Range(q) \ {f} \subseteq Range(LeaveArray(q, f))
           /\ Distinct(q) => Distinct(LeaveArray(q, f)) /\ f \notin Range(LeaveArray(q, f))
<1>1. CASE ~ \E i \in 1..Len(q) : q[i] = f
  <2>1. LeaveArray(q, f) = q /\ f \notin Range(q)
    BY <1>1, RangeSeq DEF LeaveArray
  <2> QED BY <2>1
<1>2. CASE \E i \in 1..Len(q) : q[i] = f
  <2> DEFINE n == CHOOSE i \in 1..Len(q) : q[i] = f
             r == LeaveArray(q, f)
  <2>1. n \in 1..Len(q) /\ q[n] = f
    BY <1>2
  <2>2. r = SubSeq(q, 1, n - 1) \o SubSeq(q, n + 1, Len(q))
    BY <1>2 DEF LeaveArray, RemoveAt
  <2> HIDE DEF n
  <2>3. /\ SubSeq(q, 1, n - 1) \in Seq(S) /\ Len(SubSeq(q, 1, n - 1)) = n - 1
        /\ \A i \in 1..(n - 1) : SubSeq(q, 1, n - 1)[i] = q[i]
    BY <2>1
  <2>4. /\ SubSeq(q, n + 1, Len(q)) \in Seq(S)
        /\ Len(SubSeq(q, n + 1, Len(q))) = Len(q) - n
        /\ \A i \in 1..(Len(q) - n) : SubSeq(q, n + 1, Len(q))[i] = q[i + n]
    BY <2>1
  <2> DEFINE a == SubSeq(q, 1, n - 1)
             b == SubSeq(q, n + 1, Len(q))
  <2>c. /\ a \o b \in Seq(S)
        /\ Len(a \o b) = Len(a) + Len(b)
        /\ \A i \in 1..(Len(a) + Len(b)) :
             (a \o b)[i] = IF i <= Len(a) THEN a[i] ELSE b[i - Len(a)]
    BY <2>3, <2>4, ConcatProperties
  <2>d. r = a \o b
    BY <2>2
  <2>n. Len(q) \in Nat
    OBVIOUS
  <2> HIDE DEF a, b, r
  <2>5. r \in Seq(S) /\ Len(r) = Len(q) - 1
    BY <2>1, <2>3, <2>4, <2>c, <2>d, <2>n DEF a, b
  <2>6. ASSUME NEW i \in 1..(Len(q) - 1) PROVE r[i] = IF i < n THEN q[i] ELSE q[i + 1]
    <3>1. Len(a) = n - 1 /\ Len(b) = Len(q) - n
      BY <2>3, <2>4 DEF a, b
    <3>2. r[i] = IF i <= n - 1 THEN a[i] ELSE b[i - (n - 1)]
      BY <2>1, <2>c, <2>d, <2>n, <3>1
    <3>3. CASE i < n
      BY <2>1, <2>3, <3>2, <3>3, <2>n DEF a
    <3>4. CASE ~(i < n)
      <4>1. i - (n - 1) \in 1..(Len(q) - n) /\ i - (n - 1) + n = i + 1
        BY <2>1, <3>4, <2>n
      <4> QED BY <2>1, <2>4, <3>2, <3>4, <4>1, <2>n DEF b
    <3> QED BY <3>3, <3>4
  <2>r. r = LeaveArray(q, f)
    BY DEF r
  <2>7. Range(r) \subseteq Range(q)
    <3>1. ASSUME NEW x \in Range(r) PROVE x \in Range(q)
      <4>1. PICK i \in 1..(Len(q) - 1) : r[i] = x
        BY <2>5, RangeSeq
      <4>2. \E j \in 1..Len(q) : q[j] = x
        BY <4>1, <2>6, <2>1
      <4> QED BY <4>2, RangeSeq
    <3> QED BY <3>1
  <2>8. Range(q) \ {f} \subseteq Range(r)
    <3>1. ASSUME NEW x \in Range(q), x # f PROVE x \in Range(r)
      <4>1. PICK j \in 1..Len(q) : q[j] = x
        BY RangeSeq
      <4>2. j # n
        BY <4>1, <3>1, <2>1
      <4>3. CASE j < n
        <5>1. j \in 1..(Len(q) - 1) /\ r[j] = x
          BY <4>1, <4>3, <2>1, <2>6
        <5> QED BY <5>1, <2>5, RangeSeq
      <4>4. CASE j > n
        <5>1. j - 1 \in 1..(Len(q) - 1) /\ ~(j - 1 < n) /\ (j - 1) + 1 = j
          BY <4>1, <4>4, <2>1
        <5>2. r[j - 1] = x
          BY <5>1, <4>1, <2>6
        <5> QED BY <5>1, <5>2, <2>5, RangeSeq
      <4> QED BY <4>2, <4>3, <4>4, <2>1
    <3> QED BY <3>1
  <2>9. ASSUME Distinct(q) PROVE Distinct(r) /\ f \notin Range(r)
    <3>1. Distinct(r)
      BY <2>1, <2>5, <2>6, <2>9 DEF Distinct
    <3>2. ASSUME f \in Range(r) PROVE FALSE
      <4>1. PICK i \in 1..(Len(q) - 1) : r[i] = f
        BY <3>2, <2>5, RangeSeq
      <4>2. CASE i < n
        BY <4>1, <4>2, <2>1, <2>6, <2>9, <2>n DEF Distinct
      <4>3. CASE ~(i < n)
        <5>1. i + 1 \in 1..Len(q) /\ i + 1 # n /\ q[i + 1] = f
          BY <4>1, <4>3, <2>1, <2>6, <2>n
        <5> QED BY <5>1, <2>1, <2>9 DEF Distinct
      <4> QED BY <4>2, <4>3
    <3> QED BY <3>1, <3>2
  <2> QED BY <2>5, <2>7, <2>8, <2>9, <2>r
<1> QED BY <1>1, <1>2

\* leave-queue keeps a table of arrays one, and every other value where it was.
LEMMA LeaveQueueTable ==
    ASSUME NEW K, NEW S, NEW t, IsTable(t, K, Seq(S)), NEW k \in K, NEW f
    PROVE  /\ IsTable(LeaveQueue(t, k, f), K, Seq(S))
           /\ \A x, y : x \in DOMAIN t /\ y \in Range(t[x]) /\ y # f =>
                /\ x \in DOMAIN LeaveQueue(t, k, f)
                /\ y \in Range(LeaveQueue(t, k, f)[x])
<1>1. CASE k \notin DOMAIN t
  BY <1>1 DEF LeaveQueue
<1>2. CASE k \in DOMAIN t
  <2> DEFINE q == LeaveArray(t[k], f)
  <2>1. t[k] \in Seq(S)
    BY <1>2 DEF IsTable
  <2>2. q \in Seq(S) /\ Range(t[k]) \ {f} \subseteq Range(q)
    BY <2>1, LeaveArrayRange
  <2> HIDE DEF q
  <2>3. CASE q = <<>>
    <3>1. LeaveQueue(t, k, f) = Del(t, k)
      BY <1>2, <2>3 DEF LeaveQueue, q
    <3>2. Range(q) = {}
      BY <2>3 DEF Range
    <3>3. Range(t[k]) \subseteq {f}
      BY <2>2, <3>2
    <3>4. /\ IsTable(Del(t, k), K, Seq(S))
          /\ DOMAIN Del(t, k) = DOMAIN t \ {k}
          /\ \A x \in DOMAIN t \ {k} : Del(t, k)[x] = t[x]
      BY DEF Del, IsTable
    <3> QED BY <3>1, <3>3, <3>4
  <2>4. CASE q # <<>>
    <3>1. LeaveQueue(t, k, f) = Put(t, k, q)
      BY <1>2, <2>4 DEF LeaveQueue, q
    <3>2. /\ IsTable(Put(t, k, q), K, Seq(S))
          /\ DOMAIN Put(t, k, q) = DOMAIN t \cup {k}
          /\ Put(t, k, q)[k] = q
          /\ \A x \in DOMAIN t \ {k} : Put(t, k, q)[x] = t[x]
      BY <2>2 DEF Put, IsTable
    <3> QED BY <2>2, <3>1, <3>2
  <2> QED BY <2>3, <2>4
<1> QED BY <1>1, <1>2

\* A frame on top of the others.
LEMMA PushRange ==
    ASSUME NEW S, NEW q \in Seq(S), NEW e \in S
    PROVE  /\ <<e>> \o q \in Seq(S)
           /\ Range(<<e>> \o q) = {e} \cup Range(q)
<1> DEFINE r == <<e>> \o q
<1>1. <<e>> \in Seq(S) /\ Len(<<e>>) = 1 /\ <<e>>[1] = e
  OBVIOUS
<1>2. /\ r \in Seq(S) /\ Len(r) = Len(<<e>>) + Len(q)
      /\ \A i \in 1..(Len(<<e>>) + Len(q)) :
           r[i] = IF i <= Len(<<e>>) THEN <<e>>[i] ELSE q[i - Len(<<e>>)]
  BY <1>1, ConcatProperties
<1>3. Len(q) \in Nat
  OBVIOUS
<1> HIDE DEF r
<1>4. r[1] = e /\ 1 \in 1..Len(r)
  BY <1>1, <1>2, <1>3
<1>5. ASSUME NEW i \in 1..Len(q) PROVE r[i + 1] = q[i] /\ i + 1 \in 1..Len(r)
  BY <1>1, <1>2, <1>3
<1>6. ASSUME NEW x \in Range(r) PROVE x = e \/ x \in Range(q)
  <2>1. PICK i \in 1..Len(r) : r[i] = x
    BY <1>2, RangeSeq
  <2>2. CASE i = 1
    BY <1>4, <2>1, <2>2
  <2>3. CASE i # 1
    <3>1. i - 1 \in 1..Len(q) /\ (i - 1) + 1 = i
      BY <1>1, <1>2, <1>3, <2>1, <2>3
    <3>2. r[(i - 1) + 1] = q[i - 1]
      BY <1>5, <3>1
    <3>3. q[i - 1] = x
      BY <2>1, <3>1, <3>2
    <3> QED BY <3>1, <3>3, RangeSeq
  <2> QED BY <2>2, <2>3
<1>7. ASSUME NEW x \in Range(q) PROVE x \in Range(r)
  <2>1. PICK i \in 1..Len(q) : q[i] = x
    BY RangeSeq
  <2> QED BY <1>2, <1>5, <2>1, RangeSeq
<1>8. e \in Range(r)
  BY <1>2, <1>4, RangeSeq
<1> QED BY <1>2, <1>6, <1>7, <1>8 DEF r

\* Two frames on top of the others.
LEMMA PushTwoRange ==
    ASSUME NEW S, NEW q \in Seq(S), NEW d \in S, NEW e \in S
    PROVE  /\ <<d, e>> \o q \in Seq(S)
           /\ Range(<<d, e>> \o q) = {d, e} \cup Range(q)
<1> DEFINE r == <<d, e>> \o q
<1>1. /\ <<d, e>> \in Seq(S) /\ Len(<<d, e>>) = 2
      /\ <<d, e>>[1] = d /\ <<d, e>>[2] = e
  OBVIOUS
<1>2. /\ r \in Seq(S) /\ Len(r) = Len(<<d, e>>) + Len(q)
      /\ \A i \in 1..(Len(<<d, e>>) + Len(q)) :
           r[i] = IF i <= Len(<<d, e>>) THEN <<d, e>>[i] ELSE q[i - Len(<<d, e>>)]
  BY <1>1, ConcatProperties
<1>3. Len(q) \in Nat
  OBVIOUS
<1> HIDE DEF r
<1>4. r[1] = d /\ r[2] = e /\ 1 \in 1..Len(r) /\ 2 \in 1..Len(r)
  BY <1>1, <1>2, <1>3
<1>5. ASSUME NEW i \in 1..Len(q) PROVE r[i + 2] = q[i] /\ i + 2 \in 1..Len(r)
  BY <1>1, <1>2, <1>3
<1>6. ASSUME NEW x \in Range(r) PROVE x \in {d, e} \/ x \in Range(q)
  <2>1. PICK i \in 1..Len(r) : r[i] = x
    BY <1>2, RangeSeq
  <2>2. CASE i = 1 \/ i = 2
    BY <1>4, <2>1, <2>2
  <2>3. CASE ~(i = 1 \/ i = 2)
    <3>1. i - 2 \in 1..Len(q) /\ (i - 2) + 2 = i
      BY <1>1, <1>2, <1>3, <2>1, <2>3
    <3>2. r[(i - 2) + 2] = q[i - 2]
      BY <1>5, <3>1
    <3>3. q[i - 2] = x
      BY <2>1, <3>1, <3>2
    <3> QED BY <3>1, <3>3, RangeSeq
  <2> QED BY <2>2, <2>3
<1>7. ASSUME NEW x \in Range(q) PROVE x \in Range(r)
  <2>1. PICK i \in 1..Len(q) : q[i] = x
    BY RangeSeq
  <2> QED BY <1>2, <1>5, <2>1, RangeSeq
<1>8. d \in Range(r) /\ e \in Range(r)
  BY <1>2, <1>4, RangeSeq
<1> QED BY <1>2, <1>6, <1>7, <1>8 DEF r

\* What is on top of a stack, and what is under it.
LEMMA PushShape ==
    ASSUME NEW S, NEW q \in Seq(S), NEW e \in S
    PROVE  /\ <<e>> \o q # <<>>
           /\ Head(<<e>> \o q) = e
           /\ Tail(<<e>> \o q) = q
           /\ Len(<<e>> \o q) = Len(q) + 1
           /\ (<<e>> \o q)[1] = e
           /\ \A i \in 1..Len(q) : (<<e>> \o q)[i + 1] = q[i]
<1> DEFINE r == <<e>> \o q
<1>1. <<e>> \in Seq(S) /\ Len(<<e>>) = 1 /\ <<e>>[1] = e /\ Len(q) \in Nat
  OBVIOUS
<1>2. /\ r \in Seq(S) /\ Len(r) = Len(<<e>>) + Len(q)
      /\ \A i \in 1..(Len(<<e>>) + Len(q)) :
           r[i] = IF i <= Len(<<e>>) THEN <<e>>[i] ELSE q[i - Len(<<e>>)]
  BY <1>1, ConcatProperties
<1> HIDE DEF r
<1>3. Len(r) = Len(q) + 1 /\ r[1] = e /\ \A i \in 1..Len(q) : r[i + 1] = q[i]
  BY <1>1, <1>2
<1>4. r # <<>> /\ Head(r) = e
  BY <1>1, <1>2, <1>3
<1>5. Tail(r) = q
  <2>1. Tail(r) \in Seq(S) /\ Len(Tail(r)) = Len(q)
        /\ \A i \in 1..Len(q) : Tail(r)[i] = r[i + 1]
    BY <1>1, <1>2, <1>3, <1>4
  <2>2. \A i \in 1..Len(q) : Tail(r)[i] = q[i]
    BY <1>3, <2>1
  <2> QED BY <2>1, <2>2, SeqEqual
<1> QED BY <1>3, <1>4, <1>5 DEF r

\* Two frames at once are one after the other.
LEMMA PushTwoSplit ==
    ASSUME NEW S, NEW q \in Seq(S), NEW d \in S, NEW e \in S
    PROVE  <<d, e>> \o q = <<d>> \o (<<e>> \o q)
<1>1. /\ <<d>> \in Seq(S) /\ <<e>> \in Seq(S) /\ <<d, e>> \in Seq(S)
      /\ Len(<<d>>) = 1 /\ Len(<<e>>) = 1 /\ Len(<<d, e>>) = 2
      /\ <<d>>[1] = d /\ <<e>>[1] = e /\ <<d, e>>[1] = d /\ <<d, e>>[2] = e
  OBVIOUS
<1>2. <<d, e>> = <<d>> \o <<e>>
  <2>1. /\ <<d>> \o <<e>> \in Seq(S) /\ Len(<<d>> \o <<e>>) = 2
        /\ (<<d>> \o <<e>>)[1] = d /\ (<<d>> \o <<e>>)[2] = e
    BY <1>1, PushRange, PushShape
  <2>2. \A i \in 1..2 : i = 1 \/ i = 2
    OBVIOUS
  <2>3. \A i \in 1..Len(<<d, e>>) : <<d, e>>[i] = (<<d>> \o <<e>>)[i]
    BY <1>1, <2>1, <2>2
  <2> QED BY <1>1, <2>1, <2>3, SeqEqual
<1>3. (<<d>> \o <<e>>) \o q = <<d>> \o (<<e>> \o q)
  BY <1>1, ConcatAssociative
<1> QED BY <1>2, <1>3

\* Leaving a queue takes the one value out of the one array, and no array is
\* left empty by it.
LEMMA LeaveQueueExact ==
    ASSUME NEW K, NEW S, NEW t, IsTable(t, K, Seq(S)), NEW k \in K, NEW f
    PROVE  /\ \A x \in DOMAIN LeaveQueue(t, k, f) :
                /\ x \in DOMAIN t
                /\ Range(LeaveQueue(t, k, f)[x]) \subseteq Range(t[x])
                /\ Distinct(t[x]) => Distinct(LeaveQueue(t, k, f)[x])
                /\ x = k /\ Distinct(t[x]) => f \notin Range(LeaveQueue(t, k, f)[x])
                /\ x = k => LeaveQueue(t, k, f)[x] # <<>>
                /\ x # k => LeaveQueue(t, k, f)[x] = t[x]
<1>1. CASE k \notin DOMAIN t
  BY <1>1 DEF LeaveQueue
<1>2. CASE k \in DOMAIN t
  <2> DEFINE q == LeaveArray(t[k], f)
  <2>1. t[k] \in Seq(S)
    BY <1>2 DEF IsTable
  <2>2. /\ Range(q) \subseteq Range(t[k])
        /\ Distinct(t[k]) => Distinct(q) /\ f \notin Range(q)
    BY <2>1, LeaveArrayRange
  <2> HIDE DEF q
  <2>3. CASE q = <<>>
    <3>1. LeaveQueue(t, k, f) = Del(t, k)
      BY <1>2, <2>3 DEF LeaveQueue, q
    <3>2. DOMAIN Del(t, k) = DOMAIN t \ {k} /\ \A x \in DOMAIN t \ {k} : Del(t, k)[x] = t[x]
      BY DEF Del
    <3> QED BY <3>1, <3>2
  <2>4. CASE q # <<>>
    <3>1. LeaveQueue(t, k, f) = Put(t, k, q)
      BY <1>2, <2>4 DEF LeaveQueue, q
    <3>2. /\ DOMAIN Put(t, k, q) = DOMAIN t \cup {k} /\ Put(t, k, q)[k] = q
          /\ \A x \in DOMAIN t \ {k} : Put(t, k, q)[x] = t[x]
      BY DEF Put
    <3> QED BY <1>2, <2>2, <2>4, <3>1, <3>2
  <2> QED BY <2>3, <2>4
<1> QED BY <1>1, <1>2

\* A sequence over a set is one over a larger set.
LEMMA SeqGrows ==
    ASSUME NEW S, NEW q \in Seq(S), NEW T, S \subseteq T
    PROVE  q \in Seq(T)
OBVIOUS

\* Whatever is put on top, the frames below are there.
LEMMA PushKeeps ==
    ASSUME NEW S, NEW q \in Seq(S)
    PROVE  /\ \A e : Range(<<e>> \o q) = {e} \cup Range(q)
           /\ \A d, e : Range(<<d, e>> \o q) = {d, e} \cup Range(q)
<1>1. ASSUME NEW e PROVE Range(<<e>> \o q) = {e} \cup Range(q)
  <2>1. q \in Seq(S \cup {e})
    BY SeqGrows
  <2> QED BY <2>1, PushRange
<1>2. ASSUME NEW d, NEW e PROVE Range(<<d, e>> \o q) = {d, e} \cup Range(q)
  <2>1. q \in Seq(S \cup {d, e})
    BY SeqGrows
  <2> QED BY <2>1, PushTwoRange
<1> QED BY <1>1, <1>2
=============================================================================
