-------------------------- MODULE AskBudgetProofs --------------------------
(***************************************************************************)
(* Theorems about AskBudget for every cap and number of days: a day's bill *)
(* never passes its cap but for charges that were lost, and with none lost *)
(* the row and what is queued for it are the bill.                         *)
(***************************************************************************)
EXTENDS AskBudget, FiniteSetTheorems, TLAPS

BudgetConstants == Cap \in Nat /\ MaxDay \in Nat

\* How many of the first n deltas are this one.
CountTo(deltas, n, d, delta) ==
  Cardinality({i \in 1..n : deltas[i] = <<d, delta>>})

\* The row once the first n deltas are written, were there no floor.
Written(n, d) == row[d] + CountTo(queue, n, d, 1) - CountTo(queue, n, d, -1)

\* The limiter and the store agree on the day the counter is for.
CounterIsCache == counter.day # NoDay => counter.spent = cache[counter.day]

\* No day is charged before it comes, and the memory knows of every charge of
\* today and later that was not lost.
Known ==
  /\ \A d \in Days : d > day => admitted[d] <= 0
  /\ \A d \in Days : d >= day => admitted[d] <= cache[d] + lost[d]

\* So does the disk, once the queue is written.
Owes == \A d \in Days : admitted[d] <= Written(Len(queue), d) + lost[d]

\* With nothing lost the two are the same, and no write meets its floor.
Exact ==
  \A d \in Days : lost[d] = 0 /\ owed[d] = 0 =>
    /\ Written(Len(queue), d) = admitted[d]
    /\ \A n \in 0..Len(queue) : Written(n, d) >= 0

BInv == BudgetTypeOK /\ CounterIsCache /\ Known /\ Owes /\ Exact /\ CapHolds

-----------------------------------------------------------------------------
(* Counting deltas *)

\* A count is a number.
LEMMA CountNat ==
  ASSUME NEW s, NEW n \in Nat, NEW d, NEW x
  PROVE  CountTo(s, n, d, x) \in Nat
<1>1. IsFiniteSet(1..n)
  BY FS_Interval
<1>2. IsFiniteSet({i \in 1..n : s[i] = <<d, x>>})
  BY <1>1, FS_Subset
<1> QED
  BY <1>2, FS_CardinalityType DEF CountTo

\* The model's count is the count to the end.
LEMMA CountAll ==
  ASSUME NEW S, NEW s \in Seq(S), NEW d, NEW x
  PROVE  Count(s, d, x) = CountTo(s, Len(s), d, x) /\ Count(s, d, x) \in Nat
<1>1. DOMAIN s = 1..Len(s) /\ Len(s) \in Nat
  OBVIOUS
<1>2. Count(s, d, x) = CountTo(s, Len(s), d, x)
  BY <1>1, Zenon DEF Count, CountTo
<1>3. CountTo(s, Len(s), d, x) \in Nat
  BY <1>1, CountNat
<1> QED
  BY <1>2, <1>3

\* Nothing is counted of nothing.
LEMMA CountZero ==
  ASSUME NEW s, NEW d, NEW x
  PROVE  CountTo(s, 0, d, x) = 0
<1>1. {i \in 1..0 : s[i] = <<d, x>>} = {}
  OBVIOUS
<1> QED
  BY <1>1, FS_EmptySet DEF CountTo

\* A delta put at the end is in no count that stops before it.
LEMMA CountBefore ==
  ASSUME NEW S, NEW s \in Seq(S), NEW e \in S, NEW n \in 0..Len(s), NEW d, NEW x
  PROVE  CountTo(Append(s, e), n, d, x) = CountTo(s, n, d, x)
<1>1. \A i \in 1..n : Append(s, e)[i] = s[i]
  OBVIOUS
<1>2. {i \in 1..n : Append(s, e)[i] = <<d, x>>} = {i \in 1..n : s[i] = <<d, x>>}
  BY <1>1
<1> QED
  BY <1>2 DEF CountTo

\* It adds itself to the whole count.
LEMMA CountAppend ==
  ASSUME NEW S, NEW s \in Seq(S), NEW e \in S, NEW d, NEW x
  PROVE  CountTo(Append(s, e), Len(s) + 1, d, x) =
           CountTo(s, Len(s), d, x) + (IF e = <<d, x>> THEN 1 ELSE 0)
<1> DEFINE t == Append(s, e)
           A == {i \in 1..Len(s) : s[i] = <<d, x>>}
           B == {i \in 1..Len(s) + 1 : t[i] = <<d, x>>}
<1>1. Len(s) \in Nat /\ t[Len(s) + 1] = e /\ \A i \in 1..Len(s) : t[i] = s[i]
  OBVIOUS
<1>2. 1..Len(s) + 1 = (1..Len(s)) \cup {Len(s) + 1}
  BY <1>1
<1>3. B = IF e = <<d, x>> THEN A \cup {Len(s) + 1} ELSE A
  <2> HIDE DEF t
  <2> QED
    BY <1>1, <1>2
<1>4. IsFiniteSet(A) /\ Len(s) + 1 \notin A
  <2>a. IsFiniteSet(1..Len(s))
    <3>1. 1 \in Int /\ Len(s) \in Int
      BY <1>1
    <3> HIDE DEF t, A, B
    <3> QED
      BY <3>1, FS_Interval, Zenon
  <2>b. A \subseteq 1..Len(s)
    OBVIOUS
  <2>0. IsFiniteSet(1..Len(s)) /\ A \subseteq 1..Len(s)
    BY <2>a, <2>b, Zenon
  <2>1. IsFiniteSet(A)
    <3> HIDE DEF A
    <3> QED
      BY <2>0, FS_Subset
  <2>2. Len(s) + 1 \notin A
    BY <1>1
  <2> QED
    BY <2>1, <2>2
<1>5. Cardinality(A \cup {Len(s) + 1}) = Cardinality(A) + 1
  BY <1>4, FS_AddElement
<1>6. Cardinality(A) \in Nat
  BY <1>4, FS_CardinalityType
<1>7. Cardinality(B) = Cardinality(A) + (IF e = <<d, x>> THEN 1 ELSE 0)
  <2> HIDE DEF A, B
  <2> QED
    BY <1>3, <1>5, <1>6
<1> QED
  BY <1>7 DEF CountTo

\* Taking the first delta off takes it out of every count.
LEMMA CountTail ==
  ASSUME NEW S, NEW s \in Seq(S), s # <<>>, NEW n \in 0..Len(s) - 1, NEW d, NEW x
  PROVE  CountTo(s, n + 1, d, x) =
           CountTo(Tail(s), n, d, x) + (IF Head(s) = <<d, x>> THEN 1 ELSE 0)
<1> DEFINE t == Tail(s)
           A == {i \in 1..n : t[i] = <<d, x>>}
           C == {i \in 2..n + 1 : s[i] = <<d, x>>}
           B == {i \in 1..n + 1 : s[i] = <<d, x>>}
           f == [i \in A |-> i + 1]
<1>1. n \in Nat /\ Head(s) = s[1] /\ \A i \in 1..n : t[i] = s[i + 1]
  OBVIOUS
<1>2. IsFiniteSet(A) /\ IsFiniteSet(C)
  <2>1. IsFiniteSet(1..n) /\ IsFiniteSet(2..n + 1)
    BY <1>1, FS_Interval
  <2>2. A \subseteq 1..n /\ C \subseteq 2..n + 1
    OBVIOUS
  <2> HIDE DEF A, C
  <2> QED
    BY <2>1, <2>2, FS_Subset
<1>3. f \in Bijection(A, C)
  <2>1. \A i \in A : i + 1 \in C
    BY <1>1
  <2>2. \A i, j \in A : f[i] = f[j] => i = j
    BY <1>1
  <2>3. \A k \in C : k - 1 \in A /\ f[k - 1] = k
    BY <1>1
  <2> QED
    BY <2>1, <2>2, <2>3 DEF Bijection, Injection, Surjection, IsInjective
<1>4. Cardinality(C) = Cardinality(A)
  BY <1>2, <1>3, FS_Bijection DEF ExistsBijection
<1>5. B = IF Head(s) = <<d, x>> THEN C \cup {1} ELSE C
  BY <1>1
<1>6. Cardinality(C \cup {1}) = Cardinality(C) + 1
  <2>1. 1 \notin C
    OBVIOUS
  <2> HIDE DEF C
  <2> QED
    BY <2>1, <1>2, FS_AddElement
<1>7. Cardinality(A) \in Nat
  BY <1>2, FS_CardinalityType
<1>8. Cardinality(B) = Cardinality(A) + (IF Head(s) = <<d, x>> THEN 1 ELSE 0)
  <2> HIDE DEF A, B, C
  <2> QED
    BY <1>4, <1>5, <1>6, <1>7
<1> QED
  BY <1>8 DEF CountTo

-----------------------------------------------------------------------------
(* What the steps do to the row that is to come *)

\* The type invariant, taken apart.
LEMMA Types ==
  ASSUME BudgetTypeOK
  PROVE  /\ day \in Days
         /\ counter \in [day : Days \cup {NoDay}, spent : Nat]
         /\ cache \in [Days -> Nat] /\ row \in [Days -> Nat]
         /\ queue \in Seq(Days \X Deltas) /\ Len(queue) \in Nat
         /\ admitted \in [Days -> Int]
         /\ lost \in [Days -> Nat] /\ owed \in [Days -> Nat]
<1>1. queue \in Seq(Days \X Deltas)
  BY Zenon DEF BudgetTypeOK
<1>2. Len(queue) \in Nat
  BY <1>1
<1> QED
  BY <1>1, <1>2, Zenon DEF BudgetTypeOK

\* The invariant, taken apart.
LEMMA Parts ==
  ASSUME BInv
  PROVE  BudgetTypeOK /\ CounterIsCache /\ Known /\ Owes /\ Exact /\ CapHolds
BY Zenon DEF BInv

\* What is written is a number.
LEMMA WrittenInt ==
  ASSUME BudgetTypeOK, NEW d \in Days, NEW n \in Nat
  PROVE  Written(n, d) \in Int
<1>1. CountTo(queue, n, d, 1) \in Nat /\ CountTo(queue, n, d, -1) \in Nat
  BY CountNat
<1>2. row[d] \in Nat
  BY DEF BudgetTypeOK
<1> QED
  BY <1>1, <1>2 DEF Written

\* A recorded delta is written last, on its own day.
LEMMA RecordWrites ==
  ASSUME BudgetTypeOK, NEW d \in Days, NEW delta \in Deltas, Record(d, delta), row' = row
  PROVE  /\ queue' \in Seq(Days \X Deltas)
         /\ Len(queue') = Len(queue) + 1
         /\ \A e \in Days : Written(Len(queue), e)' =
              Written(Len(queue), e) + (IF e = d THEN delta ELSE 0)
         /\ \A e \in Days : \A n \in 0..Len(queue) : Written(n, e)' = Written(n, e)
<1>1. queue \in Seq(Days \X Deltas) /\ <<d, delta>> \in Days \X Deltas
      /\ queue' = Append(queue, <<d, delta>>) /\ Len(queue) \in Nat
  BY DEF BudgetTypeOK, Record
<1>2. queue' \in Seq(Days \X Deltas) /\ Len(queue') = Len(queue) + 1
  BY <1>1
<1>3. ASSUME NEW e \in Days
      PROVE  Written(Len(queue), e)' = Written(Len(queue), e) + (IF e = d THEN delta ELSE 0)
  <2>1. CountTo(queue', Len(queue) + 1, e, 1) =
          CountTo(queue, Len(queue), e, 1) + (IF <<d, delta>> = <<e, 1>> THEN 1 ELSE 0)
    BY <1>1, CountAppend
  <2>2. CountTo(queue', Len(queue) + 1, e, -1) =
          CountTo(queue, Len(queue), e, -1) + (IF <<d, delta>> = <<e, -1>> THEN 1 ELSE 0)
    BY <1>1, CountAppend
  <2>3. CountTo(queue, Len(queue), e, 1) \in Nat /\ CountTo(queue, Len(queue), e, -1) \in Nat
    BY <1>1, CountNat
  <2>4. row[e] \in Nat /\ row'[e] = row[e] /\ (delta = 1 \/ delta = -1)
    BY DEF BudgetTypeOK, Deltas
  <2>5. Written(Len(queue), e)' =
          row'[e] + CountTo(queue', Len(queue) + 1, e, 1) - CountTo(queue', Len(queue) + 1, e, -1)
    BY <1>2 DEF Written
  <2> QED
    BY <2>1, <2>2, <2>3, <2>4, <2>5 DEF Written
<1>4. ASSUME NEW e \in Days, NEW n \in 0..Len(queue)
      PROVE  Written(n, e)' = Written(n, e)
  <2>1. ASSUME NEW x
        PROVE  CountTo(Append(queue, <<d, delta>>), n, e, x) = CountTo(queue, n, e, x)
    BY <1>1, CountBefore
  <2>2. CountTo(queue', n, e, 1) = CountTo(queue, n, e, 1)
        /\ CountTo(queue', n, e, -1) = CountTo(queue, n, e, -1)
    BY <1>1, <2>1
  <2> QED
    BY <2>2 DEF Written
<1> QED
  BY <1>2, <1>3, <1>4

\* A delta that leaves the queue leaves every count it was in.
LEMMA HeadLeaves ==
  ASSUME BudgetTypeOK, queue # <<>>, queue' = Tail(queue)
  PROVE  /\ queue' \in Seq(Days \X Deltas) /\ Len(queue') = Len(queue) - 1
         /\ Len(queue) \in Nat /\ Len(queue) > 0
         /\ Head(queue)[1] \in Days /\ Head(queue)[2] \in Deltas
         /\ \A e \in Days : \A n \in 0..Len(queue') : \A x \in Deltas :
              /\ CountTo(queue', n, e, x) \in Nat
              /\ CountTo(queue, n + 1, e, x) =
                   CountTo(queue', n, e, x) + (IF Head(queue)[1] = e /\ Head(queue)[2] = x THEN 1 ELSE 0)
<1>1. queue \in Seq(Days \X Deltas)
  BY DEF BudgetTypeOK
<1>2. queue' \in Seq(Days \X Deltas) /\ Len(queue') = Len(queue) - 1 /\ Len(queue) \in Nat /\ Len(queue) > 0
  BY <1>1
<1>3. Head(queue) \in Days \X Deltas
  BY <1>1, <1>2
<1>4. Head(queue)[1] \in Days /\ Head(queue)[2] \in Deltas /\ Head(queue) = <<Head(queue)[1], Head(queue)[2]>>
  BY <1>3
<1>5. ASSUME NEW e \in Days, NEW n \in 0..Len(queue'), NEW x \in Deltas
      PROVE  /\ CountTo(queue', n, e, x) \in Nat
             /\ CountTo(queue, n + 1, e, x) =
                  CountTo(queue', n, e, x) + (IF Head(queue)[1] = e /\ Head(queue)[2] = x THEN 1 ELSE 0)
  <2>1. n \in 0..Len(queue) - 1 /\ n \in Nat
    BY <1>2
  <2>2. CountTo(queue', n, e, x) \in Nat
    BY <2>1, CountNat
  <2>3. CountTo(queue, n + 1, e, x) =
          CountTo(Tail(queue), n, e, x) + (IF Head(queue) = <<e, x>> THEN 1 ELSE 0)
    BY <1>1, <2>1, CountTail
  <2>4. Head(queue) = <<e, x>> <=> Head(queue)[1] = e /\ Head(queue)[2] = x
    BY <1>4
  <2> QED
    BY <2>2, <2>3, <2>4
<1> QED
  BY <1>2, <1>4, <1>5

-----------------------------------------------------------------------------
(* Every action keeps the invariant *)

\* A charge that the counter allows keeps the invariant.
LEMMA ChargeInv ==
  ASSUME BudgetConstants, BInv, Charge(day)
  PROVE  BInv'
<1> USE DEF BudgetConstants
<1>0. BudgetTypeOK /\ day \in Days
  BY Parts, Types
<1>1. UNCHANGED <<day, row, lost, owed>>
  BY DEF Charge
<1>2. /\ queue' \in Seq(Days \X Deltas)
      /\ Len(queue') = Len(queue) + 1
      /\ \A e \in Days : Written(Len(queue), e)' =
           Written(Len(queue), e) + (IF e = day THEN 1 ELSE 0)
      /\ \A e \in Days : \A n \in 0..Len(queue) : Written(n, e)' = Written(n, e)
  <2>1. Record(day, 1) /\ row' = row
    BY <1>1, Zenon DEF Charge
  <2>2. 1 \in Deltas
    BY DEF Deltas
  <2> QED
    BY <1>0, <2>1, <2>2, RecordWrites, Types
<1>a. Spent(day) = cache[day] /\ cache[day] \in Nat /\ cache[day] < Cap
  <2>1. day # NoDay /\ cache[day] \in Nat
    BY <1>0, Types DEF Days, NoDay
  <2> QED
    BY <1>0, <2>1, Parts DEF CounterIsCache, Spent, Charge
<1>3. /\ counter' = [day |-> day, spent |-> cache[day] + 1]
      /\ cache' = [cache EXCEPT ![day] = cache[day] + 1]
      /\ \A e \in Days : cache[e] \in Nat /\ cache'[e] = IF e = day THEN cache[e] + 1 ELSE cache[e]
  <2>1. Floor(cache[day] + 1) = cache[day] + 1
    BY <1>a DEF Floor
  <2>2. cache' = [cache EXCEPT ![day] = cache[day] + 1]
    BY <2>1 DEF Charge, Record
  <2>3. counter' = [day |-> day, spent |-> cache[day] + 1]
    BY <1>a DEF Charge
  <2> QED
    BY <1>0, <2>2, <2>3, Types
<1>4. admitted' = [admitted EXCEPT ![day] = @ + 1]
  BY DEF Charge
<1>5. \A e \in Days : admitted[e] \in Int /\ admitted'[e] = IF e = day THEN admitted[e] + 1 ELSE admitted[e]
  BY <1>0, <1>4, Types
<1>6. \A e \in Days : lost[e] \in Nat /\ lost'[e] = lost[e] /\ owed'[e] = owed[e]
  BY <1>0, <1>1, Types
<1>7. BudgetTypeOK'
  <2>1. admitted' \in [Days -> Int]
    BY <1>0, <1>4, Types
  <2>2. counter' \in [day : Days \cup {NoDay}, spent : Nat] /\ cache' \in [Days -> Nat]
    BY <1>0, <1>3, Types
  <2>3. day' \in Days /\ row' \in [Days -> Nat] /\ lost' \in [Days -> Nat] /\ owed' \in [Days -> Nat]
    BY <1>0, <1>1, Types, Zenon
  <2> QED
    BY <2>1, <2>2, <2>3, <1>2, Zenon DEF BudgetTypeOK
<1>8. CounterIsCache'
  BY <1>0, <1>3, Types, Parts DEF CounterIsCache
<1>9. Known'
  <2>1. \A e \in Days : e > day => admitted[e] <= 0
    BY Parts DEF Known
  <2>2. \A e \in Days : e >= day => admitted[e] <= cache[e] + lost[e]
    BY Parts DEF Known
  <2>3. \A e \in Days : e > day => admitted'[e] <= 0
    <3>1. ~(day > day)
      BY <1>0 DEF Days
    <3> QED
      BY <2>1, <3>1, <1>5
  <2>4. \A e \in Days : e >= day => admitted'[e] <= cache'[e] + lost'[e]
    BY <2>2, <1>3, <1>5, <1>6
  <2> QED
    BY <2>3, <2>4, <1>1 DEF Known
<1>10. Owes'
  <2> SUFFICES ASSUME NEW e \in Days
               PROVE  (admitted[e] <= Written(Len(queue), e) + lost[e])'
    BY DEF Owes
  <2>1. admitted[e] <= Written(Len(queue), e) + lost[e]
    BY Parts DEF Owes
  <2>2. Written(Len(queue), e) \in Int
    BY <1>0, WrittenInt, Types
  <2>3. Written(Len(queue), e)' = Written(Len(queue), e) + (IF e = day THEN 1 ELSE 0)
    BY <1>2
  <2>4. admitted[e] \in Int /\ admitted'[e] = IF e = day THEN admitted[e] + 1 ELSE admitted[e]
    BY <1>5
  <2>5. lost[e] \in Nat /\ lost'[e] = lost[e]
    BY <1>6
  <2> QED
    BY <2>1, <2>2, <2>3, <2>4, <2>5
<1>11. Exact'
  <2> SUFFICES ASSUME NEW e \in Days, lost'[e] = 0, owed'[e] = 0
               PROVE  /\ (Written(Len(queue), e) = admitted[e])'
                      /\ \A n \in 0..Len(queue') : Written(n, e)' >= 0
    BY DEF Exact
  <2>1. Written(Len(queue), e) = admitted[e] /\ \A n \in 0..Len(queue) : Written(n, e) >= 0
    BY <1>6, Parts DEF Exact
  <2>2. Len(queue) \in Nat /\ Len(queue) \in 0..Len(queue)
    BY <1>0, Types
  <2>3. (Written(Len(queue), e) = admitted[e])'
    BY <2>1, <1>2, <1>5
  <2>4. admitted'[e] >= 0
    BY <2>1, <2>2, <1>5
  <2>5. ASSUME NEW n \in 0..Len(queue') PROVE Written(n, e)' >= 0
    <3>1. CASE n \in 0..Len(queue)
      BY <3>1, <1>2, <2>1
    <3>2. CASE n = Len(queue')
      <4>1. Written(n, e)' = Written(Len(queue), e)'
        BY <3>2
      <4> QED
        BY <4>1, <2>3, <2>4
    <3> QED
      BY <3>1, <3>2, <1>2, <2>2
  <2> QED
    BY <2>3, <2>5
<1>12. CapHolds'
  <2>1. admitted[day] <= cache[day] + lost[day]
    BY <1>0, Parts DEF Known, Days
  <2>2. \A e \in Days : admitted[e] <= Cap + lost[e]
    BY Parts DEF CapHolds
  <2> QED
    BY <2>1, <2>2, <1>0, <1>a, <1>5, <1>6 DEF CapHolds
<1> QED
  BY <1>7, <1>8, <1>9, <1>10, <1>11, <1>12, Zenon DEF BInv

\* A refund of what was charged keeps it, on whatever day it lands.
LEMMA RefundInv ==
  ASSUME BudgetConstants, BInv, NEW d \in Days, admitted[d] > 0, Refund(d)
  PROVE  BInv'
<1> USE DEF BudgetConstants
<1>0. BudgetTypeOK
  BY Parts
<1>1. UNCHANGED <<day, row, lost, owed>>
  BY DEF Refund
<1>2. /\ queue' \in Seq(Days \X Deltas)
      /\ Len(queue') = Len(queue) + 1
      /\ \A e \in Days : Written(Len(queue), e)' =
           Written(Len(queue), e) + (IF e = d THEN -1 ELSE 0)
      /\ \A e \in Days : \A n \in 0..Len(queue) : Written(n, e)' = Written(n, e)
  <2>1. Record(d, -1) /\ row' = row
    BY <1>1, Zenon DEF Refund
  <2>2. -1 \in Deltas
    BY DEF Deltas
  <2> QED
    BY <1>0, <2>1, <2>2, RecordWrites, Types
<1>a. \A m \in Nat : Floor(m - 1) \in Nat /\ Floor(m - 1) >= m - 1 /\ Floor(m + -1) = Floor(m - 1)
  BY DEF Floor
<1>3. /\ counter' = IF counter.day = d
                    THEN [counter EXCEPT !.spent = Floor(counter.spent - 1)] ELSE counter
      /\ cache' = [cache EXCEPT ![d] = Floor(cache[d] - 1)]
      /\ counter.spent \in Nat /\ Floor(counter.spent - 1) \in Nat /\ Floor(cache[d] - 1) \in Nat
      /\ \A e \in Days : cache[e] \in Nat /\ cache'[e] >= cache[e] - (IF e = d THEN 1 ELSE 0)
           /\ cache'[e] = IF e = d THEN Floor(cache[e] - 1) ELSE cache[e]
  <2>1. cache[d] \in Nat /\ counter.spent \in Nat
    BY <1>0, Types
  <2>2. cache' = [cache EXCEPT ![d] = Floor(cache[d] - 1)]
    BY <2>1, <1>a DEF Refund, Record
  <2>3. counter' = IF counter.day = d
                    THEN [counter EXCEPT !.spent = Floor(counter.spent - 1)] ELSE counter
    BY DEF Refund
  <2>4. \A e \in Days : cache[e] \in Nat /\ cache'[e] = IF e = d THEN Floor(cache[e] - 1) ELSE cache[e]
    BY <1>0, <2>2, Types
  <2>5. \A e \in Days : cache'[e] >= cache[e] - (IF e = d THEN 1 ELSE 0)
    BY <2>4, <1>a
  <2> QED
    BY <2>1, <2>2, <2>3, <2>4, <2>5, <1>a
<1>4. admitted' = [admitted EXCEPT ![d] = @ - 1]
  BY DEF Refund
<1>5. \A e \in Days : admitted[e] \in Int /\ admitted'[e] = IF e = d THEN admitted[e] - 1 ELSE admitted[e]
  BY <1>0, <1>4, Types
<1>6. \A e \in Days : lost[e] \in Nat /\ lost'[e] = lost[e] /\ owed'[e] = owed[e]
  BY <1>0, <1>1, Types
<1>7. BudgetTypeOK'
  <2>1. admitted' \in [Days -> Int]
    BY <1>0, <1>4, Types
  <2>2. counter' \in [day : Days \cup {NoDay}, spent : Nat] /\ cache' \in [Days -> Nat]
    BY <1>0, <1>3, Types
  <2>3. day' \in Days /\ row' \in [Days -> Nat] /\ lost' \in [Days -> Nat] /\ owed' \in [Days -> Nat]
    BY <1>0, <1>1, Types, Zenon
  <2> QED
    BY <2>1, <2>2, <2>3, <1>2, Zenon DEF BudgetTypeOK
<1>8. CounterIsCache'
  BY <1>0, <1>3, Types, Parts DEF CounterIsCache
<1>9. Known'
  <2>1. \A e \in Days : e > day => admitted[e] <= 0
    BY Parts DEF Known
  <2>2. \A e \in Days : e >= day => admitted[e] <= cache[e] + lost[e]
    BY Parts DEF Known
  <2>3. \A e \in Days : e > day => admitted'[e] <= 0
    BY <2>1, <1>5
  <2>4. \A e \in Days : e >= day => admitted'[e] <= cache'[e] + lost'[e]
    BY <2>2, <1>3, <1>5, <1>6
  <2> QED
    BY <2>3, <2>4, <1>1 DEF Known
<1>10. Owes'
  <2> SUFFICES ASSUME NEW e \in Days
               PROVE  (admitted[e] <= Written(Len(queue), e) + lost[e])'
    BY DEF Owes
  <2>1. admitted[e] <= Written(Len(queue), e) + lost[e]
    BY Parts DEF Owes
  <2>2. Written(Len(queue), e) \in Int
    BY <1>0, WrittenInt, Types
  <2>3. Written(Len(queue), e)' = Written(Len(queue), e) + (IF e = d THEN -1 ELSE 0)
    BY <1>2
  <2>4. admitted[e] \in Int /\ admitted'[e] = IF e = d THEN admitted[e] - 1 ELSE admitted[e]
    BY <1>5
  <2>5. lost[e] \in Nat /\ lost'[e] = lost[e]
    BY <1>6
  <2> QED
    BY <2>1, <2>2, <2>3, <2>4, <2>5
<1>11. Exact'
  <2> SUFFICES ASSUME NEW e \in Days, lost'[e] = 0, owed'[e] = 0
               PROVE  /\ (Written(Len(queue), e) = admitted[e])'
                      /\ \A n \in 0..Len(queue') : Written(n, e)' >= 0
    BY DEF Exact
  <2>1. Written(Len(queue), e) = admitted[e] /\ \A n \in 0..Len(queue) : Written(n, e) >= 0
    BY <1>6, Parts DEF Exact
  <2>2. Len(queue) \in Nat /\ Len(queue) \in 0..Len(queue)
    BY <1>0, Types
  <2>3. (Written(Len(queue), e) = admitted[e])'
    BY <2>1, <1>2, <1>5
  <2>4. admitted'[e] >= 0
    BY <2>1, <2>2, <1>5
  <2>5. ASSUME NEW n \in 0..Len(queue') PROVE Written(n, e)' >= 0
    <3>1. CASE n \in 0..Len(queue)
      BY <3>1, <1>2, <2>1
    <3>2. CASE n = Len(queue')
      <4>1. Written(n, e)' = Written(Len(queue), e)'
        BY <3>2
      <4> QED
        BY <4>1, <2>3, <2>4
    <3> QED
      BY <3>1, <3>2, <1>2, <2>2
  <2> QED
    BY <2>3, <2>5
<1>12. CapHolds'
  BY <1>5, <1>6, Parts DEF CapHolds
<1> QED
  BY <1>7, <1>8, <1>9, <1>10, <1>11, <1>12, Zenon DEF BInv

\* Once a delta is written, what is to come is as before or the floor is above.
LEMMA DrainWrites ==
  ASSUME BudgetTypeOK, Drain, NEW e \in Days, NEW n \in 0..Len(queue')
  PROVE  /\ Written(n, e)' >= Written(n + 1, e)
         /\ Written(1, e) >= 0 => Written(n, e)' = Written(n + 1, e)
<1>1. queue # <<>> /\ queue' = Tail(queue)
      /\ row' = [row EXCEPT ![Head(queue)[1]] = Floor(@ + Head(queue)[2])]
  BY DEF Drain
<1> DEFINE d == Head(queue)[1]
           delta == Head(queue)[2]
<1>2. /\ d \in Days /\ delta \in Deltas /\ n \in 0..Len(queue') /\ 0 \in 0..Len(queue')
      /\ \A m \in 0..Len(queue') : \A x \in Deltas :
           /\ CountTo(queue', m, e, x) \in Nat
           /\ CountTo(queue, m + 1, e, x) =
                CountTo(queue', m, e, x) + (IF d = e /\ delta = x THEN 1 ELSE 0)
  <2>1. d \in Days /\ delta \in Deltas /\ Len(queue') \in Nat
    BY <1>1, HeadLeaves
  <2>2. ASSUME NEW m \in 0..Len(queue'), NEW x \in Deltas
        PROVE  /\ CountTo(queue', m, e, x) \in Nat
               /\ CountTo(queue, m + 1, e, x) =
                    CountTo(queue', m, e, x) + (IF d = e /\ delta = x THEN 1 ELSE 0)
    BY <1>1, HeadLeaves
  <2> QED
    BY <2>1, <2>2
<1> HIDE DEF d, delta
<1>3. row[e] \in Nat /\ row'[e] = IF e = d THEN Floor(row[e] + delta) ELSE row[e]
  BY <1>1, <1>2, Types DEF d, delta
<1>4. 1 \in Deltas /\ -1 \in Deltas /\ (delta = 1 \/ delta = -1)
  BY <1>2 DEF Deltas
<1>5. Written(n, e)' = row'[e] + CountTo(queue', n, e, 1) - CountTo(queue', n, e, -1)
  BY DEF Written
<1>6. /\ CountTo(queue', n, e, 1) \in Nat /\ CountTo(queue', n, e, -1) \in Nat
      /\ Written(n + 1, e) = row[e] + (IF d = e THEN delta ELSE 0)
                             + CountTo(queue', n, e, 1) - CountTo(queue', n, e, -1)
  <2>1. /\ CountTo(queue', n, e, 1) \in Nat
        /\ CountTo(queue, n + 1, e, 1) =
             CountTo(queue', n, e, 1) + (IF d = e /\ delta = 1 THEN 1 ELSE 0)
    BY <1>2, <1>4
  <2>2. /\ CountTo(queue', n, e, -1) \in Nat
        /\ CountTo(queue, n + 1, e, -1) =
             CountTo(queue', n, e, -1) + (IF d = e /\ delta = -1 THEN 1 ELSE 0)
    BY <1>2, <1>4
  <2>3. Written(n + 1, e) = row[e] + CountTo(queue, n + 1, e, 1) - CountTo(queue, n + 1, e, -1)
    BY DEF Written
  <2>4. CASE d = e /\ delta = 1
    BY <2>1, <2>2, <2>3, <2>4, <1>3
  <2>5. CASE d = e /\ delta = -1
    BY <2>1, <2>2, <2>3, <2>5, <1>3
  <2>6. CASE d # e
    BY <2>1, <2>2, <2>3, <2>6, <1>3
  <2> QED
    BY <2>4, <2>5, <2>6, <1>4
<1>7. Written(1, e) = row[e] + (IF d = e THEN delta ELSE 0)
  <2>1. CountTo(queue', 0, e, 1) = 0 /\ CountTo(queue', 0, e, -1) = 0
    BY CountZero
  <2> QED
    BY <2>1, <1>2, <1>3, <1>4 DEF Written
<1>8. row[e] + delta \in Int /\ Floor(row[e] + delta) \in Nat /\ Floor(row[e] + delta) >= row[e] + delta
      /\ (row[e] + delta >= 0 => Floor(row[e] + delta) = row[e] + delta)
  BY <1>3, <1>4 DEF Floor
<1> QED
  BY <1>3, <1>4, <1>5, <1>6, <1>7, <1>8

\* A write that commits keeps the invariant.
LEMMA DrainInv ==
  ASSUME BudgetConstants, BInv, Drain
  PROVE  BInv'
<1>0. BudgetTypeOK
  BY Parts
<1>1. /\ UNCHANGED <<day, counter, cache, admitted, lost, owed>>
      /\ queue # <<>> /\ queue' = Tail(queue)
      /\ row' = [row EXCEPT ![Head(queue)[1]] = Floor(@ + Head(queue)[2])]
  BY DEF Drain, history
<1>2. /\ queue' \in Seq(Days \X Deltas) /\ Len(queue') = Len(queue) - 1
      /\ Len(queue) \in Nat /\ Len(queue) > 0
      /\ Head(queue)[1] \in Days /\ Head(queue)[2] \in Deltas
  BY <1>0, <1>1, HeadLeaves
<1>3. \A m \in Int : Floor(m) \in Nat
  BY DEF Floor
<1>4. row' \in [Days -> Nat]
  <2>1. row \in [Days -> Nat] /\ row[Head(queue)[1]] \in Nat
    BY <1>0, <1>2, Types
  <2>2. Head(queue)[2] \in Int
    BY <1>2 DEF Deltas
  <2>3. Floor(row[Head(queue)[1]] + Head(queue)[2]) \in Nat
    BY <2>1, <2>2, <1>3
  <2> QED
    BY <2>1, <2>3, <1>1
<1>5. BudgetTypeOK'
  BY <1>0, <1>1, <1>2, <1>4, Types, Zenon DEF BudgetTypeOK
<1>6. CounterIsCache' /\ Known' /\ CapHolds'
  BY <1>1, Parts DEF CounterIsCache, Known, CapHolds
<1>7. ASSUME NEW e \in Days
      PROVE  /\ Written(Len(queue), e)' >= Written(Len(queue), e)
             /\ Written(1, e) >= 0 => Written(Len(queue), e)' = Written(Len(queue), e)
  <2>1. Len(queue') \in 0..Len(queue') /\ Len(queue') + 1 = Len(queue)
    BY <1>2
  <2>2. ASSUME NEW n \in 0..Len(queue'), n = Len(queue')
        PROVE  /\ Written(n, e)' >= Written(n + 1, e)
               /\ Written(1, e) >= 0 => Written(n, e)' = Written(n + 1, e)
    BY <1>0, DrainWrites
  <2>3. PICK n \in 0..Len(queue') : n = Len(queue')
    BY <2>1
  <2>4. Written(n, e)' = Written(Len(queue), e)' /\ Written(n + 1, e) = Written(Len(queue), e)
    BY <2>1, <2>3
  <2> QED
    BY <2>2, <2>3, <2>4
<1>8. Owes'
  <2> SUFFICES ASSUME NEW e \in Days
               PROVE  (admitted[e] <= Written(Len(queue), e) + lost[e])'
    BY DEF Owes
  <2>1. admitted[e] <= Written(Len(queue), e) + lost[e] /\ admitted[e] \in Int /\ lost[e] \in Nat
    BY <1>0, Parts, Types DEF Owes
  <2>2. Written(Len(queue), e) \in Int /\ Written(Len(queue), e)' \in Int
    <3>1. CountTo(queue', Len(queue'), e, 1) \in Nat /\ CountTo(queue', Len(queue'), e, -1) \in Nat
      BY <1>2, CountNat
    <3>2. Written(Len(queue), e)' \in Int
      BY <3>1, <1>4 DEF Written
    <3> QED
      BY <3>2, <1>0, <1>2, WrittenInt
  <2> QED
    BY <2>1, <2>2, <1>1, <1>7
<1>9. Exact'
  <2> SUFFICES ASSUME NEW e \in Days, lost'[e] = 0, owed'[e] = 0
               PROVE  /\ (Written(Len(queue), e) = admitted[e])'
                      /\ \A n \in 0..Len(queue') : Written(n, e)' >= 0
    BY DEF Exact
  <2>1. Written(Len(queue), e) = admitted[e] /\ \A n \in 0..Len(queue) : Written(n, e) >= 0
    BY <1>1, Parts DEF Exact
  <2>2. Written(1, e) >= 0
    BY <2>1, <1>2
  <2>3. (Written(Len(queue), e) = admitted[e])'
    BY <2>1, <2>2, <1>1, <1>7
  <2>4. ASSUME NEW n \in 0..Len(queue') PROVE Written(n, e)' >= 0
    <3>1. n + 1 \in 0..Len(queue)
      BY <1>2
    <3> QED
      BY <3>1, <2>1, <2>2, <1>0, DrainWrites
  <2> QED
    BY <2>3, <2>4
<1> QED
  BY <1>5, <1>6, <1>8, <1>9, Zenon DEF BInv

\* One delta counts itself.
LEMMA CountOne ==
  ASSUME NEW S, NEW e \in S, NEW d, NEW x
  PROVE  Count(<<e>>, d, x) = IF e = <<d, x>> THEN 1 ELSE 0
<1>1. <<e>> \in Seq(S) /\ <<e>> # <<>> /\ Len(<<e>>) = 1 /\ Head(<<e>>) = e /\ 0 \in 0..Len(<<e>>) - 1
  OBVIOUS
<1>2. Count(<<e>>, d, x) = CountTo(<<e>>, 1, d, x)
  BY <1>1, CountAll
<1>3. CountTo(<<e>>, 0 + 1, d, x) = CountTo(Tail(<<e>>), 0, d, x) + (IF e = <<d, x>> THEN 1 ELSE 0)
  BY <1>1, CountTail
<1>4. CountTo(Tail(<<e>>), 0, d, x) = 0
  BY CountZero
<1> QED
  BY <1>2, <1>3, <1>4

\* A write that fails keeps it: what it drops is counted as lost or owed.
LEMMA DrainFailsInv ==
  ASSUME BudgetConstants, BInv, DrainFails
  PROVE  BInv'
<1>0. BudgetTypeOK
  BY Parts
<1>1. /\ UNCHANGED <<day, counter, cache, row, admitted>>
      /\ queue # <<>> /\ queue' = Tail(queue)
      /\ lost' = [d \in Days |-> lost[d] + Count(<<Head(queue)>>, d, 1)]
      /\ owed' = [d \in Days |-> owed[d] + Count(<<Head(queue)>>, d, -1)]
  BY DEF DrainFails, Lose
<1> DEFINE Is(e, x) == IF Head(queue)[1] = e /\ Head(queue)[2] = x THEN 1 ELSE 0
<1>2. /\ queue' \in Seq(Days \X Deltas) /\ Len(queue') = Len(queue) - 1
      /\ Len(queue) \in Nat /\ Len(queue) > 0 /\ Len(queue') \in Nat
      /\ \A e \in Days : \A x \in Deltas :
           /\ CountTo(queue', Len(queue'), e, x) \in Nat
           /\ CountTo(queue, Len(queue), e, x) = CountTo(queue', Len(queue'), e, x) + Is(e, x)
  <2>1. /\ queue' \in Seq(Days \X Deltas) /\ Len(queue') = Len(queue) - 1
        /\ Len(queue) \in Nat /\ Len(queue) > 0
    BY <1>0, <1>1, HeadLeaves
  <2>2. Len(queue') \in Nat /\ Len(queue') \in 0..Len(queue') /\ Len(queue') + 1 = Len(queue)
    BY <2>1
  <2>3. ASSUME NEW e \in Days, NEW x \in Deltas
        PROVE  /\ CountTo(queue', Len(queue'), e, x) \in Nat
               /\ CountTo(queue, Len(queue), e, x) = CountTo(queue', Len(queue'), e, x) + Is(e, x)
    <3>1. ASSUME NEW n \in 0..Len(queue')
          PROVE  /\ CountTo(queue', n, e, x) \in Nat
                 /\ CountTo(queue, n + 1, e, x) = CountTo(queue', n, e, x) + Is(e, x)
      BY <1>0, <1>1, HeadLeaves
    <3>2. PICK n \in 0..Len(queue') : n = Len(queue')
      BY <2>2
    <3>3. n + 1 = Len(queue)
      BY <2>2, <3>2
    <3> HIDE DEF Is
    <3> QED
      BY <3>1, <3>2, <3>3
  <2> QED
    BY <2>1, <2>2, <2>3
<1>3. \A e \in Days : \A x \in Deltas : Count(<<Head(queue)>>, e, x) = Is(e, x)
  <2> SUFFICES ASSUME NEW e \in Days, NEW x \in Deltas
               PROVE  Count(<<Head(queue)>>, e, x) = Is(e, x)
    OBVIOUS
  <2>0. queue \in Seq(Days \X Deltas) /\ queue # <<>>
    BY <1>0, <1>1, Types
  <2>1. Head(queue) \in Days \X Deltas
    BY <2>0
  <2>2. Count(<<Head(queue)>>, e, x) = IF Head(queue) = <<e, x>> THEN 1 ELSE 0
    BY <2>1, CountOne
  <2> QED
    BY <2>1, <2>2
<1>4. 1 \in Deltas /\ -1 \in Deltas
  BY DEF Deltas
<1>5. \A e \in Days : /\ lost[e] \in Nat /\ owed[e] \in Nat
                        /\ lost'[e] = lost[e] + Is(e, 1) /\ owed'[e] = owed[e] + Is(e, -1)
                        /\ Is(e, 1) \in {0, 1} /\ Is(e, -1) \in {0, 1}
  BY <1>0, <1>1, <1>3, <1>4, Types
<1>6. lost' \in [Days -> Nat] /\ owed' \in [Days -> Nat]
  <2>1. \A e \in Days : lost[e] + Count(<<Head(queue)>>, e, 1) \in Nat
                          /\ owed[e] + Count(<<Head(queue)>>, e, -1) \in Nat
    BY <1>3, <1>4, <1>5
  <2> QED
    BY <2>1, <1>1
<1> HIDE DEF Is
<1>7. BudgetTypeOK'
  BY <1>0, <1>1, <1>2, <1>6, Types, Zenon DEF BudgetTypeOK
<1>8. CounterIsCache'
  BY <1>1, Parts DEF CounterIsCache
<1>9. \A e \in Days : cache[e] \in Nat /\ admitted[e] \in Int /\ row[e] \in Nat
  BY <1>0, Types
<1>10. Known'
  <2>1. \A e \in Days : e >= day => admitted[e] <= cache[e] + lost[e]
    BY Parts DEF Known
  <2>2. \A e \in Days : e >= day => admitted'[e] <= cache'[e] + lost'[e]
    BY <2>1, <1>1, <1>5, <1>9
  <2> QED
    BY <2>2, <1>1, Parts DEF Known
<1>11. CapHolds'
  BY <1>1, <1>5, <1>9, Parts DEF CapHolds, BudgetConstants
<1>12. ASSUME NEW e \in Days
       PROVE  Written(Len(queue), e)' = Written(Len(queue), e) - Is(e, 1) + Is(e, -1)
  <2>1. /\ CountTo(queue', Len(queue'), e, 1) \in Nat /\ CountTo(queue', Len(queue'), e, -1) \in Nat
        /\ CountTo(queue, Len(queue), e, 1) = CountTo(queue', Len(queue'), e, 1) + Is(e, 1)
        /\ CountTo(queue, Len(queue), e, -1) = CountTo(queue', Len(queue'), e, -1) + Is(e, -1)
    BY <1>2, <1>4
  <2>2. Written(Len(queue), e)' =
          row[e] + CountTo(queue', Len(queue'), e, 1) - CountTo(queue', Len(queue'), e, -1)
    BY <1>1 DEF Written
  <2>3. Written(Len(queue), e) =
          row[e] + CountTo(queue, Len(queue), e, 1) - CountTo(queue, Len(queue), e, -1)
    BY DEF Written
  <2>4. row[e] \in Nat /\ Is(e, 1) \in {0, 1} /\ Is(e, -1) \in {0, 1}
    BY <1>5, <1>9
  <2> QED
    BY <2>1, <2>2, <2>3, <2>4
<1>13. Owes'
  <2> SUFFICES ASSUME NEW e \in Days
               PROVE  (admitted[e] <= Written(Len(queue), e) + lost[e])'
    BY DEF Owes
  <2>1. admitted[e] <= Written(Len(queue), e) + lost[e]
    BY Parts DEF Owes
  <2>2. Written(Len(queue), e) \in Int
    BY <1>0, <1>2, WrittenInt
  <2> QED
    BY <2>1, <2>2, <1>1, <1>5, <1>9, <1>12
<1>14. Exact'
  <2> SUFFICES ASSUME NEW e \in Days, lost'[e] = 0, owed'[e] = 0
               PROVE  /\ (Written(Len(queue), e) = admitted[e])'
                      /\ \A n \in 0..Len(queue') : Written(n, e)' >= 0
    BY DEF Exact
  <2>1. Is(e, 1) = 0 /\ Is(e, -1) = 0 /\ lost[e] = 0 /\ owed[e] = 0
    BY <1>5
  <2>2. Written(Len(queue), e) = admitted[e] /\ \A n \in 0..Len(queue) : Written(n, e) >= 0
    BY <2>1, Parts DEF Exact
  <2>3. (Written(Len(queue), e) = admitted[e])'
    BY <2>1, <2>2, <1>1, <1>9, <1>12
  <2>4. ASSUME NEW n \in 0..Len(queue') PROVE Written(n, e)' >= 0
    <3>1. n + 1 \in 0..Len(queue)
      BY <1>2
    <3>2. /\ CountTo(queue, n + 1, e, 1) = CountTo(queue', n, e, 1) + Is(e, 1)
          /\ CountTo(queue, n + 1, e, -1) = CountTo(queue', n, e, -1) + Is(e, -1)
          /\ CountTo(queue', n, e, 1) \in Nat /\ CountTo(queue', n, e, -1) \in Nat
      BY <1>0, <1>1, <1>4, HeadLeaves DEF Is
    <3>3. Written(n, e)' = Written(n + 1, e)
      BY <3>2, <2>1, <1>1, <1>9 DEF Written
    <3> QED
      BY <3>1, <3>3, <2>2
  <2> QED
    BY <2>3, <2>4
<1> QED
  BY <1>7, <1>8, <1>10, <1>11, <1>13, <1>14, Zenon DEF BInv

\* A restart keeps it: what the row does not have yet is lost.
LEMMA RestartInv ==
  ASSUME BudgetConstants, BInv, Restart
  PROVE  BInv'
<1>0. BudgetTypeOK
  BY Parts
<1>1. /\ UNCHANGED <<day, row, admitted>> /\ queue' = <<>>
      /\ counter' = [day |-> NoDay, spent |-> 0]
      /\ cache' = [d \in Days |-> Reseed(d)]
      /\ lost' = [d \in Days |-> lost[d] + Count(queue, d, 1)]
      /\ owed' = [d \in Days |-> owed[d] + Count(queue, d, -1)]
  BY DEF Restart, Lose
<1>2. \A e \in Days : /\ lost[e] \in Nat /\ owed[e] \in Nat /\ row[e] \in Nat /\ admitted[e] \in Int
                        /\ CountTo(queue, Len(queue), e, 1) \in Nat
                        /\ CountTo(queue, Len(queue), e, -1) \in Nat
                        /\ lost'[e] = lost[e] + CountTo(queue, Len(queue), e, 1)
                        /\ owed'[e] = owed[e] + CountTo(queue, Len(queue), e, -1)
  <2> SUFFICES ASSUME NEW e \in Days
               PROVE  /\ lost[e] \in Nat /\ owed[e] \in Nat /\ row[e] \in Nat /\ admitted[e] \in Int
                      /\ CountTo(queue, Len(queue), e, 1) \in Nat
                      /\ CountTo(queue, Len(queue), e, -1) \in Nat
                      /\ lost'[e] = lost[e] + CountTo(queue, Len(queue), e, 1)
                      /\ owed'[e] = owed[e] + CountTo(queue, Len(queue), e, -1)
    OBVIOUS
  <2>1. queue \in Seq(Days \X Deltas) /\ Len(queue) \in Nat
    BY <1>0, Types
  <2>2. Count(queue, e, 1) = CountTo(queue, Len(queue), e, 1)
    BY <2>1, CountAll
  <2>3. Count(queue, e, -1) = CountTo(queue, Len(queue), e, -1)
    BY <2>1, CountAll
  <2>4. CountTo(queue, Len(queue), e, 1) \in Nat /\ CountTo(queue, Len(queue), e, -1) \in Nat
    BY <2>1, CountNat
  <2>5. lost[e] \in Nat /\ owed[e] \in Nat /\ row[e] \in Nat /\ admitted[e] \in Int
    BY <1>0, Types
  <2> QED
    BY <1>1, <2>2, <2>3, <2>4, <2>5
<1>3. \A e \in Days : cache'[e] = (IF e = day THEN row[e] ELSE 0) /\ cache'[e] \in Nat
  BY <1>1, <1>2 DEF Reseed
<1>4. BudgetTypeOK'
  <2>1. cache' \in [Days -> Nat]
    BY <1>1, <1>3
  <2>2. lost' \in [Days -> Nat]
    <3>1. \A e \in Days : lost'[e] \in Nat
      BY <1>2
    <3> QED
      BY <3>1, <1>1
  <2>3. owed' \in [Days -> Nat]
    <3>1. \A e \in Days : owed'[e] \in Nat
      BY <1>2
    <3> QED
      BY <3>1, <1>1
  <2>4. counter' \in [day : Days \cup {NoDay}, spent : Nat] /\ queue' \in Seq(Days \X Deltas)
    BY <1>1
  <2>5. day' \in Days /\ row' \in [Days -> Nat] /\ admitted' \in [Days -> Int]
    BY <1>0, <1>1, Types
  <2> QED
    BY <2>1, <2>2, <2>3, <2>4, <2>5, Zenon DEF BudgetTypeOK
<1>5. CounterIsCache'
  BY <1>1 DEF CounterIsCache
<1>6. \A e \in Days : admitted[e] <= row[e] + CountTo(queue, Len(queue), e, 1)
                          - CountTo(queue, Len(queue), e, -1) + lost[e]
  BY Parts DEF Owes, Written
<1>7. Known'
  <2>1. \A e \in Days : e > day => admitted[e] <= 0
    BY Parts DEF Known
  <2>2. ASSUME NEW e \in Days, e >= day PROVE admitted[e] <= cache'[e] + lost'[e]
    <3>1. CASE e = day
      <4>1. cache'[e] = row[e] /\ lost'[e] = lost[e] + CountTo(queue, Len(queue), e, 1)
        BY <3>1, <1>2, <1>3
      <4>2. /\ lost[e] \in Nat /\ row[e] \in Nat /\ admitted[e] \in Int
            /\ CountTo(queue, Len(queue), e, 1) \in Nat /\ CountTo(queue, Len(queue), e, -1) \in Nat
        BY <1>2
      <4>3. admitted[e] <= row[e] + CountTo(queue, Len(queue), e, 1)
                             - CountTo(queue, Len(queue), e, -1) + lost[e]
        BY <1>6
      <4> QED
        BY <4>1, <4>2, <4>3
    <3>2. CASE e # day
      <4>1. e > day
        BY <2>2, <3>2, <1>0, Types DEF Days
      <4> QED
        BY <4>1, <2>1, <1>2, <1>3
    <3> QED
      BY <3>1, <3>2
  <2> QED
    BY <2>1, <2>2, <1>1 DEF Known
<1>8. \A e \in Days : Written(0, e)' = row[e] /\ Len(queue') = 0
  <2>1. \A e \in Days : CountTo(queue', 0, e, 1) = 0 /\ CountTo(queue', 0, e, -1) = 0
    BY CountZero
  <2> QED
    BY <2>1, <1>1, <1>2 DEF Written
<1>9. \A e \in Days : Written(Len(queue), e)' = row[e]
  BY <1>8
<1>10. Owes'
  <2>1. \A e \in Days : admitted[e] <= row[e] + lost'[e]
    BY <1>2, <1>6
  <2>2. \A e \in Days : (admitted[e] <= Written(Len(queue), e) + lost[e])'
    BY <2>1, <1>1, <1>9
  <2> QED
    BY <2>2 DEF Owes
<1>11. Exact'
  <2> SUFFICES ASSUME NEW e \in Days, lost'[e] = 0, owed'[e] = 0
               PROVE  /\ (Written(Len(queue), e) = admitted[e])'
                      /\ \A n \in 0..Len(queue') : Written(n, e)' >= 0
    BY DEF Exact
  <2>1. /\ lost[e] = 0 /\ owed[e] = 0 /\ CountTo(queue, Len(queue), e, 1) = 0
        /\ CountTo(queue, Len(queue), e, -1) = 0
    BY <1>2
  <2>2. admitted[e] = row[e]
    BY <2>1, <1>2, Parts DEF Exact, Written
  <2>3. (Written(Len(queue), e) = admitted[e])'
    BY <2>2, <1>1, <1>9
  <2>4. ASSUME NEW n \in 0..Len(queue') PROVE Written(n, e)' >= 0
    <3>1. n = 0
      BY <1>8
    <3>2. Written(n, e)' = Written(0, e)'
      BY <3>1
    <3>3. Written(0, e)' = row[e] /\ row[e] \in Nat
      BY <1>2, <1>8
    <3> QED
      BY <3>2, <3>3
  <2> QED
    BY <2>3, <2>4
<1>12. CapHolds'
  BY <1>1, <1>2, Parts DEF CapHolds, BudgetConstants
<1> QED
  BY <1>4, <1>5, <1>7, <1>10, <1>11, <1>12, Zenon DEF BInv

\* A refused check keeps it: the counter it may have seeded is the cached row.
LEMMA RefuseInv ==
  ASSUME BudgetConstants, BInv, Refuse(day)
  PROVE  BInv'
<1>0. BudgetTypeOK /\ day \in Days /\ day # NoDay /\ cache[day] \in Nat
  BY Parts, Types DEF Days, NoDay
<1>1. UNCHANGED <<day, cache, queue, row, admitted, lost, owed>>
  BY DEF Refuse, history
<1>2. Spent(day) = cache[day]
  BY <1>0, Parts DEF CounterIsCache, Spent
<1>3. counter' = [day |-> day, spent |-> cache[day]]
  BY <1>2 DEF Refuse
<1>4. BudgetTypeOK'
  <2>1. counter' \in [day : Days \cup {NoDay}, spent : Nat]
    BY <1>0, <1>3
  <2>2. /\ day' \in Days /\ cache' \in [Days -> Nat] /\ row' \in [Days -> Nat]
        /\ queue' \in Seq(Days \X Deltas) /\ admitted' \in [Days -> Int]
        /\ lost' \in [Days -> Nat] /\ owed' \in [Days -> Nat]
    BY <1>0, <1>1, Types
  <2> QED
    BY <2>1, <2>2, Zenon DEF BudgetTypeOK
<1>5. CounterIsCache'
  BY <1>1, <1>3 DEF CounterIsCache
<1>6. Known' /\ CapHolds'
  BY <1>1, Parts DEF Known, CapHolds
<1>7. Owes' /\ Exact'
  <2>1. \A n, e : Written(n, e)' = Written(n, e)
    BY <1>1 DEF Written
  <2> QED
    BY <2>1, <1>1, Parts DEF Owes, Exact
<1> QED
  BY <1>4, <1>5, <1>6, <1>7, Zenon DEF BInv

\* Midnight keeps it: the day it brings has no charge yet.
LEMMA MidnightInv ==
  ASSUME BudgetConstants, BInv, Midnight
  PROVE  BInv'
<1>0. BudgetTypeOK /\ day \in Days /\ day \in Nat /\ MaxDay \in Nat
  BY Parts, Types DEF Days, BudgetConstants
<1>1. /\ UNCHANGED <<counter, cache, queue, row, admitted, lost, owed>>
      /\ day' = day + 1 /\ day < MaxDay
  BY DEF Midnight, memory, history
<1>2. BudgetTypeOK'
  <2>1. day' \in Days
    BY <1>0, <1>1 DEF Days
  <2> QED
    BY <2>1, <1>0, <1>1, Types, Zenon DEF BudgetTypeOK
<1>3. CounterIsCache' /\ CapHolds'
  BY <1>1, Parts DEF CounterIsCache, CapHolds
<1>4. Known'
  <2>1. \A e \in Days : (e > day' => e > day) /\ (e >= day' => e >= day)
    BY <1>0, <1>1 DEF Days
  <2> QED
    BY <2>1, <1>1, Parts DEF Known
<1>5. Owes' /\ Exact'
  <2>1. \A n, e : Written(n, e)' = Written(n, e)
    BY <1>1 DEF Written
  <2> QED
    BY <2>1, <1>1, Parts DEF Owes, Exact
<1> QED
  BY <1>2, <1>3, <1>4, <1>5, Zenon DEF BInv

\* A step that changes nothing of the budget keeps it.
LEMMA BudgetStutter ==
  ASSUME BInv, UNCHANGED budgetVars
  PROVE  BInv'
<1>1. UNCHANGED <<day, counter, cache, queue, row, admitted, lost, owed>>
  BY DEF budgetVars, memory, history
<1>2. \A n, e : Written(n, e)' = Written(n, e)
  BY <1>1 DEF Written
<1>3. BudgetTypeOK'
  BY <1>1, Parts, Zenon DEF BudgetTypeOK
<1>4. CounterIsCache' /\ Known' /\ CapHolds'
  BY <1>1, Parts DEF CounterIsCache, Known, CapHolds
<1>5. Owes' /\ Exact'
  BY <1>1, <1>2, Parts DEF Owes, Exact
<1> QED
  BY <1>3, <1>4, <1>5, Zenon DEF BInv

\* It holds of an empty ledger.
LEMMA BudgetInitInv ==
  ASSUME BudgetConstants, BudgetInit
  PROVE  BInv
<1>1. /\ day = 0 /\ queue = <<>> /\ counter = [day |-> NoDay, spent |-> 0]
      /\ cache = [d \in Days |-> 0] /\ row = [d \in Days |-> 0]
      /\ admitted = [d \in Days |-> 0] /\ lost = [d \in Days |-> 0] /\ owed = [d \in Days |-> 0]
  BY DEF BudgetInit
<1>2. BudgetTypeOK
  BY <1>1 DEF BudgetTypeOK, Days, BudgetConstants
<1>3. Len(queue) = 0
  BY <1>1
<1>4. \A e \in Days : Written(0, e) = 0
  <2>1. \A e, x : CountTo(queue, 0, e, x) = 0
    BY CountZero
  <2>2. \A e \in Days : row[e] = 0
    BY <1>1
  <2> QED
    BY <2>1, <2>2 DEF Written
<1>5. CounterIsCache /\ Known /\ CapHolds
  BY <1>1 DEF CounterIsCache, Known, CapHolds, BudgetConstants
<1>6. Owes /\ Exact
  <2>1. \A e \in Days : admitted[e] = 0 /\ lost[e] = 0
    BY <1>1
  <2>2. \A n \in 0..Len(queue) : n = 0
    BY <1>3
  <2> QED
    BY <2>1, <2>2, <1>3, <1>4 DEF Owes, Exact
<1> QED
  BY <1>2, <1>5, <1>6, Zenon DEF BInv

\* Every step of the budget keeps the invariant.
LEMMA BudgetStep ==
  ASSUME BudgetConstants, BInv, [BudgetNext]_budgetVars
  PROVE  BInv'
<1>1. CASE Charge(day)
  BY <1>1, ChargeInv
<1>2. CASE Refuse(day)
  BY <1>2, RefuseInv
<1>3. CASE \E d \in Days : admitted[d] > 0 /\ Refund(d)
  <2>1. PICK d \in Days : admitted[d] > 0 /\ Refund(d)
    BY <1>3
  <2> QED
    BY <2>1, RefundInv
<1>4. CASE Drain
  BY <1>4, DrainInv
<1>5. CASE DrainFails
  BY <1>5, DrainFailsInv
<1>6. CASE Midnight
  BY <1>6, MidnightInv
<1>7. CASE Restart
  BY <1>7, RestartInv
<1>8. CASE UNCHANGED budgetVars
  BY <1>8, BudgetStutter
<1> QED
  BY <1>1, <1>2, <1>3, <1>4, <1>5, <1>6, <1>7, <1>8 DEF BudgetNext

-----------------------------------------------------------------------------
(* The theorems *)

\* The invariant is inductive: no charge, refund, write, failed write,
\* midnight or restart breaks it.
THEOREM BudgetInvariant ==
  ASSUME BudgetConstants
  PROVE  BudgetSpec => []BInv
<1>1. BudgetInit => BInv
  BY BudgetInitInv
<1>2. BInv /\ [BudgetNext]_budgetVars => BInv'
  BY BudgetStep
<1> QED
  BY <1>1, <1>2, PTL DEF BudgetSpec

\* The counter, the cache, the row and the queued deltas keep their types: no
\* number of asks goes below zero.
THEOREM BudgetTypes ==
  ASSUME BudgetConstants
  PROVE  BudgetSpec => []BudgetTypeOK
<1>1. BInv => BudgetTypeOK
  BY Parts
<1> QED
  BY <1>1, BudgetInvariant, PTL

\* A day never has more asks on its bill than its cap, but for the charges
\* that were lost before they reached the row.
THEOREM CapIsKept ==
  ASSUME BudgetConstants
  PROVE  BudgetSpec => []CapHolds
<1>1. BInv => CapHolds
  BY Parts
<1> QED
  BY <1>1, BudgetInvariant, PTL

\* With no delta lost, the row and what is queued for it are the day's bill.
THEOREM RowIsTheBill ==
  ASSUME BudgetConstants
  PROVE  BudgetSpec => []RowTellsTheBill
<1>1. ASSUME BInv PROVE RowTellsTheBill
  <2> SUFFICES ASSUME NEW d \in Days, lost[d] = 0, owed[d] = 0
               PROVE  row[d] + Count(queue, d, 1) - Count(queue, d, -1) = admitted[d]
    BY DEF RowTellsTheBill
  <2>1. queue \in Seq(Days \X Deltas)
    BY <1>1, Parts, Types
  <2>2. Count(queue, d, 1) = CountTo(queue, Len(queue), d, 1)
    BY <2>1, CountAll
  <2>3. Count(queue, d, -1) = CountTo(queue, Len(queue), d, -1)
    BY <2>1, CountAll
  <2>4. Written(Len(queue), d) = admitted[d]
    BY <1>1, Parts DEF Exact
  <2> QED
    BY <2>2, <2>3, <2>4 DEF Written
<1> QED
  BY <1>1, BudgetInvariant, PTL

=============================================================================
