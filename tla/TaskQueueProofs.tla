--------------------------- MODULE TaskQueueProofs ---------------------------
(***************************************************************************)
(* What TaskQueue itself guarantees, for any set of tasks.                 *)
(***************************************************************************)
EXTENDS TaskQueue, Integers, SequenceTheorems, TLAPS

(* Moving the oldest waiting task to the end of what ran changes nothing in
   their concatenation. *)
LEMMA MoveHead ==
  ASSUME NEW s \in Seq(Tasks), NEW q \in Seq(Tasks), q # <<>>
  PROVE  Append(s, Head(q)) \o Tail(q) = s \o q
<1> DEFINE l == Append(s, Head(q)) \o Tail(q)
           r == s \o q
<1>1. /\ Head(q) \in Tasks /\ Tail(q) \in Seq(Tasks) /\ Len(q) \in Nat \ {0}
      /\ Len(Tail(q)) = Len(q) - 1
      /\ \A i \in 1 .. Len(Tail(q)) : Tail(q)[i] = q[i + 1]
  BY HeadTailProperties, EmptySeq
<1>2. /\ Append(s, Head(q)) \in Seq(Tasks) /\ Len(Append(s, Head(q))) = Len(s) + 1
      /\ \A i \in 1 .. Len(s) : Append(s, Head(q))[i] = s[i]
      /\ Append(s, Head(q))[Len(s) + 1] = Head(q)
  BY <1>1, AppendProperties
<1>3. /\ l \in Seq(Tasks) /\ Len(l) = Len(s) + Len(q)
      /\ \A i \in 1 .. Len(s) + Len(q) :
           l[i] = IF i <= Len(s) + 1 THEN Append(s, Head(q))[i] ELSE Tail(q)[i - (Len(s) + 1)]
  BY <1>1, <1>2, ConcatProperties, LenProperties
<1>4. /\ r \in Seq(Tasks) /\ Len(r) = Len(s) + Len(q)
      /\ \A i \in 1 .. Len(s) + Len(q) : r[i] = IF i <= Len(s) THEN s[i] ELSE q[i - Len(s)]
  BY ConcatProperties
<1>5. ASSUME NEW i \in 1 .. Len(l) PROVE l[i] = r[i]
  <2>1. CASE i <= Len(s)
    BY <2>1, <1>2, <1>3, <1>4, LenProperties
  <2>2. CASE i = Len(s) + 1
    <3>1. l[i] = Head(q)
      BY <2>2, <1>2, <1>3, LenProperties
    <3>2. r[i] = q[1]
      BY <2>2, <1>3, <1>4, LenProperties
    <3> QED
      BY <3>1, <3>2
  <2>3. CASE i > Len(s) + 1
    <3> DEFINE j == i - (Len(s) + 1)
    <3>1. j \in 1 .. Len(Tail(q)) /\ j + 1 = i - Len(s)
      BY <2>3, <1>1, <1>3, LenProperties
    <3>2. l[i] = Tail(q)[j]
      BY <2>3, <1>3, LenProperties
    <3>3. r[i] = q[j + 1]
      BY <2>3, <1>3, <1>4, <3>1, LenProperties
    <3> QED
      BY <3>1, <3>2, <3>3, <1>1
  <2> QED
    BY <2>1, <2>2, <2>3, <1>3, LenProperties, SMTT(30)
<1> HIDE DEF l, r
<1>6. l = r
  BY <1>3, <1>4, <1>5, SeqEqual
<1> QED
  BY <1>6 DEF l, r

(* The head of two queues is the head of the first that is not empty. *)
LEMMA HeadTailOfConcat ==
  ASSUME NEW S, NEW s \in Seq(S), NEW q \in Seq(S), s # <<>>
  PROVE  /\ s \o q # <<>>
         /\ Head(s \o q) = Head(s)
         /\ Tail(s \o q) = Tail(s) \o q
<1>1. /\ Len(s) \in Nat \ {0} /\ Len(q) \in Nat
      /\ Tail(s) \in Seq(S) /\ Len(Tail(s)) = Len(s) - 1
      /\ \A i \in 1 .. Len(Tail(s)) : Tail(s)[i] = s[i + 1]
  BY EmptySeq, LenProperties, HeadTailProperties
<1>2. /\ s \o q \in Seq(S) /\ Len(s \o q) = Len(s) + Len(q)
      /\ \A i \in 1 .. Len(s) + Len(q) : (s \o q)[i] = IF i <= Len(s) THEN s[i] ELSE q[i - Len(s)]
  BY ConcatProperties
<1>3. s \o q # <<>>
  BY <1>1, <1>2
<1>4. /\ Tail(s \o q) \in Seq(S) /\ Len(Tail(s \o q)) = Len(s) + Len(q) - 1
      /\ \A i \in 1 .. Len(s) + Len(q) - 1 : Tail(s \o q)[i] = (s \o q)[i + 1]
  BY <1>2, <1>3, HeadTailProperties
<1>5. /\ Tail(s) \o q \in Seq(S) /\ Len(Tail(s) \o q) = Len(s) + Len(q) - 1
      /\ \A i \in 1 .. Len(s) + Len(q) - 1 :
           (Tail(s) \o q)[i] = IF i <= Len(s) - 1 THEN Tail(s)[i] ELSE q[i - (Len(s) - 1)]
  BY <1>1, ConcatProperties
<1>6. ASSUME NEW i \in 1 .. Len(s) + Len(q) - 1 PROVE Tail(s \o q)[i] = (Tail(s) \o q)[i]
  <2>1. i + 1 \in 1 .. Len(s) + Len(q) /\ (i + 1) - Len(s) = i - (Len(s) - 1)
    BY <1>1
  <2> QED
    BY <2>1, <1>1, <1>2, <1>4, <1>5
<1>7. Tail(s \o q) = Tail(s) \o q
  BY <1>4, <1>5, <1>6, SeqEqual
<1> QED
  BY <1>1, <1>2, <1>3, <1>7

(* Pushing onto the second of two queues pushes onto their concatenation. *)
LEMMA AppendToConcat ==
  ASSUME NEW S, NEW s \in Seq(S), NEW q \in Seq(S), NEW t \in S
  PROVE  s \o Append(q, t) = Append(s \o q, t)
<1>1. <<t>> \in Seq(S)
  OBVIOUS
<1>2. s \o Append(q, t) = s \o (q \o <<t>>)
  BY AppendIsConcat
<1>3. s \o q \in Seq(S) /\ Append(s \o q, t) = (s \o q) \o <<t>>
  BY ConcatProperties, AppendIsConcat
<1> QED
  BY <1>1, <1>2, <1>3, ConcatAssociative

(* Occurs(q) is what a sequence holds, Distinct(q) that it holds nothing twice. *)
Occurs(q) == {q[i] : i \in DOMAIN q}
Distinct(q) == \A i, j \in DOMAIN q : q[i] = q[j] => i = j

(* A new task may join anywhere: between what ran and what waits as well as at
   the end. *)
LEMMA InsertNew ==
  ASSUME NEW s \in Seq(Tasks), NEW q \in Seq(Tasks), NEW t \in Tasks,
         t \notin Occurs(s \o q), Distinct(s \o q)
  PROVE  /\ Occurs(Append(s, t) \o q) = Occurs(s \o q) \cup {t}
         /\ Distinct(Append(s, t) \o q)
<1> DEFINE l == Append(s, t) \o q
           r == s \o q
           m == Len(s) + 1
           old(i) == IF i < m THEN i ELSE i - 1
<1>1. /\ Len(s) \in Nat /\ Len(q) \in Nat
      /\ Append(s, t) \in Seq(Tasks) /\ Len(Append(s, t)) = m
      /\ \A i \in 1 .. Len(s) : Append(s, t)[i] = s[i]
      /\ Append(s, t)[m] = t
  BY AppendProperties, LenProperties
<1>2. /\ DOMAIN l = 1 .. m + Len(q)
      /\ \A i \in 1 .. m + Len(q) : l[i] = IF i <= m THEN Append(s, t)[i] ELSE q[i - m]
  BY <1>1, ConcatProperties, LenProperties
<1>3. /\ DOMAIN r = 1 .. Len(s) + Len(q)
      /\ \A i \in 1 .. Len(s) + Len(q) : r[i] = IF i <= Len(s) THEN s[i] ELSE q[i - Len(s)]
  BY <1>1, ConcatProperties, LenProperties
<1>4. m \in DOMAIN l /\ l[m] = t
  BY <1>1, <1>2
<1>5. ASSUME NEW i \in DOMAIN l, i # m PROVE old(i) \in DOMAIN r /\ l[i] = r[old(i)]
  <2>1. CASE i < m
    BY <2>1, <1>1, <1>2, <1>3
  <2>2. CASE i > m
    <3>1. i - 1 \in 1 .. Len(s) + Len(q) /\ ~(i - 1 <= Len(s)) /\ (i - 1) - Len(s) = i - m
      BY <2>2, <1>1, <1>2
    <3> QED
      BY <2>2, <3>1, <1>1, <1>2, <1>3
  <2> QED
    BY <2>1, <2>2, <1>1, <1>2, <1>5
<1>6. ASSUME NEW k \in DOMAIN r PROVE \E i \in DOMAIN l : i # m /\ old(i) = k
  <2>1. CASE k < m
    BY <2>1, <1>1, <1>2, <1>3
  <2>2. CASE k >= m
    <3>1. k + 1 \in DOMAIN l /\ k + 1 # m /\ old(k + 1) = k
      BY <2>2, <1>1, <1>2, <1>3
    <3> QED
      BY <3>1
  <2> QED
    BY <2>1, <2>2, <1>1, <1>3
<1>7. ASSUME NEW i \in DOMAIN l, NEW j \in DOMAIN l, i # m, j # m, old(i) = old(j)
      PROVE  i = j
  BY <1>1, <1>2, <1>7
<1> HIDE DEF l, r, m, old
<1>8. \A k \in DOMAIN r : r[k] # t
  BY DEF Occurs, r
<1>9. Occurs(l) = Occurs(r) \cup {t}
  <2>1. ASSUME NEW i \in DOMAIN l PROVE l[i] \in Occurs(r) \cup {t}
    BY <1>4, <1>5 DEF Occurs
  <2>2. ASSUME NEW k \in DOMAIN r PROVE r[k] \in Occurs(l)
    <3>1. PICK i \in DOMAIN l : i # m /\ old(i) = k
      BY <1>6
    <3>2. l[i] = r[k]
      BY <3>1, <1>5
    <3> QED
      BY <3>2 DEF Occurs
  <2>3. t \in Occurs(l)
    BY <1>4 DEF Occurs
  <2> QED
    BY <2>1, <2>2, <2>3 DEF Occurs
<1>10. ASSUME NEW i \in DOMAIN l, NEW j \in DOMAIN l, l[i] = l[j] PROVE i = j
  <2>1. CASE i = m \/ j = m
    BY <2>1, <1>4, <1>5, <1>8, <1>10
  <2>2. CASE i # m /\ j # m
    <3>1. r[old(i)] = r[old(j)] /\ old(i) \in DOMAIN r /\ old(j) \in DOMAIN r
      BY <2>2, <1>5, <1>10
    <3>2. old(i) = old(j)
      BY <3>1 DEF Distinct, r
    <3> QED
      BY <2>2, <3>2, <1>7
  <2> QED
    BY <2>1, <2>2
<1> QED
  BY <1>9, <1>10 DEF Distinct, l, r

TaskInv == TypeOK /\ EachOnce

LEMMA EachOnceInit == Init => TaskInv
<1> SUFFICES ASSUME Init PROVE TaskInv
  OBVIOUS
<1>1. ran \o todo = <<>>
  BY DEF Init
<1> QED
  BY <1>1 DEF Init, TaskInv, TypeOK, EachOnce

LEMMA EachOnceStep == TaskInv /\ [Next]_vars => TaskInv'
<1> SUFFICES ASSUME TaskInv, [Next]_vars PROVE TaskInv'
  OBVIOUS
<1> USE DEF TaskInv, TypeOK
<1>0. submitted = Occurs(ran \o todo) /\ Distinct(ran \o todo)
  BY DEF EachOnce, Occurs, Distinct
<1>1. SUFFICES TypeOK' /\ submitted' = Occurs(ran' \o todo') /\ Distinct(ran' \o todo')
  BY DEF EachOnce, Occurs, Distinct
<1>2. CASE RunHead
  <2>1. Head(todo) \in Tasks /\ Tail(todo) \in Seq(Tasks)
    BY <1>2, HeadTailProperties DEF RunHead
  <2>2. ran' \o todo' = ran \o todo
    BY <1>2, MoveHead DEF RunHead
  <2>3. Append(ran, Head(todo)) \in Seq(Tasks)
    BY <2>1
  <2> QED
    BY <1>0, <1>2, <2>1, <2>2, <2>3 DEF RunHead
<1>3. ASSUME NEW t \in Tasks, RunNow(t)
      PROVE  TypeOK' /\ submitted' = Occurs(ran' \o todo') /\ Distinct(ran' \o todo')
  <2>1. t \notin Occurs(ran \o todo)
    BY <1>0, <1>3 DEF RunNow
  <2> QED
    BY <1>0, <1>3, <2>1, InsertNew DEF RunNow
<1>4. ASSUME NEW t \in Tasks, Submit(t)
      PROVE  TypeOK' /\ submitted' = Occurs(ran' \o todo') /\ Distinct(ran' \o todo')
  <2> DEFINE all == ran \o todo
  <2>1. all \in Seq(Tasks) /\ all \o <<>> = all
    BY ConcatProperties, ConcatEmptySeq
  <2>2. Append(all, t) \in Seq(Tasks) /\ Append(all, t) \o <<>> = Append(all, t)
    BY <2>1, AppendProperties, ConcatEmptySeq
  <2>3. ran' \o todo' = Append(all, t)
    BY <1>4, AppendToConcat DEF Submit
  <2>4. t \notin Occurs(all)
    BY <1>0, <1>4 DEF Submit
  <2> HIDE DEF all
  <2>5. <<>> \in Seq(Tasks)
    OBVIOUS
  <2>6. Occurs(Append(all, t)) = Occurs(all) \cup {t} /\ Distinct(Append(all, t))
    <3>1. t \notin Occurs(all \o <<>>) /\ Distinct(all \o <<>>)
      BY <1>0, <2>1, <2>4 DEF all
    <3>2. /\ Occurs(Append(all, t) \o <<>>) = Occurs(all \o <<>>) \cup {t}
          /\ Distinct(Append(all, t) \o <<>>)
      BY <2>1, <2>5, <3>1, InsertNew
    <3> QED
      BY <2>1, <2>2, <3>2
  <2>7. submitted' = Occurs(all) \cup {t}
    BY <1>0, <1>4 DEF Submit, all
  <2> QED
    BY <1>4, <2>3, <2>6, <2>7 DEF Submit
<1>5. CASE UNCHANGED vars
  BY <1>0, <1>5 DEF vars
<1> QED
  BY <1>2, <1>3, <1>4, <1>5 DEF Next

(* A queue of functors loses none and runs none twice, however long it grows. *)
THEOREM EachTaskOnce == Spec => []EachOnce
<1>1. TaskInv => EachOnce
  BY DEF TaskInv
<1> QED
  BY <1>1, EachOnceInit, EachOnceStep, PTL DEF Spec
=============================================================================
