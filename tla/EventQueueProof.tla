--------------------------- MODULE EventQueueProof ---------------------------
(***************************************************************************)
(* The event queue keeps its list sorted and loses no descriptor, and it   *)
(* implements the cycle loop, for any number of cpus, handlers and pending *)
(* events: proofs about EventQueue and about MCEventQueue's refinement.    *)
(***************************************************************************)
EXTENDS MCEventQueue, SequenceTheorems, FiniteSetTheorems, WellFoundedInduction, TLAPS

-----------------------------------------------------------------------------
(***************************************************************************)
(* Least elements: the insertion scan stops at the first event that it may *)
(* not pass.                                                               *)
(***************************************************************************)

\* A set of natural numbers that is not empty has a least element.
LEMMA LeastNat ==
  ASSUME NEW T \in SUBSET Nat, T # {}
  PROVE  \E x \in T : \A y \in T : x <= y
<1> DEFINE R == {ss \in Nat \X Nat : ss[1] < ss[2]}
<1>1. IsWellFoundedOn(R, Nat)
  BY NatLessThanWellFounded DEF OpToRel
<1>2. PICK x \in T : \A y \in T : ~ (<<y, x>> \in R)
  <2> HIDE DEF R
  <2>1. QED  BY <1>1, WFMin
<1>3. ASSUME NEW y \in T PROVE x <= y
  <2>1. x \in Nat /\ y \in Nat  OBVIOUS
  <2>2. <<y, x>> \in Nat \X Nat /\ <<y, x>>[1] = y /\ <<y, x>>[2] = x  BY <2>1
  <2>3. ~ (y < x)  BY <1>2, <2>2
  <2>4. QED  BY <2>1, <2>3
<1>4. QED  BY <1>3

\* What QUEUE_EVENT is called with.
Events == [when : Nat, action : Actions]

\* The scan stops: all events in front may be passed, the next one may not.
LEMMA PositionSplits ==
  ASSUME NEW w \in Nat, NEW a \in Actions,
         eventq_pending \in Seq(1 .. Len(desc))
  PROVE  LET k == Position(w, a) IN
           /\ k \in 0 .. Len(eventq_pending)
           /\ \A i \in 1 .. k : GoesAfter(w, a, i)
           /\ k < Len(eventq_pending) => ~ GoesAfter(w, a, k + 1)
<1> DEFINE len == Len(eventq_pending)
           Stops == {k \in 0 .. len : k = len \/ ~ GoesAfter(w, a, k + 1)}
           At(k) == /\ \A i \in 1 .. k : GoesAfter(w, a, i)
                    /\ k < len => ~ GoesAfter(w, a, k + 1)
<1>1. len \in Nat
  BY LenProperties
<1>2. Stops \in SUBSET Nat /\ Stops # {}
  <2>1. len \in Stops  BY <1>1
  <2>2. QED  BY <1>1, <2>1
<1>3. PICK k \in Stops : \A y \in Stops : k <= y
  <2> HIDE DEF Stops
  <2>1. QED  BY <1>2, LeastNat
<1>4. ASSUME NEW i \in 1 .. k PROVE GoesAfter(w, a, i)
  <2>1. k \in 0 .. len  OBVIOUS
  <2>2. i - 1 \in 0 .. len /\ i - 1 < k /\ ~ (k <= i - 1) /\ i - 1 # len
    BY <1>1, <2>1
  <2>3. i - 1 \notin Stops  BY <1>3, <2>2
  <2>4. GoesAfter(w, a, (i - 1) + 1)  BY <2>2, <2>3
  <2>5. QED  BY <2>1, <2>4
<1>5. k \in 0 .. len /\ At(k)
  BY <1>4
<1>6. QED
  <2> HIDE DEF At
  <2>1. Position(w, a) = CHOOSE j \in 0 .. len : At(j)
    BY DEF Position, At
  <2>2. Position(w, a) \in 0 .. len /\ At(Position(w, a))
    BY <1>5, <2>1
  <2>3. QED  BY <2>2 DEF At

\* An element put between the first k elements of a sequence and the others.
Put(seq, k, d) == SubSeq(seq, 1, k) \o <<d>> \o SubSeq(seq, k + 1, Len(seq))

\* Its length and its elements.
LEMMA Between ==
  ASSUME NEW S, NEW seq \in Seq(S), NEW k \in 0 .. Len(seq), NEW d \in S
  PROVE  /\ Put(seq, k, d) \in Seq(S)
         /\ Len(Put(seq, k, d)) = Len(seq) + 1
         /\ \A i \in 1 .. Len(seq) + 1 :
              Put(seq, k, d)[i] = IF i <= k THEN seq[i] ELSE IF i = k + 1 THEN d ELSE seq[i - 1]
<1> DEFINE len == Len(seq)
           front == SubSeq(seq, 1, k)
           back == SubSeq(seq, k + 1, len)
           mid == front \o <<d>>
           list == mid \o back
<1>1. len \in Nat /\ k \in Nat /\ k <= len
  BY LenProperties
<1>2. \A i \in 1 .. len : seq[i] \in S
  BY ElementOfSeq
<1> HIDE DEF len
<1>3. /\ front \in Seq(S) /\ Len(front) = k
      /\ \A i \in 1 .. k : front[i] = seq[i]
  <2>1. \A i \in 1 .. k : seq[i] \in S  BY <1>1, <1>2
  <2>2. /\ front \in Seq(S) /\ Len(front) = IF 1 <= k THEN k - 1 + 1 ELSE 0
        /\ \A i \in 1 .. k - 1 + 1 : front[i] = seq[1 + i - 1]
    BY <1>1, <2>1, SubSeqProperties
  <2>3. QED  BY <2>2, <1>1
<1>4. /\ back \in Seq(S) /\ Len(back) = len - k
      /\ \A i \in 1 .. len - k : back[i] = seq[k + i]
  <2>1. \A i \in k + 1 .. len : seq[i] \in S  BY <1>1, <1>2
  <2>2. /\ back \in Seq(S) /\ Len(back) = IF k + 1 <= len THEN len - (k + 1) + 1 ELSE 0
        /\ \A i \in 1 .. len - (k + 1) + 1 : back[i] = seq[k + 1 + i - 1]
    BY <1>1, <2>1, SubSeqProperties
  <2>3. QED  BY <2>2, <1>1
<1>5. <<d>> \in Seq(S) /\ Len(<<d>>) = 1 /\ <<d>>[1] = d
  OBVIOUS
<1> HIDE DEF front, back
<1>6. /\ mid \in Seq(S) /\ Len(mid) = k + 1
      /\ \A i \in 1 .. k + 1 : mid[i] = IF i <= k THEN seq[i] ELSE d
  <2>1. /\ mid \in Seq(S) /\ Len(mid) = Len(front) + 1
        /\ \A i \in 1 .. Len(front) + 1 : mid[i] =
             IF i <= Len(front) THEN front[i] ELSE <<d>>[i - Len(front)]
    BY <1>3, <1>5, ConcatProperties
  <2>2. \A i \in 1 .. k + 1 : ~ (i <= k) => i - k = 1  BY <1>1
  <2>3. QED  BY <2>1, <2>2, <1>1, <1>3, <1>5
<1> HIDE DEF mid
<1>7. /\ list \in Seq(S) /\ Len(list) = len + 1
      /\ \A i \in 1 .. len + 1 : list[i] = IF i <= k + 1 THEN mid[i] ELSE back[i - (k + 1)]
  <2>1. /\ list \in Seq(S) /\ Len(list) = Len(mid) + Len(back)
        /\ \A i \in 1 .. Len(mid) + Len(back) :
             list[i] = IF i <= Len(mid) THEN mid[i] ELSE back[i - Len(mid)]
    BY <1>4, <1>6, ConcatProperties
  <2>2. Len(mid) + Len(back) = len + 1  BY <1>1, <1>4, <1>6
  <2>3. QED  BY <2>1, <2>2, <1>6
<1> HIDE DEF list
<1>8. ASSUME NEW i \in 1 .. len + 1
      PROVE  list[i] = IF i <= k THEN seq[i] ELSE IF i = k + 1 THEN d ELSE seq[i - 1]
  <2>1. CASE i <= k + 1
    <3>1. list[i] = mid[i] /\ i \in 1 .. k + 1  BY <2>1, <1>1, <1>7
    <3>2. mid[i] = IF i <= k THEN seq[i] ELSE d  BY <3>1, <1>6
    <3>3. QED  BY <2>1, <3>1, <3>2, <1>1
  <2>2. CASE i > k + 1
    <3>1. i - (k + 1) \in 1 .. len - k /\ k + (i - (k + 1)) = i - 1  BY <2>2, <1>1
    <3>2. list[i] = back[i - (k + 1)]  BY <2>2, <1>1, <1>7
    <3>3. back[i - (k + 1)] = seq[k + (i - (k + 1))]  BY <3>1, <1>4
    <3>4. list[i] = seq[i - 1]  BY <3>1, <3>2, <3>3
    <3>5. QED  BY <2>2, <3>4, <1>1
  <2>3. QED  BY <1>1, <2>1, <2>2
<1>9. Put(seq, k, d) = list
  BY DEF Put, list, mid, front, back, len
<1>10. QED  BY <1>7, <1>8, <1>9 DEF len

-----------------------------------------------------------------------------
(***************************************************************************)
(* The inductive invariant.                                                *)
(***************************************************************************)

\* No list holds a descriptor twice, no descriptor is on both, none on neither.
\* DescriptorsOnce says the same by counting.
Once ==
  /\ \A i, j \in 1 .. Len(eventq_pending) : eventq_pending[i] = eventq_pending[j] => i = j
  /\ \A i, j \in 1 .. Len(eventq_free) : eventq_free[i] = eventq_free[j] => i = j
  /\ \A i \in 1 .. Len(eventq_pending), j \in 1 .. Len(eventq_free) :
       eventq_pending[i] # eventq_free[j]
  /\ \A d \in 1 .. Len(desc) :
       \/ \E i \in 1 .. Len(eventq_pending) : eventq_pending[i] = d
       \/ \E i \in 1 .. Len(eventq_free) : eventq_free[i] = d
  /\ Len(eventq_pending) + Len(eventq_free) = Len(desc)

IInv == TypeOK /\ Once /\ Sorted

\* What the type invariant says of lengths and elements.
LEMMA Lengths ==
  ASSUME TypeOK
  PROVE  /\ Len(desc) \in Nat /\ Len(eventq_pending) \in Nat /\ Len(eventq_free) \in Nat
         /\ \A i \in 1 .. Len(eventq_pending) : eventq_pending[i] \in 1 .. Len(desc)
         /\ \A i \in 1 .. Len(eventq_free) : eventq_free[i] \in 1 .. Len(desc)
         /\ \A d \in 1 .. Len(desc) : desc[d] \in Events
BY LenProperties, ElementOfSeq DEF TypeOK, Events

\* The counts of DescriptorsOnce follow.
LEMMA OnceSuffices ==
  ASSUME TypeOK, Once
  PROVE  DescriptorsOnce
<1>1. ASSUME NEW d \in 1 .. Len(desc)
      PROVE  ({i \in 1 .. Len(eventq_pending) : eventq_pending[i] = d} = {})
               # ({i \in 1 .. Len(eventq_free) : eventq_free[i] = d} = {})
  BY DEF Once
<1>2. QED  BY <1>1 DEF Once, DescriptorsOnce

\* The descriptor that QUEUE_EVENT fills in: a new one, or the first free one.
LEMMA NewDescriptor ==
  ASSUME NEW w \in Nat, NEW a \in Actions, TypeOK, Once, QUEUE_EVENT(w, a)
  PROVE  \E new \in Nat :
           /\ desc' \in Seq(Events) /\ new \in 1 .. Len(desc') /\ Len(desc) <= Len(desc')
           /\ desc'[new] = [when |-> w, action |-> a]
           /\ \A d \in 1 .. Len(desc) : d # new => desc'[d] = desc[d]
           /\ \A i \in 1 .. Len(eventq_pending) : eventq_pending[i] # new
           /\ eventq_pending' = Insert(new, w, a)
           /\ IF eventq_free = <<>>
              THEN /\ new = Len(desc) + 1 /\ Len(desc') = Len(desc) + 1
                   /\ eventq_free' = <<>>
              ELSE /\ new = eventq_free[1] /\ Len(desc') = Len(desc)
                   /\ Len(eventq_free') = Len(eventq_free) - 1
                   /\ \A i \in 1 .. Len(eventq_free') : eventq_free'[i] = eventq_free[i + 1]
           /\ eventq_free' \in Seq(1 .. Len(desc))
<1> DEFINE event == [when |-> w, action |-> a]
<1>1. event \in Events
  BY DEF Events
<1>2. /\ desc \in Seq(Events) /\ eventq_free \in Seq(1 .. Len(desc))
      /\ eventq_pending \in Seq(1 .. Len(desc))
  BY DEF TypeOK, Events
<1>3. CASE eventq_free = <<>>
  <2> DEFINE new == Len(desc) + 1
  <2>1. desc' = Append(desc, event) /\ eventq_free' = <<>> /\ eventq_pending' = Insert(new, w, a)
    BY <1>3 DEF QUEUE_EVENT
  <2> HIDE DEF event
  <2>2. /\ desc' \in Seq(Events) /\ Len(desc') = Len(desc) + 1
        /\ \A i \in 1 .. Len(desc) : desc'[i] = desc[i]
        /\ desc'[Len(desc) + 1] = event
    BY <1>1, <1>2, <2>1, AppendProperties
  <2>3. new \in Nat /\ new \in 1 .. Len(desc') /\ Len(desc) <= Len(desc')
    BY <2>2, Lengths
  <2>4. \A i \in 1 .. Len(eventq_pending) : eventq_pending[i] # new
    BY Lengths
  <2>5. eventq_free' \in Seq(1 .. Len(desc))
    BY <2>1, EmptySeq
  <2>6. QED  BY <1>3, <2>1, <2>2, <2>3, <2>4, <2>5 DEF event
<1>4. CASE eventq_free # <<>>
  <2> DEFINE new == Head(eventq_free)
  <2>1. /\ desc' = [desc EXCEPT ![new] = event] /\ eventq_free' = Tail(eventq_free)
        /\ eventq_pending' = Insert(new, w, a)
    BY <1>4 DEF QUEUE_EVENT
  <2>2. /\ new = eventq_free[1] /\ Len(eventq_free) \in Nat \ {0}
        /\ eventq_free' \in Seq(1 .. Len(desc)) /\ Len(eventq_free') = Len(eventq_free) - 1
        /\ \A i \in 1 .. Len(eventq_free') : eventq_free'[i] = eventq_free[i + 1]
    BY <1>2, <1>4, <2>1, HeadTailProperties, LenProperties
  <2>3. new \in 1 .. Len(desc) /\ new \in Nat
    BY <2>2, Lengths
  <2> HIDE DEF event, new
  <2>4. /\ desc' \in Seq(Events) /\ Len(desc') = Len(desc)
        /\ \A i \in 1 .. Len(desc) : desc'[i] = IF i = new THEN event ELSE desc[i]
    BY <1>1, <1>2, <2>1, <2>3, ExceptSeq
  <2>5. \A i \in 1 .. Len(eventq_pending) : eventq_pending[i] # new
    BY <2>2, Lengths DEF Once
  <2>6. desc'[new] = event /\ Len(desc) <= Len(desc')
    BY <2>3, <2>4, Lengths
  <2>7. QED  BY <1>4, <2>1, <2>2, <2>3, <2>4, <2>5, <2>6 DEF event
<1>5. QED  BY <1>3, <1>4

\* The list after QUEUE_EVENT, by position: each event keeps its time and its
\* action, and the new one sits at k + 1, between those it may and may not pass.
QueuedAt(w, a, new, k) ==
  /\ k \in 0 .. Len(eventq_pending)
  /\ \A i \in 1 .. k : GoesAfter(w, a, i)
  /\ k < Len(eventq_pending) => ~ GoesAfter(w, a, k + 1)
  /\ eventq_pending' \in Seq(1 .. Len(desc'))
  /\ Len(eventq_pending') = Len(eventq_pending) + 1
  /\ eventq_pending'[k + 1] = new /\ when(k + 1)' = w /\ action(k + 1)' = a
  /\ \A i \in 1 .. k :
       /\ eventq_pending'[i] = eventq_pending[i]
       /\ when(i)' = when(i) /\ action(i)' = action(i)
  /\ \A i \in k + 1 .. Len(eventq_pending) :
       /\ eventq_pending'[i + 1] = eventq_pending[i]
       /\ when(i + 1)' = when(i) /\ action(i + 1)' = action(i)

\* The position is the one the scan of __QUEUE_EVENT stops at.
LEMMA Places ==
  ASSUME NEW w \in Nat, NEW a \in Actions, NEW new \in Nat, TypeOK,
         desc' \in Seq(Events), new \in 1 .. Len(desc'), Len(desc) <= Len(desc'),
         desc'[new] = [when |-> w, action |-> a],
         \A d \in 1 .. Len(desc) : d # new => desc'[d] = desc[d],
         \A i \in 1 .. Len(eventq_pending) : eventq_pending[i] # new,
         eventq_pending' = Insert(new, w, a)
  PROVE  \E k \in 0 .. Len(eventq_pending) : QueuedAt(w, a, new, k)
<1> DEFINE len == Len(eventq_pending)
<1>1. PICK k \in 0 .. len :
        /\ k = Position(w, a)
        /\ \A i \in 1 .. k : GoesAfter(w, a, i)
        /\ k < len => ~ GoesAfter(w, a, k + 1)
  BY PositionSplits DEF TypeOK
<1>2. len \in Nat /\ Len(desc) \in Nat /\ Len(desc') \in Nat
  BY Lengths, LenProperties
<1>3. eventq_pending \in Seq(1 .. Len(desc'))
  <2>1. 1 .. Len(desc) \subseteq 1 .. Len(desc')  BY <1>2
  <2>2. QED  BY <2>1, SeqMonotonic DEF TypeOK
<1>4. /\ eventq_pending' \in Seq(1 .. Len(desc'))
      /\ Len(eventq_pending') = len + 1
      /\ \A i \in 1 .. len + 1 :
           eventq_pending'[i] = IF i <= k THEN eventq_pending[i]
                                ELSE IF i = k + 1 THEN new ELSE eventq_pending[i - 1]
  <2>1. eventq_pending' = Put(eventq_pending, k, new)
    BY <1>1 DEF Insert, Put
  <2> DEFINE S == 1 .. Len(desc')
  <2>2. eventq_pending \in Seq(S) /\ new \in S /\ k \in 0 .. Len(eventq_pending)
    BY <1>1, <1>3
  <2> HIDE DEF S
  <2>3. /\ Put(eventq_pending, k, new) \in Seq(S)
        /\ Len(Put(eventq_pending, k, new)) = Len(eventq_pending) + 1
        /\ \A i \in 1 .. Len(eventq_pending) + 1 :
             Put(eventq_pending, k, new)[i] =
               IF i <= k THEN eventq_pending[i]
               ELSE IF i = k + 1 THEN new ELSE eventq_pending[i - 1]
    BY ONLY <2>2, Between
  <2>4. QED  BY ONLY <2>1, <2>3 DEF S
<1>5. \A i \in 1 .. len : desc'[eventq_pending[i]] = desc[eventq_pending[i]]
  BY Lengths
<1>6. k + 1 \in 1 .. len + 1 /\ eventq_pending'[k + 1] = new
  <2>1. k + 1 \in 1 .. len + 1 /\ ~ (k + 1 <= k)  BY <1>2
  <2>2. QED  BY <2>1, <1>4
<1>7. when(k + 1)' = w /\ action(k + 1)' = a
  BY <1>6 DEF when, action
<1>8. ASSUME NEW i \in 1 .. k
      PROVE  /\ eventq_pending'[i] = eventq_pending[i]
             /\ when(i)' = when(i) /\ action(i)' = action(i)
  <2>1. i \in 1 .. len + 1 /\ i \in 1 .. len /\ i <= k  BY <1>1, <1>2
  <2>2. eventq_pending'[i] = eventq_pending[i]  BY <1>4, <2>1
  <2>3. QED  BY <2>1, <2>2, <1>5 DEF when, action
<1>9. ASSUME NEW i \in k + 1 .. len
      PROVE  /\ eventq_pending'[i + 1] = eventq_pending[i]
             /\ when(i + 1)' = when(i) /\ action(i + 1)' = action(i)
  <2>1. i + 1 \in 1 .. len + 1 /\ i \in 1 .. len /\ ~ (i + 1 <= k) /\ i + 1 # k + 1 /\ (i + 1) - 1 = i
    BY <1>1, <1>2
  <2>2. eventq_pending'[i + 1] = eventq_pending[i]  BY <1>4, <2>1
  <2>3. QED  BY <2>1, <2>2, <1>5 DEF when, action
<1>10. QueuedAt(w, a, new, k)
  BY <1>1, <1>4, <1>6, <1>7, <1>8, <1>9 DEF QueuedAt
<1>11. QED  BY <1>1, <1>10

\* Insertion keeps the list sorted: a cpu_execute passes every event of its
\* time, an ordinary event none.
LEMMA QueueSorted ==
  ASSUME NEW w \in Nat, NEW a \in Actions, NEW new, NEW k, IInv, QueuedAt(w, a, new, k)
  PROVE  Sorted'
<1> DEFINE len == Len(eventq_pending)
<1>1. len \in Nat /\ k \in 0 .. len /\ Len(eventq_pending') = len + 1
  BY Lengths DEF IInv, QueuedAt
<1>2. \A i \in 1 .. len : when(i) \in Nat
  BY Lengths DEF IInv, when, Events
<1> HIDE DEF len
<1>3. ASSUME NEW i \in 2 .. len + 1
      PROVE  /\ when(i - 1)' <= when(i)'
             /\ when(i - 1)' = when(i)' /\ action(i - 1)'.fn = "cpu_execute"
                  => action(i)'.fn = "cpu_execute"
  <2>1. CASE i <= k
    <3>1. i \in 1 .. k /\ i - 1 \in 1 .. k /\ i \in 2 .. len  BY <1>1, <2>1
    <3>2. QED  BY <3>1 DEF QueuedAt, IInv, Sorted, len
  <2>2. CASE i = k + 1
    <3>1. i - 1 \in 1 .. k /\ i - 1 = k /\ k \in 1 .. len  BY <1>1, <2>2
    <3>2. when(k)' = when(k) /\ action(k)' = action(k) /\ GoesAfter(w, a, k)
      BY <3>1 DEF QueuedAt
    <3>3. when(i)' = w /\ action(i)' = a  BY <2>2 DEF QueuedAt
    <3>4. QED  BY <1>2, <3>1, <3>2, <3>3 DEF GoesAfter
  <2>3. CASE i = k + 2
    <3>1. i - 1 = k + 1 /\ k + 1 \in k + 1 .. len /\ k < len /\ i = (k + 1) + 1 /\ k + 1 \in 1 .. len
      BY <1>1, <2>3
    <3>2. when(i)' = when(k + 1) /\ action(i)' = action(k + 1) /\ ~ GoesAfter(w, a, k + 1)
      BY <3>1 DEF QueuedAt, len
    <3>3. when(i - 1)' = w /\ action(i - 1)' = a  BY <3>1 DEF QueuedAt
    <3>4. QED  BY <1>2, <3>1, <3>2, <3>3 DEF GoesAfter
  <2>4. CASE i > k + 2
    <3>1. /\ i - 1 \in k + 1 .. len /\ i - 2 \in k + 1 .. len /\ i - 1 \in 2 .. len
          /\ i = (i - 1) + 1 /\ i - 1 = (i - 2) + 1 /\ (i - 1) - 1 = i - 2
      BY <1>1, <2>4
    <3>2. when(i)' = when(i - 1) /\ action(i)' = action(i - 1)
      <4>1. when((i - 1) + 1)' = when(i - 1) /\ action((i - 1) + 1)' = action(i - 1)
        BY <3>1 DEF QueuedAt, len
      <4>2. QED  BY <3>1, <4>1
    <3>3. when(i - 1)' = when(i - 2) /\ action(i - 1)' = action(i - 2)
      <4>1. when((i - 2) + 1)' = when(i - 2) /\ action((i - 2) + 1)' = action(i - 2)
        BY <3>1 DEF QueuedAt, len
      <4>2. QED  BY <3>1, <4>1
    <3>4. /\ when(i - 2) <= when(i - 1)
          /\ when(i - 2) = when(i - 1) /\ action(i - 2).fn = "cpu_execute"
               => action(i - 1).fn = "cpu_execute"
      <4>1. /\ when((i - 1) - 1) <= when(i - 1)
            /\ when((i - 1) - 1) = when(i - 1) /\ action((i - 1) - 1).fn = "cpu_execute"
                 => action(i - 1).fn = "cpu_execute"
        BY <3>1 DEF IInv, Sorted, len
      <4>2. QED  BY <3>1, <4>1
    <3>5. QED  BY <3>2, <3>3, <3>4
  <2>5. QED  BY <1>1, <2>1, <2>2, <2>3, <2>4
<1>4. QED  BY <1>1, <1>3 DEF Sorted

\* A new descriptor joins the pending list, whether it was allocated or reused.
LEMMA QueueOnce ==
  ASSUME NEW w \in Nat, NEW a \in Actions, IInv, QUEUE_EVENT(w, a)
  PROVE  /\ desc' \in Seq(Events)
         /\ eventq_pending' \in Seq(1 .. Len(desc')) /\ eventq_free' \in Seq(1 .. Len(desc'))
         /\ Once'
         /\ Sorted'
<1> USE DEF IInv
<1>1. PICK new \in Nat :
        /\ desc' \in Seq(Events) /\ new \in 1 .. Len(desc') /\ Len(desc) <= Len(desc')
        /\ desc'[new] = [when |-> w, action |-> a]
        /\ \A d \in 1 .. Len(desc) : d # new => desc'[d] = desc[d]
        /\ \A i \in 1 .. Len(eventq_pending) : eventq_pending[i] # new
        /\ eventq_pending' = Insert(new, w, a)
        /\ IF eventq_free = <<>>
           THEN /\ new = Len(desc) + 1 /\ Len(desc') = Len(desc) + 1
                /\ eventq_free' = <<>>
           ELSE /\ new = eventq_free[1] /\ Len(desc') = Len(desc)
                /\ Len(eventq_free') = Len(eventq_free) - 1
                /\ \A i \in 1 .. Len(eventq_free') : eventq_free'[i] = eventq_free[i + 1]
        /\ eventq_free' \in Seq(1 .. Len(desc))
  BY NewDescriptor
<1>2. PICK k \in 0 .. Len(eventq_pending) : QueuedAt(w, a, new, k)
  BY <1>1, Places
<1> DEFINE len == Len(eventq_pending)
           free == Len(eventq_free)
<1>3. /\ len \in Nat /\ free \in Nat /\ Len(desc) \in Nat /\ Len(desc') \in Nat
      /\ len + free = Len(desc) /\ Len(eventq_pending') = len + 1
  BY <1>1, <1>2, Lengths, LenProperties DEF Once, QueuedAt
<1>4. eventq_free' \in Seq(1 .. Len(desc'))
  <2>1. 1 .. Len(desc) \subseteq 1 .. Len(desc')  BY <1>1, <1>3
  <2>2. QED  BY <2>1, <1>1, SeqMonotonic
\* Each new position is that of the new descriptor or of an old one.
<1> DEFINE Was(i) == IF i <= k THEN i ELSE i - 1
<1>5. \A i \in 1 .. len + 1 :
        IF i = k + 1 THEN eventq_pending'[i] = new
        ELSE Was(i) \in 1 .. len /\ eventq_pending'[i] = eventq_pending[Was(i)]
  <2>1. ASSUME NEW i \in 1 .. len + 1, i <= k
        PROVE  i \in 1 .. len /\ i # k + 1 /\ eventq_pending'[i] = eventq_pending[i]
    <3>1. i \in 1 .. k /\ i \in 1 .. len /\ i # k + 1
      BY <1>3, <2>1
    <3>2. QED  BY <1>2, <3>1 DEF QueuedAt
  <2>2. ASSUME NEW i \in 1 .. len + 1, i > k + 1
        PROVE  i - 1 \in 1 .. len /\ ~ (i <= k) /\ eventq_pending'[i] = eventq_pending[i - 1]
    <3>1. i - 1 \in k + 1 .. len /\ (i - 1) + 1 = i /\ i - 1 \in 1 .. len /\ ~ (i <= k)
      BY <1>3, <2>2
    <3>2. eventq_pending'[(i - 1) + 1] = eventq_pending[i - 1]
      BY <1>2, <3>1 DEF QueuedAt
    <3>3. QED  BY <3>1, <3>2
  <2>3. eventq_pending'[k + 1] = new  BY <1>2 DEF QueuedAt
  <2>4. QED  BY <2>1, <2>2, <2>3, <1>3
<1>6. \A i, j \in 1 .. len + 1 : eventq_pending'[i] = eventq_pending'[j] => i = j
  <2>1. ASSUME NEW i \in 1 .. len + 1, NEW j \in 1 .. len + 1,
               eventq_pending'[i] = eventq_pending'[j], i # k + 1, j # k + 1
        PROVE  i = j
    <3>0. /\ Was(i) \in 1 .. len /\ eventq_pending'[i] = eventq_pending[Was(i)]
          /\ Was(j) \in 1 .. len /\ eventq_pending'[j] = eventq_pending[Was(j)]
      BY <1>5, <2>1
    <3>1. Was(i) = Was(j)
      <4>1. \A x, y \in 1 .. len : eventq_pending[x] = eventq_pending[y] => x = y
        BY DEF Once
      <4>2. eventq_pending[Was(i)] = eventq_pending[Was(j)]
        BY <2>1, <3>0
      <4> HIDE DEF Was
      <4>3. QED  BY ONLY <3>0, <4>1, <4>2
    <3>2. (i <= k \/ i > k + 1) /\ (j <= k \/ j > k + 1) /\ k \in Nat
      BY <1>3, <2>1
    <3>3. QED  BY ONLY <3>1, <3>2, <2>1, <1>3 DEF Was
  <2>2. ASSUME NEW i \in 1 .. len + 1, i # k + 1
        PROVE  eventq_pending'[i] # new
    BY <1>1, <1>5, <2>2
  <2>3. k + 1 \in 1 .. len + 1 /\ eventq_pending'[k + 1] = new  BY <1>3, <1>5
  <2>4. QED  BY <2>1, <2>2, <2>3
<1>7. \A d \in 1 .. len : \E i \in 1 .. len + 1 : eventq_pending'[i] = eventq_pending[d]
  <2>1. ASSUME NEW d \in 1 .. len PROVE \E i \in 1 .. len + 1 : eventq_pending'[i] = eventq_pending[d]
    <3>1. CASE d <= k  BY <3>1, <1>2, <1>3 DEF QueuedAt
    <3>2. CASE d > k
      <4>1. d \in k + 1 .. len /\ d + 1 \in 1 .. len + 1  BY <3>2, <1>3
      <4>2. QED  BY <4>1, <1>2 DEF QueuedAt
    <3>3. QED  BY <3>1, <3>2, <1>3
  <2>2. QED  BY <2>1
<1>8. k + 1 \in 1 .. len + 1 /\ eventq_pending'[k + 1] = new
  BY <1>3, <1>5
<1> HIDE DEF Was, len, free
<1>9. Once'
  <2>1. CASE eventq_free = <<>>
    <3>1. /\ new = Len(desc) + 1 /\ Len(desc') = Len(desc) + 1
          /\ eventq_free' = <<>> /\ Len(eventq_free') = 0 /\ free = 0
      BY <2>1, <1>1 DEF free
    <3>2. \A d \in 1 .. Len(desc') : \E i \in 1 .. len + 1 : eventq_pending'[i] = d
      <4>1. ASSUME NEW d \in 1 .. Len(desc)
            PROVE  \E i \in 1 .. len + 1 : eventq_pending'[i] = d
        <5>1. \E i \in 1 .. len : eventq_pending[i] = d  BY <3>1, <4>1 DEF Once, len, free
        <5>2. QED  BY <5>1, <1>7
      <4>2. QED  BY <4>1, <1>3, <1>8, <3>1
    <3>3. QED  BY <1>3, <1>6, <3>1, <3>2 DEF Once
  <2>2. CASE eventq_free # <<>>
    <3>1. /\ new = eventq_free[1] /\ Len(desc') = Len(desc) /\ free \in Nat \ {0}
          /\ Len(eventq_free') = free - 1
          /\ \A i \in 1 .. free - 1 : eventq_free'[i] = eventq_free[i + 1]
      <4>1. free # 0  BY <2>2, LenProperties, EmptySeq DEF free, TypeOK
      <4>2. QED  BY <4>1, <2>2, <1>1, <1>3 DEF free
    <3>2. \A i, j \in 1 .. free - 1 : eventq_free'[i] = eventq_free'[j] => i = j
      <4>1. ASSUME NEW i \in 1 .. free - 1, NEW j \in 1 .. free - 1,
                   eventq_free'[i] = eventq_free'[j]
            PROVE  i = j
        <5>1. i + 1 \in 1 .. free /\ j + 1 \in 1 .. free /\ eventq_free[i + 1] = eventq_free[j + 1]
          BY <3>1, <4>1
        <5>2. i + 1 = j + 1  BY <5>1 DEF Once, free
        <5>3. QED  BY <5>2
      <4>2. QED  BY <4>1
    <3>3. \A i \in 1 .. len + 1, j \in 1 .. free - 1 : eventq_pending'[i] # eventq_free'[j]
      <4>1. ASSUME NEW i \in 1 .. len + 1, NEW j \in 1 .. free - 1
            PROVE  eventq_pending'[i] # eventq_free'[j]
        <5>1. /\ 1 \in 1 .. free /\ j + 1 \in 1 .. free /\ j + 1 # 1
              /\ eventq_free'[j] = eventq_free[j + 1]
          BY <3>1
        <5>2. eventq_free[j + 1] # eventq_free[1]  BY <5>1 DEF Once, free
        <5>3. CASE i = k + 1  BY <5>1, <5>2, <5>3, <3>1, <1>8
        <5>4. CASE i # k + 1
          <6>1. Was(i) \in 1 .. len /\ eventq_pending'[i] = eventq_pending[Was(i)]  BY <5>4, <1>5
          <6>2. QED  BY <6>1, <5>1 DEF Once, len, free
        <5>5. QED  BY <5>3, <5>4
      <4>2. QED  BY <4>1
    <3>4. ASSUME NEW d \in 1 .. Len(desc')
          PROVE  \/ \E i \in 1 .. len + 1 : eventq_pending'[i] = d
                 \/ \E i \in 1 .. free - 1 : eventq_free'[i] = d
      <4>1. CASE \E i \in 1 .. len : eventq_pending[i] = d  BY <4>1, <1>7
      <4>2. CASE \E i \in 1 .. free : eventq_free[i] = d
        <5>1. PICK i \in 1 .. free : eventq_free[i] = d  BY <4>2
        <5>2. CASE i = 1  BY <5>1, <5>2, <3>1, <1>8
        <5>3. CASE i # 1
          <6>1. i - 1 \in 1 .. free - 1 /\ (i - 1) + 1 = i  BY <5>3, <1>3
          <6>2. eventq_free'[i - 1] = eventq_free[(i - 1) + 1]  BY <6>1, <3>1
          <6>3. QED  BY <5>1, <6>1, <6>2
        <5>4. QED  BY <5>2, <5>3
      <4>3. QED  BY <4>1, <4>2, <3>1 DEF Once, len, free
    <3>5. Len(eventq_pending') + Len(eventq_free') = Len(desc')
      <4>1. len \in Nat /\ free \in Nat /\ len + free = Len(desc)  BY <1>3
      <4>2. Len(eventq_pending') = len + 1 /\ Len(eventq_free') = free - 1  BY <1>3, <3>1
      <4>3. (len + 1) + (free - 1) = len + free  BY <4>1
      <4>4. QED  BY <3>1, <4>1, <4>2, <4>3
    <3>6. QED  BY <1>3, <1>6, <3>1, <3>2, <3>3, <3>4, <3>5 DEF Once
  <2>3. QED  BY <2>1, <2>2
<1>10. Sorted'
  BY <1>2, QueueSorted
<1>11. QED  BY <1>1, <1>2, <1>4, <1>9, <1>10 DEF QueuedAt

-----------------------------------------------------------------------------
(***************************************************************************)
(* Every action keeps the invariant.                                       *)
(***************************************************************************)

\* cpu_execute is an action a descriptor can carry.
LEMMA CpuAction ==
  ASSUME NEW c \in Cpus
  PROVE  cpu_execute(c) \in Actions /\ cpu_execute(c).fn = "cpu_execute" /\ cpu_execute(c).arg = c
BY DEF cpu_execute, Actions

\* So is an ordinary handler.
LEMMA HandlerAction ==
  ASSUME NEW h \in Handlers
  PROVE  handler(h) \in Actions /\ handler(h).fn = "handler" /\ handler(h).arg = h
BY DEF handler, Actions

\* sim_main queues one cpu_execute for each cpu, all for cycle 0.
LEMMA InitInv == Init => IInv
<1> SUFFICES ASSUME Init PROVE IInv
  OBVIOUS
<1> DEFINE n == total_cpus
           first(i) == [when |-> 0, action |-> cpu_execute(i - 1)]
<1>1. n \in Nat \ {0}
  BY QueueAssumption
<1>2. \A i \in 1 .. n : first(i) \in Events
  <2>1. ASSUME NEW i \in 1 .. n PROVE i - 1 \in Cpus
    BY <1>1 DEF Cpus
  <2>2. QED  BY <2>1, CpuAction DEF Events
<1>3. desc \in Seq(Events) /\ Len(desc) = n
  BY <1>1, <1>2, IsASeq DEF Init
<1>4. \A i \in 1 .. n : i \in 1 .. Len(desc)
  BY <1>3
<1>5. /\ eventq_pending \in Seq(1 .. Len(desc)) /\ Len(eventq_pending) = n
      /\ \A i \in 1 .. n : eventq_pending[i] = i
  BY <1>1, <1>4, IsASeq DEF Init
<1>6. eventq_free \in Seq(1 .. Len(desc)) /\ Len(eventq_free) = 0
  BY EmptySeq DEF Init
<1>7. TypeOK
  BY <1>3, <1>5, <1>6 DEF Init, TypeOK, Events
<1>8. Once
  BY <1>1, <1>3, <1>5, <1>6 DEF Once
<1>9. Sorted
  <2>1. ASSUME NEW i \in 1 .. n
        PROVE  when(i) = 0 /\ action(i).fn = "cpu_execute"
    <3>1. desc[i] = [when |-> 0, action |-> cpu_execute(i - 1)]  BY <1>1 DEF Init
    <3>2. QED  BY <3>1, <1>5, CpuAction DEF when, action, cpu_execute
  <2>2. \A i \in 2 .. n : i \in 1 .. n /\ i - 1 \in 1 .. n  BY <1>1
  <2>3. QED  BY <2>1, <2>2, <1>5 DEF Sorted
<1>10. QED  BY <1>7, <1>8, <1>9 DEF IInv

\* The descriptor of the event that is handled moves to the head of the free list.
LEMMA ServiceInv ==
  ASSUME IInv, eventq_service_events
  PROVE  IInv'
<1> USE DEF IInv
<1> DEFINE len == Len(eventq_pending)
           free == Len(eventq_free)
           ev == Head(eventq_pending)
<1>1. /\ eventq_pending # <<>> /\ sim_cycle' = when(1) /\ desc' = desc
      /\ eventq_pending' = Tail(eventq_pending) /\ eventq_free' = <<ev>> \o eventq_free
      /\ executing' = IF action(1).fn = "cpu_execute" THEN {action(1).arg} ELSE {}
  BY DEF eventq_service_events
<1>2. len \in Nat /\ free \in Nat /\ Len(desc) \in Nat /\ len + free = Len(desc)
  BY Lengths DEF Once
<1>3. /\ len # 0 /\ ev = eventq_pending[1] /\ ev \in 1 .. Len(desc)
      /\ eventq_pending' \in Seq(1 .. Len(desc)) /\ Len(eventq_pending') = len - 1
      /\ \A i \in 1 .. len - 1 : eventq_pending'[i] = eventq_pending[i + 1]
  BY <1>1, HeadTailProperties, LenProperties, EmptySeq DEF TypeOK
<1> HIDE DEF ev
<1>4. /\ eventq_free' \in Seq(1 .. Len(desc)) /\ Len(eventq_free') = free + 1
      /\ eventq_free'[1] = ev
      /\ \A i \in 2 .. free + 1 : eventq_free'[i] = eventq_free[i - 1]
  <2>1. <<ev>> \in Seq(1 .. Len(desc)) /\ Len(<<ev>>) = 1 /\ <<ev>>[1] = ev
    BY <1>3
  <2>2. /\ <<ev>> \o eventq_free \in Seq(1 .. Len(desc))
        /\ Len(<<ev>> \o eventq_free) = 1 + free
        /\ \A i \in 1 .. 1 + free : (<<ev>> \o eventq_free)[i] =
             IF i <= 1 THEN <<ev>>[i] ELSE eventq_free[i - 1]
    BY <2>1, ConcatProperties DEF TypeOK
  <2>3. 1 \in 1 .. 1 + free  BY <1>2
  <2>4. QED  BY <2>1, <2>2, <2>3, <1>1, <1>2
<1>5. when(1) \in Nat /\ action(1) \in Actions
  BY <1>2, <1>3, Lengths DEF when, action, Events
<1>6. TypeOK'
  <2>1. executing' \in SUBSET Cpus  BY <1>1, <1>5 DEF Actions
  <2>2. QED  BY <2>1, <1>1, <1>3, <1>4, <1>5 DEF TypeOK
<1> HIDE DEF len, free
<1>7. Once'
  <2>1. \A i, j \in 1 .. len - 1 : eventq_pending'[i] = eventq_pending'[j] => i = j
    <3>1. ASSUME NEW i \in 1 .. len - 1, NEW j \in 1 .. len - 1,
                 eventq_pending'[i] = eventq_pending'[j]
          PROVE  i = j
      <4>1. i + 1 \in 1 .. len /\ j + 1 \in 1 .. len /\ eventq_pending[i + 1] = eventq_pending[j + 1]
        BY <1>2, <1>3, <3>1
      <4>2. i + 1 = j + 1  BY <4>1 DEF Once, len
      <4>3. QED  BY <4>2
    <3>2. QED  BY <3>1
  <2>2. \A i \in 1 .. len - 1 : eventq_pending'[i] # ev
    <3>1. ASSUME NEW i \in 1 .. len - 1 PROVE eventq_pending'[i] # ev
      <4>1. i + 1 \in 1 .. len /\ 1 \in 1 .. len /\ i + 1 # 1  BY <1>2
      <4>2. QED  BY <4>1, <1>3 DEF Once, len
    <3>2. QED  BY <3>1
  <2>3. \A i, j \in 1 .. free + 1 : eventq_free'[i] = eventq_free'[j] => i = j
    <3>1. ASSUME NEW i \in 2 .. free + 1, NEW j \in 2 .. free + 1,
                 eventq_free'[i] = eventq_free'[j]
          PROVE  i = j
      <4>1. i - 1 \in 1 .. free /\ j - 1 \in 1 .. free /\ eventq_free[i - 1] = eventq_free[j - 1]
        BY <1>2, <1>4, <3>1
      <4>2. i - 1 = j - 1  BY <4>1 DEF Once, free
      <4>3. QED  BY <4>2
    <3>2. ASSUME NEW i \in 2 .. free + 1 PROVE eventq_free'[i] # ev
      <4>1. i - 1 \in 1 .. free /\ 1 \in 1 .. len  BY <1>2, <1>3
      <4>2. QED  BY <4>1, <1>3, <1>4 DEF Once, len, free
    <3>3. \A i \in 1 .. free + 1 : i = 1 \/ i \in 2 .. free + 1  BY <1>2
    <3>4. QED  BY <3>1, <3>2, <3>3, <1>4
  <2>4. \A i \in 1 .. len - 1, j \in 1 .. free + 1 : eventq_pending'[i] # eventq_free'[j]
    <3>1. ASSUME NEW i \in 1 .. len - 1, NEW j \in 1 .. free + 1
          PROVE  eventq_pending'[i] # eventq_free'[j]
      <4>1. CASE j = 1  BY <4>1, <2>2, <1>4
      <4>2. CASE j # 1
        <5>1. /\ j \in 2 .. free + 1 /\ j - 1 \in 1 .. free /\ i + 1 \in 1 .. len
          BY <4>2, <1>2
        <5>2. eventq_pending'[i] = eventq_pending[i + 1] /\ eventq_free'[j] = eventq_free[j - 1]
          BY <5>1, <1>3, <1>4
        <5>3. eventq_pending[i + 1] # eventq_free[j - 1]
          BY <5>1 DEF Once, len, free
        <5>4. QED  BY <5>2, <5>3
      <4>3. QED  BY <4>1, <4>2
    <3>2. QED  BY <3>1
  <2>5. ASSUME NEW d \in 1 .. Len(desc)
        PROVE  \/ \E i \in 1 .. len - 1 : eventq_pending'[i] = d
               \/ \E i \in 1 .. free + 1 : eventq_free'[i] = d
    <3>1. CASE \E i \in 1 .. len : eventq_pending[i] = d
      <4>1. PICK i \in 1 .. len : eventq_pending[i] = d  BY <3>1
      <4>2. CASE i = 1
        <5>1. 1 \in 1 .. free + 1  BY <1>2
        <5>2. QED  BY <5>1, <4>1, <4>2, <1>3, <1>4
      <4>3. CASE i # 1
        <5>1. i - 1 \in 1 .. len - 1 /\ (i - 1) + 1 = i  BY <4>3, <1>2
        <5>2. eventq_pending'[i - 1] = eventq_pending[(i - 1) + 1]  BY <5>1, <1>3
        <5>3. QED  BY <5>1, <5>2, <4>1
      <4>4. QED  BY <4>2, <4>3
    <3>2. CASE \E i \in 1 .. free : eventq_free[i] = d
      <4>1. PICK i \in 1 .. free : eventq_free[i] = d  BY <3>2
      <4>2. i + 1 \in 2 .. free + 1 /\ i + 1 \in 1 .. free + 1 /\ (i + 1) - 1 = i  BY <1>2
      <4>3. eventq_free'[i + 1] = eventq_free[(i + 1) - 1]  BY <4>2, <1>4
      <4>4. QED  BY <4>1, <4>2, <4>3
    <3>3. QED  BY <3>1, <3>2 DEF Once, len, free
  <2>6. (len - 1) + (free + 1) = Len(desc)
    BY <1>2
  <2>7. Len(eventq_pending') = len - 1 /\ Len(eventq_free') = free + 1 /\ desc' = desc
    BY <1>1, <1>3, <1>4
  <2>8. QED  BY ONLY <2>1, <2>3, <2>4, <2>5, <2>6, <2>7 DEF Once
<1>8. Sorted'
  <2>1. ASSUME NEW i \in 2 .. len - 1
        PROVE  /\ when(i - 1)' <= when(i)'
               /\ when(i - 1)' = when(i)' /\ action(i - 1)'.fn = "cpu_execute"
                    => action(i)'.fn = "cpu_execute"
    <3>1. /\ i \in 1 .. len - 1 /\ i - 1 \in 1 .. len - 1 /\ i + 1 \in 2 .. len
          /\ (i - 1) + 1 = i /\ (i + 1) - 1 = i
      BY <1>2
    <3>2. eventq_pending'[i] = eventq_pending[i + 1] /\ eventq_pending'[i - 1] = eventq_pending[i]
      BY <3>1, <1>3
    <3>3. when(i)' = when(i + 1) /\ when(i - 1)' = when(i)
          /\ action(i)' = action(i + 1) /\ action(i - 1)' = action(i)
      BY <3>2, <1>1 DEF when, action
    <3>4. /\ when(i) <= when(i + 1)
          /\ when(i) = when(i + 1) /\ action(i).fn = "cpu_execute"
               => action(i + 1).fn = "cpu_execute"
      <4>1. /\ when((i + 1) - 1) <= when(i + 1)
            /\ when((i + 1) - 1) = when(i + 1) /\ action((i + 1) - 1).fn = "cpu_execute"
                 => action(i + 1).fn = "cpu_execute"
        BY <3>1 DEF Sorted, len
      <4>2. QED  BY <4>1, <3>1
    <3>5. QED  BY <3>3, <3>4
  <2>2. QED  BY <2>1, <1>3 DEF Sorted
<1>9. QED  BY <1>6, <1>7, <1>8

\* Service, callback and rescheduling all keep the invariant.
LEMMA StepInv == IInv /\ [Next]_vars => IInv'
<1> SUFFICES ASSUME IInv, [Next]_vars PROVE IInv'
  OBVIOUS
<1> USE QueueAssumption
<1>0. sim_cycle \in Nat /\ executing \in SUBSET Cpus
  BY DEF IInv, TypeOK
<1>1. CASE eventq_service_events
  BY <1>1, ServiceInv
<1>2. ASSUME NEW h \in Handlers, NEW delay \in 0 .. MaxDelay, eventq_queue_callback(h, delay)
      PROVE  IInv'
  <2>1. /\ QUEUE_EVENT(sim_cycle + delay, handler(h))
        /\ sim_cycle' = sim_cycle /\ executing' = executing
    BY <1>2 DEF eventq_queue_callback
  <2>2. sim_cycle + delay \in Nat /\ handler(h) \in Actions
    BY <1>0, HandlerAction
  <2>3. /\ desc' \in Seq(Events)
        /\ eventq_pending' \in Seq(1 .. Len(desc')) /\ eventq_free' \in Seq(1 .. Len(desc'))
        /\ Once' /\ Sorted'
    BY <1>0, <2>1, <2>2, QueueOnce
  <2>4. QED  BY <1>0, <2>1, <2>3 DEF IInv, TypeOK, Events
<1>3. ASSUME NEW c \in Cpus, reschedule(c)
      PROVE  IInv'
  <2>1. /\ QUEUE_EVENT(sim_cycle + 1, cpu_execute(c))
        /\ sim_cycle' = sim_cycle /\ executing' = {}
    BY <1>3 DEF reschedule, period
  <2>2. sim_cycle + 1 \in Nat /\ cpu_execute(c) \in Actions
    BY <1>0, CpuAction
  <2>3. /\ desc' \in Seq(Events)
        /\ eventq_pending' \in Seq(1 .. Len(desc')) /\ eventq_free' \in Seq(1 .. Len(desc'))
        /\ Once' /\ Sorted'
    BY <1>0, <2>1, <2>2, QueueOnce
  <2>4. QED  BY <1>0, <2>1, <2>3 DEF IInv, TypeOK, Events
<1>4. CASE UNCHANGED vars
  BY <1>4 DEF vars, IInv, TypeOK, Once, Sorted, when, action
<1>5. QED  BY <1>1, <1>2, <1>3, <1>4 DEF Next

-----------------------------------------------------------------------------
(***************************************************************************)
(* The theorems.                                                           *)
(***************************************************************************)

\* The inductive invariant holds in every reachable state.
THEOREM Invariance == Spec => []IInv
<1>1. QED  BY InitInv, StepInv, PTL DEF Spec

\* Lists, cycle and running cpu keep their types, however many events are pending.
THEOREM TypeCorrect == Spec => []TypeOK
<1>1. IInv => TypeOK  BY DEF IInv
<1>2. QED  BY <1>1, Invariance, PTL

\* Every descriptor is on exactly one of the two lists that share its next field,
\* although it is freed before its action runs.
THEOREM NoDescriptorLost == Spec => []DescriptorsOnce
<1>1. IInv => DescriptorsOnce  BY OnceSuffices DEF IInv
<1>2. QED  BY <1>1, Invariance, PTL

\* The list stays sorted by time, with the cpus of a time behind its ordinary
\* events, under the two rules of __QUEUE_EVENT.
THEOREM ListSorted == Spec => []Sorted
<1>1. IInv => Sorted  BY DEF IInv
<1>2. QED  BY <1>1, Invariance, PTL

-----------------------------------------------------------------------------
(***************************************************************************)
(* Sorted lists, and counting positions of a list.                         *)
(***************************************************************************)

\* Sorted compares neighbours; the same holds of any two events.
LEMMA SortedGlobally ==
  ASSUME TypeOK, Sorted
  PROVE  \A i, j \in 1 .. Len(eventq_pending) : i < j =>
           /\ when(i) <= when(j)
           /\ when(i) = when(j) /\ action(i).fn = "cpu_execute" => action(j).fn = "cpu_execute"
<1> DEFINE len == Len(eventq_pending)
           Good(i, j) == /\ when(i) <= when(j)
                         /\ when(i) = when(j) /\ action(i).fn = "cpu_execute"
                              => action(j).fn = "cpu_execute"
<1>1. len \in Nat /\ \A i \in 1 .. len : when(i) \in Nat
  BY Lengths DEF when, Events
<1> HIDE DEF len
<1>2. \A i \in 2 .. len : Good(i - 1, i)
  BY DEF Sorted, len
<1>3. ASSUME NEW i \in 1 .. len, NEW j \in 1 .. len, i < j, ~ Good(i, j)
      PROVE  FALSE
  <2> DEFINE Bad == {m \in i + 1 .. len : ~ Good(i, m)}
  <2>1. Bad \in SUBSET Nat /\ Bad # {}
    BY <1>1, <1>3
  <2>2. PICK m \in Bad : \A l \in Bad : m <= l
    <3> HIDE DEF Bad
    <3>1. QED  BY <2>1, LeastNat
  <2>3. m \in i + 1 .. len /\ ~ Good(i, m) /\ m \in 2 .. len /\ m - 1 \in 1 .. len /\ ~ (m <= m - 1)
    BY <1>1, <2>2
  <2>4. Good(m - 1, m)
    BY <1>2, <2>3
  <2>5. CASE m = i + 1
    <3>1. m - 1 = i  BY <2>5
    <3>2. QED  BY <2>3, <2>4, <3>1
  <2>6. CASE m # i + 1
    <3>1. m - 1 \in i + 1 .. len  BY <2>3, <2>6, <1>1
    <3>2. Good(i, m - 1)  BY <2>2, <2>3, <3>1
    <3>3. when(i) \in Nat /\ when(m - 1) \in Nat /\ when(m) \in Nat  BY <1>1, <2>3
    <3>4. QED  BY <2>3, <2>4, <3>2, <3>3
  <2>7. QED  BY <2>5, <2>6
<1>4. QED  BY <1>3 DEF len

\* An element put at position k + 1 moves the positions behind it by one.
LEMMA ShiftCount ==
  ASSUME NEW len \in Nat, NEW k \in 0 .. len,
         NEW S \in SUBSET (1 .. len), NEW T \in SUBSET (1 .. len + 1),
         \A i \in 1 .. k : i \in T <=> i \in S,
         \A i \in k + 1 .. len : i + 1 \in T <=> i \in S
  PROVE  /\ Cardinality(S) \in Nat
         /\ Cardinality(T) = IF k + 1 \in T THEN Cardinality(S) + 1 ELSE Cardinality(S)
<1> DEFINE U == T \ {k + 1}
           f == [i \in S |-> IF i <= k THEN i ELSE i + 1]
<1>1. IsFiniteSet(S) /\ Cardinality(S) \in Nat
  <2>1. IsFiniteSet(1 .. len)  BY FS_Interval
  <2>2. QED  BY <2>1, FS_Subset, FS_CardinalityType
<1>2. f \in Bijection(S, U)
  <2>1. \A i \in S : f[i] \in U
    <3>1. ASSUME NEW i \in S PROVE f[i] \in U
      <4>1. i \in 1 .. len  OBVIOUS
      <4>2. CASE i <= k  BY <4>1, <4>2
      <4>3. CASE i > k
        <5>1. i \in k + 1 .. len /\ i + 1 # k + 1 /\ ~ (i <= k)  BY <4>1, <4>3
        <5>2. QED  BY <5>1
      <4>4. QED  BY <4>1, <4>2, <4>3
    <3>2. QED  BY <3>1
  <2>2. \A i, j \in S : f[i] = f[j] => i = j
    <3>1. S \subseteq Nat  OBVIOUS
    <3>2. QED  BY <3>1
  <2>3. \A j \in U : \E i \in S : f[i] = j
    <3>1. ASSUME NEW j \in U PROVE \E i \in S : f[i] = j
      <4>1. j \in 1 .. len + 1 /\ j # k + 1 /\ j \in T  OBVIOUS
      <4>2. CASE j <= k
        <5>1. j \in 1 .. k  BY <4>1, <4>2
        <5>2. j \in S /\ f[j] = j  BY <4>1, <4>2, <5>1
        <5>3. QED  BY <5>2
      <4>3. CASE j > k + 1
        <5>1. j - 1 \in k + 1 .. len /\ (j - 1) + 1 = j /\ ~ (j - 1 <= k)  BY <4>1, <4>3
        <5>2. j - 1 \in S  BY <4>1, <5>1
        <5>3. f[j - 1] = j  BY <5>1, <5>2
        <5>4. QED  BY <5>2, <5>3
      <4>4. QED  BY <4>1, <4>2, <4>3
    <3>2. QED  BY <3>1
  <2>4. f \in [S -> U]  BY <2>1
  <2>5. DOMAIN f = S  OBVIOUS
  <2> HIDE DEF f, U
  <2>6. IsInjective(f)  BY <2>2, <2>5 DEF IsInjective
  <2>7. QED  BY <2>3, <2>4, <2>6 DEF Bijection, Injection, Surjection
<1> HIDE DEF f
<1>3. IsFiniteSet(U) /\ Cardinality(U) = Cardinality(S)
  <2> HIDE DEF U
  <2>1. ExistsBijection(S, U)  BY <1>2 DEF ExistsBijection
  <2>2. QED  BY <1>1, <2>1, FS_Bijection
<1>4. CASE k + 1 \in T
  <2>1. k + 1 \notin U /\ T = U \cup {k + 1}  BY <1>4
  <2> HIDE DEF U
  <2>2. QED  BY <1>1, <1>3, <1>4, <2>1, FS_AddElement
<1>5. CASE k + 1 \notin T
  <2>1. T = U  BY <1>5
  <2>2. QED  BY <2>1, <1>1, <1>3, <1>5
<1>6. QED  BY <1>4, <1>5

-----------------------------------------------------------------------------
(***************************************************************************)
(* The pending list as a list of events, L[1] .. L[n].                     *)
(***************************************************************************)

IsCpu(e) == e.action.fn = "cpu_execute"

\* The positions of the events with action a and time w.
At(L, n, a, w) == {i \in 1 .. n : L[i].action = a /\ L[i].when = w}

Delays == 0 .. MaxDelay

\* The cpus and the ordinary events queued for cycle t.
LeftIn(L, n, t) == {c \in Cpus : At(L, n, cpu_execute(c), t) # {}}

DueIn(L, n, t) ==
  [h \in Handlers |-> [k \in Delays |-> Cardinality(At(L, n, handler(h), t + k))]]

\* Sorted, of any two events.
SortedIn(L, n) ==
  \A i, j \in 1 .. n : i < j =>
    /\ L[i].when <= L[j].when
    /\ L[i].when = L[j].when /\ IsCpu(L[i]) => IsCpu(L[j])

\* M is L with event e put at position k + 1.
InsertedAt(L, n, k, e, M) ==
  /\ k \in 0 .. n
  /\ \A i \in 1 .. k : M[i] = L[i]
  /\ M[k + 1] = e
  /\ \A i \in k + 1 .. n : M[i + 1] = L[i]

\* An event knows its cpu or its handler.
LEMMA EventParts ==
  ASSUME NEW e \in Events
  PROVE  /\ e.when \in Nat /\ e.action \in Actions
         /\ IsCpu(e) => e.action.arg \in Cpus /\ e.action = cpu_execute(e.action.arg)
         /\ ~ IsCpu(e) => \E h \in Handlers : e.action = handler(h)
         /\ \A c \in Cpus : e.action = cpu_execute(c) <=> IsCpu(e) /\ e.action.arg = c
         /\ \A h \in Handlers : e.action = handler(h) => ~ IsCpu(e)
BY DEF Events, Actions, IsCpu, cpu_execute, handler

\* Handlers that differ have actions that differ.
LEMMA HandlersDiffer ==
  ASSUME NEW g \in Handlers, NEW h \in Handlers, handler(g) = handler(h)
  PROVE  g = h
BY DEF handler

\* No handler is a cpu_execute.
LEMMA KindsDiffer ==
  ASSUME NEW c, NEW h
  PROVE  cpu_execute(c) # handler(h)
BY DEF cpu_execute, handler

\* The number of events with an action and a time, after an insertion.
LEMMA CountInserted ==
  ASSUME NEW n \in Nat, NEW k, NEW L, NEW M, NEW e, NEW a, NEW w,
         InsertedAt(L, n, k, e, M)
  PROVE  /\ Cardinality(At(L, n, a, w)) \in Nat
         /\ Cardinality(At(M, n + 1, a, w)) =
              IF e.action = a /\ e.when = w THEN Cardinality(At(L, n, a, w)) + 1
              ELSE Cardinality(At(L, n, a, w))
<1> DEFINE S == At(L, n, a, w)
           T == At(M, n + 1, a, w)
<1>1. S \in SUBSET (1 .. n) /\ T \in SUBSET (1 .. n + 1) /\ k \in 0 .. n
  BY DEF At, InsertedAt
<1>2. \A i \in 1 .. k : i \in T <=> i \in S
  BY DEF At, InsertedAt
<1>3. \A i \in k + 1 .. n : i + 1 \in T <=> i \in S
  BY DEF At, InsertedAt
<1>4. k + 1 \in T <=> e.action = a /\ e.when = w
  BY DEF At, InsertedAt
<1> HIDE DEF S, T
<1>5. /\ Cardinality(S) \in Nat
      /\ Cardinality(T) = IF k + 1 \in T THEN Cardinality(S) + 1 ELSE Cardinality(S)
  BY ONLY <1>1, <1>2, <1>3, n \in Nat, ShiftCount
<1>6. QED  BY <1>4, <1>5 DEF S, T

\* Which cpus have an event for cycle t, after an insertion.
LEMMA LeftInserted ==
  ASSUME NEW n \in Nat, NEW k, NEW L, NEW M, NEW e, NEW a, NEW w,
         InsertedAt(L, n, k, e, M)
  PROVE  At(M, n + 1, a, w) # {} <=> At(L, n, a, w) # {} \/ (e.action = a /\ e.when = w)
<1>1. k \in 0 .. n
  BY DEF InsertedAt
<1>2. ASSUME NEW i \in At(M, n + 1, a, w), ~ (e.action = a /\ e.when = w)
      PROVE  At(L, n, a, w) # {}
  <2>1. i \in 1 .. n + 1 /\ M[i].action = a /\ M[i].when = w  BY DEF At
  <2>2. CASE i <= k
    <3>1. i \in 1 .. k /\ i \in 1 .. n  BY <1>1, <2>1, <2>2
    <3>2. i \in At(L, n, a, w)  BY <2>1, <3>1 DEF At, InsertedAt
    <3>3. QED  BY <3>2
  <2>3. CASE i = k + 1
    BY <1>2, <2>1, <2>3 DEF InsertedAt
  <2>4. CASE i > k + 1
    <3>1. i - 1 \in k + 1 .. n /\ i - 1 \in 1 .. n /\ (i - 1) + 1 = i  BY <1>1, <2>1, <2>4
    <3>2. M[(i - 1) + 1] = L[i - 1]  BY <3>1 DEF InsertedAt
    <3>3. i - 1 \in At(L, n, a, w)  BY <2>1, <3>1, <3>2 DEF At
    <3>4. QED  BY <3>3
  <2>5. QED  BY <1>1, <2>1, <2>2, <2>3, <2>4
<1>3. ASSUME NEW i \in At(L, n, a, w)
      PROVE  At(M, n + 1, a, w) # {}
  <2>1. i \in 1 .. n /\ L[i].action = a /\ L[i].when = w  BY DEF At
  <2>2. CASE i <= k
    <3>1. i \in 1 .. k /\ i \in 1 .. n + 1  BY <1>1, <2>1, <2>2
    <3>2. i \in At(M, n + 1, a, w)  BY <2>1, <3>1 DEF At, InsertedAt
    <3>3. QED  BY <3>2
  <2>3. CASE i > k
    <3>1. i \in k + 1 .. n /\ i + 1 \in 1 .. n + 1  BY <1>1, <2>1, <2>3
    <3>2. i + 1 \in At(M, n + 1, a, w)  BY <2>1, <3>1 DEF At, InsertedAt
    <3>3. QED  BY <3>2
  <2>4. QED  BY <1>1, <2>1, <2>2, <2>3
<1>4. ASSUME e.action = a, e.when = w
      PROVE  At(M, n + 1, a, w) # {}
  <2>1. k + 1 \in At(M, n + 1, a, w)  BY <1>1, <1>4 DEF At, InsertedAt
  <2>2. QED  BY <2>1
<1>5. QED  BY <1>2, <1>3, <1>4

-----------------------------------------------------------------------------
(***************************************************************************)
(* The cpus take turns.                                                    *)
(***************************************************************************)

\* In cycle t, with the cpus ex executing: a cpu that does not execute has one
\* event, for this cycle or, if it had its turn, for the next; in each cycle
\* the cpus come in the order of their numbers, and those that have yet to
\* execute in this one are those above any that have executed.
TurnsIn(L, n, ex, t) ==
  /\ \A i \in 1 .. n : t <= L[i].when
  /\ \A i \in 1 .. n : ~ IsCpu(L[i]) => L[i].when <= t + MaxDelay
  /\ \A i \in 1 .. n : IsCpu(L[i]) => L[i].when <= t + 1 /\ L[i].action.arg \notin ex
  /\ \A c \in Cpus \ ex : \E i \in 1 .. n : L[i].action = cpu_execute(c)
  /\ \A i, j \in 1 .. n : i < j /\ IsCpu(L[i]) /\ IsCpu(L[j]) =>
       /\ L[i].when = L[j].when => L[i].action.arg < L[j].action.arg
       /\ L[i].when < L[j].when => L[j].action.arg < L[i].action.arg
  /\ \A c \in ex, i \in 1 .. n : IsCpu(L[i]) =>
       /\ L[i].when = t => c < L[i].action.arg
       /\ L[i].when = t + 1 => L[i].action.arg < c
  /\ ex = {} \/ \E c \in Cpus : ex = {c}

\* Between events the list is never empty and its first event is for this
\* cycle; or this cycle has none left, and the next has one for every cpu.
LEMMA Settles ==
  ASSUME NEW n \in Nat, NEW L, \A i \in 1 .. n : L[i] \in Events, NEW t \in Nat,
         SortedIn(L, n), TurnsIn(L, n, {}, t)
  PROVE  /\ n # 0
         /\ IF LeftIn(L, n, t) = {} /\ \A h \in Handlers : At(L, n, handler(h), t) = {}
            THEN L[1].when = t + 1 /\ TurnsIn(L, n, {}, t + 1) /\ LeftIn(L, n, t + 1) = Cpus
            ELSE L[1].when = t
<1>0. 0 \in Cpus /\ Cpus \subseteq Nat
  BY QueueAssumption DEF Cpus
<1>1. n # 0 /\ 1 \in 1 .. n
  <2>1. PICK i \in 1 .. n : L[i].action = cpu_execute(0)  BY <1>0 DEF TurnsIn
  <2>2. QED  BY <2>1
<1>2. \A i \in 1 .. n : L[i].when \in Nat /\ L[1].when <= L[i].when /\ t <= L[i].when
  <2>1. \A i \in 1 .. n : L[i].when \in Nat  BY EventParts
  <2>2. \A i \in 1 .. n : L[1].when <= L[i].when
    <3>1. ASSUME NEW i \in 1 .. n PROVE L[1].when <= L[i].when
      <4>1. i = 1 \/ 1 < i  OBVIOUS
      <4>2. QED  BY <4>1, <1>1, <2>1 DEF SortedIn
    <3>2. QED  BY <3>1
  <2>3. QED  BY <2>1, <2>2 DEF TurnsIn
<1>3. CASE LeftIn(L, n, t) = {} /\ \A h \in Handlers : At(L, n, handler(h), t) = {}
  <2>1. ASSUME NEW i \in 1 .. n PROVE L[i].when # t
    <3>1. CASE IsCpu(L[i])
      <4>1. L[i].action.arg \in Cpus /\ L[i].action = cpu_execute(L[i].action.arg)
        BY <3>1, EventParts
      <4>2. L[i].action.arg \notin LeftIn(L, n, t)  BY <1>3
      <4>3. i \notin At(L, n, L[i].action, t)  BY <4>1, <4>2 DEF LeftIn
      <4>4. QED  BY <4>3 DEF At
    <3>2. CASE ~ IsCpu(L[i])
      <4>1. PICK h \in Handlers : L[i].action = handler(h)  BY <3>2, EventParts
      <4>2. i \notin At(L, n, handler(h), t)  BY <1>3
      <4>3. QED  BY <4>1, <4>2 DEF At
    <3>3. QED  BY <3>1, <3>2
  <2>2. \A i \in 1 .. n : t + 1 <= L[i].when
    BY <1>2, <2>1
  <2>3. ASSUME NEW c \in Cpus
        PROVE  \E i \in 1 .. n : L[i].action = cpu_execute(c) /\ L[i].when = t + 1
    <3>1. PICK i \in 1 .. n : L[i].action = cpu_execute(c)  BY DEF TurnsIn
    <3>2. IsCpu(L[i])  BY <3>1, EventParts
    <3>3. L[i].when <= t + 1  BY <3>2 DEF TurnsIn
    <3>4. QED  BY <3>1, <3>3, <2>2, <1>2
  <2>4. L[1].when = t + 1
    <3>1. PICK i \in 1 .. n : L[i].when = t + 1  BY <1>0, <2>3
    <3>2. QED  BY <1>1, <1>2, <2>2, <3>1
  <2>5. LeftIn(L, n, t + 1) = Cpus
    <3>1. ASSUME NEW c \in Cpus PROVE At(L, n, cpu_execute(c), t + 1) # {}
      BY <2>3 DEF At
    <3>2. QED  BY <3>1 DEF LeftIn
  <2>6. TurnsIn(L, n, {}, t + 1)
    <3>1. \A i \in 1 .. n : ~ IsCpu(L[i]) => L[i].when <= t + 1 + MaxDelay
      BY <1>2, QueueAssumption DEF TurnsIn
    <3>2. \A i \in 1 .. n : IsCpu(L[i]) => L[i].when <= t + 1 + 1
      BY <1>2 DEF TurnsIn
    <3>3. QED  BY <2>2, <3>1, <3>2 DEF TurnsIn
  <2>7. QED  BY <1>1, <1>3, <2>4, <2>5, <2>6
<1>4. CASE ~ (LeftIn(L, n, t) = {} /\ \A h \in Handlers : At(L, n, handler(h), t) = {})
  <2>1. PICK i \in 1 .. n : L[i].when = t
    <3>1. CASE LeftIn(L, n, t) # {}
      <4>1. PICK c \in Cpus : At(L, n, cpu_execute(c), t) # {}  BY <3>1 DEF LeftIn
      <4>2. QED  BY <4>1 DEF At
    <3>2. CASE \E h \in Handlers : At(L, n, handler(h), t) # {}
      BY <3>2 DEF At
    <3>3. QED  BY <1>4, <3>1, <3>2
  <2>2. L[1].when = t  BY <1>1, <1>2, <2>1
  <2>3. QED  BY <1>1, <1>4, <2>2
<1>5. QED  BY <1>3, <1>4

\* The position, before an insertion at k + 1, of what is now at i.
Was(i, k) == IF i <= k THEN i ELSE i - 1

\* Every other element was there before, in the same order, and none is lost.
LEMMA Origins ==
  ASSUME NEW n \in Nat, NEW k, NEW L, NEW M, NEW e, InsertedAt(L, n, k, e, M)
  PROVE  /\ \A i \in 1 .. n + 1 : i # k + 1 => Was(i, k) \in 1 .. n /\ M[i] = L[Was(i, k)]
         /\ \A i \in 1 .. n : \E j \in 1 .. n + 1 : M[j] = L[i]
         /\ \A i, j \in 1 .. n + 1 :
              i < j /\ i # k + 1 /\ j # k + 1 => Was(i, k) < Was(j, k)
<1>1. k \in 0 .. n
  BY DEF InsertedAt
<1>2. ASSUME NEW i \in 1 .. n + 1, i # k + 1
      PROVE  Was(i, k) \in 1 .. n /\ M[i] = L[Was(i, k)]
  <2>1. CASE i <= k
    <3>1. i \in 1 .. k /\ i \in 1 .. n  BY <1>1, <2>1
    <3>2. QED  BY <2>1, <3>1 DEF InsertedAt, Was
  <2>2. CASE i > k + 1
    <3>1. i - 1 \in k + 1 .. n /\ i - 1 \in 1 .. n /\ (i - 1) + 1 = i /\ ~ (i <= k)
      BY <1>1, <2>2
    <3>2. M[(i - 1) + 1] = L[i - 1]  BY <3>1 DEF InsertedAt
    <3>3. QED  BY <3>1, <3>2 DEF Was
  <2>3. QED  BY <1>1, <1>2, <2>1, <2>2
<1>3. \A i \in 1 .. n : \E j \in 1 .. n + 1 : M[j] = L[i]
  <2>1. ASSUME NEW i \in 1 .. n PROVE \E j \in 1 .. n + 1 : M[j] = L[i]
    <3>1. CASE i <= k
      <4>1. i \in 1 .. k /\ i \in 1 .. n + 1  BY <1>1, <3>1
      <4>2. QED  BY <4>1 DEF InsertedAt
    <3>2. CASE i > k
      <4>1. i \in k + 1 .. n /\ i + 1 \in 1 .. n + 1  BY <1>1, <3>2
      <4>2. QED  BY <4>1 DEF InsertedAt
    <3>3. QED  BY <1>1, <3>1, <3>2
  <2>2. QED  BY <2>1
<1>4. \A i, j \in 1 .. n + 1 : i < j /\ i # k + 1 /\ j # k + 1 => Was(i, k) < Was(j, k)
  BY <1>1 DEF Was
<1>5. QED  BY <1>2, <1>3, <1>4

\* An ordinary event for this cycle or a later one leaves the turns as they are.
LEMMA TurnsQueued ==
  ASSUME NEW n \in Nat, NEW k, NEW L, NEW M, NEW h \in Handlers, NEW ex, NEW t \in Nat,
         NEW delay \in 0 .. MaxDelay, TurnsIn(L, n, ex, t),
         InsertedAt(L, n, k, [when |-> t + delay, action |-> handler(h)], M)
  PROVE  TurnsIn(M, n + 1, ex, t)
<1> DEFINE e == [when |-> t + delay, action |-> handler(h)]
<1>1. /\ k \in 0 .. n /\ M[k + 1] = e /\ ~ IsCpu(e) /\ e.when = t + delay /\ MaxDelay \in Nat
      /\ t <= e.when /\ e.when <= t + MaxDelay
  BY QueueAssumption DEF InsertedAt, IsCpu, handler
<1>2. /\ \A i \in 1 .. n + 1 : i # k + 1 => Was(i, k) \in 1 .. n /\ M[i] = L[Was(i, k)]
      /\ \A i \in 1 .. n : \E j \in 1 .. n + 1 : M[j] = L[i]
      /\ \A i, j \in 1 .. n + 1 : i < j /\ i # k + 1 /\ j # k + 1 => Was(i, k) < Was(j, k)
  BY Origins
<1> HIDE DEF e
<1>5. \A i \in 1 .. n + 1 : t <= M[i].when
  BY <1>1, <1>2 DEF TurnsIn
<1>6. \A i \in 1 .. n + 1 : ~ IsCpu(M[i]) => M[i].when <= t + MaxDelay
  BY <1>1, <1>2 DEF TurnsIn
<1>7. \A i \in 1 .. n + 1 : IsCpu(M[i]) => M[i].when <= t + 1 /\ M[i].action.arg \notin ex
  BY <1>1, <1>2 DEF TurnsIn
<1>8. \A c \in Cpus \ ex : \E i \in 1 .. n + 1 : M[i].action = cpu_execute(c)
  <2>1. ASSUME NEW c \in Cpus \ ex PROVE \E i \in 1 .. n + 1 : M[i].action = cpu_execute(c)
    <3>1. PICK i \in 1 .. n : L[i].action = cpu_execute(c)  BY DEF TurnsIn
    <3>2. QED  BY <1>2, <3>1
  <2>2. QED  BY <2>1
<1>9. ASSUME NEW i \in 1 .. n + 1, NEW j \in 1 .. n + 1, i < j, IsCpu(M[i]), IsCpu(M[j])
      PROVE  /\ M[i].when = M[j].when => M[i].action.arg < M[j].action.arg
             /\ M[i].when < M[j].when => M[j].action.arg < M[i].action.arg
  <2>1. i # k + 1 /\ j # k + 1  BY <1>1, <1>9
  <2>2. Was(i, k) \in 1 .. n /\ Was(j, k) \in 1 .. n /\ M[i] = L[Was(i, k)] /\ M[j] = L[Was(j, k)] /\ Was(i, k) < Was(j, k)
    BY <1>2, <1>9, <2>1
  <2>3. QED  BY <1>9, <2>2 DEF TurnsIn
<1>10. \A c \in ex, i \in 1 .. n + 1 : IsCpu(M[i]) =>
         /\ M[i].when = t => c < M[i].action.arg
         /\ M[i].when = t + 1 => M[i].action.arg < c
  BY <1>1, <1>2 DEF TurnsIn
<1>11. ex = {} \/ \E c \in Cpus : ex = {c}
  BY DEF TurnsIn
<1>12. QED  BY ONLY <1>5, <1>6, <1>7, <1>8, <1>9, <1>10, <1>11 DEF TurnsIn

\* A cpu that ends its turn goes behind the events of the next cycle: behind
\* the cpus that executed before it.
LEMMA TurnsRescheduled ==
  ASSUME NEW n \in Nat, NEW k, NEW L, NEW M, NEW c \in Cpus, NEW t \in Nat,
         \A i \in 1 .. n : L[i] \in Events, TurnsIn(L, n, {c}, t),
         InsertedAt(L, n, k, [when |-> t + 1, action |-> cpu_execute(c)], M),
         \A i \in 1 .. k : L[i].when <= t + 1,
         \A i \in k + 1 .. n : t + 1 < L[i].when
  PROVE  TurnsIn(M, n + 1, {}, t)
<1> DEFINE e == [when |-> t + 1, action |-> cpu_execute(c)]
<1>1. /\ k \in 0 .. n /\ M[k + 1] = e /\ IsCpu(e) /\ e.when = t + 1 /\ e.action.arg = c
      /\ e.action = cpu_execute(c) /\ k + 1 \in 1 .. n + 1
  BY DEF InsertedAt, IsCpu, cpu_execute
<1>2. /\ \A i \in 1 .. n + 1 : i # k + 1 => Was(i, k) \in 1 .. n /\ M[i] = L[Was(i, k)]
      /\ \A i \in 1 .. n : \E j \in 1 .. n + 1 : M[j] = L[i]
      /\ \A i, j \in 1 .. n + 1 : i < j /\ i # k + 1 /\ j # k + 1 => Was(i, k) < Was(j, k)
  BY Origins
<1>3. \A i \in 1 .. n : L[i].when \in Nat
  BY EventParts
<1> HIDE DEF e
<1>4. \A i \in 1 .. n + 1 : t <= M[i].when
  BY <1>1, <1>2 DEF TurnsIn
<1>5. \A i \in 1 .. n + 1 : ~ IsCpu(M[i]) => M[i].when <= t + MaxDelay
  BY <1>1, <1>2 DEF TurnsIn
<1>6. \A i \in 1 .. n + 1 : IsCpu(M[i]) => M[i].when <= t + 1
  BY <1>1, <1>2 DEF TurnsIn
<1>7. \A d \in Cpus : \E i \in 1 .. n + 1 : M[i].action = cpu_execute(d)
  <2>1. ASSUME NEW d \in Cpus \ {c} PROVE \E i \in 1 .. n + 1 : M[i].action = cpu_execute(d)
    <3>1. PICK i \in 1 .. n : L[i].action = cpu_execute(d)  BY DEF TurnsIn
    <3>2. QED  BY <1>2, <3>1
  <2>2. QED  BY <1>1, <2>1
<1>8. ASSUME NEW i \in 1 .. n + 1, NEW j \in 1 .. n + 1, i < j, IsCpu(M[i]), IsCpu(M[j])
      PROVE  /\ M[i].when = M[j].when => M[i].action.arg < M[j].action.arg
             /\ M[i].when < M[j].when => M[j].action.arg < M[i].action.arg
  <2>1. CASE i # k + 1 /\ j # k + 1
    <3>1. /\ Was(i, k) \in 1 .. n /\ Was(j, k) \in 1 .. n /\ Was(i, k) < Was(j, k)
          /\ M[i] = L[Was(i, k)] /\ M[j] = L[Was(j, k)]
      BY <1>2, <1>8, <2>1
    <3>2. QED  BY <1>8, <3>1 DEF TurnsIn
  <2>2. CASE i = k + 1
    <3>1. j # k + 1 /\ Was(j, k) \in k + 1 .. n /\ M[j] = L[Was(j, k)]
      <4>1. j # k + 1 /\ Was(j, k) \in 1 .. n /\ M[j] = L[Was(j, k)]  BY <1>2, <1>8, <2>2
      <4>2. Was(j, k) = j - 1  BY <1>1, <1>8, <2>2 DEF Was
      <4>3. QED  BY <4>1, <4>2, <1>1, <1>8, <2>2
    <3>2. Was(j, k) \in 1 .. n /\ t + 1 < L[Was(j, k)].when  BY <3>1, <1>1
    <3>3. L[Was(j, k)].when <= t + 1  BY <3>1, <3>2, <1>8 DEF TurnsIn
    <3>4. QED  BY <3>2, <3>3, <1>3
  <2>3. CASE j = k + 1
    <3>1. i \in 1 .. k /\ i \in 1 .. n /\ M[i] = L[i]
      BY <1>1, <1>8, <2>3 DEF InsertedAt
    <3>2. t <= L[i].when /\ L[i].when <= t + 1 /\ L[i].when \in Nat
      BY <3>1, <1>3 DEF TurnsIn
    <3>3. /\ L[i].when = t => c < L[i].action.arg
          /\ L[i].when = t + 1 => L[i].action.arg < c
      BY <3>1, <1>8 DEF TurnsIn
    <3>4. L[i].when = t \/ L[i].when = t + 1  BY <3>2
    <3>5. M[j] = e  BY <2>3, <1>1
    <3>6. QED  BY <3>1, <3>2, <3>3, <3>4, <3>5, <1>1
  <2>4. QED  BY <2>1, <2>2, <2>3
<1>9. QED  BY ONLY <1>4, <1>5, <1>6, <1>7, <1>8 DEF TurnsIn

\* The first event of the list starts: the others, M, are those of L behind it.
LEMMA TurnsServed ==
  ASSUME NEW n \in Nat, NEW L, NEW M, NEW t \in Nat,
         \A i \in 1 .. n + 1 : L[i] \in Events, TurnsIn(L, n + 1, {}, t),
         L[1].when = t, InsertedAt(M, n, 0, L[1], L)
  PROVE  TurnsIn(M, n, IF IsCpu(L[1]) THEN {L[1].action.arg} ELSE {}, t)
<1> DEFINE ex == IF IsCpu(L[1]) THEN {L[1].action.arg} ELSE {}
<1>1. \A i \in 1 .. n : i + 1 \in 1 .. n + 1 /\ M[i] = L[i + 1] /\ 1 < i + 1
  <2>1. ASSUME NEW i \in 1 .. n PROVE i + 1 \in 1 .. n + 1 /\ M[i] = L[i + 1] /\ 1 < i + 1
    <3>1. i \in 0 + 1 .. n  OBVIOUS
    <3>2. QED  BY <3>1 DEF InsertedAt
  <2>2. QED  BY <2>1
<1>2. 1 \in 1 .. n + 1 /\ L[1] \in Events
  OBVIOUS
<1>3. Cpus \subseteq Nat
  BY DEF Cpus
<1>4. ASSUME NEW i \in 1 .. n, IsCpu(M[i])
      PROVE  /\ M[i].when <= t + 1
             /\ IsCpu(L[1]) => /\ M[i].action.arg # L[1].action.arg
                               /\ M[i].when = t => L[1].action.arg < M[i].action.arg
                               /\ M[i].when = t + 1 => M[i].action.arg < L[1].action.arg
  <2>1. /\ i + 1 \in 1 .. n + 1 /\ M[i] = L[i + 1] /\ 1 < i + 1 /\ M[i] \in Events
        /\ M[i].when \in Nat /\ M[i].action.arg \in Cpus
    <3>1. i + 1 \in 1 .. n + 1 /\ M[i] = L[i + 1] /\ 1 < i + 1  BY <1>1
    <3>2. M[i] \in Events  BY <3>1
    <3>3. QED  BY <3>1, <3>2, <1>4, EventParts
  <2>2. t <= M[i].when /\ M[i].when <= t + 1  BY <2>1, <1>4 DEF TurnsIn
  <2>3. ASSUME IsCpu(L[1])
        PROVE  /\ L[1].when = M[i].when => L[1].action.arg < M[i].action.arg
               /\ L[1].when < M[i].when => M[i].action.arg < L[1].action.arg
    BY <2>1, <2>3, <1>2, <1>4 DEF TurnsIn
  <2>4. IsCpu(L[1]) => L[1].action.arg \in Cpus  BY <1>2, EventParts
  <2>5. M[i].when = t \/ M[i].when = t + 1
    BY <2>1, <2>2
  <2>6. M[i].action.arg \in Nat /\ (IsCpu(L[1]) => L[1].action.arg \in Nat)
    BY <2>1, <2>4, <1>3
  <2>7. ASSUME IsCpu(L[1])
        PROVE  /\ M[i].when = t => L[1].action.arg < M[i].action.arg
               /\ M[i].when = t + 1 => M[i].action.arg < L[1].action.arg
    BY <2>3, <2>7
  <2>8. IsCpu(L[1]) => M[i].action.arg # L[1].action.arg
    BY <2>5, <2>6, <2>7
  <2>9. QED  BY <2>2, <2>7, <2>8
<1>5. \A c \in Cpus \ ex : \E i \in 1 .. n : M[i].action = cpu_execute(c)
  <2>1. ASSUME NEW c \in Cpus \ ex PROVE \E i \in 1 .. n : M[i].action = cpu_execute(c)
    <3>1. PICK i \in 1 .. n + 1 : L[i].action = cpu_execute(c)  BY DEF TurnsIn
    <3>2. i # 1
      <4>1. L[1].action = cpu_execute(c) => IsCpu(L[1]) /\ L[1].action.arg = c
        BY <1>2, EventParts
      <4>2. QED  BY <3>1, <4>1
    <3>3. i - 1 \in 1 .. n /\ (i - 1) + 1 = i  BY <3>2
    <3>4. M[i - 1] = L[(i - 1) + 1]  BY <3>3, <1>1
    <3>5. QED  BY <3>1, <3>3, <3>4
  <2>2. QED  BY <2>1
<1>6. ex = {} \/ \E c \in Cpus : ex = {c}
  BY <1>2, EventParts
<1>7. \A i \in 1 .. n : t <= M[i].when /\ (~ IsCpu(M[i]) => M[i].when <= t + MaxDelay)
  BY <1>1 DEF TurnsIn
<1>8. ASSUME NEW i \in 1 .. n, NEW j \in 1 .. n, i < j, IsCpu(M[i]), IsCpu(M[j])
      PROVE  /\ M[i].when = M[j].when => M[i].action.arg < M[j].action.arg
             /\ M[i].when < M[j].when => M[j].action.arg < M[i].action.arg
  <2>1. /\ i + 1 \in 1 .. n + 1 /\ j + 1 \in 1 .. n + 1 /\ i + 1 < j + 1
        /\ M[i] = L[i + 1] /\ M[j] = L[j + 1]
    BY <1>1, <1>8
  <2>2. QED  BY <2>1, <1>8 DEF TurnsIn
<1>9. \A i \in 1 .. n : IsCpu(M[i]) => M[i].when <= t + 1 /\ M[i].action.arg \notin ex
  BY <1>4
<1>10. \A c \in ex, i \in 1 .. n : IsCpu(M[i]) =>
         /\ M[i].when = t => c < M[i].action.arg
         /\ M[i].when = t + 1 => M[i].action.arg < c
  BY <1>4
<1> HIDE DEF ex
<1>11. TurnsIn(M, n, ex, t)
  BY ONLY <1>5, <1>6, <1>7, <1>8, <1>9, <1>10 DEF TurnsIn
<1>12. QED  BY <1>11 DEF ex

\* A cpu is served when no ordinary event of the cycle is left, and in its turn.
LEMMA FirstCpu ==
  ASSUME NEW n \in Nat, NEW L, NEW t \in Nat, n # 0, \A i \in 1 .. n : L[i] \in Events,
         SortedIn(L, n), TurnsIn(L, n, {}, t), L[1].when = t, IsCpu(L[1])
  PROVE  /\ \A h \in Handlers : At(L, n, handler(h), t) = {}
         /\ L[1].action.arg \in LeftIn(L, n, t)
         /\ \A d \in LeftIn(L, n, t) : L[1].action.arg <= d
<1>1. 1 \in 1 .. n /\ L[1] \in Events /\ Cpus \subseteq Nat
  BY DEF Cpus
<1>2. L[1].action.arg \in Cpus /\ L[1].action = cpu_execute(L[1].action.arg)
  BY <1>1, EventParts
<1>3. ASSUME NEW h \in Handlers, NEW i \in At(L, n, handler(h), t) PROVE FALSE
  <2>1. i \in 1 .. n /\ L[i].action = handler(h) /\ L[i].when = t  BY DEF At
  <2>2. ~ IsCpu(L[i])  BY <2>1, EventParts
  <2>3. i # 1 /\ 1 < i  BY <2>1, <2>2
  <2>4. QED  BY <1>1, <2>1, <2>2, <2>3 DEF SortedIn
<1>4. L[1].action.arg \in LeftIn(L, n, t)
  <2>1. 1 \in At(L, n, cpu_execute(L[1].action.arg), t)  BY <1>1, <1>2 DEF At
  <2>2. QED  BY <1>2, <2>1 DEF LeftIn
<1>5. ASSUME NEW d \in LeftIn(L, n, t) PROVE L[1].action.arg <= d
  <2>1. PICK i \in At(L, n, cpu_execute(d), t) : TRUE  BY DEF LeftIn
  <2>2. i \in 1 .. n /\ L[i].action = cpu_execute(d) /\ L[i].when = t /\ d \in Cpus
    BY DEF At, LeftIn
  <2>3. IsCpu(L[i]) /\ L[i].action.arg = d  BY <2>2, EventParts
  <2>4. CASE i = 1  BY <2>3, <2>4, <1>1, <1>2
  <2>5. CASE 1 < i
    <3>1. L[1].action.arg < d  BY <2>2, <2>3, <2>5, <1>1 DEF TurnsIn
    <3>2. d \in Nat /\ L[1].action.arg \in Nat  BY <1>1, <1>2, <2>2
    <3>3. QED  BY <3>1, <3>2
  <2>6. QED  BY <2>2, <2>4, <2>5
<1>6. QED  BY <1>3, <1>4, <1>5

-----------------------------------------------------------------------------
(***************************************************************************)
(* The pending list of the event queue is such a list.                     *)
(***************************************************************************)

List == [i \in 1 .. Len(eventq_pending) |-> desc[eventq_pending[i]]]

Turns == TurnsIn(List, Len(eventq_pending), executing, Now)

\* The variables that MCEventQueue gives to the cycle loop.
LeftNow == executing \cup {c \in Cpus : Pending(cpu_execute(c), Now) # {}}

DueNow ==
  [h \in Handlers |-> [k \in 0 .. MaxDelay |-> Cardinality(Pending(handler(h), Now + k))]]

\* What the list says of the pending events.
Viewed ==
  /\ Len(eventq_pending) \in Nat
  /\ \A i \in 1 .. Len(eventq_pending) : List[i] \in Events
  /\ SortedIn(List, Len(eventq_pending))
  /\ LeftNow = executing \cup LeftIn(List, Len(eventq_pending), Now)
  /\ DueNow = DueIn(List, Len(eventq_pending), Now)
  /\ sim_cycle \in Nat
  /\ executing = {} /\ Len(eventq_pending) # 0 => Now = List[1].when
  /\ executing # {} => Now = sim_cycle

\* The invariant of the event queue gives the view.
LEMMA View == IInv => Viewed
<1> SUFFICES ASSUME IInv PROVE Viewed
  OBVIOUS
<1> DEFINE len == Len(eventq_pending)
<1>1. len \in Nat /\ \A i \in 1 .. len : List[i] \in Events
  BY Lengths DEF IInv, List
<1>2. \A i \in 1 .. len : when(i) = List[i].when /\ action(i) = List[i].action
  BY DEF List, when, action
<1>3. SortedIn(List, len)
  BY <1>2, SortedGlobally DEF IInv, SortedIn, IsCpu
<1>4. \A a, w : Pending(a, w) = At(List, len, a, w)
  BY <1>2 DEF Pending, At
<1>5. LeftNow = executing \cup LeftIn(List, len, Now)
  BY <1>4 DEF LeftNow, LeftIn
<1>6. DueNow = DueIn(List, len, Now)
  BY <1>4 DEF DueNow, DueIn, Delays
<1>7. executing = {} /\ len # 0 => Now = List[1].when
  <2>1. len # 0 => 1 \in 1 .. len  BY <1>1
  <2>2. QED  BY <2>1, <1>2 DEF Now
<1>8. QED  BY <1>1, <1>3, <1>5, <1>6, <1>7 DEF Viewed, Now, IInv, TypeOK

\* And so in the next state.
LEMMA ViewNext == IInv' => Viewed'
BY View, PTL

\* QUEUE_EVENT inserts the event behind those it may pass.
LEMMA QueueInserts ==
  ASSUME NEW w \in Nat, NEW a \in Actions, IInv, IInv', QUEUE_EVENT(w, a)
  PROVE  \E k :
           /\ InsertedAt(List, Len(eventq_pending), k, [when |-> w, action |-> a], List')
           /\ Len(eventq_pending') = Len(eventq_pending) + 1
           /\ \A i \in 1 .. k : List[i].when <= w
           /\ \A i \in k + 1 .. Len(eventq_pending) :
                IF a.fn = "cpu_execute" THEN w < List[i].when ELSE w <= List[i].when
<1>1. \E new \in Nat : \E k \in 0 .. Len(eventq_pending) : QueuedAt(w, a, new, k)
  BY NewDescriptor, Places DEF IInv
<1>2. PICK new \in Nat, k \in 0 .. Len(eventq_pending) : QueuedAt(w, a, new, k)
  BY <1>1
<1> DEFINE n == Len(eventq_pending)
           e == [when |-> w, action |-> a]
<1>3. Viewed /\ Viewed'
  BY View, ViewNext
<1>4. /\ n \in Nat /\ Len(eventq_pending') = n + 1 /\ k \in 0 .. n
      /\ \A i \in 1 .. n : List[i] = desc[eventq_pending[i]] /\ List[i] \in Events
      /\ \A i \in 1 .. n + 1 : List'[i] = desc'[eventq_pending'[i]] /\ List'[i] \in Events
  <2>1. n \in Nat /\ Len(eventq_pending') = n + 1  BY <1>2, <1>3 DEF Viewed, QueuedAt
  <2>2. \A i \in 1 .. n : List[i] = desc[eventq_pending[i]]  BY DEF List
  <2>3. \A i \in 1 .. n + 1 : List'[i] = desc'[eventq_pending'[i]]  BY <2>1 DEF List
  <2>4. \A i \in 1 .. n : List[i] \in Events  BY <1>3 DEF Viewed
  <2>5. \A i \in 1 .. n + 1 : List'[i] \in Events  BY <1>3, <2>1 DEF Viewed
  <2>6. QED  BY <2>1, <2>2, <2>3, <2>4, <2>5
<1>5. \A x, y \in Events : x.when = y.when /\ x.action = y.action => x = y
  BY DEF Events
<1> HIDE DEF n
<1>6. ASSUME NEW i \in 1 .. k PROVE List'[i] = List[i]
  <2>1. i \in 1 .. n /\ i \in 1 .. n + 1  BY <1>4
  <2>2. when(i)' = when(i) /\ action(i)' = action(i)  BY <1>2 DEF QueuedAt
  <2>3. List'[i].when = List[i].when /\ List'[i].action = List[i].action
    BY <2>1, <2>2, <1>4 DEF when, action
  <2>4. QED  BY <2>1, <2>3, <1>4, <1>5
<1>7. ASSUME NEW i \in k + 1 .. n PROVE List'[i + 1] = List[i]
  <2>1. i \in 1 .. n /\ i + 1 \in 1 .. n + 1  BY <1>4
  <2>2. when(i + 1)' = when(i) /\ action(i + 1)' = action(i)  BY <1>2 DEF QueuedAt, n
  <2>3. List'[i + 1].when = List[i].when /\ List'[i + 1].action = List[i].action
    BY <2>1, <2>2, <1>4 DEF when, action
  <2>4. QED  BY <2>1, <2>3, <1>4, <1>5
<1>8. List'[k + 1] = e
  <2>1. k + 1 \in 1 .. n + 1 /\ e \in Events  BY <1>4 DEF Events
  <2>2. when(k + 1)' = w /\ action(k + 1)' = a  BY <1>2 DEF QueuedAt
  <2>3. List'[k + 1].when = w /\ List'[k + 1].action = a
    BY <2>1, <2>2, <1>4 DEF when, action
  <2>4. QED  BY <2>1, <2>3, <1>4, <1>5
<1>9. \A i \in 1 .. n : List[i].when = when(i) /\ List[i].when \in Nat
  BY <1>4 DEF when, Events
<1>10. \A i \in 1 .. k : List[i].when <= w
  <2>1. ASSUME NEW i \in 1 .. k PROVE List[i].when <= w
    <3>1. GoesAfter(w, a, i) /\ i \in 1 .. n  BY <1>2, <1>4 DEF QueuedAt
    <3>2. QED  BY <3>1, <1>9 DEF GoesAfter
  <2>2. QED  BY <2>1
<1>11. ASSUME NEW i \in k + 1 .. n
       PROVE  IF a.fn = "cpu_execute" THEN w < List[i].when ELSE w <= List[i].when
  <2>1. k + 1 \in 1 .. n /\ i \in 1 .. n /\ k < n /\ (k + 1 = i \/ k + 1 < i)  BY <1>4
  <2>2. ~ GoesAfter(w, a, k + 1)  BY <1>2, <2>1 DEF QueuedAt, n
  <2>3. IF a.fn = "cpu_execute" THEN w < List[k + 1].when ELSE w <= List[k + 1].when
    BY <2>1, <2>2, <1>9 DEF GoesAfter
  <2>4. List[k + 1].when <= List[i].when
    <3>1. k + 1 < i => List[k + 1].when <= List[i].when
      BY <2>1, <1>3 DEF Viewed, SortedIn, n
    <3>2. QED  BY <3>1, <2>1, <1>9
  <2>5. List[k + 1].when \in Nat /\ List[i].when \in Nat  BY <2>1, <1>9
  <2>6. QED  BY <2>3, <2>4, <2>5
<1>12. InsertedAt(List, n, k, e, List')
  BY <1>4, <1>6, <1>7, <1>8 DEF InsertedAt
<1>13. QED  BY <1>4, <1>10, <1>11, <1>12 DEF n

\* eventq_service_events takes the first event off.
LEMMA ServiceRemoves ==
  ASSUME IInv, IInv', eventq_service_events
  PROVE  /\ Len(eventq_pending) # 0 /\ Len(eventq_pending) = Len(eventq_pending') + 1
         /\ InsertedAt(List', Len(eventq_pending'), 0, List[1], List)
<1> DEFINE n == Len(eventq_pending)
<1>1. eventq_pending' = Tail(eventq_pending) /\ eventq_pending # <<>> /\ desc' = desc
  BY DEF eventq_service_events
<1>2. n \in Nat /\ n # 0 /\ Len(eventq_pending') = n - 1
      /\ \A i \in 1 .. n - 1 : eventq_pending'[i] = eventq_pending[i + 1]
  BY <1>1, HeadTailProperties, LenProperties, EmptySeq DEF IInv, TypeOK
<1>3. \A i \in 1 .. n - 1 : List'[i] = List[i + 1]
  <2>1. ASSUME NEW i \in 1 .. n - 1 PROVE List'[i] = List[i + 1]
    <3>1. i + 1 \in 1 .. n  BY <1>2
    <3>2. List[i + 1] = desc[eventq_pending[i + 1]]  BY <3>1 DEF List
    <3>3. List'[i] = desc'[eventq_pending'[i]]  BY <1>2 DEF List
    <3>4. QED  BY <3>2, <3>3, <1>1, <1>2
  <2>2. QED  BY <2>1
<1> HIDE DEF n
<1>4. (n - 1) + 1 = n /\ n - 1 \in Nat /\ 0 + 1 = 1
  BY <1>2 DEF n
<1>5. InsertedAt(List', n - 1, 0, List[1], List)
  BY <1>3, <1>4 DEF InsertedAt
<1>6. QED  BY <1>2, <1>4, <1>5 DEF n

-----------------------------------------------------------------------------
(***************************************************************************)
(* Every step of the event queue is a step of the cycle loop.              *)
(***************************************************************************)

\* The cycle ends, in the event queue, when the first event of the list is for
\* the next one.
LEMMA SettleStep ==
  ASSUME NEW t \in Nat, IInv', executing' = {}, Now = t,
         TurnsIn(List', Len(eventq_pending'), {}, t)
  PROVE  /\ Turns'
         /\ Loop!Settle(LeftIn(List', Len(eventq_pending'), t),
                        DueIn(List', Len(eventq_pending'), t))
<1> DEFINE n == Len(eventq_pending')
           L == List'
           turns == LeftIn(L, n, t)
           events == DueIn(L, n, t)
<1>1. /\ n \in Nat /\ \A i \in 1 .. n : L[i] \in Events
      /\ SortedIn(L, n)
      /\ LeftNow' = executing' \cup LeftIn(L, n, Now')
      /\ DueNow' = DueIn(L, n, Now')
      /\ executing' = {} /\ n # 0 => Now' = L[1].when
  BY ViewNext DEF Viewed
<1>2. LeftNow' = LeftIn(L, n, Now')
  BY <1>1
<1>3. TurnsIn(L, n, {}, t)
  OBVIOUS
<1> HIDE DEF n, L
<1>4. /\ n # 0
      /\ IF turns = {} /\ \A h \in Handlers : At(L, n, handler(h), t) = {}
         THEN L[1].when = t + 1 /\ TurnsIn(L, n, {}, t + 1) /\ LeftIn(L, n, t + 1) = Cpus
         ELSE L[1].when = t
  BY <1>1, <1>3, Settles
<1>5. Now' = L[1].when
  BY <1>1, <1>4
<1>6. \A h \in Handlers : events[h][0] = 0 <=> At(L, n, handler(h), t) = {}
  <2>1. ASSUME NEW h \in Handlers PROVE events[h][0] = 0 <=> At(L, n, handler(h), t) = {}
    <3>1. 0 \in Delays /\ t + 0 = t  BY QueueAssumption DEF Delays
    <3>2. events[h][0] = Cardinality(At(L, n, handler(h), t))  BY <3>1 DEF DueIn
    <3>3. IsFiniteSet(At(L, n, handler(h), t))
      <4>1. IsFiniteSet(1 .. n)  BY <1>1, FS_Interval
      <4>2. At(L, n, handler(h), t) \subseteq 1 .. n  BY DEF At
      <4>3. QED  BY <4>1, <4>2, FS_Subset
    <3>4. QED  BY <3>2, <3>3, FS_EmptySet
  <2>2. QED  BY <2>1
<1>7. ASSUME \A i \in 1 .. n : ~ IsCpu(L[i]) => L[i].when <= t + MaxDelay
      PROVE  DueIn(L, n, t + 1) = Loop!NextCycle(events)
  <2>1. ASSUME NEW h \in Handlers, NEW k \in Delays
        PROVE  Cardinality(At(L, n, handler(h), t + 1 + k)) =
                 IF k < MaxDelay THEN events[h][k + 1] ELSE 0
    <3>1. CASE k < MaxDelay
      <4>1. k + 1 \in Delays /\ t + (k + 1) = t + 1 + k  BY <3>1, QueueAssumption DEF Delays
      <4>2. events[h][k + 1] = Cardinality(At(L, n, handler(h), t + (k + 1)))
        BY <4>1 DEF DueIn
      <4>3. QED  BY <3>1, <4>1, <4>2
    <3>2. CASE ~ (k < MaxDelay)
      <4>1. k = MaxDelay /\ ~ (t + 1 + k <= t + MaxDelay)  BY <3>2, QueueAssumption DEF Delays
      <4>2. ASSUME NEW i \in At(L, n, handler(h), t + 1 + k) PROVE FALSE
        <5>1. i \in 1 .. n /\ L[i].action = handler(h) /\ L[i].when = t + 1 + k  BY DEF At
        <5>2. ~ IsCpu(L[i])  BY <5>1, <1>1, EventParts
        <5>3. QED  BY <1>7, <4>1, <5>1, <5>2
      <4>3. At(L, n, handler(h), t + 1 + k) = {}  BY <4>2
      <4>4. QED  BY <3>2, <4>3, FS_EmptySet
    <3>3. QED  BY <3>1, <3>2
  <2> HIDE DEF events
  <2>2. QED  BY <2>1 DEF DueIn, Loop!NextCycle, Delays
<1>8. \A i \in 1 .. n : ~ IsCpu(L[i]) => L[i].when <= t + MaxDelay
  BY <1>3 DEF TurnsIn
<1>9. Loop!NoneDue(events) <=> \A h \in Handlers : At(L, n, handler(h), t) = {}
  BY <1>6 DEF Loop!NoneDue
<1> HIDE DEF turns, events
<1>10. Turns' <=> TurnsIn(L, n, {}, Now')
  BY DEF Turns, L, n
<1>11. CASE turns = {} /\ Loop!NoneDue(events)
  <2>1. L[1].when = t + 1 /\ TurnsIn(L, n, {}, t + 1) /\ LeftIn(L, n, t + 1) = Cpus
    BY <1>4, <1>9, <1>11
  <2>2. Now' = Now + 1 /\ LeftNow' = Cpus /\ DueNow' = Loop!NextCycle(events) /\ Turns'
    BY <1>1, <1>2, <1>5, <1>7, <1>8, <1>10, <2>1
  <2>3. Loop!Settle(turns, events)
    BY <1>11, <2>2 DEF Loop!Settle, Loop!Cpus, Cpus, LeftNow, DueNow
  <2>4. QED  BY <2>2, <2>3 DEF turns, events, n, L
<1>12. CASE ~ (turns = {} /\ Loop!NoneDue(events))
  <2>1. L[1].when = t
    BY <1>4, <1>9, <1>12
  <2>2. Now' = Now /\ LeftNow' = turns /\ DueNow' = events /\ Turns'
    BY <1>1, <1>2, <1>3, <1>5, <1>10, <2>1 DEF turns, events
  <2>3. Loop!Settle(turns, events)
    BY <1>12, <2>2 DEF Loop!Settle, LeftNow, DueNow
  <2>4. QED  BY <2>2, <2>3 DEF turns, events, n, L
<1>13. QED  BY <1>11, <1>12

\* Functions with the same values are equal.
LEMMA SameFunction ==
  ASSUME NEW S, NEW T, NEW f \in [S -> T], NEW g \in [S -> T], \A x \in S : f[x] = g[x]
  PROVE  f = g
OBVIOUS

\* So are tables with the same entries.
LEMMA SameTable ==
  ASSUME NEW S, NEW K, NEW D \in [S -> [K -> Nat]], NEW E \in [S -> [K -> Nat]],
         \A g \in S, j \in K : E[g][j] = D[g][j]
  PROVE  E = D
<1>1. ASSUME NEW g \in S PROVE E[g] = D[g]
  <2>1. E[g] \in [K -> Nat] /\ D[g] \in [K -> Nat]  OBVIOUS
  <2>2. QED  BY <2>1, SameFunction
<1>2. QED  BY <1>1, SameFunction

\* A table with one entry changed.
LEMMA Changed ==
  ASSUME NEW S, NEW K, NEW D \in [S -> [K -> Nat]], NEW E \in [S -> [K -> Nat]],
         NEW h \in S, NEW k \in K, NEW v,
         \A g \in S, j \in K : E[g][j] = IF g = h /\ j = k THEN v ELSE D[g][j]
  PROVE  E = [D EXCEPT ![h][k] = v]
<1> DEFINE F == [D EXCEPT ![h][k] = v]
<1>1. v \in Nat
  <2>1. v = E[h][k]  OBVIOUS
  <2>2. E[h] \in [K -> Nat]  OBVIOUS
  <2>3. QED  BY <2>1, <2>2
<1>2. F \in [S -> [K -> Nat]]
  BY <1>1
<1>3. \A g \in S, j \in K : F[g][j] = IF g = h /\ j = k THEN v ELSE D[g][j]
  OBVIOUS
<1>4. \A g \in S, j \in K : E[g][j] = F[g][j]
  BY <1>3
<1> HIDE DEF F
<1>5. E = F
  BY <1>2, <1>4, SameTable
<1>6. QED  BY <1>5 DEF F

\* The counts of M are those of L and one more for an action a in cycle w.
DueGrows(L, M, n, w, a, t) ==
  /\ DueIn(L, n, t) \in [Handlers -> [Delays -> Nat]]
  /\ DueIn(M, n + 1, t) \in [Handlers -> [Delays -> Nat]]
  /\ \A g \in Handlers, j \in Delays :
       DueIn(M, n + 1, t)[g][j] =
         IF a = handler(g) /\ w = t + j THEN DueIn(L, n, t)[g][j] + 1
         ELSE DueIn(L, n, t)[g][j]

\* They grow so with an insertion.
LEMMA DueInserted ==
  ASSUME NEW n \in Nat, NEW k, NEW L, NEW M, NEW w, NEW a, NEW t,
         InsertedAt(L, n, k, [when |-> w, action |-> a], M)
  PROVE  DueGrows(L, M, n, w, a, t)
<1> DEFINE e == [when |-> w, action |-> a]
<1>1. e.when = w /\ e.action = a
  OBVIOUS
<1>2. InsertedAt(L, n, k, e, M)
  OBVIOUS
<1> HIDE DEF e
<1>3. ASSUME NEW g \in Handlers, NEW j \in Delays
      PROVE  /\ Cardinality(At(L, n, handler(g), t + j)) \in Nat
             /\ Cardinality(At(M, n + 1, handler(g), t + j)) =
                  IF e.action = handler(g) /\ e.when = t + j
                  THEN Cardinality(At(L, n, handler(g), t + j)) + 1
                  ELSE Cardinality(At(L, n, handler(g), t + j))
  BY <1>2, CountInserted
<1>4. \A g \in Handlers, j \in Delays :
        /\ DueIn(L, n, t)[g][j] = Cardinality(At(L, n, handler(g), t + j))
        /\ DueIn(M, n + 1, t)[g][j] = Cardinality(At(M, n + 1, handler(g), t + j))
  BY DEF DueIn
<1>5. DueIn(L, n, t) \in [Handlers -> [Delays -> Nat]]
  BY <1>3 DEF DueIn
<1>6. DueIn(M, n + 1, t) \in [Handlers -> [Delays -> Nat]]
  <2>1. \A g \in Handlers, j \in Delays : Cardinality(At(M, n + 1, handler(g), t + j)) \in Nat
    BY <1>3
  <2>2. QED  BY <2>1 DEF DueIn
<1>7. QED  BY <1>1, <1>3, <1>4, <1>5, <1>6 DEF DueGrows

\* A stage of the running cpu queues an event: Queue.
LEMMA CallbackStep ==
  ASSUME NEW h \in Handlers, NEW delay \in Delays, IInv, IInv', Turns,
         eventq_queue_callback(h, delay)
  PROVE  Turns' /\ Loop!Queue(h, delay)
<1> DEFINE n == Len(eventq_pending)
           L == List
           M == List'
           t == sim_cycle
           a == handler(h)
<1>1. /\ executing # {} /\ executing' = executing /\ sim_cycle' = t
      /\ QUEUE_EVENT(t + delay, a)
  BY DEF eventq_queue_callback
<1>2. /\ n \in Nat /\ t \in Nat /\ Now = t /\ Now' = t
      /\ LeftNow = executing \cup LeftIn(L, n, t) /\ DueNow = DueIn(L, n, t)
  BY <1>1, View DEF Viewed, Now
<1>3. LeftNow' = executing \cup LeftIn(M, Len(eventq_pending'), t) /\ DueNow' = DueIn(M, Len(eventq_pending'), t)
  BY <1>1, <1>2, ViewNext DEF Viewed
<1>4. t + delay \in Nat /\ a \in Actions
  BY <1>2, HandlerAction, QueueAssumption DEF Delays
<1>5. \E k : InsertedAt(L, n, k, [when |-> t + delay, action |-> a], M)
              /\ Len(eventq_pending') = n + 1
  BY <1>1, <1>4, QueueInserts
<1>6. PICK k : InsertedAt(L, n, k, [when |-> t + delay, action |-> a], M)
               /\ Len(eventq_pending') = n + 1
  BY <1>5
<1>7. Turns'
  <2>1. TurnsIn(L, n, executing, t)  BY <1>2 DEF Turns
  <2>2. TurnsIn(M, n + 1, executing, t)
    <3> HIDE DEF n, L, M, t
    <3>1. QED  BY <1>2, <1>6, <2>1, TurnsQueued DEF Delays
  <2>3. QED  BY <1>1, <1>2, <1>6, <2>2 DEF Turns
<1> HIDE DEF n, L, M, t
<1>8. LeftIn(M, n + 1, t) = LeftIn(L, n, t)
  <2>1. ASSUME NEW c \in Cpus
        PROVE  At(M, n + 1, cpu_execute(c), t) # {} <=> At(L, n, cpu_execute(c), t) # {}
    <3> DEFINE e == [when |-> t + delay, action |-> a]
    <3>1. e.action # cpu_execute(c)  BY DEF handler, cpu_execute
    <3>2. InsertedAt(L, n, k, e, M)  BY <1>6
    <3> HIDE DEF e, a
    <3>3. QED  BY <1>2, <3>1, <3>2, LeftInserted
  <2>2. QED  BY <2>1 DEF LeftIn
<1>9. DueIn(M, n + 1, t) = [DueIn(L, n, t) EXCEPT ![h][delay] = @ + 1]
  <2> DEFINE D == DueIn(L, n, t)
             E == DueIn(M, n + 1, t)
  <2>1. /\ D \in [Handlers -> [Delays -> Nat]] /\ E \in [Handlers -> [Delays -> Nat]]
        /\ \A g \in Handlers, j \in Delays :
             E[g][j] = IF a = handler(g) /\ t + delay = t + j THEN D[g][j] + 1 ELSE D[g][j]
    <3> HIDE DEF a
    <3>1. DueGrows(L, M, n, t + delay, a, t)  BY <1>2, <1>6, DueInserted
    <3>2. QED  BY <3>1 DEF DueGrows
  <2>2. \A g \in Handlers, j \in Delays :
          (a = handler(g) <=> g = h) /\ (t + delay = t + j <=> j = delay)
    BY <1>2, HandlersDiffer, QueueAssumption DEF Delays
  <2> HIDE DEF D, E, a
  <2>3. \A g \in Handlers, j \in Delays :
          E[g][j] = IF g = h /\ j = delay THEN D[h][delay] + 1 ELSE D[g][j]
    BY <2>1, <2>2
  <2>4. E = [D EXCEPT ![h][delay] = D[h][delay] + 1]
    BY <2>1, <2>3, Changed
  <2>5. QED  BY <2>4 DEF D, E
<1>10. /\ executing # {} /\ DueNow' = [DueNow EXCEPT ![h][delay] = @ + 1]
       /\ Now' = Now /\ LeftNow' = LeftNow /\ executing' = executing
  BY <1>1, <1>2, <1>3, <1>6, <1>8, <1>9
<1>11. Loop!Queue(h, delay)
  BY <1>10 DEF Loop!Queue, LeftNow, DueNow
<1>12. QED  BY <1>7, <1>11

\* A cpu ends its turn: Finish.
LEMMA RescheduleStep ==
  ASSUME NEW c \in Cpus, IInv, IInv', Turns, reschedule(c)
  PROVE  Turns' /\ Loop!Finish(c)
<1> DEFINE n == Len(eventq_pending)
           L == List
           M == List'
           t == sim_cycle
           a == cpu_execute(c)
<1>1. executing = {c} /\ executing' = {} /\ QUEUE_EVENT(t + 1, a)
  BY DEF reschedule, period
<1>2. /\ n \in Nat /\ t \in Nat /\ Now = t /\ \A i \in 1 .. n : L[i] \in Events
      /\ LeftNow = executing \cup LeftIn(L, n, t) /\ DueNow = DueIn(L, n, t)
  BY <1>1, View DEF Viewed, Now
<1>3. t + 1 \in Nat /\ a \in Actions /\ a.fn = "cpu_execute"
  BY <1>2, CpuAction
<1>4. \E k :
        /\ InsertedAt(L, n, k, [when |-> t + 1, action |-> a], M)
        /\ Len(eventq_pending') = n + 1
        /\ \A i \in 1 .. k : L[i].when <= t + 1
        /\ \A i \in k + 1 .. n :
             IF a.fn = "cpu_execute" THEN t + 1 < L[i].when ELSE t + 1 <= L[i].when
  BY <1>1, <1>3, QueueInserts
<1>5. PICK k :
        /\ InsertedAt(L, n, k, [when |-> t + 1, action |-> a], M)
        /\ Len(eventq_pending') = n + 1
        /\ \A i \in 1 .. k : L[i].when <= t + 1
        /\ \A i \in k + 1 .. n : t + 1 < L[i].when
  BY <1>3, <1>4
<1>6. TurnsIn(L, n, {c}, t)
  BY <1>1, <1>2 DEF Turns
<1>7. TurnsIn(M, n + 1, {}, t)
  <2> HIDE DEF n, L, M, t
  <2>1. QED  BY <1>2, <1>5, <1>6, TurnsRescheduled
<1>8. Turns' /\ Loop!Settle(LeftIn(M, n + 1, t), DueIn(M, n + 1, t))
  <2>1. TurnsIn(List', Len(eventq_pending'), {}, t)  BY <1>5, <1>7
  <2>2. /\ Turns'
        /\ Loop!Settle(LeftIn(List', Len(eventq_pending'), t),
                       DueIn(List', Len(eventq_pending'), t))
    <3>1. t \in Nat /\ Now = t /\ executing' = {}  BY <1>1, <1>2
    <3> HIDE DEF t
    <3>2. QED  BY <2>1, <3>1, SettleStep
  <2>3. QED  BY <2>2, <1>5
<1> HIDE DEF n, L, M, t
<1>9. LeftIn(M, n + 1, t) = LeftNow \ {c}
  <2>1. ASSUME NEW d \in Cpus
        PROVE  At(M, n + 1, cpu_execute(d), t) # {} <=> At(L, n, cpu_execute(d), t) # {}
    <3> DEFINE e == [when |-> t + 1, action |-> a]
    <3>1. e.when # t  BY <1>2
    <3>2. InsertedAt(L, n, k, e, M)  BY <1>5
    <3> HIDE DEF e
    <3>3. QED  BY <1>2, <3>1, <3>2, LeftInserted
  <2>2. c \notin LeftIn(L, n, t)
    <3>1. ASSUME NEW i \in At(L, n, cpu_execute(c), t) PROVE FALSE
      <4>1. i \in 1 .. n /\ L[i].action = cpu_execute(c)  BY DEF At
      <4>2. IsCpu(L[i]) /\ L[i].action.arg = c  BY <4>1, <1>2, EventParts
      <4>3. QED  BY <4>1, <4>2, <1>6 DEF TurnsIn
    <3>2. QED  BY <3>1 DEF LeftIn
  <2>3. LeftIn(M, n + 1, t) = LeftIn(L, n, t)  BY <2>1 DEF LeftIn
  <2>4. QED  BY <2>2, <2>3, <1>1, <1>2
<1>10. DueIn(M, n + 1, t) = DueNow
  <2>1. /\ DueIn(L, n, t) \in [Handlers -> [Delays -> Nat]]
        /\ DueIn(M, n + 1, t) \in [Handlers -> [Delays -> Nat]]
        /\ \A g \in Handlers, j \in Delays :
             DueIn(M, n + 1, t)[g][j] =
               IF a = handler(g) /\ t + 1 = t + j THEN DueIn(L, n, t)[g][j] + 1
               ELSE DueIn(L, n, t)[g][j]
    <3> HIDE DEF a
    <3>1. DueGrows(L, M, n, t + 1, a, t)  BY <1>2, <1>5, DueInserted
    <3>2. QED  BY <3>1 DEF DueGrows
  <2>2. \A g \in Handlers : a # handler(g)  BY DEF handler, cpu_execute
  <2> HIDE DEF a
  <2>3. \A g \in Handlers, j \in Delays :
          DueIn(M, n + 1, t)[g][j] = DueIn(L, n, t)[g][j]
    BY <2>1, <2>2
  <2> DEFINE D == DueIn(L, n, t)
             E == DueIn(M, n + 1, t)
  <2>4. D \in [Handlers -> [Delays -> Nat]] /\ E \in [Handlers -> [Delays -> Nat]]
        /\ \A g \in Handlers, j \in Delays : E[g][j] = D[g][j]
    BY <2>1, <2>3
  <2> HIDE DEF D, E
  <2>5. E = D
    BY <2>4, SameTable
  <2>6. QED  BY <2>5, <1>2 DEF D, E
<1>11. Loop!Settle(LeftNow \ {c}, DueNow)
  BY <1>8, <1>9, <1>10
<1>12. Loop!Finish(c)
  BY <1>1, <1>11 DEF Loop!Finish, LeftNow, DueNow
<1>13. QED  BY <1>8, <1>12

\* The first event is taken off and its action runs or starts: Handle or Start.
LEMMA ServiceStep ==
  ASSUME IInv, IInv', Turns, eventq_service_events
  PROVE  Turns' /\ ((\E h \in Handlers : Loop!Handle(h)) \/ \E c \in Cpus : Loop!Start(c))
<1> DEFINE n == Len(eventq_pending')
           L == List
           M == List'
           t == when(1)
           e == L[1]
<1>1. /\ executing = {} /\ sim_cycle' = t
      /\ executing' = IF action(1).fn = "cpu_execute" THEN {action(1).arg} ELSE {}
  BY DEF eventq_service_events
<1>2. Len(eventq_pending) # 0 /\ Len(eventq_pending) = n + 1 /\ InsertedAt(M, n, 0, e, L)
  BY ServiceRemoves
<1>3. /\ \A i \in 1 .. n + 1 : L[i] \in Events
      /\ SortedIn(L, n + 1)
      /\ LeftNow = LeftIn(L, n + 1, Now) /\ DueNow = DueIn(L, n + 1, Now)
      /\ Now = e.when
  BY <1>1, <1>2, View DEF Viewed
<1>4. n \in Nat
  BY ViewNext DEF Viewed
<1>5. 1 \in 1 .. n + 1 /\ e \in Events /\ e.when = t /\ e.action = action(1) /\ Now = t
  <2>1. 1 \in 1 .. n + 1  BY <1>4
  <2>2. e = desc[eventq_pending[1]]  BY <2>1, <1>2 DEF List
  <2>3. QED  BY <2>1, <2>2, <1>3 DEF when, action
<1>6. t \in Nat /\ e = [when |-> t, action |-> e.action]
  BY <1>5 DEF Events
<1>7. executing' = IF IsCpu(e) THEN {e.action.arg} ELSE {}
  BY <1>1, <1>5 DEF IsCpu
<1>8. TurnsIn(L, n + 1, {}, t)
  BY <1>1, <1>2, <1>5 DEF Turns
<1> HIDE DEF n, L, M, t
<1>9. TurnsIn(M, n, executing', t)
  BY <1>2, <1>3, <1>4, <1>5, <1>6, <1>7, <1>8, TurnsServed
<1> HIDE DEF e
<1>10. CASE ~ IsCpu(e)
  <2>1. PICK h \in Handlers : e.action = handler(h)
    BY <1>5, <1>10, EventParts
  <2>2. executing' = {}
    BY <1>7, <1>10
  <2>3. Turns' /\ Loop!Settle(LeftIn(M, n, t), DueIn(M, n, t))
    <3>1. TurnsIn(M, n, {}, t)  BY <1>9, <2>2
    <3>2. QED  BY <1>5, <1>6, <2>2, <3>1, SettleStep DEF M, n
  <2>4. LeftIn(M, n, t) = LeftNow
    <3>1. ASSUME NEW c \in Cpus
          PROVE  At(L, n + 1, cpu_execute(c), t) # {} <=> At(M, n, cpu_execute(c), t) # {}
      <4>1. e.action # cpu_execute(c)  BY <2>1 DEF handler, cpu_execute
      <4>2. QED  BY <1>2, <1>4, <4>1, LeftInserted
    <3>2. QED  BY <3>1, <1>3, <1>5 DEF LeftIn
  <2> DEFINE D == DueIn(M, n, t)
             E == DueIn(L, n + 1, t)
             a == e.action
  <2>5. /\ D \in [Handlers -> [Delays -> Nat]] /\ E \in [Handlers -> [Delays -> Nat]]
        /\ \A g \in Handlers, j \in Delays :
             E[g][j] = IF a = handler(g) /\ t = t + j THEN D[g][j] + 1 ELSE D[g][j]
    <3>1. InsertedAt(M, n, 0, [when |-> t, action |-> a], L)  BY <1>2, <1>6
    <3> HIDE DEF a, D, E
    <3>2. DueGrows(M, L, n, t, a, t)  BY <1>4, <3>1, DueInserted
    <3>3. QED  BY <3>2 DEF DueGrows, D, E
  <2>6. \A g \in Handlers, j \in Delays : (a = handler(g) <=> g = h) /\ (t = t + j <=> j = 0)
    BY <1>6, <2>1, HandlersDiffer, QueueAssumption DEF Delays
  <2>7. 0 \in Delays
    BY QueueAssumption DEF Delays
  <2> HIDE DEF D, E, a
  <2>8. E[h][0] = D[h][0] + 1 /\ D[h][0] \in Nat
    <3>1. D[h] \in [Delays -> Nat]  BY <2>5
    <3>2. QED  BY <3>1, <2>5, <2>6, <2>7
  <2>9. \A g \in Handlers, j \in Delays :
          D[g][j] = IF g = h /\ j = 0 THEN E[h][0] - 1 ELSE E[g][j]
    BY <2>5, <2>6, <2>8
  <2>10. D = [E EXCEPT ![h][0] = E[h][0] - 1]
    BY <2>5, <2>7, <2>9, Changed
  <2>11. E = DueNow
    BY <1>3, <1>5 DEF E
  <2>12. Loop!Settle(LeftNow, [DueNow EXCEPT ![h][0] = @ - 1])
    BY <2>3, <2>4, <2>10, <2>11 DEF D
  <2>13. DueNow[h][0] > 0
    BY <2>8, <2>11
  <2>14. Loop!Handle(h)
    BY <1>1, <2>2, <2>12, <2>13 DEF Loop!Handle, LeftNow, DueNow
  <2>15. QED  BY <2>3, <2>14
<1>11. CASE IsCpu(e)
  <2> DEFINE c == e.action.arg
  <2>1. c \in Cpus /\ e.action = cpu_execute(c) /\ executing' = {c}
    BY <1>5, <1>7, <1>11, EventParts
  <2>2. /\ \A h \in Handlers : At(L, n + 1, handler(h), t) = {}
        /\ c \in LeftIn(L, n + 1, t)
        /\ \A d \in LeftIn(L, n + 1, t) : c <= d
    <3>1. n + 1 \in Nat /\ n + 1 # 0  BY <1>4
    <3>2. L[1].when = t /\ IsCpu(L[1])  BY <1>5, <1>11 DEF e
    <3>3. c = L[1].action.arg  BY DEF e
    <3> HIDE DEF c
    <3>4. QED  BY <1>3, <1>6, <1>8, <3>1, <3>2, <3>3, FirstCpu
  <2> HIDE DEF c
  <2>3. /\ LeftNow' = {c} \cup LeftIn(M, n, t) /\ DueNow' = DueIn(M, n, t) /\ Now' = t
    <3>1. Now' = t  BY <1>1, <2>1 DEF Now
    <3>2. LeftNow' = executing' \cup LeftIn(M, n, Now') /\ DueNow' = DueIn(M, n, Now')
      BY ViewNext DEF Viewed, M, n
    <3>3. QED  BY <2>1, <3>1, <3>2
  <2>4. Turns'
    BY <1>9, <2>3 DEF Turns, M, n
  <2>5. {c} \cup LeftIn(M, n, t) = LeftIn(L, n + 1, t)
    <3>1. ASSUME NEW d \in Cpus, d # c
          PROVE  At(L, n + 1, cpu_execute(d), t) # {} <=> At(M, n, cpu_execute(d), t) # {}
      <4>1. e.action # cpu_execute(d)  BY <2>1, <3>1 DEF cpu_execute
      <4>2. QED  BY <1>2, <1>4, <4>1, LeftInserted
    <3>2. \A d \in Cpus : d # c => (d \in LeftIn(L, n + 1, t) <=> d \in LeftIn(M, n, t))
      BY <3>1 DEF LeftIn
    <3>3. LeftIn(L, n + 1, t) \subseteq Cpus /\ LeftIn(M, n, t) \subseteq Cpus  BY DEF LeftIn
    <3>4. QED  BY <3>2, <3>3, <2>1, <2>2
  <2> DEFINE D == DueIn(M, n, t)
             E == DueIn(L, n + 1, t)
             a == e.action
  <2>6. /\ D \in [Handlers -> [Delays -> Nat]] /\ E \in [Handlers -> [Delays -> Nat]]
        /\ \A g \in Handlers, j \in Delays :
             E[g][j] = IF a = handler(g) /\ t = t + j THEN D[g][j] + 1 ELSE D[g][j]
    <3>1. InsertedAt(M, n, 0, [when |-> t, action |-> a], L)  BY <1>2, <1>6
    <3> HIDE DEF a, D, E
    <3>2. DueGrows(M, L, n, t, a, t)  BY <1>4, <3>1, DueInserted
    <3>3. QED  BY <3>2 DEF DueGrows, D, E
  <2>7. \A g \in Handlers : a # handler(g)
    BY <2>1 DEF handler, cpu_execute
  <2> HIDE DEF D, E, a
  <2>8. D = E
    <3>1. \A g \in Handlers, j \in Delays : E[g][j] = D[g][j]  BY <2>6, <2>7
    <3>2. QED  BY <2>6, <3>1, SameTable
  <2>9. UNCHANGED <<Now, LeftNow, DueNow>>
    BY <1>3, <1>5, <2>3, <2>5, <2>8 DEF D, E
  <2>10. Loop!NoneDue(DueNow)
    <3>1. ASSUME NEW h \in Handlers PROVE DueNow[h][0] = 0
      <4>1. 0 \in Delays /\ t + 0 = t  BY <1>6, QueueAssumption DEF Delays
      <4>2. DueNow[h][0] = Cardinality(At(L, n + 1, handler(h), t))
        BY <1>3, <1>5, <4>1 DEF DueIn
      <4>3. QED  BY <2>2, <4>2, FS_EmptySet
    <3>2. QED  BY <3>1 DEF Loop!NoneDue
  <2>11. c \in LeftNow /\ \A d \in LeftNow : c <= d
    BY <1>3, <1>5, <2>2
  <2>12. Loop!Start(c)
    BY <1>1, <2>1, <2>9, <2>10, <2>11 DEF Loop!Start, LeftNow, DueNow
  <2>13. QED  BY <2>1, <2>4, <2>12
<1>12. QED  BY <1>10, <1>11

\* sim_main's list is that of a cycle in which every cpu has its turn to come.
LEMMA InitLoop == Init => Turns /\ Loop!Init
<1> SUFFICES ASSUME Init PROVE Turns /\ Loop!Init
  OBVIOUS
<1> DEFINE n == total_cpus
<1>1. IInv /\ Viewed
  BY InitInv, View
<1>2. n \in Nat \ {0} /\ MaxDelay \in Nat
  BY QueueAssumption
<1>3. Len(eventq_pending) = n /\ executing = {} /\ \A i \in 1 .. n : eventq_pending[i] = i
  BY <1>2 DEF Init
<1>4. \A i \in 1 .. n : List[i].when = 0 /\ List[i].action = cpu_execute(i - 1) /\ i - 1 \in Cpus
  <2>1. ASSUME NEW i \in 1 .. n
        PROVE  List[i].when = 0 /\ List[i].action = cpu_execute(i - 1) /\ i - 1 \in Cpus
    <3>1. List[i] = desc[i]  BY <1>3 DEF List
    <3>2. desc[i] = [when |-> 0, action |-> cpu_execute(i - 1)]  BY DEF Init
    <3>3. QED  BY <3>1, <3>2, <1>2 DEF Cpus
  <2>2. QED  BY <2>1
<1>5. \A i \in 1 .. n : IsCpu(List[i]) /\ List[i].action.arg = i - 1
  BY <1>4, CpuAction DEF IsCpu
<1>6. Now = 0
  <2>1. 1 \in 1 .. n  BY <1>2
  <2>2. QED  BY <2>1, <1>1, <1>3, <1>4 DEF Viewed
<1>7. ASSUME NEW c \in Cpus
      PROVE  c + 1 \in 1 .. n /\ List[c + 1].action = cpu_execute(c) /\ List[c + 1].when = 0
  <2>1. c + 1 \in 1 .. n /\ (c + 1) - 1 = c  BY <1>2 DEF Cpus
  <2>2. QED  BY <2>1, <1>4
<1>8. TurnsIn(List, n, {}, 0)
  <2>1. \A i, j \in 1 .. n : i < j => i - 1 < j - 1  OBVIOUS
  <2>2. QED  BY <1>2, <1>4, <1>5, <1>7, <2>1 DEF TurnsIn
<1>9. LeftNow = Cpus
  <2>1. \A c \in Cpus : At(List, n, cpu_execute(c), 0) # {}  BY <1>7 DEF At
  <2>2. LeftIn(List, n, 0) = Cpus  BY <2>1 DEF LeftIn
  <2>3. QED  BY <2>2, <1>1, <1>3, <1>6 DEF Viewed
<1>10. DueNow = [h \in Handlers |-> [k \in 0 .. MaxDelay |-> 0]]
  <2>1. ASSUME NEW h \in Handlers, NEW k \in Delays
        PROVE  Cardinality(At(List, n, handler(h), 0 + k)) = 0
    <3>1. \A i \in 1 .. n : List[i].action # handler(h)
      BY <1>4, KindsDiffer
    <3>2. At(List, n, handler(h), 0 + k) = {}  BY <3>1 DEF At
    <3>3. QED  BY <3>2, FS_EmptySet
  <2>2. DueIn(List, n, 0) = [h \in Handlers |-> [k \in Delays |-> 0]]
    BY <2>1 DEF DueIn
  <2>3. QED  BY <2>2, <1>1, <1>3, <1>6 DEF Viewed, Delays
<1>11. Turns
  BY <1>3, <1>6, <1>8 DEF Turns
<1>12. Loop!Init
  BY <1>3, <1>6, <1>9, <1>10 DEF Loop!Init, Loop!Cpus, Cpus, LeftNow, DueNow
<1>13. QED  BY <1>11, <1>12

\* A step that changes nothing.
LEMMA StutterStep ==
  ASSUME Turns, UNCHANGED vars
  PROVE  Turns' /\ UNCHANGED <<Now, LeftNow, executing, DueNow>>
BY DEF vars, Turns, List, Now, LeftNow, DueNow, Pending, when, action

\* Every step of the event queue is one of the cycle loop, or none.
LEMMA LoopStep ==
  ASSUME IInv, IInv', Turns, [Next]_vars
  PROVE  Turns' /\ [Loop!Next]_<<Now, LeftNow, executing, DueNow>>
<1>1. CASE eventq_service_events
  BY <1>1, ServiceStep DEF Loop!Next, Loop!Cpus, Cpus
<1>2. ASSUME NEW h \in Handlers, NEW delay \in 0 .. MaxDelay, eventq_queue_callback(h, delay)
      PROVE  Turns' /\ Loop!Next
  BY <1>2, CallbackStep DEF Loop!Next, Delays
<1>3. ASSUME NEW c \in Cpus, reschedule(c)
      PROVE  Turns' /\ Loop!Next
  BY <1>3, RescheduleStep DEF Loop!Next, Loop!Cpus, Cpus
<1>4. CASE UNCHANGED vars
  BY <1>4, StutterStep
<1>5. QED  BY <1>1, <1>2, <1>3, <1>4 DEF Next

-----------------------------------------------------------------------------
(***************************************************************************)
(* The theorem.                                                            *)
(***************************************************************************)

\* eventq.c, which sorts by time alone with one rule for cpu_execute and one
\* for the rest, implements the cycle loop that the simulator's parts rely on:
\* no event is lost, late, early or run twice, and the cpus take turns in the
\* order of their numbers.
THEOREM Refinement == Spec => ImplementsCycleLoop
<1>1. Init => IInv /\ Turns /\ Loop!Init
  BY InitInv, InitLoop
<1>2. IInv /\ Turns /\ [Next]_vars => IInv' /\ Turns' /\ [Loop!Next]_(Loop!vars)
  <2>1. ASSUME IInv, Turns, [Next]_vars
        PROVE  IInv' /\ Turns' /\ [Loop!Next]_(Loop!vars)
    <3>1. IInv'  BY <2>1, StepInv
    <3>2. Turns' /\ [Loop!Next]_<<Now, LeftNow, executing, DueNow>>
      BY <2>1, <3>1, LoopStep
    <3>3. QED  BY <3>1, <3>2 DEF Loop!vars, LeftNow, DueNow
  <2>2. QED  BY <2>1
<1>3. QED  BY <1>1, <1>2, PTL DEF Spec, ImplementsCycleLoop, Loop!Spec
=============================================================================
