-------------------------- MODULE ResultRingProofs --------------------------
(***************************************************************************)
(* Theorems about ResultRing, for any number of agencies, any size of the  *)
(* ring and any number of results.                                         *)
(***************************************************************************)
EXTENDS ResultRing, SequenceTheorems, TLAPS

(* The slot of the k-th result from the front.                              *)
Slot(k) == (front + k - 1) % RingSize

(* An agency about to advance has filled the slot it read, whoever else     *)
(* filled it since.                                                         *)
Filled == \A a \in Agency : pc[a] = "advance" => picObj[rearRead[a]] \in Result

(* One agency at most is in its sections, and the rear it read is the rear. *)
Alone ==
    /\ \A a, b \in Agency : pc[a] # "idle" /\ pc[b] # "idle" => a = b
    /\ \A a \in Agency : pc[a] # "idle" => rearRead[a] = rear
    /\ \A a \in Agency : pc[a] = "advance" => picObj[rear] = made

(* Results are newer from the front to the rear, and newer than those       *)
(* removed; the one being appended is the newest.                           *)
Ordered ==
    /\ last <= made
    /\ \A k \in 1 .. Count : last < picObj[Slot(k)] /\ picObj[Slot(k)] <= made
    /\ \A j, k \in 1 .. Count : j < k => picObj[Slot(j)] < picObj[Slot(k)]
    /\ \A a \in Agency : pc[a] = "advance" =>
          /\ last < made
          /\ \A k \in 1 .. Count : picObj[Slot(k)] < made

(* The ring holds what is pending, slot by slot.                            *)
Holds ==
    /\ Len(pending) = Count
    /\ \A k \in 1 .. Count : pending[k] = picObj[Slot(k)]

RingInv ==
    /\ TypeOK
    /\ Filled
    /\ ~ raced => Alone /\ Ordered
    /\ ~ (raced \/ overflowed) => Holds

-----------------------------------------------------------------------------
(* The arithmetic of the ring.                                              *)
LEMMA SuccIs ==
    ASSUME NEW k \in Index
    PROVE  Succ(k) \in Index /\ Succ(k) = IF k = RingSize - 1 THEN 0 ELSE k + 1
<1>1. RingSize \in Nat \ {0, 1}
  BY ResultRingAssumption
<1>2. k + 1 \in 1 .. RingSize
  BY <1>1 DEF Index
<1> QED
  BY <1>1, <1>2 DEF Index, Succ

LEMMA CountIs ==
    ASSUME front \in Index, rear \in Index
    PROVE  /\ Count \in 0 .. RingSize - 1
           /\ Count = IF front <= rear THEN rear - front ELSE rear - front + RingSize
<1>1. RingSize \in Nat \ {0, 1}
  BY ResultRingAssumption
<1> QED
  BY <1>1 DEF Index, Count

LEMMA Wraps ==
    ASSUME NEW f \in Index, NEW k \in 1 .. RingSize
    PROVE  /\ (f + k - 1) % RingSize \in Index
           /\ (f + k - 1) % RingSize = IF f + k - 1 < RingSize THEN f + k - 1
                                       ELSE f + k - 1 - RingSize
<1>1. RingSize \in Nat \ {0, 1}
  BY ResultRingAssumption
<1>2. f + k - 1 \in 0 .. 2 * RingSize - 1
  BY <1>1 DEF Index
<1> QED
  BY <1>1, <1>2 DEF Index

LEMMA SlotIs ==
    ASSUME front \in Index, NEW k \in 1 .. RingSize
    PROVE  /\ Slot(k) \in Index
           /\ Slot(k) = IF front + k - 1 < RingSize THEN front + k - 1
                        ELSE front + k - 1 - RingSize
  BY Wraps DEF Slot

(* The occupied slots are not the one at the rear, and the first of them is *)
(* the one at the front.                                                    *)
LEMMA Occupied ==
    ASSUME front \in Index, rear \in Index
    PROVE  /\ \A k \in 1 .. Count : Slot(k) \in Index /\ Slot(k) # rear
           /\ front # rear => Count > 0 /\ Slot(1) = front
           /\ Slot(Count + 1) = rear
<1>1. RingSize \in Nat \ {0, 1}
  BY ResultRingAssumption
<1> QED
  BY <1>1, CountIs, SlotIs DEF Index

(* The rear moves on: one more occupied slot, or all are lost.              *)
LEMMA RearMoves ==
    ASSUME front \in Index, rear \in Index, front' = front, rear' = Succ(rear)
    PROVE  /\ rear' \in Index
           /\ Count' = IF rear' = front THEN 0 ELSE Count + 1
           /\ \A k : Slot(k)' = Slot(k)
<1>1. RingSize \in Nat \ {0, 1}
  BY ResultRingAssumption
<1>2. rear' \in Index /\ rear' = IF rear = RingSize - 1 THEN 0 ELSE rear + 1
  BY SuccIs
<1>3. Count' = IF front' <= rear' THEN rear' - front' ELSE rear' - front' + RingSize
  BY <1>1, <1>2 DEF Index, Count
<1>4. \A k : Slot(k)' = Slot(k)
  BY DEF Slot
<1> QED
  BY <1>1, <1>2, <1>3, <1>4, CountIs DEF Index

(* The front moves on: the second slot is the first.                        *)
LEMMA FrontMoves ==
    ASSUME front \in Index, rear \in Index, front # rear,
           front' = Succ(front), rear' = rear
    PROVE  /\ front' \in Index
           /\ Count' = Count - 1
           /\ \A k \in 1 .. Count' : Slot(k)' = Slot(k + 1)
<1>1. RingSize \in Nat \ {0, 1}
  BY ResultRingAssumption
<1>2. front' \in Index /\ front' = IF front = RingSize - 1 THEN 0 ELSE front + 1
  BY SuccIs
<1>3. Count' = IF front' <= rear' THEN rear' - front' ELSE rear' - front' + RingSize
  BY <1>1, <1>2 DEF Index, Count
<1>4. Count' = Count - 1 /\ Count \in 1 .. RingSize - 1
  BY <1>1, <1>2, <1>3, CountIs DEF Index
<1>5. ASSUME NEW k \in 1 .. Count'
      PROVE  Slot(k)' = Slot(k + 1)
  <2>1. k \in 1 .. RingSize /\ k + 1 \in 1 .. RingSize
    BY <1>1, <1>4
  <2>2. Slot(k)' = IF front' + k - 1 < RingSize THEN front' + k - 1
                   ELSE front' + k - 1 - RingSize
    <3>1. Slot(k)' = (front' + k - 1) % RingSize
      BY DEF Slot
    <3> QED
      BY <1>2, <2>1, <3>1, Wraps
  <2> QED
    BY <1>1, <1>2, <2>1, <2>2, SlotIs DEF Index
<1> QED
  BY <1>2, <1>4, <1>5

-----------------------------------------------------------------------------
(* The three properties at a state.                                         *)
LEMMA HoldsIsContents ==
    ASSUME TypeOK, Holds
    PROVE  RingHoldsPending
<1>1. pending \in Seq(Result) /\ Count \in Nat
  BY CountIs DEF TypeOK
<1>2. pending = [k \in 1 .. Count |-> pending[k]]
  BY <1>1 DEF Holds
<1> QED
  BY <1>1, <1>2 DEF Holds, RingHoldsPending, Contents, Slot

LEMMA InitRing == Init => RingInv
<1> SUFFICES ASSUME Init PROVE RingInv
  OBVIOUS
<1>1. RingSize \in Nat \ {0, 1} /\ MaxResults \in Nat
  BY ResultRingAssumption
<1>2. TypeOK
  BY <1>1 DEF Init, TypeOK, Index
<1>3. Count = 0
  BY <1>1, CountIs, <1>2 DEF Init, TypeOK
<1>4. ~ \E k : k \in 1 .. Count
  BY <1>3
<1>5. Ordered
  BY <1>4 DEF Init, Ordered, Blank
<1>6. Holds
  BY <1>3, <1>4 DEF Init, Holds
<1>7. Filled /\ Alone
  BY DEF Init, Filled, Alone
<1> QED
  BY <1>2, <1>5, <1>6, <1>7 DEF RingInv

(* First section.                                                           *)
LEMMA ReadStep ==
    ASSUME RingInv, NEW a \in Agency, ReadIndices(a)
    PROVE  RingInv'
<1>1. TypeOK'
  BY DEF RingInv, TypeOK, ReadIndices
<1>2. /\ Count' = Count
      /\ \A k : Slot(k)' = Slot(k)
  BY DEF ReadIndices, Count, Slot
<1>3. /\ \A b \in Agency : b # a => pc'[b] = pc[b] /\ rearRead'[b] = rearRead[b]
      /\ pc'[a] = "fill" /\ rearRead'[a] = rear
      /\ pc[a] = "idle"
  BY DEF RingInv, TypeOK, ReadIndices
<1>4. Filled'
  BY <1>3 DEF RingInv, Filled, ReadIndices
<1>5. ASSUME ~ raced'
      PROVE  Alone' /\ Ordered'
  <2>1. ~ raced /\ \A b \in Agency : pc[b] = "idle"
    BY <1>5 DEF ReadIndices
  <2>2. Alone'
    BY <1>3, <2>1 DEF Alone, ReadIndices
  <2>3. Ordered'
    BY <1>2, <1>3, <2>1 DEF RingInv, Ordered, ReadIndices
  <2> QED
    BY <2>2, <2>3
<1>6. ~ (raced' \/ overflowed') => Holds'
  BY <1>2 DEF RingInv, Holds, ReadIndices
<1> QED
  BY <1>1, <1>4, <1>5, <1>6 DEF RingInv

(* Second section: a slot outside the contents gets the newest result.      *)
LEMMA FillStep ==
    ASSUME RingInv, NEW a \in Agency, Fill(a)
    PROVE  RingInv'
<1>1. made + 1 \in Result /\ made' = made + 1 /\ made \in Int
  BY ResultRingAssumption DEF RingInv, TypeOK, Fill, Result
<1>2. TypeOK'
  BY <1>1 DEF RingInv, TypeOK, Fill, Result
<1>3. /\ Count' = Count
      /\ \A k : Slot(k)' = Slot(k)
  BY DEF Fill, Count, Slot
<1>4. /\ \A b \in Agency : b # a => pc'[b] = pc[b]
      /\ pc'[a] = "advance" /\ pc[a] = "fill"
      /\ \A i \in Index : picObj'[i] = IF i = rearRead[a] THEN made + 1 ELSE picObj[i]
      /\ rearRead \in [Agency -> Index] /\ rearRead' = rearRead
  BY DEF RingInv, TypeOK, Fill
<1>5. Filled'
  BY <1>1, <1>4 DEF RingInv, Filled
<1>6. ASSUME ~ raced
      PROVE  /\ Alone'
             /\ Ordered'
             /\ \A k \in 1 .. Count : picObj'[Slot(k)] = picObj[Slot(k)]
  <2>1. rearRead[a] = rear /\ rear' = rear /\ Alone /\ Ordered
    BY <1>4, <1>6 DEF RingInv, Alone, Fill
  <2>2. \A k \in 1 .. Count : Slot(k) \in Index /\ Slot(k) # rear
    BY Occupied DEF RingInv, TypeOK
  <2>3. \A k \in 1 .. Count : picObj'[Slot(k)] = picObj[Slot(k)]
    BY <1>4, <2>1, <2>2
  <2>4. Alone'
    BY <1>1, <1>4, <2>1 DEF Alone
  <2>5. \A k \in 1 .. Count : picObj[Slot(k)] \in Int
    BY <2>2 DEF RingInv, TypeOK, Result, Blank
  <2>6. last \in Int /\ made \in Int
    BY DEF RingInv, TypeOK, Result, Blank
  <2>7. \A k \in 1 .. Count : picObj'[Slot(k)'] = picObj[Slot(k)]
    BY <1>3, <2>3
  <2>8. last' = last
    BY DEF Fill
  <2>9. \A b \in Agency : ~ pc[b] = "advance"
    BY <1>4, <1>6 DEF RingInv, Alone
  <2>10. Ordered'
    <3>1. Count' = Count /\ made' \in Int
      BY <1>1, <1>3
    <3>2. last' < made'
      BY <1>1, <2>1, <2>8, <2>6 DEF Ordered
    <3>3. \A k \in 1 .. Count' : last' < picObj'[Slot(k)'] /\ picObj'[Slot(k)'] < made'
      BY <1>1, <2>1, <2>5, <2>7, <2>8, <2>6, <3>1 DEF Ordered
    <3>4. \A j, k \in 1 .. Count' : j < k => picObj'[Slot(j)'] < picObj'[Slot(k)']
      BY <2>1, <2>7, <3>1 DEF Ordered
    <3>5. \A k \in 1 .. Count' : picObj'[Slot(k)'] \in Int
      BY <2>5, <2>7, <3>1
    <3>6. last' \in Int
      BY <1>2, <2>8 DEF TypeOK, Result, Blank
    <3>7. last' <= made' /\ \A k \in 1 .. Count' : picObj'[Slot(k)'] <= made'
      BY <3>1, <3>2, <3>3, <3>5, <3>6
    <3> QED
      BY <3>1, <3>2, <3>3, <3>4, <3>7 DEF Ordered
  <2> QED
    BY <2>3, <2>4, <2>10
<1>7. ~ (raced' \/ overflowed') => Holds'
  BY <1>3, <1>6 DEF RingInv, Holds, Fill
<1> QED
  BY <1>2, <1>5, <1>6, <1>7 DEF RingInv, Fill

(* Third section: the contents get the newest result at their end, or are   *)
(* lost if that makes the ring look empty.                                  *)
LEMMA AdvanceStep ==
    ASSUME RingInv, NEW a \in Agency, Advance(a)
    PROVE  RingInv'
<1>1. /\ pc \in [Agency -> {"idle", "fill", "advance"}] /\ pc[a] = "advance"
      /\ pc' = [pc EXCEPT ![a] = "idle"]
      /\ pending \in Seq(Result) /\ picObj[rearRead[a]] \in Result
  BY DEF RingInv, TypeOK, Filled, Advance
<1>2. TypeOK'
  <2>1. rear' \in Index
    BY SuccIs DEF RingInv, TypeOK, Advance
  <2>2. pending' \in Seq(Result)
    BY <1>1, AppendProperties DEF Advance
  <2> QED
    BY <2>1, <2>2 DEF RingInv, TypeOK, Advance
<1>3. Filled'
  BY <1>1 DEF RingInv, Filled, Advance
<1>4. ASSUME ~ raced
      PROVE  /\ Alone' /\ Ordered'
             /\ ~ overflowed' => Holds'
  <2>1. /\ rearRead[a] = rear /\ rear' = Succ(rear) /\ front' = front
        /\ picObj' = picObj /\ made' = made /\ last' = last
        /\ picObj[rear] = made
        /\ Alone /\ Ordered
    BY <1>1, <1>4 DEF RingInv, Alone, Advance
  <2>2. \A b \in Agency : pc'[b] = "idle"
    BY <1>1, <2>1 DEF Alone
  <2>3. front \in Index /\ rear \in Index
    BY DEF RingInv, TypeOK
  <2>4. /\ Count \in 0 .. RingSize - 1
        /\ Count' = IF rear' = front THEN 0 ELSE Count + 1
        /\ \A k : Slot(k)' = Slot(k)
        /\ Slot(Count + 1) = rear
    BY <2>1, <2>3, CountIs, RearMoves, Occupied
  <2>5. last < made /\ last <= made /\ \A k \in 1 .. Count : picObj[Slot(k)] < made
    BY <1>1, <2>1 DEF Ordered
  <2>6. Alone'
    BY <2>2 DEF Alone
  <2>7. CASE rear' = front
    <3>1. overflowed'
      BY <2>7 DEF Advance
    <3>2. ~ \E k : k \in 1 .. Count'
      BY <2>4, <2>7
    <3> QED
      BY <2>1, <2>2, <2>5, <2>6, <3>1, <3>2 DEF Ordered
  <2>8. CASE rear' # front
    <3>1. \A k \in 1 .. Count' : k \in 1 .. Count \/ k = Count + 1
      BY <2>4, <2>8
    <3>2. made \in Int /\ made <= made /\ Count \in Int
      BY <2>4 DEF RingInv, TypeOK
    <3>3. \A k \in 1 .. Count' : last' < picObj'[Slot(k)'] /\ picObj'[Slot(k)'] <= made'
      BY <2>1, <2>4, <2>5, <3>1, <3>2 DEF Ordered
    <3>4. ASSUME NEW j \in 1 .. Count', NEW k \in 1 .. Count', j < k
          PROVE  picObj'[Slot(j)'] < picObj'[Slot(k)']
      <4>1. j \in 1 .. Count
        BY <2>4, <2>8, <3>4
      <4> QED
        BY <2>1, <2>4, <2>5, <3>1, <3>4, <4>1 DEF Ordered
    <3>5. Ordered'
      BY <2>1, <2>2, <2>5, <3>3, <3>4 DEF Ordered
    <3>6. ASSUME ~ overflowed'
          PROVE  Holds'
      <4>1. Holds /\ pending' = Append(pending, made)
        BY <1>4, <2>1, <3>6 DEF RingInv, Advance
      <4>2. /\ Len(pending') = Len(pending) + 1
            /\ pending'[Len(pending) + 1] = made
            /\ \A k \in 1 .. Len(pending) : pending'[k] = pending[k]
        BY <1>1, <2>1, <4>1, AppendProperties
      <4>3. \A k \in 1 .. Count' : pending'[k] = picObj'[Slot(k)']
        BY <2>1, <2>4, <3>1, <4>1, <4>2 DEF Holds
      <4> QED
        BY <2>4, <2>8, <4>1, <4>2, <4>3 DEF Holds
    <3> QED
      BY <2>6, <3>5, <3>6
  <2> QED
    BY <2>7, <2>8
<1>5. raced' = raced
  BY DEF Advance
<1> QED
  BY <1>2, <1>3, <1>4, <1>5 DEF RingInv

(* The telemetry process takes the first of the contents.                   *)
LEMMA RemoveStep ==
    ASSUME RingInv, Remove
    PROVE  RingInv'
<1>1. /\ front \in Index /\ rear \in Index /\ front # rear
      /\ front' = Succ(front) /\ rear' = rear
      /\ picObj \in [Index -> Result \union {Blank}]
      /\ pending \in Seq(Result)
      /\ last' = picObj[front]
  BY DEF RingInv, TypeOK, Remove
<1>2. /\ front' \in Index
      /\ Count \in Int /\ Count > 0 /\ Count' = Count - 1
      /\ Slot(1) = front
      /\ \A k \in 1 .. Count' : Slot(k)' = Slot(k + 1) /\ k + 1 \in 1 .. Count
  BY <1>1, CountIs, FrontMoves, Occupied
<1>3. TypeOK'
  <2>1. pending' \in Seq(Result)
    BY <1>1 DEF Remove
  <2> QED
    BY <1>1, <1>2, <2>1 DEF RingInv, TypeOK, Remove
<1>4. Filled'
  BY DEF RingInv, Filled, Remove
<1>5. ASSUME ~ raced
      PROVE  Alone' /\ Ordered'
  <2>1. Alone /\ Ordered
    BY <1>5 DEF RingInv
  <2>2. /\ last' <= made
        /\ \A k \in 1 .. Count' : last' < picObj[Slot(k + 1)]
        /\ \A b \in Agency : pc[b] = "advance" => last' < made
    BY <1>1, <1>2, <2>1 DEF Ordered
  <2>3. \A k \in 1 .. Count' : /\ last' < picObj[Slot(k)'] /\ picObj[Slot(k)'] <= made
                              /\ \A b \in Agency : pc[b] = "advance" => picObj[Slot(k)'] < made
    BY <1>2, <2>1, <2>2 DEF Ordered
  <2>4. \A j, k \in 1 .. Count' : j < k => picObj[Slot(j)'] < picObj[Slot(k)']
    BY <1>2, <2>1 DEF Ordered
  <2>5. Ordered'
    BY <2>2, <2>3, <2>4 DEF Ordered, Remove
  <2>6. Alone'
    BY <2>1 DEF Alone, Remove
  <2> QED
    BY <2>5, <2>6
<1>6. ASSUME ~ (raced \/ overflowed)
      PROVE  Holds'
  <2>1. Holds /\ pending # <<>>
    BY <1>2, <1>6 DEF RingInv, Holds
  <2>2. /\ pending' = Tail(pending)
        /\ Len(pending') = Len(pending) - 1
        /\ \A k \in 1 .. Len(pending') : pending'[k] = pending[k + 1]
    BY <1>1, <2>1 DEF Remove
  <2> QED
    BY <1>2, <2>1, <2>2 DEF Holds, Remove
<1> QED
  BY <1>3, <1>4, <1>5, <1>6 DEF RingInv, Remove

(* The processing system dies and starts again: nobody is in a section.     *)
LEMMA RestartStep ==
    ASSUME RingInv, Restart
    PROVE  RingInv'
<1>1. /\ Count' = Count
      /\ \A k : Slot(k)' = Slot(k)
  BY DEF Restart, Count, Slot
<1>2. \A b \in Agency : pc'[b] = "idle"
  BY DEF Restart
<1>3. TypeOK'
  BY DEF RingInv, TypeOK, Restart
<1>4. Filled' /\ Alone'
  BY <1>2 DEF Filled, Alone
<1>5. Ordered => Ordered'
  BY <1>1, <1>2 DEF Ordered, Restart
<1>6. Holds => Holds'
  BY <1>1 DEF Holds, Restart
<1> QED
  BY <1>3, <1>4, <1>5, <1>6 DEF RingInv, Restart

LEMMA StutterRing ==
    ASSUME RingInv, UNCHANGED vars
    PROVE  RingInv'
<1>1. Count' = Count /\ \A k : Slot(k)' = Slot(k)
  BY DEF vars, Count, Slot
<1>2. TypeOK' /\ Filled'
  BY DEF RingInv, TypeOK, Filled, vars
<1>3. /\ Alone => Alone'
      /\ Ordered => Ordered'
      /\ Holds => Holds'
  BY <1>1 DEF Alone, Ordered, Holds, vars
<1> QED
  BY <1>2, <1>3 DEF RingInv, vars

LEMMA StepRing == RingInv /\ [Next]_vars => RingInv'
  BY ReadStep, FillStep, AdvanceStep, RemoveStep, RestartStep, StutterRing DEF Next

LEMMA RingInvariant == Spec => []RingInv
  BY InitRing, StepRing, PTL DEF Spec

-----------------------------------------------------------------------------
(* Every variable keeps its type: the indices never leave the ring.         *)
THEOREM RingTypeCorrect == Spec => []TypeOK
<1>1. RingInv => TypeOK
  BY DEF RingInv
<1> QED
  BY <1>1, RingInvariant, PTL

(* Until the ring overflows or two agencies work on it at once, it holds    *)
(* what was appended and not removed, restarts or not                       *)
(* (task_agency.cpp:262-338, task_def.h:42-43).                             *)
THEOREM RingIsRight == Spec => []RingHoldsPendingUntilFull
<1>1. RingInv => RingHoldsPendingUntilFull
  BY HoldsIsContents DEF RingInv, RingHoldsPendingUntilFull
<1> QED
  BY <1>1, RingInvariant, PTL

(* Until two agencies work on it at once, each removal gives a result newer *)
(* than the one removed before it, so never the same again, also when the   *)
(* ring has overflowed (task_agency.cpp:262-338).                           *)
THEOREM RemovedInOrder == Spec => ResultsRemovedInOrder
<1>1. ASSUME RingInv, [Next]_vars, front' # front, ~ raced
      PROVE  last' > last
  <2>1. Remove
    BY <1>1 DEF Next, vars, ReadIndices, Fill, Advance, Restart
  <2>2. 1 \in 1 .. Count /\ last' = picObj[Slot(1)]
    BY <1>1, <2>1, CountIs, Occupied DEF Remove, RingInv, TypeOK
  <2>3. last < last'
    BY <1>1, <2>2 DEF RingInv, Ordered
  <2> QED
    BY <1>1, <2>1, <2>3 DEF Remove, RingInv, TypeOK, Result, Blank
<1>2. RingInv /\ [Next]_vars => [(front' # front /\ ~ raced) => last' > last]_vars
  BY <1>1
<1> QED
  BY <1>2, RingInvariant, PTL DEF Spec, ResultsRemovedInOrder
=============================================================================
