----------------------------- MODULE ResultRing -----------------------------
(***************************************************************************)
(* The ring of recognition results in the shared memory of 1H8-PS          *)
(* (sm_msg of task_def.h): picObj[20] with its front in buf[8] and its     *)
(* rear in buf[9].  The DataDeal threads of the four agencies append       *)
(* (task_agency.cpp:262-338), a telemetry process that is not part of the  *)
(* repository removes.  The segment outlives the processing system.        *)
(*                                                                         *)
(* sm_mutex guards the two indices and pic_mutex the slots, each by        *)
(* itself: an agency reads the indices, fills the slot and advances the    *)
(* rear in three critical sections, from what it read in the first.  The   *)
(* test for a full ring only prints, its `continue` is commented out.      *)
(***************************************************************************)
EXTENDS Integers, Sequences

CONSTANTS Agency,      \* the agencies that have a board: four in the code
          RingSize,    \* 20 in the code
          MaxResults   \* bound: results written

ASSUME ResultRingAssumption ==
    /\ RingSize \in Nat \ {0, 1}
    /\ MaxResults \in Nat

Index == 0 .. RingSize - 1
Result == 1 .. MaxResults
Blank == 0   \* a slot nobody has written yet

VARIABLES front, rear,  \* buf[8] and buf[9]
          picObj,       \* the slots, each with the number of its result
          pc,           \* where each agency is in its three sections
          rearRead,     \* the rear each agency read: its local `rear`
          made,         \* results written so far; gives each its number
          pending,      \* history: results appended and not yet removed
          overflowed,   \* history: a result was appended to a full ring
          raced,        \* history: two agencies were in their sections at once
          last          \* history: the result removed last

vars == <<front, rear, picObj, pc, rearRead, made, pending, overflowed,
          raced, last>>

TypeOK ==
    /\ front \in Index /\ rear \in Index
    /\ picObj \in [Index -> Result \union {Blank}]
    /\ pc \in [Agency -> {"idle", "fill", "advance"}]
    /\ rearRead \in [Agency -> Index]
    /\ made \in 0 .. MaxResults
    /\ pending \in Seq(Result)
    /\ overflowed \in BOOLEAN /\ raced \in BOOLEAN
    /\ last \in Result \union {Blank}

Init ==
    /\ front = 0 /\ rear = 0
    /\ picObj = [k \in Index |-> Blank]
    /\ pc = [a \in Agency |-> "idle"]
    /\ rearRead = [a \in Agency |-> 0]
    /\ made = 0
    /\ pending = <<>>
    /\ overflowed = FALSE /\ raced = FALSE
    /\ last = Blank

(* The index after k in the ring.                                           *)
Succ(k) == (k + 1) % RingSize

-----------------------------------------------------------------------------
(* First section, under sm_mutex.  (The front is only compared, to print.)  *)
ReadIndices(a) ==
    /\ pc[a] = "idle"
    /\ made < MaxResults
    /\ rearRead' = [rearRead EXCEPT ![a] = rear]
    /\ pc' = [pc EXCEPT ![a] = "fill"]
    /\ raced' = (raced \/ \E b \in Agency : pc[b] # "idle")
    /\ UNCHANGED <<front, rear, picObj, made, pending, overflowed, last>>

(* Faulty second section: the slot after the rear.                          *)
Fill_NextSlot(a) ==
    /\ pc[a] = "fill"
    /\ made < MaxResults
    /\ made' = made + 1
    /\ picObj' = [picObj EXCEPT ![Succ(rearRead[a])] = made']
    /\ pc' = [pc EXCEPT ![a] = "advance"]
    /\ UNCHANGED <<front, rear, rearRead, pending, overflowed, raced, last>>

(* Second section, under pic_mutex: the slot at the rear that was read.     *)
Fill(a) ==
    /\ pc[a] = "fill"
    /\ made < MaxResults
    /\ made' = made + 1
    /\ picObj' = [picObj EXCEPT ![rearRead[a]] = made']
    /\ pc' = [pc EXCEPT ![a] = "advance"]
    /\ UNCHANGED <<front, rear, rearRead, pending, overflowed, raced, last>>

(* Faulty third section: the rear moves by two.                             *)
Advance_ByTwo(a) ==
    /\ pc[a] = "advance"
    /\ rear' = Succ(Succ(rearRead[a]))
    /\ pending' = Append(pending, picObj[rearRead[a]])
    /\ overflowed' = (overflowed \/ rear' = front)
    /\ pc' = [pc EXCEPT ![a] = "idle"]
    /\ UNCHANGED <<front, picObj, rearRead, made, raced, last>>

(* Third section, under sm_mutex: the rear is set from the value read.      *)
Advance(a) ==
    /\ pc[a] = "advance"
    /\ rear' = Succ(rearRead[a])
    /\ pending' = Append(pending, picObj[rearRead[a]])
    /\ overflowed' = (overflowed \/ rear' = front)
    /\ pc' = [pc EXCEPT ![a] = "idle"]
    /\ UNCHANGED <<front, picObj, rearRead, made, raced, last>>

(* The telemetry process removes the first result, if there is one.         *)
Remove ==
    /\ front # rear
    /\ last' = picObj[front]
    /\ front' = Succ(front)
    /\ pending' = IF pending = <<>> THEN pending ELSE Tail(pending)
    /\ UNCHANGED <<rear, picObj, pc, rearRead, made, overflowed, raced>>

(* The processing system dies and starts again on the same segment; main    *)
(* initialises buf[0..7] and [17..18], not the indices nor the slots.       *)
Restart ==
    /\ \E a \in Agency : pc[a] # "idle"
    /\ pc' = [a \in Agency |-> "idle"]
    /\ UNCHANGED <<front, rear, picObj, rearRead, made, pending, overflowed,
                   raced, last>>

Next ==
    \/ \E a \in Agency : ReadIndices(a) \/ Fill(a) \/ Advance(a)
    \/ Remove
    \/ Restart

Spec == Init /\ [][Next]_vars

-----------------------------------------------------------------------------
Count == (rear - front) % RingSize

(* The results between front and rear, oldest first (task_def.h:42-43).     *)
Contents == [k \in 1 .. Count |-> picObj[(front + k - 1) % RingSize]]

(* task_def.h:42-43: front is the first element, rear the place after the   *)
(* last: the ring holds exactly the results appended and not yet removed.   *)
RingHoldsPending == Contents = pending

(* That is so, across restarts and for any number of agencies, until the    *)
(* ring overflows or two agencies work on it at the same time.              *)
RingHoldsPendingUntilFull == ~ (overflowed \/ raced) => RingHoldsPending

(* Until two agencies work on the ring at the same time, each removal (the  *)
(* front moves) gives the telemetry a result newer than the one before: no  *)
(* result twice, none out of order, overflow or not.                        *)
ResultsRemovedInOrder == [][(front' # front /\ ~ raced) => last' > last]_vars

(* task_agency.cpp:337 "the rear of the queue advances by one": no append   *)
(* sets it back or moves it further.                                        *)
RearAdvancesByOne == [][rear' # rear => rear' = Succ(rear)]_vars
=============================================================================
