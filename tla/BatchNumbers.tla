---------------------------- MODULE BatchNumbers ----------------------------
(***************************************************************************)
(* The batch number, which says which records belong to one test (User.go: *)
(* searchLastBatchNum, the records the workers insert, PerformanceOrigin). *)
(* A test takes the number of the last record plus one; "last" is by the   *)
(* primary key Id, which is the second in which the worker of a device     *)
(* started, and the device's name.                                         *)
(***************************************************************************)
EXTENDS Integers, FiniteSets

CONSTANTS Test,
          NumDevices,   \* the devices, in the order of their names
          MaxTime       \* bound: seconds

ASSUME BatchNumbersAssumption ==
    /\ NumDevices \in Nat \ {0}
    /\ MaxTime \in Nat

Device == 1 .. NumDevices
Second == 0 .. MaxTime
None == -1

VARIABLES
    now,        \* the second the clock shows
    batch,      \* the number each test took, None before it starts
    worker,     \* each device's goroutine in each test
    began,      \* the second each worker read from the clock
    record,     \* table record: the rows, with the test each belongs to
    overlapped  \* history: a test started when another was running, or in a
                \* second in which a worker of another started

vars == <<now, batch, worker, began, record, overlapped>>

Row == [second : Second, device : Device, batch : Nat, test : Test]

TypeOK ==
    /\ now \in Second
    /\ batch \in [Test -> Nat \union {None}]
    /\ worker \in [Test -> [Device -> {"off", "forked", "busy", "over"}]]
    /\ began \in [Test -> [Device -> Second]]
    /\ record \in SUBSET Row
    /\ overlapped \in BOOLEAN

Init ==
    /\ now = 0
    /\ batch = [t \in Test |-> None]
    /\ worker = [t \in Test |-> [d \in Device |-> "off"]]
    /\ began = [t \in Test |-> [d \in Device |-> 0]]
    /\ record = {}
    /\ overlapped = FALSE

(* The order of the primary key, "2006-01-02_15:04:05_devicename".          *)
Precedes(q, r) == \/ q.second < r.second
                  \/ q.second = r.second /\ q.device < r.device
SameId(q, r) == q.second = r.second /\ q.device = r.device

IsLast(r) == \A q \in record : q = r \/ Precedes(q, r)

Last == CHOOSE r \in record : IsLast(r)

(* Faulty: without the plus one, with First for Last, or with a gap.        *)
NextNumber_Same == IF record = {} THEN 0 ELSE Last.batch
NextNumber_First ==
    IF record = {} THEN 0
    ELSE (CHOOSE r \in record : \A q \in record : q = r \/ Precedes(r, q)).batch + 1
NextNumber_SkipsOne == IF record = {} THEN 0 ELSE Last.batch + 2

(* searchLastBatchNum.                                                      *)
NextNumber == IF record = {} THEN 0 ELSE Last.batch + 1

Running(t) == \E d \in Device : worker[t][d] \in {"forked", "busy"}

(* ApplyForTest: take a number, start a goroutine for each of the devices.  *)
StartTest(t) ==
    /\ batch[t] = None
    /\ batch' = [batch EXCEPT ![t] = NextNumber]
    /\ \E chosen \in (SUBSET Device) \ {{}} :
         worker' = [worker EXCEPT ![t] = [d \in Device |->
                      IF d \in chosen THEN "forked" ELSE "off"]]
    /\ overlapped' = (\/ overlapped
                      \/ \E u \in Test : Running(u)
                      \/ \E r \in record : r.second >= now)
    /\ UNCHANGED <<now, began, record>>

(* A worker reads the clock for its IdMessage.                              *)
ReadClock(t, d) ==
    /\ worker[t][d] = "forked"
    /\ began' = [began EXCEPT ![t][d] = now]
    /\ worker' = [worker EXCEPT ![t][d] = "busy"]
    /\ UNCHANGED <<now, batch, record, overlapped>>

(* Faulty key: without the device's name.                                   *)
Insert_TimeIsKey(t, d) ==
    LET row == [second |-> began[t][d], device |-> d, batch |-> batch[t],
                test |-> t]
    IN  /\ worker[t][d] = "busy"
        /\ worker' = [worker EXCEPT ![t][d] = "over"]
        /\ record' = IF \E q \in record : q.second = row.second THEN record
                     ELSE record \union {row}
        /\ UNCHANGED <<now, batch, began, overlapped>>

(* It inserts its record; the database refuses an Id that it has already.   *)
Insert(t, d) ==
    LET row == [second |-> began[t][d], device |-> d, batch |-> batch[t],
                test |-> t]
    IN  /\ worker[t][d] = "busy"
        /\ worker' = [worker EXCEPT ![t][d] = "over"]
        /\ record' = IF \E q \in record : SameId(q, row) THEN record
                     ELSE record \union {row}
        /\ UNCHANGED <<now, batch, began, overlapped>>

(* It panics before that, or the device does not support the model.         *)
Fail(t, d) ==
    /\ worker[t][d] \in {"forked", "busy"}
    /\ worker' = [worker EXCEPT ![t][d] = "off"]
    /\ UNCHANGED <<now, batch, began, record, overlapped>>

Tick ==
    /\ now < MaxTime
    /\ now' = now + 1
    /\ UNCHANGED <<batch, worker, began, record, overlapped>>

Next ==
    \/ Tick
    \/ \E t \in Test :
         \/ StartTest(t)
         \/ \E d \in Device : ReadClock(t, d) \/ Insert(t, d) \/ Fail(t, d)

Spec == Init /\ [][Next]_vars

(* PerformanceOrigin: the records with the last record's number.            *)
Shown == {r \in record : r.batch = Last.batch}

-----------------------------------------------------------------------------
(* Records with one number are of one test.  (Of tests that do not overlap: *)
(* two that start before either has a record take the same number.)         *)
NumberOfOneTest ==
    ~ overlapped => \A q, r \in record : q.batch = r.batch => q.test = r.test

(* The page of a test's results starts with those of the test that wrote    *)
(* records last, with all of them and nothing else (if none overlapped).    *)
OriginShowsLastTest ==
    ~ overlapped =>
        \A r \in Shown, q \in record :
            /\ q.test = r.test => q \in Shown
            /\ q.test # r.test => Precedes(q, r)

(* Every worker that got its result has its record in the table, although   *)
(* the insertion of a record with an Id that is taken is refused silently   *)
(* (if no tests overlapped).                                                *)
NoRecordRefused ==
    ~ overlapped =>
        \A t \in Test, d \in Device :
            worker[t][d] = "over" => \E r \in record : r.test = t /\ r.device = d

(* The numbers in use have no gap, so that the history, which colours the   *)
(* tests by odd and even numbers, alternates; whether tests overlap or not. *)
NumbersWithoutGap ==
    \A r \in record : r.batch > 0 => \E q \in record : q.batch = r.batch - 1
=============================================================================
