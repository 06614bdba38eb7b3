------------------------- MODULE BatchNumbersProofs -------------------------
(***************************************************************************)
(* Theorems about BatchNumbers, for any tests, number of devices and time. *)
(***************************************************************************)
EXTENDS BatchNumbers, TLAPS

(* There is a last record, which searchLastBatchNum finds.  (That a finite  *)
(* set has a greatest element needs no induction here: the table grows by   *)
(* one record at a time.)                                                   *)
HasLast == record # {} => \E r \in record : IsLast(r)

(* No Id is in the table twice.                                             *)
IdsDiffer == \A q, r \in record : SameId(q, r) => q = r

(* A record carries its test's number, and its worker is done.              *)
RecordOfWorker ==
    \A r \in record : /\ batch[r.test] = r.batch
                      /\ worker[r.test][r.device] = "over"

(* A number that a test took follows one in the table.                      *)
NumberFollows ==
    \A t \in Test :
        batch[t] > 0 => \E q \in record : q.batch = batch[t] - 1

(* A test without a number has no workers yet.                              *)
Started ==
    \A t \in Test : batch[t] = None => \A d \in Device : worker[t][d] = "off"

IInv == TypeOK /\ HasLast /\ IdsDiffer /\ RecordOfWorker /\ NumberFollows
        /\ Started

-----------------------------------------------------------------------------
(* The table is ordered by Id, and the last record is there to be found.    *)
LEMMA LastIsLast ==
    ASSUME HasLast, record # {}
    PROVE  Last \in record /\ IsLast(Last)
  BY DEF HasLast, Last

LEMMA NextNumberIsNew ==
    ASSUME TypeOK, HasLast
    PROVE  /\ NextNumber \in Nat
           /\ NextNumber > 0 => \E q \in record : q.batch = NextNumber - 1
<1>1. CASE record = {}
  BY <1>1 DEF NextNumber
<1>2. CASE record # {}
  <2>1. Last \in record /\ Last.batch \in Nat
    BY <1>2, LastIsLast DEF TypeOK, Row
  <2>2. NextNumber = Last.batch + 1
    BY <1>2 DEF NextNumber
  <2> QED
    BY <2>1, <2>2
<1> QED
  BY <1>1, <1>2

(* The order of the Ids.                                                    *)
LEMMA Order ==
    ASSUME NEW q \in Row, NEW r \in Row
    PROVE  /\ Precedes(q, r) \/ Precedes(r, q) \/ SameId(q, r)
           /\ \A s \in Row : Precedes(q, r) /\ Precedes(r, s) => Precedes(q, s)
<1>1. /\ q.second \in Int /\ q.device \in Int
      /\ r.second \in Int /\ r.device \in Int
      /\ \A s \in Row : s.second \in Int /\ s.device \in Int
  BY BatchNumbersAssumption DEF Row, Second, Device
<1> QED
  BY <1>1 DEF Precedes, SameId

(* An insertion adds the worker's row, or finds its Id taken.               *)
LEMMA InsertStep ==
    ASSUME IInv, NEW t \in Test, NEW d \in Device, Insert(t, d)
    PROVE  /\ worker' = [worker EXCEPT ![t][d] = "over"]
           /\ UNCHANGED <<now, batch, began>>
           /\ \/ /\ record' = record
                 /\ \E q \in record : q.second = began[t][d] /\ q.device = d
              \/ \E row \in Row :
                   /\ record' = record \union {row}
                   /\ row.second = began[t][d] /\ row.device = d
                   /\ row.batch = batch[t] /\ row.test = t
                   /\ \A q \in record : ~ SameId(q, row)
<1> DEFINE row == [second |-> began[t][d], device |-> d, batch |-> batch[t],
                   test |-> t]
<1>1. worker[t][d] = "busy" /\ batch[t] # None
  BY DEF Insert, IInv, Started, Running
<1>2. row \in Row
  BY <1>1 DEF IInv, TypeOK, Row
<1> QED
  BY <1>2 DEF Insert, SameId

LEMMA WorkerStep ==
    ASSUME TypeOK, NEW t \in Test, NEW d \in Device,
           NEW s \in {"off", "forked", "busy", "over"},
           worker' = [worker EXCEPT ![t][d] = s]
    PROVE  /\ worker' \in [Test -> [Device -> {"off", "forked", "busy", "over"}]]
           /\ worker'[t][d] = s
           /\ \A u \in Test, e \in Device :
                u # t \/ e # d => worker'[u][e] = worker[u][e]
  BY DEF TypeOK

LEMMA TypeStep == IInv /\ [Next]_vars => TypeOK'
<1> SUFFICES ASSUME IInv, [Next]_vars PROVE TypeOK'
  OBVIOUS
<1> USE BatchNumbersAssumption
<1>1. CASE UNCHANGED vars
  BY <1>1 DEF IInv, TypeOK, vars, Row
<1>2. CASE Tick
  BY <1>2 DEF IInv, TypeOK, Tick, Second, Row
<1>3. ASSUME NEW t \in Test, StartTest(t) PROVE TypeOK'
  <2>1. NextNumber \in Nat
    BY NextNumberIsNew DEF IInv
  <2> QED
    BY <1>3, <2>1 DEF IInv, TypeOK, StartTest, Row
<1>4. ASSUME NEW t \in Test, NEW d \in Device, ReadClock(t, d) PROVE TypeOK'
  <2>1. worker' \in [Test -> [Device -> {"off", "forked", "busy", "over"}]]
    BY <1>4, WorkerStep DEF ReadClock, IInv
  <2>2. began' \in [Test -> [Device -> Second]]
    BY <1>4 DEF ReadClock, IInv, TypeOK
  <2> QED
    BY <1>4, <2>1, <2>2 DEF IInv, TypeOK, ReadClock, Row
<1>5. ASSUME NEW t \in Test, NEW d \in Device, Insert(t, d) PROVE TypeOK'
  <2>1. worker' \in [Test -> [Device -> {"off", "forked", "busy", "over"}]]
    BY <1>5, InsertStep, WorkerStep DEF IInv
  <2>2. overlapped' = overlapped
    BY <1>5 DEF Insert
  <2>3. UNCHANGED <<now, batch, began>>
    BY <1>5, InsertStep
  <2>4. record' \in SUBSET Row
    BY <1>5, InsertStep DEF IInv, TypeOK
  <2> QED
    BY <2>1, <2>2, <2>3, <2>4 DEF IInv, TypeOK
<1>6. ASSUME NEW t \in Test, NEW d \in Device, Fail(t, d) PROVE TypeOK'
  <2>1. worker' \in [Test -> [Device -> {"off", "forked", "busy", "over"}]]
    BY <1>6, WorkerStep DEF Fail, IInv
  <2> QED
    BY <1>6, <2>1 DEF IInv, TypeOK, Fail, Row
<1> QED
  BY <1>1, <1>2, <1>3, <1>4, <1>5, <1>6 DEF Next

(* Steps that leave the table alone: the other parts of the invariant.      *)
LEMMA SameTable ==
    ASSUME IInv, TypeOK', record' = record,
           \A t \in Test, d \in Device :
               worker[t][d] = "over" => worker'[t][d] = "over",
           \A t \in Test : batch[t] # None => batch'[t] = batch[t],
           \A t \in Test : batch[t] = None =>
               batch'[t] \in {None, NextNumber},
           Started'
    PROVE  IInv'
<1>1. HasLast' /\ IdsDiffer'
  BY DEF IInv, HasLast, IdsDiffer, IsLast
<1>2. RecordOfWorker'
  BY DEF IInv, RecordOfWorker, TypeOK, Row, None
<1>3. NumberFollows'
  BY NextNumberIsNew DEF IInv, NumberFollows, TypeOK, None
<1> QED
  BY <1>1, <1>2, <1>3 DEF IInv

(* The new row comes before the last one, after it, or has its Id.          *)
LEMMA NewRow ==
    ASSUME TypeOK, HasLast, NEW row \in Row, record' = record \union {row},
           \A q \in record : ~ SameId(q, row)
    PROVE  HasLast'
<1>1. CASE record = {}
  <2>1. IsLast(row)'
    BY <1>1 DEF IsLast
  <2> QED
    BY <2>1 DEF HasLast
<1>2. CASE record # {}
  <2>1. PICK last \in record : IsLast(last)
    BY <1>2 DEF HasLast
  <2>2. CASE Precedes(row, last)
    BY <2>1, <2>2 DEF HasLast, IsLast
  <2>3. CASE ~ Precedes(row, last)
    <3>1. Precedes(last, row)
      BY <2>1, <2>3, Order DEF TypeOK
    <3>2. ASSUME NEW q \in record PROVE Precedes(q, row)
      <4>1. q = last \/ Precedes(q, last)
        BY <2>1 DEF IsLast
      <4>2. q \in Row /\ last \in Row
        BY <2>1 DEF TypeOK
      <4> QED
        BY <3>1, <4>1, <4>2, Order
    <3> QED
      BY <3>2 DEF HasLast, IsLast
  <2> QED
    BY <2>2, <2>3
<1> QED
  BY <1>1, <1>2

LEMMA InvariantStep == IInv /\ [Next]_vars => IInv'
<1> SUFFICES ASSUME IInv, [Next]_vars PROVE IInv'
  OBVIOUS
<1>0. TypeOK'
  BY TypeStep
<1>1. CASE UNCHANGED vars \/ Tick
  <2>1. UNCHANGED <<batch, worker, record>>
    BY <1>1 DEF vars, Tick
  <2> QED
    BY <1>0, <2>1, SameTable DEF IInv, Started
<1>2. ASSUME NEW t \in Test, StartTest(t) PROVE IInv'
  <2>1. \A u \in Test, d \in Device :
          worker[u][d] = "over" => worker'[u][d] = "over"
    BY <1>2 DEF IInv, TypeOK, StartTest, Started
  <2>2. /\ record' = record
        /\ batch[t] = None
        /\ batch' = [batch EXCEPT ![t] = NextNumber]
        /\ \A u \in Test : u # t => worker'[u] = worker[u]
    BY <1>2 DEF IInv, TypeOK, StartTest
  <2>3. NextNumber \in Nat
    BY NextNumberIsNew DEF IInv
  <2>4. Started'
    BY <2>2, <2>3 DEF IInv, TypeOK, Started, None
  <2> QED
    BY <1>0, <2>1, <2>2, <2>4, SameTable DEF IInv, TypeOK
<1>3. ASSUME NEW t \in Test, NEW d \in Device,
             ReadClock(t, d) \/ Fail(t, d)
      PROVE  IInv'
  <2>1. PICK s \in {"off", "busy"} :
          /\ worker[t][d] \in {"forked", "busy"}
          /\ worker' = [worker EXCEPT ![t][d] = s]
          /\ UNCHANGED <<batch, record>>
    BY <1>3 DEF ReadClock, Fail
  <2>2. \A u \in Test, e \in Device : worker[u][e] = "over" => worker'[u][e] = "over"
    BY <2>1, WorkerStep DEF IInv
  <2>3. Started'
    BY <2>1, WorkerStep DEF IInv, Started
  <2> QED
    BY <1>0, <2>1, <2>2, <2>3, SameTable DEF IInv
<1>4. ASSUME NEW t \in Test, NEW d \in Device, Insert(t, d) PROVE IInv'
  <2>1. /\ worker[t][d] = "busy"
        /\ worker' = [worker EXCEPT ![t][d] = "over"]
        /\ batch' = batch
    BY <1>4 DEF Insert
  <2>2. \A u \in Test, e \in Device : worker[u][e] = "over" => worker'[u][e] = "over"
    BY <2>1, WorkerStep DEF IInv
  <2>3. Started'
    BY <2>1, WorkerStep DEF IInv, Started
  <2>4. CASE record' = record
    BY <1>0, <2>1, <2>2, <2>3, <2>4, SameTable DEF IInv
  <2>5. CASE record' # record
    <3>1. PICK row \in Row : /\ record' = record \union {row}
                             /\ row.device = d
                             /\ row.batch = batch[t] /\ row.test = t
                             /\ \A q \in record : ~ SameId(q, row)
      BY <1>4, <2>5, InsertStep
    <3>2. HasLast'
      BY <3>1, NewRow DEF IInv
    <3>3. IdsDiffer'
      BY <3>1 DEF IInv, IdsDiffer, SameId
    <3>4. RecordOfWorker'
      <4>1. worker'[t][d] = "over"
        BY <2>1, WorkerStep DEF IInv
      <4> QED
        BY <2>1, <2>2, <3>1, <4>1 DEF IInv, RecordOfWorker, TypeOK, Row
    <3>5. NumberFollows'
      BY <2>1, <3>1 DEF IInv, NumberFollows
    <3> QED
      BY <1>0, <2>3, <3>2, <3>3, <3>4, <3>5 DEF IInv
  <2> QED
    BY <2>4, <2>5
<1> QED
  BY <1>1, <1>2, <1>3, <1>4 DEF Next

LEMMA InvariantInit == Init => IInv
<1> SUFFICES ASSUME Init PROVE IInv
  OBVIOUS
<1>1. TypeOK
  <2>1. now \in Second /\ began \in [Test -> [Device -> Second]]
    BY BatchNumbersAssumption DEF Init, Second
  <2>2. /\ batch \in [Test -> Nat \union {None}]
        /\ record \in SUBSET Row
        /\ overlapped \in BOOLEAN
    BY DEF Init
  <2>3. worker \in [Test -> [Device -> {"off", "forked", "busy", "over"}]]
    BY DEF Init
  <2> QED
    BY <2>1, <2>2, <2>3 DEF TypeOK
<1>2. HasLast /\ IdsDiffer /\ RecordOfWorker
  BY DEF Init, HasLast, IdsDiffer, RecordOfWorker
<1>3. NumberFollows /\ Started
  BY DEF Init, NumberFollows, Started, None
<1> QED
  BY <1>1, <1>2, <1>3 DEF IInv

(* The types of BatchNumbers: searchLastBatchNum returns a number.          *)
THEOREM BatchTypeCorrect == Spec => []TypeOK
<1>1. IInv => TypeOK
  BY DEF IInv
<1> QED
  BY <1>1, InvariantInit, InvariantStep, PTL DEF Spec

(* The numbers in the table have no gap, however tests overlap and fail.    *)
THEOREM NumbersConsecutive == Spec => []NumbersWithoutGap
<1>1. IInv => NumbersWithoutGap
  BY DEF IInv, RecordOfWorker, NumberFollows, NumbersWithoutGap, TypeOK, Row
<1> QED
  BY <1>1, InvariantInit, InvariantStep, PTL DEF Spec

-----------------------------------------------------------------------------
(* What holds if tests do not overlap.  The test that runs has a number     *)
(* greater than all others in the table, and its workers start later than   *)
(* those of all others did; so the table is ordered by number as by Id.     *)
OneRuns == \A t, u \in Test : Running(t) /\ Running(u) => t = u

RunsLast ==
    \A t \in Test, r \in record :
        Running(t) /\ r.test # t => r.batch < batch[t] /\ r.second < now

BusyLast ==
    \A t \in Test, d \in Device, r \in record :
        worker[t][d] = "busy" /\ r.test # t => r.second < began[t][d]

TableOrdered ==
    \A q, r \in record :
        q.test # r.test => \/ q.batch < r.batch /\ q.second < r.second
                           \/ r.batch < q.batch /\ r.second < q.second

AllRecorded ==
    \A t \in Test, d \in Device :
        worker[t][d] = "over" => \E r \in record : r.test = t /\ r.device = d

SInv == OneRuns /\ RunsLast /\ BusyLast /\ TableOrdered /\ AllRecorded

LEMMA RowTypes ==
    ASSUME TypeOK
    PROVE  /\ \A r \in record : /\ r.second \in Int /\ r.batch \in Int
                                /\ r.device \in Int /\ r.test \in Test
                                /\ r.device \in Device
           /\ now \in Int
           /\ \A t \in Test, d \in Device : began[t][d] \in Int
           /\ \A t \in Test : batch[t] \in Int
  BY BatchNumbersAssumption DEF TypeOK, Row, Second, Device, None

(* The next number is greater than all in the table.                        *)
LEMMA NextNumberGreatest ==
    ASSUME IInv, TableOrdered, NEW r \in record
    PROVE  r.batch < NextNumber
<1>1. Last \in record /\ (r = Last \/ Precedes(r, Last))
  BY LastIsLast DEF IInv, IsLast
<1>2. NextNumber = Last.batch + 1
  BY DEF NextNumber
<1>3. CASE r.test = Last.test
  BY <1>1, <1>2, <1>3, RowTypes DEF IInv, RecordOfWorker
<1>4. CASE r.test # Last.test
  BY <1>1, <1>2, <1>4, RowTypes DEF IInv, TableOrdered, Precedes
<1> QED
  BY <1>3, <1>4

LEMMA SequentialStep ==
    ASSUME IInv, SInv, [Next]_vars, ~ overlapped'
    PROVE  SInv'
<1>0. TypeOK
  BY DEF IInv
<1>1. CASE UNCHANGED vars
  BY <1>1 DEF vars, SInv, OneRuns, RunsLast, BusyLast, TableOrdered,
              AllRecorded, Running
<1>2. CASE Tick
  <2>1. RunsLast'
    BY <1>0, <1>2, RowTypes DEF Tick, SInv, RunsLast, Running
  <2> QED
    BY <1>2, <2>1 DEF Tick, SInv, OneRuns, BusyLast, TableOrdered,
                      AllRecorded, Running
<1>3. ASSUME NEW t \in Test, StartTest(t) PROVE SInv'
  <2>0. /\ \A u \in Test : ~ Running(u)
        /\ \A r \in record : ~ (r.second >= now)
    BY <1>3 DEF StartTest
  <2>1. /\ \A u \in Test : ~ Running(u)
        /\ \A r \in record : r.second < now
        /\ batch[t] = None
        /\ batch' = [batch EXCEPT ![t] = NextNumber]
        /\ UNCHANGED <<now, began, record>>
    <3>1. \A r \in record : r.second < now
      BY <1>0, <2>0, RowTypes
    <3> QED
      BY <1>3, <2>0, <3>1 DEF StartTest
  <2>2. /\ \A u \in Test : u # t => worker'[u] = worker[u]
        /\ \A d \in Device : worker'[t][d] \in {"off", "forked"}
    BY <1>3 DEF StartTest, IInv, TypeOK
  <2>3. \A u \in Test : Running(u)' => u = t
    BY <2>1, <2>2 DEF Running
  <2>4. batch'[t] = NextNumber
    BY <1>0, <2>1 DEF TypeOK
  <2>5. OneRuns' /\ TableOrdered'
    BY <2>1, <2>3 DEF OneRuns, SInv, TableOrdered
  <2>6. RunsLast'
    BY <2>1, <2>3, <2>4, NextNumberGreatest DEF RunsLast, SInv
  <2>7. BusyLast'
    <3>1. \A u \in Test, d \in Device : worker'[u][d] # "busy"
      BY <2>1, <2>2 DEF Running
    <3> QED
      BY <3>1 DEF BusyLast
  <2>8. AllRecorded'
    BY <2>1, <2>2 DEF SInv, AllRecorded
  <2> QED
    BY <2>5, <2>6, <2>7, <2>8 DEF SInv
<1>4. ASSUME NEW t \in Test, NEW d \in Device, ReadClock(t, d) PROVE SInv'
  <2>1. /\ worker[t][d] = "forked"
        /\ began' = [began EXCEPT ![t][d] = now]
        /\ worker' = [worker EXCEPT ![t][d] = "busy"]
        /\ UNCHANGED <<now, batch, record>>
    BY <1>4 DEF ReadClock
  <2>2. /\ worker'[t][d] = "busy"
        /\ \A u \in Test, e \in Device :
             u # t \/ e # d => worker'[u][e] = worker[u][e]
    BY <1>0, <2>1, WorkerStep
  <2>3. /\ began'[t][d] = now
        /\ \A u \in Test, e \in Device :
             u # t \/ e # d => began'[u][e] = began[u][e]
    BY <1>0, <2>1 DEF TypeOK
  <2>4. \A u \in Test : Running(u)' => Running(u)
    BY <2>1, <2>2 DEF Running
  <2>5. OneRuns' /\ RunsLast' /\ TableOrdered'
    BY <2>1, <2>4 DEF SInv, OneRuns, RunsLast, TableOrdered
  <2>6. BusyLast'
    BY <2>1, <2>2, <2>3 DEF SInv, BusyLast, RunsLast, Running
  <2>7. AllRecorded'
    BY <2>1, <2>2 DEF SInv, AllRecorded
  <2> QED
    BY <2>5, <2>6, <2>7 DEF SInv
<1>5. ASSUME NEW t \in Test, NEW d \in Device, Fail(t, d) PROVE SInv'
  <2>1. /\ worker[t][d] \in {"forked", "busy"}
        /\ worker' = [worker EXCEPT ![t][d] = "off"]
        /\ UNCHANGED <<now, batch, began, record>>
    BY <1>5 DEF Fail
  <2>2. /\ worker'[t][d] = "off"
        /\ \A u \in Test, e \in Device :
             u # t \/ e # d => worker'[u][e] = worker[u][e]
    BY <1>0, <2>1, WorkerStep
  <2>3. \A u \in Test : Running(u)' => Running(u)
    BY <2>1, <2>2 DEF Running
  <2>4. OneRuns' /\ RunsLast' /\ TableOrdered'
    BY <2>1, <2>3 DEF SInv, OneRuns, RunsLast, TableOrdered
  <2>5. BusyLast' /\ AllRecorded'
    BY <2>1, <2>2 DEF SInv, BusyLast, AllRecorded
  <2> QED
    BY <2>4, <2>5 DEF SInv
<1>6. ASSUME NEW t \in Test, NEW d \in Device, Insert(t, d) PROVE SInv'
  <2>1. /\ worker[t][d] = "busy"
        /\ worker' = [worker EXCEPT ![t][d] = "over"]
        /\ UNCHANGED <<now, batch, began>>
    BY <1>6 DEF Insert
  <2>2. /\ worker'[t][d] = "over"
        /\ \A u \in Test, e \in Device :
             u # t \/ e # d => worker'[u][e] = worker[u][e]
    BY <1>0, <2>1, WorkerStep
  <2>3. \A u \in Test : Running(u)' => u = t
    BY <2>1, <2>2 DEF Running, SInv, OneRuns
  <2>4. \A r \in record' : r \in record \/ /\ r.second = began[t][d]
                                           /\ r.device = d
                                           /\ r.batch = batch[t]
                                           /\ r.test = t
    BY <1>6, InsertStep
  <2>5. OneRuns'
    BY <2>3 DEF OneRuns
  <2>6. RunsLast' /\ BusyLast'
    <3>1. Running(t)
      BY <2>1 DEF Running
    <3>2. RunsLast'
      BY <2>1, <2>3, <2>4, <3>1 DEF SInv, RunsLast
    <3>3. BusyLast'
      BY <2>1, <2>2, <2>3, <2>4 DEF SInv, BusyLast, Running
    <3> QED
      BY <3>2, <3>3
  <2>7. TableOrdered'
    <3>1. \A r \in record : r.test # t => /\ r.batch < batch[t]
                                          /\ r.second < began[t][d]
      BY <2>1 DEF SInv, RunsLast, BusyLast, Running
    <3> QED
      BY <2>4, <3>1 DEF SInv, TableOrdered
  <2>8. AllRecorded'
    <3>1. \E r \in record' : r.test = t /\ r.device = d
      <4>1. CASE record' = record /\ \E q \in record :
                   q.second = began[t][d] /\ q.device = d
        BY <1>0, <2>1, <4>1, RowTypes DEF SInv, BusyLast
      <4> QED
        BY <1>6, <4>1, InsertStep
    <3>2. record \subseteq record'
      BY <1>6, InsertStep
    <3> QED
      BY <2>2, <3>1, <3>2 DEF SInv, AllRecorded
  <2> QED
    BY <2>5, <2>6, <2>7, <2>8 DEF SInv
<1> QED
  BY <1>1, <1>2, <1>3, <1>4, <1>5, <1>6 DEF Next

SequentialInv == IInv /\ (~ overlapped => SInv)

LEMMA SequentialInvariant == Spec => []SequentialInv
<1>1. Init => SequentialInv
  <2>1. Init => SInv
    BY DEF Init, SInv, OneRuns, RunsLast, BusyLast, TableOrdered,
           AllRecorded, Running
  <2> QED
    BY <2>1, InvariantInit DEF SequentialInv
<1>2. SequentialInv /\ [Next]_vars => SequentialInv'
  <2> SUFFICES ASSUME SequentialInv, [Next]_vars PROVE SequentialInv'
    OBVIOUS
  <2>1. ~ overlapped' => ~ overlapped
    BY DEF vars, Next, Tick, StartTest, ReadClock, Insert, Fail
  <2> QED
    BY <2>1, InvariantStep, SequentialStep DEF SequentialInv
<1> QED
  BY <1>1, <1>2, PTL DEF Spec

LEMMA NumbersApart == SequentialInv => NumberOfOneTest
  BY RowTypes DEF SequentialInv, IInv, SInv, TableOrdered, NumberOfOneTest

(* When no tests overlapped, records with one number are of one test        *)
(* (searchLastBatchNum, User.go:281-291).                                   *)
THEOREM SequentialNumbers == Spec => []NumberOfOneTest
  BY SequentialInvariant, NumbersApart, PTL

(* When no tests overlapped, the page starts with the records of the last   *)
(* test that wrote any, and with all of them.                               *)
THEOREM SequentialOrigin == Spec => []OriginShowsLastTest
<1>1. SequentialInv => OriginShowsLastTest
  <2> SUFFICES ASSUME SequentialInv, ~ overlapped, NEW r \in Shown, NEW q \in record
               PROVE  /\ q.test = r.test => q \in Shown
                      /\ q.test # r.test => Precedes(q, r)
    BY DEF OriginShowsLastTest
  <2>0. IInv /\ SInv /\ NumberOfOneTest
    BY NumbersApart DEF SequentialInv
  <2>1. r \in record /\ r.batch = Last.batch
    BY DEF Shown
  <2>2. q.test = r.test => q \in Shown
    BY <2>0, <2>1 DEF IInv, RecordOfWorker, Shown
  <2>3. Last \in record /\ (q = Last \/ Precedes(q, Last))
    BY <2>0, LastIsLast DEF IInv, IsLast
  <2>4. r.test = Last.test
    BY <2>0, <2>1, <2>3 DEF NumberOfOneTest
  <2>5. q.test # r.test => q.batch < r.batch
    BY <2>0, <2>1, <2>3, <2>4, RowTypes DEF IInv, SInv, TableOrdered, Precedes
  <2> QED
    BY <2>0, <2>1, <2>2, <2>5, RowTypes DEF IInv, SInv, TableOrdered, Precedes
<1> QED
  BY <1>1, SequentialInvariant, PTL

(* When no tests overlapped, the record of no test that succeeded is lost   *)
(* to the primary key of its table (the insertions, User.go:807, 1012).     *)
THEOREM SequentialRecords == Spec => []NoRecordRefused
<1>1. SequentialInv => NoRecordRefused
  BY DEF SequentialInv, SInv, AllRecorded, NoRecordRefused
<1> QED
  BY <1>1, SequentialInvariant, PTL
=============================================================================
