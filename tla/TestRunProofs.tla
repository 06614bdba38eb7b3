--------------------------- MODULE TestRunProofs ---------------------------
(***************************************************************************)
(* Theorems about TestRun, for any number of requests, devices, readers    *)
(* and overlapping tests.                                                  *)
(***************************************************************************)
EXTENDS TestRun, FiniteSetTheorems, TLAPS

(* The workers of a test that have not reported.                            *)
Open(t) == {s \in Slot : worker[t][s] # "over"}

AllStopped(t) ==
    /\ \A s \in Slot : worker[t][s] = "over"
    /\ \A k \in Reader : reader[t][k] \in HadToken

(* Where a reader can be.                                                   *)
ReaderState == {"off", "open", "select", "noport", "io", "recover", "leaked", "over"}

(* The types, but for the range of countDevice, which needs the rest.       *)
Types ==
    /\ up \in BOOLEAN
    /\ ErrorFlag \in BOOLEAN
    /\ step \in [Test -> {"idle", "join", "stop", "check", "next", "reset", "done"}]
    /\ model \in [Test -> Model]
    /\ left \in [Test -> Int]
    /\ token \in [Test -> Reader \union {NumReaders}]
    /\ worker \in [Test -> [Slot -> {"off", "work", "send", "over"}]]
    /\ wholeRecord \in [Test -> [Slot -> {"empty", "record", "unsupported"}]]
    /\ reader \in [Test -> [Reader -> ReaderState]]
    /\ closed \in [Test -> BOOLEAN]
    /\ answer \in [Test -> {"none", "records", "err", "blank"}]

(* What holds of a test in each phase.  While it joins, countDevice is the  *)
(* number of open workers; so none is open when it turns to the readers,    *)
(* and these get their tokens in order, so all have theirs when ch is       *)
(* closed.                                                                  *)
Phase(t) ==
    /\ step[t] \in {"idle", "join"} => token[t] = 0 /\ ~ closed[t]
    /\ step[t] = "join" => left[t] = Cardinality(Open(t)) /\ left[t] > 0
    /\ step[t] # "join" => left[t] = 0
    /\ step[t] = "stop" => /\ Open(t) = {}
                           /\ token[t] \in Reader
                           /\ ~ closed[t]
                           /\ \A k \in Reader : k < token[t] => reader[t][k] \in HadToken
    /\ closed[t] => AllStopped(t)

IInv == Types /\ \A t \in Test : Phase(t)

-----------------------------------------------------------------------------
(* A change of one element of one of the nested functions.                  *)
LEMMA NestedExcept ==
    ASSUME NEW A, NEW B, NEW C, NEW f \in [A -> [B -> C]],
           NEW a \in A, NEW b \in B, NEW c \in C,
           NEW g, g = [f EXCEPT ![a][b] = c]
    PROVE  /\ g \in [A -> [B -> C]]
           /\ g[a][b] = c
           /\ \A x \in A, y \in B : (x # a \/ y # b) => g[x][y] = f[x][y]
           /\ \A x \in A : x # a => g[x] = f[x]
  OBVIOUS

LEMMA OpenFinite ==
    ASSUME NEW t \in Test
    PROVE  IsFiniteSet(Open(t)) /\ Cardinality(Open(t)) \in 0 .. Cardinality(Slot)
<1>1. IsFiniteSet(Slot) /\ Open(t) \in SUBSET Slot
  BY TestRunAssumption DEF Open
<1> QED
  BY <1>1, FS_Subset, FS_CardinalityType

(* A step that leaves a test alone, or only moves goroutines that have not  *)
(* reported or not had their token, leaves it in its phase.                 *)
LEMMA PhaseKept ==
    ASSUME NEW t \in Test, Phase(t),
           step'[t] = step[t], left'[t] = left[t], token'[t] = token[t],
           closed'[t] = closed[t],
           \A s \in Slot : worker'[t][s] = "over" <=> worker[t][s] = "over",
           \A k \in Reader : reader[t][k] \in HadToken => reader'[t][k] \in HadToken
    PROVE  Phase(t)'
<1>1. Open(t)' = Open(t)
  BY DEF Open
<1>2. AllStopped(t) => AllStopped(t)'
  BY DEF AllStopped
<1> QED
  BY <1>1, <1>2 DEF Phase

(* A request that is turned away, or whose handler panics.                  *)
LEMMA RefusedStep ==
    ASSUME IInv, NEW t \in Test, Reject(t) \/ Panic(t)
    PROVE  IInv'
<1>1. Types'
  BY DEF IInv, Types, Reject, Panic, Admitted
<1>2. ASSUME NEW u \in Test
      PROVE  Phase(u)'
  <2>1. CASE u = t
    <3>1. /\ step[t] = "idle" /\ step'[t] = "next"
          /\ left'[t] = left[t] /\ closed'[t] = closed[t]
      BY DEF IInv, Types, Reject, Panic, Admitted
    <3> QED
      BY <2>1, <3>1 DEF IInv, Phase
  <2>2. CASE u # t
    BY <2>2, PhaseKept DEF IInv, Types, Reject, Panic
  <2> QED
    BY <2>1, <2>2
<1> QED
  BY <1>1, <1>2 DEF IInv

(* The start of the goroutines: all workers are open.                       *)
LEMMA ForkStep ==
    ASSUME IInv, NEW t \in Test, NEW m \in Model, Fork(t, m)
    PROVE  IInv'
<1>1. Cardinality(Slot) \in Nat /\ Cardinality(Slot) > 0
  BY TestRunAssumption, FS_CardinalityType, FS_EmptySet
<1>2. Types'
  BY <1>1 DEF IInv, Types, Fork, Admitted, StartOfReader, ReaderState
<1>3. Open(t)' = Slot
  BY DEF IInv, Types, Fork, Open
<1>4. ASSUME NEW u \in Test
      PROVE  Phase(u)'
  <2>1. CASE u = t
    BY <1>1, <1>3, <2>1 DEF IInv, Types, Phase, Fork, Admitted
  <2>2. CASE u # t
    BY <2>2, PhaseKept DEF IInv, Types, Fork
  <2> QED
    BY <2>1, <2>2
<1> QED
  BY <1>2, <1>4 DEF IInv

(* A worker comes back from its device, panics on it, or has only a remark. *)
LEMMA WorkerStep ==
    ASSUME IInv, NEW t \in Test, NEW s \in Slot,
           Remark(t, s) \/ Finish(t, s) \/ Fail(t, s)
    PROVE  IInv'
<1>1. /\ worker \in [Test -> [Slot -> {"off", "work", "send", "over"}]]
      /\ worker' = [worker EXCEPT ![t][s] = "send"]
      /\ worker[t][s] = "work"
  BY DEF IInv, Types, Remark, Finish, Fail
<1>2. /\ worker' \in [Test -> [Slot -> {"off", "work", "send", "over"}]]
      /\ worker'[t][s] = "send"
      /\ \A u \in Test, r \in Slot :
            (u # t \/ r # s) => worker'[u][r] = worker[u][r]
  BY <1>1, NestedExcept
<1>3. wholeRecord' \in [Test -> [Slot -> {"empty", "record", "unsupported"}]]
  <2>1. CASE Finish(t, s)
    BY <2>1, NestedExcept DEF IInv, Types, Finish
  <2>2. CASE Fail(t, s)
    BY <2>2 DEF IInv, Types, Fail
  <2>3. CASE Remark(t, s)
    BY <2>3, NestedExcept DEF IInv, Types, Remark
  <2> QED
    BY <2>1, <2>2, <2>3
<1>4. Types'
  BY <1>2, <1>3 DEF IInv, Types, Remark, Finish, Fail, request
<1>5. ASSUME NEW u \in Test
      PROVE  Phase(u)'
  <2>1. \A r \in Slot : worker'[u][r] = "over" <=> worker[u][r] = "over"
    BY <1>1, <1>2
  <2> QED
    BY <2>1, PhaseKept DEF IInv, Remark, Finish, Fail, request
<1> QED
  BY <1>4, <1>5 DEF IInv

(* A reader opens its port, goes to read the power, comes back or panics.   *)
ReaderMoves(t, k) ==
    \/ OpenPort(t, k) \/ Poll(t, k) \/ PollNil(t, k)
    \/ PowerRead(t, k) \/ PowerPanic(t, k)

(* ... and nothing else moves.                                              *)
LEMMA ReaderOnly ==
    ASSUME NEW t \in Test, NEW k \in Reader, ReaderMoves(t, k)
    PROVE  /\ UNCHANGED <<up, ErrorFlag, step, model, left, token, worker,
                          wholeRecord, closed, answer>>
           /\ reader[t][k] \notin {"leaked", "over"}
           /\ \E c \in ReaderState : reader' = [reader EXCEPT ![t][k] = c]
<1>1. CASE OpenPort(t, k)
  BY <1>1 DEF OpenPort, request, ReaderState
<1>2. CASE Poll(t, k) \/ PollNil(t, k) \/ PowerRead(t, k) \/ PowerPanic(t, k)
  BY <1>2 DEF Poll, PollNil, PowerRead, PowerPanic, request, ReaderState
<1> QED
  BY <1>1, <1>2 DEF ReaderMoves

LEMMA ReaderStep ==
    ASSUME IInv, NEW t \in Test, NEW k \in Reader, ReaderMoves(t, k)
    PROVE  IInv'
<1>1. PICK c \in ReaderState : reader' = [reader EXCEPT ![t][k] = c]
  BY ReaderOnly
<1>2. reader \in [Test -> [Reader -> ReaderState]] /\ reader[t][k] \notin HadToken
  BY ReaderOnly DEF IInv, Types, HadToken
<1>3. /\ reader' \in [Test -> [Reader -> ReaderState]]
      /\ \A u \in Test, j \in Reader :
            (u # t \/ j # k) => reader'[u][j] = reader[u][j]
  BY <1>1, <1>2, NestedExcept
<1>4. Types'
  BY <1>3, ReaderOnly DEF IInv, Types
<1>5. ASSUME NEW u \in Test
      PROVE  Phase(u)'
  <2>1. \A j \in Reader : reader[u][j] \in HadToken => reader'[u][j] \in HadToken
    BY <1>2, <1>3 DEF HadToken
  <2> QED
    BY <2>1, ReaderOnly, PhaseKept DEF IInv
<1> QED
  BY <1>4, <1>5 DEF IInv

(* The process ends.                                                        *)
LEMMA FatalStep ==
    ASSUME IInv, NEW t \in Test, NEW s \in Slot, Fatal(t, s)
    PROVE  IInv'
<1>1. Types'
  BY DEF IInv, Types, Fatal
<1>2. ASSUME NEW u \in Test
      PROVE  Phase(u)'
  BY PhaseKept DEF IInv, Fatal
<1> QED
  BY <1>1, <1>2 DEF IInv

(* A report is received: one worker less is open, countDevice is one less.  *)
LEMMA JoinStep ==
    ASSUME IInv, NEW t \in Test, NEW s \in Slot, Join(t, s)
    PROVE  IInv'
<1>1. /\ worker' \in [Test -> [Slot -> {"off", "work", "send", "over"}]]
      /\ worker'[t][s] = "over"
      /\ \A u \in Test, r \in Slot :
            (u # t \/ r # s) => worker'[u][r] = worker[u][r]
  BY NestedExcept DEF IInv, Types, Join
<1>2. Types'
  BY <1>1 DEF IInv, Types, Join
<1>3. Open(t)' = Open(t) \ {s} /\ s \in Open(t)
  BY <1>1 DEF Join, Open
<1>4. /\ IsFiniteSet(Open(t)')
      /\ Cardinality(Open(t)') = left'[t]
      /\ Cardinality(Open(t)') \in Nat
  <2>1. left[t] = Cardinality(Open(t)) /\ left'[t] = left[t] - 1
    BY DEF IInv, Types, Phase, Join
  <2>2. IsFiniteSet(Open(t))
    BY OpenFinite
  <2>3. /\ IsFiniteSet(Open(t) \ {s})
        /\ Cardinality(Open(t) \ {s}) = Cardinality(Open(t)) - 1
    BY <1>3, <2>2, FS_RemoveElement
  <2> QED
    BY <1>3, <2>1, <2>3, FS_CardinalityType
<1>5. left'[t] = 0 => Open(t)' = {}
  BY <1>4, FS_EmptySet
<1>6. ASSUME NEW u \in Test
      PROVE  Phase(u)'
  <2>1. CASE u = t
    <3>1. /\ step[t] = "join" /\ token'[t] = 0 /\ ~ closed'[t]
          /\ 0 \in Reader
          /\ step'[t] = IF left'[t] = 0 THEN "stop" ELSE "join"
      BY TestRunAssumption DEF IInv, Types, Phase, Join, Reader
    <3>2. \A k \in Reader : ~ k < 0
      BY TestRunAssumption DEF Reader
    <3> QED
      BY <1>4, <1>5, <2>1, <3>1, <3>2 DEF Phase
  <2>2. CASE u # t
    BY <1>1, <2>2, PhaseKept DEF IInv, Types, Join
  <2> QED
    BY <2>1, <2>2
<1> QED
  BY <1>2, <1>6 DEF IInv

(* A reader gets its token: all readers up to it have had theirs.           *)
LEMMA StopStep ==
    ASSUME IInv, NEW t \in Test, NEW k \in Reader, Stop(t, k)
    PROVE  IInv'
<1>1. /\ reader' \in [Test -> [Reader -> ReaderState]]
      /\ reader'[t][k] \in HadToken
      /\ \A u \in Test, j \in Reader :
            (u # t \/ j # k) => reader'[u][j] = reader[u][j]
  <2>1. reader \in [Test -> [Reader -> ReaderState]]
    BY DEF IInv, Types
  <2>2. AfterToken(t, k) \in ReaderState
    BY DEF AfterToken, ReaderState
  <2>3. reader' = [reader EXCEPT ![t][k] = AfterToken(t, k)]
    BY DEF Stop
  <2>4. /\ reader' \in [Test -> [Reader -> ReaderState]]
        /\ reader'[t][k] = AfterToken(t, k)
        /\ \A u \in Test, j \in Reader :
              (u # t \/ j # k) => reader'[u][j] = reader[u][j]
    BY <2>1, <2>2, <2>3, NestedExcept
  <2> QED
    BY <2>4 DEF AfterToken, HadToken
<1>2. /\ step[t] = "stop" /\ token[t] = k
      /\ token'[t] = k + 1
      /\ closed'[t] = (token'[t] = NumReaders)
      /\ step'[t] = IF token'[t] = NumReaders THEN "check" ELSE "stop"
      /\ left'[t] = 0
  BY DEF IInv, Types, Phase, Stop, Stopping
<1>3. /\ k \in Int /\ k + 1 \in Reader \union {NumReaders}
      /\ k + 1 # NumReaders => k + 1 \in Reader
      /\ \A j \in Reader : j \in Int /\ (j < k + 1 => j < k \/ j = k)
      /\ \A j \in Reader : j < NumReaders
  BY TestRunAssumption DEF Reader
<1>4. Types'
  <2>1. token' \in [Test -> Reader \union {NumReaders}]
    BY <1>2, <1>3 DEF IInv, Types, Stop
  <2> QED
    BY <1>1, <2>1 DEF IInv, Types, Stop
<1>5. \A j \in Reader : j < k + 1 => reader'[t][j] \in HadToken
  BY <1>1, <1>2, <1>3 DEF IInv, Phase, HadToken
<1>6. Open(t)' = {} /\ \A s \in Slot : worker'[t][s] = "over"
  BY <1>2 DEF IInv, Phase, Stop, Open
<1>7. ASSUME NEW u \in Test
      PROVE  Phase(u)'
  <2>1. CASE u = t
    <3>1. ASSUME closed'[t] PROVE AllStopped(t)'
      <4>1. k + 1 = NumReaders
        BY <1>2, <3>1
      <4>2. \A j \in Reader : reader'[t][j] \in HadToken
        BY <1>3, <1>5, <4>1
      <4> QED
        BY <1>6, <4>2 DEF AllStopped
    <3> QED
      BY <1>2, <1>3, <1>5, <1>6, <2>1, <3>1 DEF Phase
  <2>2. CASE u # t
    BY <1>1, <2>2, PhaseKept DEF IInv, Types, Stop
  <2> QED
    BY <2>1, <2>2
<1> QED
  BY <1>4, <1>7 DEF IInv

(* The flag is looked at, and the answer is sent.                           *)
LEMMA AnswerStep ==
    ASSUME IInv, NEW t \in Test, Check(t) \/ NextHandler(t) \/ ResetFlag(t)
    PROVE  IInv'
<1>1. Types'
  BY DEF IInv, Types, Check, NextHandler, ResetFlag
<1>2. ASSUME NEW u \in Test
      PROVE  Phase(u)'
  <2>1. CASE u = t
    <3>1. /\ step[t] \in {"check", "next", "reset"}
          /\ step'[t] \in {"next", "reset", "done"}
          /\ left'[t] = left[t] /\ closed'[t] = closed[t]
          /\ AllStopped(t)' = AllStopped(t)
      BY DEF IInv, Types, Check, NextHandler, ResetFlag, AllStopped
    <3> QED
      BY <2>1, <3>1 DEF IInv, Phase
  <2>2. CASE u # t
    BY <2>2, PhaseKept DEF IInv, Types, Check, NextHandler, ResetFlag
  <2> QED
    BY <2>1, <2>2
<1> QED
  BY <1>1, <1>2 DEF IInv

-----------------------------------------------------------------------------
(* Each test is in one of its phases at every moment, whatever the others   *)
(* do (User.go:1250-1318).                                                  *)
THEOREM InductiveInvariant == Spec => []IInv
<1>1. Init => IInv
  <2> SUFFICES ASSUME Init
               PROVE  IInv
    OBVIOUS
  <2>1. Types
    <3>1. 0 \in Reader /\ "1" \in Model
      BY TestRunAssumption DEF Reader, Model
    <3>2. /\ worker \in [Test -> [Slot -> {"off", "work", "send", "over"}]]
          /\ wholeRecord \in [Test -> [Slot -> {"empty", "record", "unsupported"}]]
      BY DEF Init
    <3>3. reader \in [Test -> [Reader -> ReaderState]]
      BY DEF Init, ReaderState
    <3>4. /\ token \in [Test -> Reader \union {NumReaders}]
          /\ left \in [Test -> Int]
          /\ model \in [Test -> Model]
      BY <3>1 DEF Init
    <3> QED
      BY <3>2, <3>3, <3>4 DEF Init, Types
  <2>2. ASSUME NEW t \in Test
        PROVE  Phase(t)
    BY DEF Init, Phase
  <2> QED
    BY <2>1, <2>2 DEF IInv
<1>2. IInv /\ [Next]_vars => IInv'
  <2> SUFFICES ASSUME IInv, [Next]_vars
               PROVE  IInv'
    OBVIOUS
  <2>1. CASE UNCHANGED vars
    <3>1. Types'
      BY <2>1 DEF vars, IInv, Types
    <3>2. ASSUME NEW u \in Test
          PROVE  Phase(u)'
      BY <2>1, PhaseKept DEF vars, IInv
    <3> QED
      BY <3>1, <3>2 DEF IInv
  <2>2. CASE Next
    BY <2>2, RefusedStep, ForkStep, WorkerStep, ReaderStep, FatalStep,
       JoinStep, StopStep, AnswerStep
       DEF Next, MluWorker, H8Worker, SocketWorker, Coordinate, ReaderMoves
  <2> QED
    BY <2>1, <2>2
<1> QED
  BY <1>1, <1>2, PTL DEF Spec

(* countDevice equals the number of reports still to come, whatever the     *)
(* order in which workers finish or panic.                                  *)
THEOREM ReportsCounted == Spec => []EveryReportCounted
<1>1. IInv => EveryReportCounted
  BY DEF IInv, Phase, EveryReportCounted, Open
<1> QED
  BY <1>1, InductiveInvariant, PTL

(* Only a reader of a serial port has a port to open, and can be left       *)
(* behind without one.                                                      *)
PortsAreSerial ==
    \A t \in Test, k \in Reader \ Serial :
        reader[t][k] \notin {"open", "noport", "leaked"}

LEMMA PortsStep ==
    ASSUME IInv, PortsAreSerial, [Next]_vars
    PROVE  PortsAreSerial'
<1> SUFFICES ASSUME NEW u \in Test, NEW j \in Reader \ Serial
             PROVE  reader'[u][j] \notin {"open", "noport", "leaked"}
  BY DEF PortsAreSerial
<1>1. /\ reader \in [Test -> [Reader -> ReaderState]]
      /\ reader[u][j] \notin {"open", "noport", "leaked"}
  BY DEF IInv, Types, PortsAreSerial
<1>2. CASE reader' = reader
  BY <1>1, <1>2
<1>3. ASSUME NEW t \in Test, NEW m \in Model, Fork(t, m)
      PROVE  reader'[u][j] \notin {"open", "noport", "leaked"}
  BY <1>1, <1>3 DEF Fork, StartOfReader
<1>4. ASSUME NEW t \in Test, NEW k \in Reader, ReaderMoves(t, k)
      PROVE  reader'[u][j] \notin {"open", "noport", "leaked"}
  <2>1. CASE u # t \/ j # k
    <3>1. PICK c \in ReaderState : reader' = [reader EXCEPT ![t][k] = c]
      BY <1>4, ReaderOnly
    <3>2. reader'[u][j] = reader[u][j]
      BY <1>1, <2>1, <3>1, NestedExcept
    <3> QED
      BY <1>1, <3>2
  <2>2. CASE u = t /\ j = k
    <3>1. \E c \in {"io", "select", "recover"} : reader' = [reader EXCEPT ![t][k] = c]
      BY <1>1, <1>4, <2>2 DEF ReaderMoves, OpenPort, Poll, PollNil, PowerRead, PowerPanic
    <3>2. PICK c \in {"io", "select", "recover"} : reader' = [reader EXCEPT ![t][k] = c]
      BY <3>1
    <3>3. reader'[t][k] = c
      BY <1>1, <3>2
    <3> QED
      BY <2>2, <3>2, <3>3
  <2> QED
    BY <2>1, <2>2
<1>5. ASSUME NEW t \in Test, NEW k \in Reader, Stop(t, k)
      PROVE  reader'[u][j] \notin {"open", "noport", "leaked"}
  BY <1>1, <1>5 DEF Stop, AfterToken
<1>6. \/ reader' = reader
      \/ \E t \in Test : \/ \E m \in Model : Fork(t, m)
                         \/ \E k \in Reader : ReaderMoves(t, k) \/ Stop(t, k)
  BY DEF Next, vars, Reject, Panic, Remark, MluWorker, H8Worker, SocketWorker, Finish,
     Fail, Fatal, Coordinate, Join, Check, NextHandler, ResetFlag, ReaderMoves
<1> QED
  BY <1>2, <1>3, <1>4, <1>5, <1>6

(* ch is closed only when nobody can send on it any more and every reader   *)
(* has had its token; what is left of the test is at most the readers of    *)
(* serial ports that did not open (User.go:1305-1316, 311-324).             *)
THEOREM NobodySendsOnClosed == Spec => []ClosedIsQuiet
<1>1. Init => PortsAreSerial
  BY DEF Init, PortsAreSerial
<1>2. IInv /\ PortsAreSerial => ClosedIsQuiet
  BY DEF IInv, Types, Phase, AllStopped, HadToken, PortsAreSerial, ClosedIsQuiet
<1> QED
  BY <1>1, <1>2, PortsStep, InductiveInvariant, PTL DEF Spec

(* Every variable keeps its type; countDevice never gets below zero.        *)
THEOREM TestTypeCorrect == Spec => []TypeOK
<1>1. IInv => TypeOK
  <2> SUFFICES ASSUME IInv, NEW t \in Test
               PROVE  left[t] \in 0 .. Cardinality(Slot)
    BY DEF IInv, Types, TypeOK, ReaderState
  <2>1. Cardinality(Slot) \in Nat
    BY TestRunAssumption, FS_CardinalityType
  <2> QED
    BY <2>1, OpenFinite DEF IInv, Phase
<1> QED
  BY <1>1, InductiveInvariant, PTL

-----------------------------------------------------------------------------
(* One test at a time.  A test that is refused has begun with no device;    *)
(* one that is answered has tried them all.                                 *)
NotBegun(t) == \A s \in Slot : worker[t][s] = "off"
Concluded(t) == \A s \in Slot : worker[t][s] = "over"
SomeFailed(t) == \E s \in Slot : Failed(t, s)

(* While a test runs, the flag says whether one of its devices has failed;  *)
(* from then on until it is reset, it is there for the next handler.        *)
Course(t) ==
    /\ \A s \in Slot : worker[t][s] \in {"off", "work"} => wholeRecord[t][s] = "empty"
    /\ answer[t] = "none" <=> step[t] # "done"
    /\ step[t] = "idle" => NotBegun(t)
    /\ step[t] = "join" => (ErrorFlag <=> SomeFailed(t))
    /\ step[t] \in {"stop", "check"} => Concluded(t) /\ (ErrorFlag <=> SomeFailed(t))
    /\ step[t] = "next" => NotBegun(t) \/ (Concluded(t) /\ ErrorFlag /\ SomeFailed(t))
    /\ step[t] = "reset" => NotBegun(t) \/ (Concluded(t) /\ SomeFailed(t))
    /\ step[t] = "done" => NotBegun(t) \/ Concluded(t)
    /\ answer[t] = "records" => ~ SomeFailed(t)

SerialInv ==
    /\ \A t, u \in Running : t = u
    /\ Running = {} => ~ ErrorFlag
    /\ \A t \in Test : Course(t)

LEMMA AdmittedAlone ==
    ASSUME MaxTests = 1, SerialInv, NEW t \in Test, Admitted(t)
    PROVE  Running = {} /\ ~ ErrorFlag
<1>1. Cardinality(Running) < 1
  BY DEF Admitted
<1>2. ASSUME NEW u \in Running PROVE FALSE
  <2>1. Running = {u}
    BY DEF SerialInv
  <2>2. Cardinality({u}) = 1
    BY FS_Singleton
  <2> QED
    BY <1>1, <2>1, <2>2
<1> QED
  BY <1>2 DEF SerialInv

(* A test in which nothing happens, with the flag as it is or not looked at. *)
LEMMA CourseKept ==
    ASSUME NEW u \in Test, Course(u),
           step'[u] = step[u], answer'[u] = answer[u],
           \A s \in Slot : worker'[u][s] = worker[u][s]
                           /\ wholeRecord'[u][s] = wholeRecord[u][s],
           ErrorFlag' = ErrorFlag \/ step[u] \in {"idle", "done"}
    PROVE  Course(u)'
<1>1. \A s \in Slot : Failed(u, s)' <=> Failed(u, s)
  BY DEF Failed
<1>2. SomeFailed(u)' <=> SomeFailed(u)
  BY <1>1 DEF SomeFailed
<1>3. (NotBegun(u)' <=> NotBegun(u)) /\ (Concluded(u)' <=> Concluded(u))
  BY DEF NotBegun, Concluded
<1>4. \A s \in Slot : worker'[u][s] \in {"off", "work"} => wholeRecord'[u][s] = "empty"
  BY DEF Course
<1> QED
  BY <1>2, <1>3, <1>4 DEF Course

(* A test begins: it is the only one.                                       *)
LEMMA BeginsSerial ==
    ASSUME MaxTests = 1, IInv, SerialInv, NEW t \in Test,
           Reject(t) \/ Panic(t) \/ \E m \in Model : Fork(t, m)
    PROVE  SerialInv'
<1>1. /\ step[t] = "idle" /\ step'[t] # "idle" /\ step'[t] # "done" /\ answer' = answer
      /\ \A u \in Test : u # t =>
            /\ step'[u] = step[u]
            /\ \A s \in Slot : worker'[u][s] = worker[u][s]
      /\ wholeRecord' = wholeRecord
  BY DEF Reject, Panic, Fork, Admitted, IInv, Types
<1>2. Running = {} /\ ~ ErrorFlag
  BY AdmittedAlone DEF Reject, Panic, Fork
<1>3. Running' = {t}
  BY <1>1, <1>2 DEF Running
<1>4. ASSUME NEW u \in Test, u # t PROVE Course(u)'
  <2>1. step[u] \in {"idle", "done"}
    BY <1>2 DEF Running
  <2> QED
    BY <1>1, <1>4, <2>1, CourseKept DEF SerialInv
<1>5. /\ \A s \in Slot : worker[t][s] = "off" /\ wholeRecord[t][s] = "empty"
      /\ answer[t] = "none"
  BY <1>1 DEF SerialInv, Course, NotBegun
<1>6. CASE Reject(t) \/ Panic(t)
  <2>1. step'[t] = "next" /\ worker' = worker
    BY <1>6 DEF Reject, Panic, IInv, Types
  <2> QED
    BY <1>1, <1>3, <1>4, <1>5, <2>1 DEF SerialInv, Course, NotBegun
<1>7. CASE \E m \in Model : Fork(t, m)
  <2>1. /\ step'[t] = "join" /\ ErrorFlag' = ErrorFlag
        /\ \A s \in Slot : worker'[t][s] = "work"
    BY <1>7 DEF Fork, IInv, Types
  <2>2. ~ SomeFailed(t)'
    BY <2>1 DEF SomeFailed, Failed
  <2> QED
    BY <1>1, <1>2, <1>3, <1>4, <1>5, <2>1, <2>2 DEF SerialInv, Course
<1> QED
  BY <1>6, <1>7

(* A worker that reports or panics is one of the test that runs.            *)
LEMMA WorkerSerial ==
    ASSUME IInv, SerialInv, NEW t \in Test, NEW s \in Slot,
           Remark(t, s) \/ Finish(t, s) \/ Fail(t, s)
    PROVE  SerialInv' /\ answer[t] = "none"
<1>1. /\ worker[t][s] = "work" /\ worker' = [worker EXCEPT ![t][s] = "send"]
      /\ step' = step /\ answer' = answer
      /\ \/ /\ ErrorFlag' = ErrorFlag
            /\ \E r \in {"record", "unsupported"} :
                  wholeRecord' = [wholeRecord EXCEPT ![t][s] = r]
         \/ ErrorFlag' = TRUE /\ wholeRecord' = wholeRecord
  BY DEF Remark, Finish, Fail, request
<1>2. /\ worker'[t][s] = "send"
      /\ \A u \in Test, r \in Slot : (u # t \/ r # s) => worker'[u][r] = worker[u][r]
  BY <1>1, NestedExcept DEF IInv, Types
<1>3. \A u \in Test, r \in Slot :
         (u # t \/ r # s) => wholeRecord'[u][r] = wholeRecord[u][r]
  BY <1>1, NestedExcept DEF IInv, Types
<1>4. \/ ErrorFlag' = ErrorFlag /\ wholeRecord'[t][s] # "empty"
      \/ ErrorFlag' = TRUE /\ wholeRecord'[t][s] = wholeRecord[t][s]
  BY <1>1, NestedExcept DEF IInv, Types
<1>5. step[t] = "join"
  <2>1. ~ NotBegun(t) /\ ~ Concluded(t)
    BY <1>1 DEF NotBegun, Concluded
  <2>2. step[t] \in {"idle", "join", "stop", "check", "next", "reset", "done"}
    BY DEF IInv, Types
  <2> QED
    BY <2>1, <2>2 DEF SerialInv, Course
<1>6. answer[t] = "none" /\ wholeRecord[t][s] = "empty"
      /\ (ErrorFlag <=> SomeFailed(t))
  BY <1>1, <1>5 DEF SerialInv, Course
<1>7. Running' = Running /\ t \in Running
  BY <1>1, <1>5 DEF Running
<1>8. ASSUME NEW u \in Test, u # t PROVE Course(u)'
  <2>1. step[u] \in {"idle", "done"}
    BY <1>7, <1>8 DEF Running, SerialInv
  <2> QED
    BY <1>1, <1>2, <1>3, <1>8, <2>1, CourseKept DEF SerialInv
<1>9. Course(t)'
  <2>1. \A r \in Slot : r # s => (Failed(t, r)' <=> Failed(t, r))
    BY <1>2, <1>3 DEF Failed
  <2>2. ~ Failed(t, s)
    BY <1>1 DEF Failed
  <2>3. Failed(t, s)' <=> wholeRecord'[t][s] = "empty"
    BY <1>2 DEF Failed
  <2>4. ErrorFlag' <=> SomeFailed(t)'
    <3>1. CASE ErrorFlag' = ErrorFlag /\ wholeRecord'[t][s] # "empty"
      BY <1>6, <2>1, <2>2, <2>3, <3>1 DEF SomeFailed
    <3>2. CASE ErrorFlag' = TRUE /\ wholeRecord'[t][s] = wholeRecord[t][s]
      <4>1. Failed(t, s)'
        BY <1>6, <2>3, <3>2
      <4>2. SomeFailed(t)'
        BY <4>1 DEF SomeFailed
      <4> QED
        BY <3>2, <4>2
    <3> QED
      BY <1>4, <3>1, <3>2
  <2>5. \A r \in Slot : worker'[t][r] \in {"off", "work"} => wholeRecord'[t][r] = "empty"
    BY <1>2, <1>3 DEF SerialInv, Course
  <2> QED
    BY <1>1, <1>5, <1>6, <2>4, <2>5 DEF Course
<1> QED
  BY <1>6, <1>7, <1>8, <1>9 DEF SerialInv

(* Reports are received and readers are stopped, or only poll.              *)
LEMMA CountSerial ==
    ASSUME IInv, IInv', SerialInv, NEW t \in Test,
           \/ \E s \in Slot : Join(t, s) \/ Fatal(t, s)
           \/ \E k \in Reader : Stop(t, k) \/ ReaderMoves(t, k)
    PROVE  /\ SerialInv' /\ answer' = answer
           /\ \A u \in Test, s \in Slot :
                 /\ wholeRecord'[u][s] = wholeRecord[u][s]
                 /\ worker'[u][s] # worker[u][s] =>
                       worker[u][s] = "send" /\ worker'[u][s] = "over"
<1>1. ErrorFlag' = ErrorFlag /\ answer' = answer /\ wholeRecord' = wholeRecord
  BY ReaderOnly DEF Join, Fatal, Stop, request
<1>2. CASE UNCHANGED <<step, worker>>
  <2>1. Running' = Running
    BY <1>2 DEF Running
  <2>2. \A u \in Test : Course(u)'
    BY <1>1, <1>2, CourseKept DEF SerialInv
  <2> QED
    BY <1>1, <1>2, <2>1, <2>2 DEF SerialInv
<1>3. ASSUME NEW s \in Slot, Join(t, s)
      PROVE  /\ SerialInv'
             /\ \A u \in Test, r \in Slot : worker'[u][r] # worker[u][r] =>
                   worker[u][r] = "send" /\ worker'[u][r] = "over"
  <2>1. /\ step[t] = "join" /\ step'[t] \in {"join", "stop"} /\ worker[t][s] = "send"
        /\ worker' = [worker EXCEPT ![t][s] = "over"]
        /\ \A u \in Test : u # t => step'[u] = step[u]
    BY <1>3 DEF Join, IInv, Types
  <2>2. /\ worker'[t][s] = "over"
        /\ \A u \in Test, r \in Slot : (u # t \/ r # s) => worker'[u][r] = worker[u][r]
    BY <2>1, NestedExcept DEF IInv, Types
  <2>3. Running' = Running
    BY <2>1 DEF Running
  <2>4. \A u \in Test : u # t => Course(u)'
    BY <1>1, <2>1, <2>2, CourseKept DEF SerialInv
  <2>5. step'[t] = "stop" => Concluded(t)'
    BY DEF IInv, Phase, Open, Concluded
  <2>6. \A r \in Slot : Failed(t, r)' <=> Failed(t, r)
    BY <1>1, <2>1, <2>2 DEF Failed
  <2>7. SomeFailed(t)' <=> SomeFailed(t)
    BY <2>6 DEF SomeFailed
  <2>8. \A r \in Slot : worker'[t][r] \in {"off", "work"} => wholeRecord'[t][r] = "empty"
    BY <1>1, <2>2 DEF SerialInv, Course
  <2>9. Course(t)'
    BY <1>1, <2>1, <2>5, <2>7, <2>8 DEF SerialInv, Course
  <2> QED
    BY <1>1, <2>1, <2>2, <2>3, <2>4, <2>9 DEF SerialInv
<1>4. ASSUME NEW k \in Reader, Stop(t, k)
      PROVE  SerialInv' /\ worker' = worker
  <2>1. /\ step[t] = "stop" /\ step'[t] \in {"stop", "check"} /\ worker' = worker
        /\ \A u \in Test : u # t => step'[u] = step[u]
    BY <1>4 DEF Stop, Stopping, IInv, Types
  <2>2. Running' = Running
    BY <2>1 DEF Running
  <2>3. \A u \in Test : u # t => Course(u)'
    BY <1>1, <2>1, CourseKept DEF SerialInv
  <2>4. (SomeFailed(t)' <=> SomeFailed(t)) /\ (Concluded(t)' <=> Concluded(t))
    BY <1>1, <2>1 DEF SomeFailed, Failed, Concluded
  <2>5. Course(t)'
    BY <1>1, <2>1, <2>4 DEF SerialInv, Course
  <2> QED
    BY <1>1, <2>1, <2>2, <2>3, <2>5 DEF SerialInv
<1>5. CASE \/ \E s \in Slot : Fatal(t, s)
           \/ \E k \in Reader : ReaderMoves(t, k)
  BY <1>1, <1>2, <1>5, ReaderOnly DEF Fatal
<1> QED
  BY <1>1, <1>3, <1>4, <1>5

(* The flag is looked at; a test that is over leaves none behind.           *)
LEMMA AnswerSerial ==
    ASSUME IInv, SerialInv, NEW t \in Test, Check(t) \/ NextHandler(t) \/ ResetFlag(t)
    PROVE  /\ SerialInv' /\ UNCHANGED <<worker, wholeRecord>>
           /\ answer' # answer =>
                 \/ /\ \E a \in {"blank", "err"} : answer' = [answer EXCEPT ![t] = a]
                    /\ NotBegun(t) /\ answer[t] = "none"
                 \/ /\ answer' = [answer EXCEPT ![t] =
                                     IF SomeFailed(t) THEN "err" ELSE "records"]
                    /\ Concluded(t) /\ answer[t] = "none"
<1>1. /\ UNCHANGED <<worker, wholeRecord>> /\ t \in Running
      /\ step \in [Test -> {"idle", "join", "stop", "check", "next", "reset", "done"}]
      /\ answer \in [Test -> {"none", "records", "err", "blank"}]
      /\ ErrorFlag \in BOOLEAN
  BY DEF Check, NextHandler, ResetFlag, Running, IInv, Types
<1>2. Course(t) /\ answer[t] = "none"
  BY DEF SerialInv, Course, Check, NextHandler, ResetFlag
<1>3. /\ \A u \in Test : u # t => step[u] \in {"idle", "done"}
      /\ \A u \in Test : u # t => step'[u] = step[u] /\ answer'[u] = answer[u]
  BY <1>1 DEF SerialInv, Running, Check, NextHandler, ResetFlag
<1>4. \A u \in Test : u # t => Course(u)'
  BY <1>1, <1>3, CourseKept DEF SerialInv
<1>5. /\ SomeFailed(t)' <=> SomeFailed(t)
      /\ Concluded(t)' <=> Concluded(t)
      /\ NotBegun(t)' <=> NotBegun(t)
      /\ \A s \in Slot : worker'[t][s] \in {"off", "work"} => wholeRecord'[t][s] = "empty"
  BY <1>1, <1>2 DEF SomeFailed, Failed, Concluded, NotBegun, Course
<1>6. CASE step'[t] # "done" /\ answer' = answer /\ ErrorFlag' = ErrorFlag
  <2>1. ErrorFlag /\ \/ step[t] = "check" /\ step'[t] = "next"
                     \/ step[t] = "next" /\ step'[t] = "reset"
    BY <1>1, <1>6 DEF Check, NextHandler, ResetFlag
  <2>2. Course(t)'
    BY <1>2, <1>5, <1>6, <2>1 DEF Course
  <2>3. \A u \in Test : step'[u] \notin {"idle", "done"} <=> step[u] \notin {"idle", "done"}
    BY <1>3, <2>1
  <2>4. Running' = Running
    BY <2>3 DEF Running
  <2> QED
    BY <1>1, <1>4, <1>6, <2>2, <2>4 DEF SerialInv
<1>7. CASE step'[t] = "done"
  <2>1. \/ step[t] = "check" /\ ~ ErrorFlag /\ ~ ErrorFlag' /\ answer'[t] = "records"
           /\ answer' = [answer EXCEPT ![t] = "records"]
        \/ step[t] = "next" /\ ~ ErrorFlag /\ ~ ErrorFlag' /\ answer'[t] = "blank"
           /\ answer' = [answer EXCEPT ![t] = "blank"]
        \/ step[t] = "reset" /\ ~ ErrorFlag' /\ answer'[t] = "err"
           /\ answer' = [answer EXCEPT ![t] = "err"]
    BY <1>1, <1>7 DEF Check, NextHandler, ResetFlag
  <2>2. Course(t)'
    BY <1>2, <1>5, <1>7, <2>1 DEF Course
  <2>3. Running' = {}
    BY <1>1, <1>3, <1>7 DEF Running
  <2>4. SerialInv'
    BY <1>4, <2>1, <2>2, <2>3 DEF SerialInv
  <2>5. CASE NotBegun(t)
    <3>1. step[t] # "check"
      <4>1. Slot # {}
        BY TestRunAssumption
      <4> QED
        BY <1>2, <2>5, <4>1 DEF Course, NotBegun, Concluded
    <3> QED
      BY <1>1, <1>2, <2>1, <2>4, <2>5, <3>1
  <2>6. CASE ~ NotBegun(t)
    <3>1. Concluded(t) /\ \/ step[t] = "check" /\ ~ SomeFailed(t)
                          \/ step[t] = "reset" /\ SomeFailed(t)
      BY <1>2, <2>1, <2>6 DEF Course
    <3> QED
      BY <1>1, <1>2, <2>1, <2>4, <3>1
  <2> QED
    BY <2>5, <2>6
<1>8. \/ step'[t] # "done" /\ answer' = answer /\ ErrorFlag' = ErrorFlag
      \/ step'[t] = "done"
  BY <1>1 DEF Check, NextHandler, ResetFlag
<1> QED
  BY <1>6, <1>7, <1>8

-----------------------------------------------------------------------------
(* What became of a device, as the page is to see it.                       *)
Outcome(t, s) ==
    IF worker[t][s] \in {"off", "work"} THEN "pending"
    ELSE IF wholeRecord[t][s] = "empty" THEN "failed" ELSE "result"

LEMMA OutcomeSame ==
    ASSUME \A t \in Test, s \in Slot : Outcome(t, s)' = Outcome(t, s),
           answer' = answer
    PROVE  UNCHANGED Promise!vars
<1>1. [t \in Test |-> [s \in Slot |-> Outcome(t, s)]]'
         = [t \in Test |-> [s \in Slot |-> Outcome(t, s)]]
  OBVIOUS
<1> QED
  BY <1>1 DEF Promise!vars, Outcome

LEMMA OutcomeNew ==
    ASSUME NEW t \in Test, NEW s \in Slot, answer[t] = "none", answer' = answer,
           Outcome(t, s) = "pending", Outcome(t, s)' \in {"result", "failed"},
           \A u \in Test, r \in Slot :
              (u # t \/ r # s) => Outcome(u, r)' = Outcome(u, r)
    PROVE  Promise!Conclude(t, s)
<1> DEFINE o == [u \in Test |-> [r \in Slot |-> Outcome(u, r)]]
<1>1. o' = [o EXCEPT ![t][s] = Outcome(t, s)']
  OBVIOUS
<1>2. o[t][s] = "pending"
  OBVIOUS
<1> QED
  BY <1>1, <1>2 DEF Promise!Conclude, Outcome

LEMMA StepIsPromised ==
    ASSUME MaxTests = 1, IInv, IInv', SerialInv, [Next]_vars
    PROVE  SerialInv' /\ [Promise!Next]_(Promise!vars)
<1>1. ASSUME NEW t \in Test, Reject(t) \/ Panic(t) \/ \E m \in Model : Fork(t, m)
      PROVE  SerialInv' /\ UNCHANGED Promise!vars
  <2>1. /\ step[t] = "idle" /\ answer' = answer /\ wholeRecord' = wholeRecord
        /\ \A u \in Test, s \in Slot :
              \/ worker'[u][s] = worker[u][s]
              \/ u = t /\ worker'[u][s] = "work"
    BY <1>1 DEF Reject, Panic, Fork, Admitted, IInv, Types
  <2>2. \A s \in Slot : worker[t][s] = "off"
    BY <2>1 DEF SerialInv, Course, NotBegun
  <2>3. \A u \in Test, s \in Slot : Outcome(u, s)' = Outcome(u, s)
    BY <2>1, <2>2 DEF Outcome
  <2> QED
    BY <1>1, <2>1, <2>3, BeginsSerial, OutcomeSame
<1>2. ASSUME NEW t \in Test, NEW s \in Slot, Remark(t, s) \/ Finish(t, s) \/ Fail(t, s)
      PROVE  SerialInv' /\ Promise!Conclude(t, s)
  <2>1. SerialInv' /\ answer[t] = "none"
    BY <1>2, WorkerSerial
  <2>2. /\ worker[t][s] = "work" /\ worker' = [worker EXCEPT ![t][s] = "send"]
        /\ answer' = answer
        /\ \/ \E r \in {"record", "unsupported"} :
                 wholeRecord' = [wholeRecord EXCEPT ![t][s] = r]
           \/ wholeRecord' = wholeRecord
    BY <1>2 DEF Remark, Finish, Fail, request
  <2>3. /\ worker'[t][s] = "send"
        /\ \A u \in Test, r \in Slot : (u # t \/ r # s) =>
              worker'[u][r] = worker[u][r] /\ wholeRecord'[u][r] = wholeRecord[u][r]
    BY <2>2, NestedExcept DEF IInv, Types
  <2>4. Outcome(t, s) = "pending" /\ Outcome(t, s)' \in {"result", "failed"}
    BY <2>2, <2>3 DEF Outcome
  <2>5. \A u \in Test, r \in Slot : (u # t \/ r # s) => Outcome(u, r)' = Outcome(u, r)
    BY <2>3 DEF Outcome
  <2> QED
    BY <2>1, <2>2, <2>4, <2>5, OutcomeNew
<1>3. ASSUME NEW t \in Test,
             \/ \E s \in Slot : Join(t, s) \/ Fatal(t, s)
             \/ \E k \in Reader :
                   Stop(t, k) \/ ReaderMoves(t, k)
      PROVE  SerialInv' /\ UNCHANGED Promise!vars
  <2>1. /\ SerialInv' /\ answer' = answer
        /\ \A u \in Test, s \in Slot :
              /\ wholeRecord'[u][s] = wholeRecord[u][s]
              /\ worker'[u][s] # worker[u][s] =>
                    worker[u][s] = "send" /\ worker'[u][s] = "over"
    BY <1>3, CountSerial
  <2>2. \A u \in Test, s \in Slot : Outcome(u, s)' = Outcome(u, s)
    BY <2>1 DEF Outcome
  <2> QED
    BY <2>1, <2>2, OutcomeSame
<1>4. ASSUME NEW t \in Test, Check(t) \/ NextHandler(t) \/ ResetFlag(t)
      PROVE  SerialInv' /\ [Promise!Answer(t) \/ Promise!Refuse(t)]_(Promise!vars)
  <2>1. /\ SerialInv' /\ UNCHANGED <<worker, wholeRecord>>
        /\ answer' # answer =>
              \/ /\ \E a \in {"blank", "err"} : answer' = [answer EXCEPT ![t] = a]
                 /\ NotBegun(t) /\ answer[t] = "none"
              \/ /\ answer' = [answer EXCEPT ![t] =
                                  IF SomeFailed(t) THEN "err" ELSE "records"]
                 /\ Concluded(t) /\ answer[t] = "none"
    BY <1>4, AnswerSerial
  <2> DEFINE o == [u \in Test |-> [r \in Slot |-> Outcome(u, r)]]
  <2>2. o' = o /\ \A r \in Slot : o[t][r] = Outcome(t, r)
    BY <2>1 DEF Outcome
  <2>3. NotBegun(t) => \A r \in Slot : o[t][r] = "pending"
    BY <2>2 DEF NotBegun, Outcome
  <2>4. Concluded(t) => /\ \A r \in Slot : o[t][r] # "pending"
                        /\ SomeFailed(t) <=> \E r \in Slot : o[t][r] = "failed"
    BY <2>2 DEF Concluded, Outcome, SomeFailed, Failed
  <2>5. CASE answer' = answer
    BY <2>1, <2>2, <2>5 DEF Promise!vars, Outcome
  <2>6. CASE /\ \E a \in {"blank", "err"} : answer' = [answer EXCEPT ![t] = a]
             /\ NotBegun(t) /\ answer[t] = "none"
    <3>1. Promise!Refuse(t)
      BY <2>2, <2>3, <2>6 DEF Promise!Refuse, Outcome
    <3> QED
      BY <2>1, <3>1
  <2>7. CASE /\ answer' = [answer EXCEPT ![t] = IF SomeFailed(t) THEN "err" ELSE "records"]
             /\ Concluded(t) /\ answer[t] = "none"
    <3>1. Promise!Answer(t)
      BY <2>2, <2>4, <2>7 DEF Promise!Answer, Outcome
    <3> QED
      BY <2>1, <3>1
  <2> QED
    BY <2>1, <2>5, <2>6, <2>7
<1>5. CASE UNCHANGED vars
  <2>1. /\ UNCHANGED <<step, worker, wholeRecord, answer, ErrorFlag>>
    BY <1>5 DEF vars
  <2>2. \A u \in Test : Course(u)'
    BY <2>1, CourseKept DEF SerialInv
  <2>3. SerialInv'
    BY <2>1, <2>2 DEF SerialInv, Running
  <2>4. \A u \in Test, s \in Slot : Outcome(u, s)' = Outcome(u, s)
    BY <2>1 DEF Outcome
  <2> QED
    BY <2>1, <2>3, <2>4, OutcomeSame
<1> QED
  BY <1>1, <1>2, <1>3, <1>4, <1>5
     DEF Next, MluWorker, H8Worker, SocketWorker, Coordinate, ReaderMoves, Promise!Next

LEMMA InitSerial == Init => SerialInv /\ Promise!Init
<1> SUFFICES ASSUME Init PROVE SerialInv /\ Promise!Init
  OBVIOUS
<1>1. Running = {} /\ ErrorFlag = FALSE
  BY DEF Init, Running
<1>2. ASSUME NEW t \in Test PROVE Course(t)
  BY DEF Init, Course, NotBegun
<1>3. Promise!Init
  BY DEF Init, Promise!Init
<1> QED
  BY <1>1, <1>2, <1>3 DEF SerialInv

(* Tests that do not overlap: every answer is the promised one, for any     *)
(* number of devices and however they fail.                                 *)
THEOREM TestKeepsItsPromise ==
    ASSUME MaxTests = 1
    PROVE  Spec => ImplementsPromise
<1>1. IInv /\ IInv' /\ SerialInv /\ [Next]_vars => SerialInv'
  BY StepIsPromised
<1>2. IInv /\ IInv' /\ SerialInv /\ [Next]_vars => [Promise!Next]_(Promise!vars)
  BY StepIsPromised
<1> QED
  BY <1>1, <1>2, InitSerial, InductiveInvariant, PTL
     DEF Spec, ImplementsPromise, Promise!Spec

(* ... and the table is complete: with tests that overlap it need not be.   *)
THEOREM TableCompleteAlone ==
    ASSUME MaxTests = 1
    PROVE  Spec => []TableIsComplete
<1>1. IInv /\ IInv' /\ SerialInv /\ [Next]_vars => SerialInv'
  BY StepIsPromised
<1>2. Init => SerialInv
  BY InitSerial
<1>3. SerialInv => TableIsComplete
  BY DEF SerialInv, Course, SomeFailed, TableIsComplete
<1> QED
  BY <1>1, <1>2, <1>3, InductiveInvariant, PTL DEF Spec
=============================================================================
