------------------------------ MODULE TestRun ------------------------------
(***************************************************************************)
(* A performance test in the web server: ApplyForTest of User.go and the   *)
(* handler behind it in main.go.  For every device of the user it starts   *)
(* one goroutine (a worker) that talks to the device, next to goroutines   *)
(* that read the power consumption over and over (the readers).  A worker  *)
(* reports on the unbuffered channel ch, in the end or in its recover; the *)
(* coordinator counts the reports, stops the readers one after the other   *)
(* over ch0..ch3, closes ch and answers.  A reader that panics waits for   *)
(* its token in its recover: one that panics because of its token waits    *)
(* for ever.                                                               *)
(*                                                                         *)
(* ErrorFlag is a global of the process: all tests share it.               *)
(***************************************************************************)
EXTENDS Integers, FiniteSets

CONSTANTS Test,         \* the requests, over the life of the process
          Slot,         \* positions in the list of the user's devices
          H8,           \* those of the 1H8 devices (1h8_2-1 .. 1h8_4-2)
          Core2,        \* the two-core ones among these (1h8_2-1, 1h8_2-2)
          Mlu,          \* those of the MLU devices (mlu100-1, mlu100-2)
          NumReaders,   \* power readers of a test: 4 in the code
          Serial,       \* those that read a serial port (0 and 1 in the code);
                        \* the others dial an MLU device for each reading
          MaxTests      \* bound: how many tests may run at the same time

ASSUME TestRunAssumption ==
    /\ IsFiniteSet(Slot) /\ Slot # {}
    /\ Core2 \subseteq H8 /\ H8 \subseteq Slot
    /\ Mlu \subseteq Slot \ H8
    /\ NumReaders \in Nat \ {0}
    /\ Serial \subseteq 0 .. NumReaders - 1
    /\ MaxTests \in Nat

Reader == 0 .. NumReaders - 1
Model == {"1", "2", "3", "4"}

VARIABLES
    up,          \* the server process runs
    ErrorFlag,   \* set by every recover, reset by the handler in main.go
    step,        \* where the request's own goroutine is
    model,       \* kindOfModel
    left,        \* countDevice: reports still to come
    token,       \* the reader the coordinator stops next
    worker,      \* where the goroutine of each device is
    wholeRecord, \* what each worker has put into its slot
    reader,      \* where each power reader is
    closed,      \* ch is closed
    answer       \* what the page was sent

request == <<up, ErrorFlag, step, model, left, token, answer>>
vars == <<up, ErrorFlag, step, model, left, token, worker, wholeRecord,
          reader, closed, answer>>

TypeOK ==
    /\ up \in BOOLEAN
    /\ ErrorFlag \in BOOLEAN
    /\ step \in [Test -> {"idle", "join", "stop", "check", "next", "reset", "done"}]
    /\ model \in [Test -> Model]
    /\ left \in [Test -> 0 .. Cardinality(Slot)]
    /\ token \in [Test -> Reader \union {NumReaders}]
    /\ worker \in [Test -> [Slot -> {"off", "work", "send", "over"}]]
    /\ wholeRecord \in [Test -> [Slot -> {"empty", "record", "unsupported"}]]
    /\ reader \in [Test -> [Reader -> {"off", "open", "select", "noport", "io",
                                       "recover", "leaked", "over"}]]
    /\ closed \in [Test -> BOOLEAN]
    /\ answer \in [Test -> {"none", "records", "err", "blank"}]

Init ==
    /\ up = TRUE
    /\ ErrorFlag = FALSE
    /\ step = [t \in Test |-> "idle"]
    /\ model = [t \in Test |-> "1"]
    /\ left = [t \in Test |-> 0]
    /\ token = [t \in Test |-> 0]
    /\ worker = [t \in Test |-> [s \in Slot |-> "off"]]
    /\ wholeRecord = [t \in Test |-> [s \in Slot |-> "empty"]]
    /\ reader = [t \in Test |-> [k \in Reader |-> "off"]]
    /\ closed = [t \in Test |-> FALSE]
    /\ answer = [t \in Test |-> "none"]

Running == {t \in Test : step[t] \notin {"idle", "done"}}

(* Room for one more test at the same time (the server sets no such limit). *)
Admitted(t) == up /\ step[t] = "idle" /\ Cardinality(Running) < MaxTests

Supported(t, s) == ~ (s \in Core2 /\ model[t] \in {"3", "4"})

UsesHttp(t, s) == s \in Mlu /\ model[t] = "1"

(* Where a new reader is: one of a serial port has to open it first.        *)
StartOfReader(k) == IF k \in Serial THEN "open" ELSE "select"

(* The coordinator is blocked sending the stop token to reader k.           *)
Stopping(t, k) == step[t] = "stop" /\ token[t] = k

-----------------------------------------------------------------------------
(* The request is turned away before any goroutine starts: body that is not *)
(* JSON, no session, no device.  The handler returns without Abort, so the  *)
(* next one runs.                                                           *)
Reject(t) ==
    /\ Admitted(t)
    /\ step' = [step EXCEPT ![t] = "next"]
    /\ UNCHANGED <<up, ErrorFlag, model, left, token, worker, wholeRecord,
                   reader, closed, answer>>

(* The handler panics before any goroutine starts; its recover only sets    *)
(* the flag.                                                                *)
Panic(t) ==
    /\ Admitted(t)
    /\ ErrorFlag' = TRUE
    /\ step' = [step EXCEPT ![t] = "next"]
    /\ UNCHANGED <<up, model, left, token, worker, wholeRecord, reader,
                   closed, answer>>

(* Faulty start: countDevice is not set.                                    *)
Fork_NoCount(t, m) ==
    /\ Admitted(t)
    /\ model' = [model EXCEPT ![t] = m]
    /\ worker' = [worker EXCEPT ![t] = [s \in Slot |-> "work"]]
    /\ reader' = [reader EXCEPT ![t] = [k \in Reader |-> StartOfReader(k)]]
    /\ step' = [step EXCEPT ![t] = "join"]
    /\ UNCHANGED <<up, ErrorFlag, left, token, wholeRecord, closed, answer>>

(* Faulty start: one report too few is awaited.                             *)
Fork_OneTooFew(t, m) ==
    /\ Admitted(t)
    /\ model' = [model EXCEPT ![t] = m]
    /\ left' = [left EXCEPT ![t] = Cardinality(Slot) - 1]
    /\ worker' = [worker EXCEPT ![t] = [s \in Slot |-> "work"]]
    /\ reader' = [reader EXCEPT ![t] = [k \in Reader |-> StartOfReader(k)]]
    /\ step' = [step EXCEPT ![t] = "join"]
    /\ UNCHANGED <<up, ErrorFlag, token, wholeRecord, closed, answer>>

(* The handler starts the readers and one worker per device.                *)
Fork(t, m) ==
    /\ Admitted(t)
    /\ model' = [model EXCEPT ![t] = m]
    /\ left' = [left EXCEPT ![t] = Cardinality(Slot)]
    /\ worker' = [worker EXCEPT ![t] = [s \in Slot |-> "work"]]
    /\ reader' = [reader EXCEPT ![t] = [k \in Reader |-> StartOfReader(k)]]
    /\ step' = [step EXCEPT ![t] = "join"]
    /\ UNCHANGED <<up, ErrorFlag, token, wholeRecord, closed, answer>>

-----------------------------------------------------------------------------
(* A two-core 1H8 cannot run every model: there is only a remark for its    *)
(* slot.                                                                    *)
Remark(t, s) ==
    /\ up
    /\ worker[t][s] = "work"
    /\ ~ Supported(t, s)
    /\ worker' = [worker EXCEPT ![t][s] = "send"]
    /\ wholeRecord' = [wholeRecord EXCEPT ![t][s] = "unsupported"]
    /\ UNCHANGED <<request, reader, closed>>

(* A worker is through with its device: the record is in the database and   *)
(* in its slot.                                                             *)
Finish(t, s) ==
    /\ up
    /\ worker[t][s] = "work"
    /\ worker' = [worker EXCEPT ![t][s] = "send"]
    /\ wholeRecord' = [wholeRecord EXCEPT ![t][s] = "record"]
    /\ UNCHANGED <<request, reader, closed>>

(* Faulty recover: the flag is not raised.                                  *)
Fail_Silent(t, s) ==
    /\ up
    /\ worker[t][s] = "work"
    /\ worker' = [worker EXCEPT ![t][s] = "send"]
    /\ UNCHANGED <<request, wholeRecord, reader, closed>>

(* A worker panics on a device it cannot reach or that answers badly.  Its  *)
(* recover raises the flag and reports like the others.                     *)
Fail(t, s) ==
    /\ up
    /\ worker[t][s] = "work"
    /\ ErrorFlag' = TRUE
    /\ worker' = [worker EXCEPT ![t][s] = "send"]
    /\ UNCHANGED <<up, step, model, left, token, wholeRecord, reader, closed,
                   answer>>

(* The reply of an MLU device is not JSON: log.Fatalln ends the process.    *)
Fatal(t, s) ==
    /\ up
    /\ worker[t][s] = "work"
    /\ up' = FALSE
    /\ UNCHANGED <<ErrorFlag, step, model, left, token, worker, wholeRecord,
                   reader, closed, answer>>

(* What a worker does depends on its device: an MLU with model 1 is asked   *)
(* over HTTP, picture by picture; ...                                       *)
MluWorker(t, s) ==
    /\ UsesHttp(t, s)
    /\ Finish(t, s) \/ Fail(t, s) \/ Fatal(t, s)

(* ... a 1H8 sends its results once it is connected (PictureDispatch);      *)
(* what cannot be read counts as zero, only a failed dial panics; ...       *)
H8Worker(t, s) ==
    /\ s \in H8 /\ Supported(t, s)
    /\ Finish(t, s) \/ Fail(t, s)

(* ... any other device gets all pictures, then returns the results.        *)
SocketWorker(t, s) ==
    /\ s \notin H8 /\ ~ UsesHttp(t, s)
    /\ Finish(t, s) \/ Fail(t, s)

(* The serial port is opened; when that fails the reader only prints, and   *)
(* goes on with a port that is nil.                                         *)
OpenPort(t, k) ==
    /\ up
    /\ reader[t][k] = "open"
    /\ \E r \in {"select", "noport"} : reader' = [reader EXCEPT ![t][k] = r]
    /\ UNCHANGED <<request, worker, wholeRecord, closed>>

(* A reader polls its channel (the default case of its select, taken when   *)
(* nobody is sending), and goes to read the power.                          *)
Poll(t, k) ==
    /\ up
    /\ reader[t][k] = "select"
    /\ ~ Stopping(t, k)
    /\ reader' = [reader EXCEPT ![t][k] = "io"]
    /\ UNCHANGED <<request, worker, wholeRecord, closed>>

(* The same with a nil port: the read panics, the deferred Close of the     *)
(* port too, and the recover waits for the stop token.                      *)
PollNil(t, k) ==
    /\ up
    /\ reader[t][k] = "noport"
    /\ ~ Stopping(t, k)
    /\ reader' = [reader EXCEPT ![t][k] = "recover"]
    /\ UNCHANGED <<request, worker, wholeRecord, closed>>

(* The power was read, or the read gave an error: back to the select.       *)
PowerRead(t, k) ==
    /\ up
    /\ reader[t][k] = "io"
    /\ reader' = [reader EXCEPT ![t][k] = "select"]
    /\ UNCHANGED <<request, worker, wholeRecord, closed>>

(* Faulty recover of a reader: it does not wait for its token.              *)
PowerPanic_Leaves(t, k) ==
    /\ up
    /\ k \notin Serial
    /\ reader[t][k] = "io"
    /\ reader' = [reader EXCEPT ![t][k] = "over"]
    /\ UNCHANGED <<request, worker, wholeRecord, closed>>

(* An MLU device cannot be dialled: the nil connection panics, and the      *)
(* recover waits for the stop token.                                        *)
PowerPanic(t, k) ==
    /\ up
    /\ k \notin Serial
    /\ reader[t][k] = "io"
    /\ reader' = [reader EXCEPT ![t][k] = "recover"]
    /\ UNCHANGED <<request, worker, wholeRecord, closed>>

-----------------------------------------------------------------------------
(* The coordinator receives a report; after the last one it turns to the    *)
(* readers.                                                                 *)
Join(t, s) ==
    /\ up
    /\ step[t] = "join"
    /\ worker[t][s] = "send"
    /\ worker' = [worker EXCEPT ![t][s] = "over"]
    /\ left' = [left EXCEPT ![t] = @ - 1]
    /\ step' = [step EXCEPT ![t] = IF left'[t] = 0 THEN "stop" ELSE @]
    /\ UNCHANGED <<up, ErrorFlag, model, token, wholeRecord, reader, closed,
                   answer>>

(* A reader that the coordinator can send to.                               *)
Receives(t, k) == reader[t][k] \in {"select", "noport", "recover"}

(* Where the token leaves a reader: its goroutine ends, but one that takes  *)
(* it in the select with a nil port returns, panics in the deferred Close   *)
(* of the port, and its recover waits for a second token for ever.          *)
AfterToken(t, k) == IF reader[t][k] = "noport" THEN "leaked" ELSE "over"

(* Faulty stop: ch is closed before the last reader has its token.          *)
Stop_ClosesEarly(t, k) ==
    /\ up
    /\ Stopping(t, k) /\ Receives(t, k)
    /\ reader' = [reader EXCEPT ![t][k] = AfterToken(t, k)]
    /\ token' = [token EXCEPT ![t] = @ + 1]
    /\ step' = [step EXCEPT ![t] = IF token'[t] = NumReaders THEN "check" ELSE @]
    /\ closed' = [closed EXCEPT ![t] = (token'[t] >= NumReaders - 1)]
    /\ UNCHANGED <<up, ErrorFlag, model, left, worker, wholeRecord, answer>>

(* The token reaches reader k, in its select or in its recover; after the   *)
(* last reader ch is closed, which ends the loop over ch.                   *)
Stop(t, k) ==
    /\ up
    /\ Stopping(t, k) /\ Receives(t, k)
    /\ reader' = [reader EXCEPT ![t][k] = AfterToken(t, k)]
    /\ token' = [token EXCEPT ![t] = @ + 1]
    /\ step' = [step EXCEPT ![t] = IF token'[t] = NumReaders THEN "check" ELSE @]
    /\ closed' = [closed EXCEPT ![t] = (token'[t] = NumReaders)]
    /\ UNCHANGED <<up, ErrorFlag, model, left, worker, wholeRecord, answer>>

(* The flag decides: the table of results now, or the next handler.         *)
Check(t) ==
    /\ up
    /\ step[t] = "check"
    /\ \/ ErrorFlag /\ step' = [step EXCEPT ![t] = "next"] /\ UNCHANGED answer
       \/ /\ ~ ErrorFlag
          /\ step' = [step EXCEPT ![t] = "done"]
          /\ answer' = [answer EXCEPT ![t] = "records"]
    /\ UNCHANGED <<up, ErrorFlag, model, left, token, worker, wholeRecord,
                   reader, closed>>

(* main.go: the handler behind ApplyForTest looks at the flag again ...     *)
NextHandler(t) ==
    /\ up
    /\ step[t] = "next"
    /\ \/ ErrorFlag /\ step' = [step EXCEPT ![t] = "reset"] /\ UNCHANGED answer
       \/ /\ ~ ErrorFlag
          /\ step' = [step EXCEPT ![t] = "done"]
          /\ answer' = [answer EXCEPT ![t] = "blank"]
    /\ UNCHANGED <<up, ErrorFlag, model, left, token, worker, wholeRecord,
                   reader, closed>>

(* ... and when it was set, resets it and answers "err".                    *)
ResetFlag(t) ==
    /\ up
    /\ step[t] = "reset"
    /\ ErrorFlag' = FALSE
    /\ step' = [step EXCEPT ![t] = "done"]
    /\ answer' = [answer EXCEPT ![t] = "err"]
    /\ UNCHANGED <<up, model, left, token, worker, wholeRecord, reader, closed>>

Coordinate(t) ==
    \/ \E s \in Slot : Join(t, s)
    \/ \E k \in Reader : Stop(t, k)
    \/ Check(t) \/ NextHandler(t) \/ ResetFlag(t)

Next ==
    \E t \in Test :
        \/ Reject(t) \/ Panic(t) \/ \E m \in Model : Fork(t, m)
        \/ \E s \in Slot : \/ Remark(t, s) \/ MluWorker(t, s)
                            \/ H8Worker(t, s) \/ SocketWorker(t, s)
        \/ \E k \in Reader : \/ OpenPort(t, k) \/ Poll(t, k) \/ PollNil(t, k)
                              \/ PowerRead(t, k) \/ PowerPanic(t, k)
        \/ Coordinate(t)

Spec == Init /\ [][Next]_vars

(***************************************************************************)
(* The runtime schedules every goroutine that can go on.  Nothing is       *)
(* assumed of the devices: no deadline is set on their connections, so a   *)
(* worker may stay in "work" and a reader in "open" or "io" for ever.      *)
(***************************************************************************)
Fairness ==
    \A t \in Test : /\ WF_vars(Coordinate(t))
                    /\ \A k \in Reader : WF_vars(Poll(t, k) \/ PollNil(t, k))

FairSpec == Spec /\ Fairness

-----------------------------------------------------------------------------
Failed(t, s) == worker[t][s] \in {"send", "over"} /\ wholeRecord[t][s] = "empty"

(* Where a reader is that has had its token; there is one for each.         *)
HadToken == {"leaked", "over"}

(* Nobody sends on ch after it was closed (a Go process dies of that): at   *)
(* the close every worker has reported.  Every reader has had the token     *)
(* made for it (User.go:1305-1316), so none can take a reading any more,    *)
(* and those of the MLU devices have ended.  What may outlive the answer is *)
(* a serial reader whose port did not open (User.go:311-324).               *)
ClosedIsQuiet ==
    \A t \in Test : closed[t] =>
        /\ \A s \in Slot : worker[t][s] = "over"
        /\ \A k \in Reader : reader[t][k] \in HadToken
        /\ \A k \in Reader \ Serial : reader[t][k] = "over"

(* countDevice is what keeps the coordinator from stopping early or waiting *)
(* for a report too many: it is the number of reports still to come.        *)
EveryReportCounted ==
    \A t \in Test : step[t] = "join" =>
        /\ left[t] = Cardinality({s \in Slot : worker[t][s] # "over"})
        /\ left[t] > 0

(* The page gets the table only when every device has put something in its  *)
(* slot.  With overlapping tests another test may have consumed the flag.   *)
TableIsComplete ==
    \A t \in Test : answer[t] = "records" => \A s \in Slot : ~ Failed(t, s)

(* If the devices let go of the goroutines (each worker comes back, no      *)
(* reader stays in a read for ever), each test that is started is answered, *)
(* unless the process is ended: the coordinator waits for no report that    *)
(* does not come and for no reader that is gone, also when ports and        *)
(* connections do not open.                                                 *)
DevicesRespond ==
    \A t \in Test : /\ \A s \in Slot : []<>(worker[t][s] # "work")
                    /\ \A k \in Reader : []<>(reader[t][k] \notin {"open", "io"})

TestsAreAnswered ==
    DevicesRespond =>
        \A t \in Test : (step[t] # "idle") ~> (answer[t] # "none" \/ ~ up)

-----------------------------------------------------------------------------
(* One test at a time, the outcome the page sees is the promised one.       *)
Promise == INSTANCE TestOutcome WITH
    outcome <- [t \in Test |-> [s \in Slot |->
                  IF worker[t][s] \in {"off", "work"} THEN "pending"
                  ELSE IF wholeRecord[t][s] = "empty" THEN "failed"
                  ELSE "result"]]

ImplementsPromise == Promise!Spec
=============================================================================
