# Verification of the intelligent reasoning platform

TLA+ models of the platform's concurrent core and of its web pages, the TLC runs
that check them and TLAPS proofs of what matters most about them. Source references are relative to
the repository root (`src/` in PROJECT.json's map). Comments and messages in the
source are in Chinese; they are quoted with a translation where a property
rests on them.

## 1. The system

A user tests inference models on a rack of embedded machines through a web
page, and sees times, power and the pictures with the detections drawn in.

| Part | Code | State | Operations |
|---|---|---|---|
| Web server | `intelligent_reasoning_system` (Go, gin, gorm) | globals `user`, `ErrorFlag`, `PowerFlag`, `LoginFlag`, the picture maps; MySQL tables users, device, userdevice, record, imgRecord, imageToRecord; sessions in a cookie | login, apply for / remove / list devices, apply for a test, record queries |
| 1H8 processing system, "PS" | `1H8/1H8-PS` (C++) | picture lists, shared memory `sm_msg` (flags, ring of results, states), per agency: link, heartbeat, last picture's number; `clientFd`, `flagGet` | server loop, loader thread, per agency `DataDeal` and `AcceptData` threads; mode switch and reinforcement (not instantiated) |
| Board, "Manager" | `1H8/1H8-Manager` (C++) | the link to its agency | supervisor that forks the process again when it ends; `ImageManage`: ask, detect, return |
| Detection | `1H8/ssd_test/src` (C++) | none | run the network (vendor), decode boxes, non-maximum suppression |
| MLU power service | `readPower/main.c` | none | accept, read the driver, send 4 bytes |
| Web pages | `intelligent_web/*.html`, driven by `js/bootstrap` | slides, dialogs, panels, the date and the rows of the record list; timers, transitions and requests under way | slide show of the start page; waiting dialog, details of a row and accordion of the performance page; questions and list of the record page |

How they interact. A test (`POST /user/applyTest`) starts one goroutine per
device of the user. For an MLU it talks HTTP, for most devices it sends all
pictures over TCP and reads results, for a 1H8 it only connects to the PS and
reads results. The PS's server loop accepts the connection, points all
agencies' `clientFd` to it and starts a loader, which pushes a picture into
the list the agencies pop from. A board polls its agency for a picture, detects,
returns the result; the agency sends it to `clientFd` and appends it to the ring
in shared memory, which a telemetry process (not in the repository) empties.
Next to the workers four goroutines read power meters during a test. The page
that asked shows a static dialog until the answer has come, which is all that
keeps one page to one test at a time.

What is hard here: four agency threads and a loader on one queue with one
condition variable; a ring that is updated in three critical sections; a counter
and a descriptor shared by threads without a lock; process restarts in the
middle of an exchange; goroutines that report, panic and are stopped over
unbuffered channels; globals shared by all requests; pages on which clicks,
answers and the ends of transitions come in any order. `PROJECT.json` lists these
under "hazards", each at its line, with the property that watches over it.

What makes each part correct:

- picture list: first in first out, each picture to one taker, loaders held back
  at the limit, no thread left asleep when it could go on;
- ring: holds exactly the results appended and not removed, in order;
- dispatch: a picture is in one place at a time, its result goes out under its
  number, on its connection, before the connection is closed;
- test: every report and every stop token is accounted for, the channel is closed when
  nobody can send, every started test is answered, and with "err" exactly if a device failed;
- login and devices: a request acts for the user who sent it; no device twice;
- batch numbers: records of one test share a number no other test has;
- slides: dots and slides agree, no choice is lost, the ride goes on;
- dialogs and panels: a user is never locked out of the page, nothing is left
  over, at most one panel is open and the headings say which;
- record list: it shows the day of the latest question that was answered.

## 2. The modules

| Module | What it is |
|---|---|
| `PictureFifo` | abstract list: Enqueue (and be held back), Release, Deliver, Show, Discard |
| `BlockingQueue` | `blocking_queue.cpp` step by step; implements `PictureFifo` |
| `BlockingQueueProofs` | theorems about it |
| `ResultRing` | the ring of results in shared memory |
| `ResultRingProofs` | theorems about it |
| `PictureDispatch` | server loop, loader, agencies, boards, restarts; its list is an INSTANCE of `PictureFifo` |
| `PictureDispatchProofs` | theorems about it |
| `TestOutcome` | abstract promise of a test to the page |
| `TestRun` | `ApplyForTest` and the handler behind it; implements `TestOutcome` when tests do not overlap |
| `TestRunProofs` | theorems about it, and that it keeps the promise |
| `WebSession` | login, registration, applying for, removing and listing devices, over the one `user` and LoginFlag |
| `WebSessionProofs` | theorems about it |
| `BatchNumbers` | the number that says which records are of one test |
| `BatchNumbersProofs` | theorems about it |
| `Transitions` | waiting for the end of a CSS transition, by event or timer |
| `Carousel` | the slides of the start page |
| `CarouselProofs` | theorems about it |
| `Modal` | dialogs: show, hide, backdrops, the lock of the page, the focus |
| `Collapse` | the panels of the performance page |
| `PerformancePage` | dialogs, panels and requests of the page that starts tests |
| `ScrollSpy` | the plugin on the list of the record page |
| `RecordPage` | the date, the questions and answers of the record page, over that list |
| `WebPages` | the three pages, of which a visitor has one open |
| `WebPagesProofs` | theorems about the performance page and the record page |
| `MC*` | the specifications with symmetry sets for TLC |

Composition: `BlockingQueue` implements `PictureFifo`, and `PictureDispatch` is
built on `PictureFifo`; so the agencies can be checked without the queue's
internal steps. `PerformancePage` is composed of `Modal` and `Collapse`, both on
`Transitions`, `RecordPage` stands on `ScrollSpy`, and `WebPages` is composed of
`Carousel`, `PerformancePage` and `RecordPage`.
`TestAnswered` and `TestFails` of a page are what `TestRun` says of its request.
Operators named `Action_Something` are faulty variants of
`Action`, kept to show that the properties notice such a change.

### BlockingQueue

One step is what a thread does under the mutex from an acquisition to the next
release or wait. `waiting` are the threads inside `condition_.wait`;
`notify_all` empties it, and a thread that left takes its `Retry` step when it
gets the mutex. `Push` adds and perhaps waits (49-55), `PushNotify` is the
notification after the unlock (57-59), `Pop` notifies first and then takes or
waits (77-91), `TryPop` notifies nobody (63-73), `Clear` empties and notifies
(125-135). `SpuriousWake` is what Boost permits.

### ResultRing

`ReadIndices`, `Fill` and `Advance` are the three critical sections of
`DataDeal` (262-266, 275-300, 336-338); `rearRead` is the local `rear` that
travels between them. `Remove` is external: the comments at task_def.h:42-43 say
how the reader has to use the indices. `Restart`: the segment survives the
process, and `main` does not reset buf[8], buf[9]. `pending`, `overflowed`,
`raced`, `last` are history.

### PictureDispatch

`Accept` (server loop), `Load` / `LoaderGoesOn` (loader in `push`), per agency
`ReadHeader` ... `CloseClient` (`DataDeal`), per board `Ask`, `ReceiveAnswer`,
`Detect` (`ImageManage`), `Die` (supervisor) and `Reconnect` (connect and
`AcceptData`). `flagGet++` is two steps, since four threads share it without a
lock. The link is two sequences of messages; when the board dies what was on its
way to it is gone, what it sent can be read until `AcceptData` replaces the
socket. `owner` is the kernel's descriptor table, so that a descriptor closed by
one agency can be given to the next connection while another agency holds it.
A result's label (`number`) and the picture it really is of are kept apart in
`got`. `Holder` names everything a picture can be in between the loader and the
web server, `Held` what each has, and `Places` of a picture the positions at
which it is found.

### TestRun

One request: `Reject` / `Panic` (before any goroutine), `Fork`, the workers
(`Remark` for an unsupported model, `MluWorker`, `H8Worker`, `SocketWorker`,
each ending in `Finish`, `Fail` or, for an MLU, `Fatal`), the readers
(`OpenPort`, `Poll`, `PollNil`, `PowerRead`, `PowerPanic`), the coordinator (`Join`,
`Stop`) and the answer (`Check`, `NextHandler`, `ResetFlag`). A goroutine blocked on an unbuffered
channel is in "send" or, for a reader in its recover, in "recover"; `Join` and
`Stop` are the rendezvous. The default case of a reader's select is taken only
when nobody is sending to it, as the language says. `NextHandler` and
`ResetFlag` are separate steps: between the test and the reset of the flag
another request may run.

`Serial` are the readers that go through a serial port (`readPower`); the others ask
an MLU device. When its port does not open, a serial reader goes on with a nil port
(User.go:320-323): "noport". If the first turn of its select is the default case, the
read panics, then the deferred `port.Close()` (324), and the recover waits for the
token (`PollNil`). If the token is there first, the reader returns, the deferred call
panics all the same, and the recover waits for a second token (314), which nobody
sends: the goroutine is "leaked" (`AfterToken`). That holds up nobody, and no line of
the repository says that the goroutine ends. An MLU device that cannot be dialled
panics inside the select, and its recover is given the token (`PowerPanic`).

### WebSession

A request slot `r` is a goroutine of gin at `step[r]`: each access to the
database, to `user` or to LoginFlag is a step of its own, since all requests
share them. `Send` takes the browser's cookie with the request (`jar`), and
`LoginIn` sends back this cookie with one more name. `Accept` and `Refuse` are
the two outcomes of the session check; after a refusal the next handler runs
anyway, because a handler that returns does not end gin's chain. `NameReads` is
what a reader of `user.Username` can get while a login assigns it: Go assigns
the two words of a string without a lock, so the old name, the new one, or a
text that is neither (`NoOne`). The two reads of the session check are in one
step, with a value each. The database and the cookies outlive the server, hence
the many initial states. Bodies that do not parse and devices that do not exist
change nothing and are left out.

### BatchNumbers

`overlapped` is history: a test was started while another ran, or in a second in
which a record's worker began. `StartTest` reads the last record and takes a number (searchLastBatchNum), each
device's worker reads the clock when it begins and inserts its record when it
ends, or ends without one. `Precedes` is the order of the primary key, a text of
time and device name; `SameId` its uniqueness: the database refuses a second row
and nobody looks at the error. The clock never goes back (a premise: the order
of the texts is that of the time). A device is in a test once, which is what
`AppliedOnce` of `WebSession` is about.

### The pages

JavaScript runs one handler at a time, so a step is one turn of the browser's
event loop: a click, a key, an answer, a timer, the end of a transition. One end
calls all handlers that wait on the element, in the order they were added;
where they can tell (`jobs` of `Modal`, `todo` of `Carousel`) these are steps that
nothing else comes between. The pages load `bootstrap.min.js` 3.3.7; the lines
named are those of the readable 3.3.6 beside it, which has the same logic.

- `Transitions`: `one('bsTransitionEnd', h).emulateTransitionEnd(n)`. The timers
  count in units of 150 ms. `Tick` passes a unit only when no timer is due, so a
  shorter wait is never overtaken by a longer one begun before it, and two in one
  unit end in any order.
- `Carousel`: `Slide`, `Step` (next and prev), `To`, `Cycle` are the methods;
  `Load`, `Arrow`, `Choose` make the object if there is none, each with other
  options; `RideTick` is the interval, `SlideEnds` the end of the transition,
  `Slid` the timeout of 0 that triggers "slid", `CallNext` one of the choices that
  waited for it.
- `Modal`: `Show` and `Hide` are the calls; `ShowDialog`, `HideModal`, `Remove`,
  `UnlockUnder` the handlers that run later; `CloseButton`, `ClickBeside`,
  `Escape` the user's ways to close. A backdrop the object has forgotten stays on
  the page, hence numbered backdrops. `guard` and `focused` are the focus:
  #myModal has no .modal-dialog, so `show` never gives it the focus.
- `Collapse`: the object of a panel that another one closes is made without a
  parent and forgotten (`data('bs.collapse', null)`); a handler remembers whether
  its object is still the panel's (`own`).
- `PerformancePage`: `StartTest` is `send()`, `AskDetails` `inferDetails()`; an
  answer or a failure comes at any time. `UserActs` says what can be reached: with
  the mouse the page when there is no backdrop, by key also what is below one
  and has the focus.
- `ScrollSpy`: `Process` is the scroll handler, `Scroll` a scroll, `Refill` new rows.
  The page's navigation has no links (record_query.html:114-116), so the run has
  `NumLinks = 0`: nothing is ever marked, and what the plugin keeps is the height of
  the list. The links are a parameter of the plugin that no page uses.
- `RecordPage`: `GetData` is `get_data()`, a question for the records of the date in the
  field; `ChangeDate` changes the field, at any time. Questions are numbered; the
  answers and failures come in any order (`Answered`, `QuestionFails`). What the
  server does (`ApplyforRecord`) is `RowsOf`: the rows of a day, none for an empty
  date. `newest` and `overtaken` are history.

## 3. The runs

| Run | Question | Result |
|---|---|---|
| `queue_safety` | all calls by several threads | holds: limit overstepped only by blocked loaders, no popper sleeps on a picture, implements the list |
| `queue_progress` | one loader, agencies not more than the limit | holds: a sleeping loader has a picture that will wake it, poppers and loader go on |
| `ring_sections` | two agencies, telemetry, restarts | holds until the first overflow or the first race: contents are what is pending; until the first race each removal gives a newer result than the one before, so none twice |
| `ring_overflow` | one agency, full ring | violated: the ring is overwritten and looks empty (finding) |
| `ring_race` | two agencies | violated: the rear stays or goes back (finding) |
| `test_sequential` | tests one after the other | holds: table exactly when all devices delivered, reports counted, channel closed only when every worker has reported and every reader has had its token, implements the promise; under fairness, every test is answered |
| `test_shared_flag` | two at a time, the flag | violated: a table with an empty row for the failed device (finding) |
| `dispatch_safety` | overlapping connections, boards die | holds: one place per picture, numbers right on boards that did not die |
| `dispatch_delivery` | one connection at a time | holds: own results, before the close, always |
| `web_sessions` | requests one at a time, then two at a time | holds: one at a time, rows are inserted once, handlers act for the user of the request's browser, answers fit; at any time LoginFlag is up only while it is about to be lowered |
| `batch_numbers` | three tests, overlapping or not | holds: if none overlapped a number is one test's, the results page starts with the last test, no record is refused; at any time numbers without a gap |
| `web_pages` | a visitor who acts at any moment | holds: slides, dots and choices agree, the ride goes on; a user who waits is never locked out, finds one panel open, right headings and nothing left over, and gets the page back after a test; with the mouse one test at a time; the record list shows the day of the latest question answered |

### Bounds, and why they are enough

- Queue: limit 2 (5 in the code), two loaders, two agencies, one thread for each
  call the program does not use. No bound on the length is needed. The relation
  that matters is poppers against limit: with three poppers and a limit of two
  the loader can be left asleep beside an empty list, so that the code depends on
  four agencies being no more than five; `SleepingPusherHasPicture` has this as
  its premise, and is proved for all numbers that meet it.
- Ring: 3 slots and 6 results: it wraps twice and can overflow. The steps depend
  on the slots only through the successor modulo the size.
- Test: two requests (a flag can only be taken by another one), two devices of
  different kinds, two readers (the first and the last are different; four in the
  code), the first of a serial port and the second of an MLU device (two of each in
  the code); one where the shared flag is the question.
- Dispatch: two boards, a list of limit 1, connections that reach `FlagLimit` = 2
  (6) once or twice, one death per board. `MaxWaiting`: connections that wait at
  a time; 2 lets results cross. `Overlap`: whether a connection may come in
  between the send of a result and the close that follows it.
- Web: two browsers and users, so that `user` can be another browser's, and two
  requests in progress. Requests that come one at a time are unbounded (the
  tables stay small because the rows do). `MaxLate` = 3 requests after the first
  overlap: the one that overlaps and two that find what it left behind. The
  theorems cover any number of all of these.
- Pages: `NumItems` = 3 slides (4 on the page): the next, the one before and the
  active one differ. `MaxChoices` = 2 choices wait and `MaxDue` = 2 "slid" events
  are on their way, so that a late one meets a choice of the next slide; the
  theorems cover all three. One dialog of each kind; `MaxRequests` = 2 of a kind
  not answered; `MaxBackdrops` = 3, one more than there are dialogs.
  `MaxHurries` = 1 counts the times the user does not wait, or presses a key below
  a dialog; with 2 the state space is ten times as large, and the same holds. Two
  panels, as on the page. On the record page no links, as it is; two
  days, an empty date and three questions, so that an answer can have an earlier and a
  later one on either side; 0 to 4 rows around a view of 2, so that a list can fit
  the view or exceed it. The theorem covers all numbers of these.
- Batch numbers: three tests, so that one takes its number from records of two;
  two devices, seconds 0 to 2: several readings fall in one second, and each test
  can have its own.

`OneAtATime` (`late = 0`) and `~ overlapped` are the premises of the properties
of these two modules: what happened so far, not a limit on what may happen. They
are needed. When two requests are in progress TLC shows `AppliedOnce` violated
without it: both search for the row (User.go:179), both insert it (183), in spite
of "You have applied the device before!" (181), and a test then runs the device
twice; `RegisteredOnce` likewise (76 and 87). `ActsForOwnUser` fails when a login
comes between the session check and the second read of `user`: the row goes to
the other user. Two tests that start before either has a record take one number.
For the latter two the repository has no line that promises more, and the page's
modal dialog keeps one page, though not two, from it: that is `OneTestAtATime`, and
it holds for the mouse only.

`Patient` (`hurries = 0`) is the premise of the four properties of the performance
page that need it. A user who does not wait can lose the page. TLC shows, without
the premise: a row is clicked and its history panel collapsed before the answer
comes, then the dialog is shown inside the hidden panel, where nothing can close
it, and its backdrop takes every click for good (`UserCanGoOn`); two headings
clicked within 350 ms on a fresh page open both panels (`OneOpenPanel`), and a
heading then tells another state than its panel's (`HeadingsAgree`). And with the
focus on the test button, which keeps it below the dialog, the space bar starts a
second test: the dialog is shown again while it is being hidden, its object takes a
new backdrop and forgets the one before, which stays on the page
(`NothingLeftBehind`). No line of the repository speaks of these, so they are
hazards.

`~ overtaken` is the premise of `ListOfLatestAnswer`: an answer that comes after that to
a later question replaces the rows, and the list then shows the earlier day. TLC finds
this without the premise; nothing on the page tells the answers apart, and no line
promises that they come in order.

`dispatch_delivery` states its premises by `Overlap` and `MaxWaiting`, and needs both.
With `Overlap = TRUE` TLC shows `ServedBeforeClosed` violated: the web server
gets its result, connects again, `main` stores the new descriptor, and the
agency that only now reaches `close(clientFd)` closes the new connection. With
`MaxWaiting = 2` a result reaches the later connection. No line of the
repository promises more, so these are hazards and not findings.
`dispatch_safety` has neither premise, and shows what remains. Its counterpart
to a restart: when a board's process is replaced between the agency's pop and
send, the new process gets that picture and the one it asks for, and the first
result goes out under the second's number; hence the premise `deaths[b] = 0` of
`ResultOfItsPicture`.

### Fairness

- Queue: a thread that is not blocked goes on; an agency pops again while there
  is a picture, because a connected board polls for ever. Nobody has to push, no
  spurious wake-up is owed. `Pop` needs fairness only while the list is not
  empty: `DataDeal` calls it only when `size() > 0`.
- Test: goroutines that can go on do (Go's scheduler). Nothing is assumed of
  devices or power meters, whose connections have no deadline; that they let go
  of the goroutines is a premise in `TestsAreAnswered` (`DevicesRespond`).
- Dispatch: the threads of the PS and the board processes go on; connections and
  deaths are not owed.

- Pages: the browser runs its timers and handlers, a request is answered or
  fails; a visitor owes nothing (`CarouselFairness`, `PageFairness`).

Deadlock is checked in both queue runs and in `dispatch_delivery`. The others
may stop: all requests answered, all results written and removed, or all boards'
agencies gone, the bounds on time or on requests after an overlap used up, a page
whose dialog nobody can close.

## 4. The proofs

All for every value of the constants, under the named assumptions: the queue's
limit is positive and pushers and poppers are finitely many; the ring has two
slots at least; the list, the pictures of a connection and the count that closes it are
positive; the devices are finitely many and not none, there is a reader, the serial ones
are among the readers; `NoOne` is no user; today is a day and the empty date is none;
there is a slide, a panel and a view; the waiting dialog is the static one; the bounds (`Max...`) are numbers.

Four theorems have a premise on the constants. `MaxTests = 1`, for
`TestKeepsItsPromise` and `TableCompleteAlone`: tests one after the other, which is
what the flag they share needs (`test_shared_flag`). `OneAtATime`, for
`ResultsComeOnTheirConnection` and `ConnectionsServedBeforeClosed`: a connection
gets one picture (task_readimg.cpp:51) and the web server connects when the last
result has come and no agency is about to close; these are the values of
`dispatch_delivery`, and each is needed (see the bounds).

- `TypeCorrect`, `TestTypeCorrect`: types. For `TestRun` the range of
  `countDevice` is not inductive by itself and comes from the phases.
- `OvershootBounded`: the length of the list is at most the limit plus the
  blocked loaders. Each step is a matter of cardinalities: a push that oversteps
  adds itself to the blocked ones; a loader that leaves has seen the limit kept.
- `PoppersAreWoken`: a popper sleeps beside a picture only if a loader is about
  to notify. Inductive as it stands, given the types: the only steps that add a
  picture lead to a loader about to notify, or one that waits above the limit,
  and a notification empties `waiting`.
- `SleepingPusherNotLost`: with no more poppers than the limit and no `try_pop`,
  while a loader sleeps there is a picture. The property alone is not inductive:
  pop notifies before it takes, so several poppers that were woken together can
  take one after the other. `SleepingPusherInv` counts them: the list, with the
  poppers that are outside pop, exceeds the limit. A picture that is missing was
  taken by a popper that has left pop since, and the next call of any of these
  begins with a notification. With no more poppers than the limit, not all of
  the pictures can be missing.
- `QueueImplementsFifo`: initial states map to initial states, and each step to
  a step of the list or a stutter, under `held` = loaders in push and `handed` =
  what was returned last.
- `InductiveInvariant` of `TestRun`: `Phase` says for each step of the
  coordinator what `countDevice`, the stop token, the workers, the readers and
  the channel are: a reader the token has passed has had it. `PortsAreSerial` adds
  that only a serial reader ever has a port to open, so that no other can be left.
  `ReportsCounted` and `NobodySendsOnClosed` follow. One lemma
  per group of actions; `PhaseKept` disposes of the tests a step does not touch.
- `WebTypeCorrect`, from `IInv` of `WebSessionProofs`: the types, and that a
  request on its way through a handler is of the kind the handler expects
  (`OfItsKind`), without which `userdevice` would not keep its type.
- `FlagTaken`: `FlagIsTaken` is inductive given the types. Every step except the
  refusal leaves the flag or lowers it, and the request that holds it up moves
  from "flag" to "reset" as long as it is up.
- `RegisteredOnceWhenAlone`, `AppliedOnceWhenAlone`, `OwnUserWhenAlone`: while requests come one at a time, one slot
  at most is busy (`OneBusy`), and what its request has found out stays true until
  it acts on it (`StillTrue`): there is no row, the name is in the session. With
  two busy slots that is what fails.
- `ChangeIsShown`: a request that changed the list reads it in a later handler, by
  the name `user` has then. `Kept` carries from the change to the answer that the
  row is there (or is gone) and that the name is still the session's; that nobody
  else is busy in between is `OneBusy` again.
- `BatchTypeCorrect`, `NumbersConsecutive` (also for tests that overlap: a number
  above 0 was some record's plus one, and records are never deleted).
- `SequentialNumbers`, `SequentialOrigin`, `SequentialRecords`: while none
  overlapped only one test runs at a time, it has the highest number, and its
  readings of the clock are later than all records of others; so its records are
  the last by primary key, theirs are the only ones with that number, and none of
  their keys is taken. `SInv` is the conjunction of these; each theorem is a
  consequence of `SequentialInvariant`.
- `CarouselInvariant`, and from it `IndicatorFollows`, `ChoicesKept`, `RideKept`.
  `CarouselInv` adds to the three properties the types and `RideOfInstance` (an
  object exists once the page is loaded or the slides ride, and only slides that
  ride have the timer set). The properties hold each other up: that a choice
  waits only while a slide or its "slid" is to come needs the flag to be right,
  and the flag is right because a slide begins only where none is in progress.

- `TestKeepsItsPromise`: `TestRun` implements `TestOutcome` for `MaxTests = 1`. A
  step needs to know what the flag means. `SerialInv` says it: at most one test
  runs, none leaves a flag behind, and `Course` says for each step of the
  coordinator whether the flag is up exactly if a device failed. The lemmas take
  the groups of actions one by one: a worker that reports becomes `Conclude` of its
  device, the last step of the answer the abstract answer, all else a stutter.
  `TableCompleteAlone` is a part of `Course`.
- `RingTypeCorrect`, `RingIsRight`, `RemovedInOrder`, from `RingInv`. `Slot(k)` is the
  slot of the k-th result from the front. Until two agencies overlap (`raced`) one
  at most is in its sections, the rear it read is the rear (`Alone`), and the
  results are newer from slot to slot, newer than those removed, so that a removal gives
  a newer one (`Ordered`);
  until an overflow too, slot and pending result are the same one by one (`Holds`).
  An overflow keeps `Ordered`, which is why the order survives it, while the
  contents do not. Most of the work is the arithmetic of the wrap.
- `DispatchTypeCorrect` and `PictureIsInOnePlace`, from `DispatchInv`. One place at a
  time is not inductive: an agency that never popped would send what it does not
  have, a board would detect a picture it was not sent. `Messages`, `Links` and
  `Descriptors` say what the links, a dead board's link and the descriptors look
  like. `Placed` says that no two positions hold one picture and that a
  picture is nowhere only if a process died or a connection was closed. All
  actions are four moves over the function from holders to what they hold: append,
  take the head off, move, empty. Each has one lemma.
- `ResultIsOfItsPicture`, from `StepInv`: while no process of a board died, board
  and agency are in one of four common states, and between the pop and the
  forwarded result the number kept is that of the picture the board has.
- `ResultsComeOnTheirConnection`, `ConnectionsServedBeforeClosed`, from
  `DeliveryInv`: only the last connection may still wait for its result, all
  others have theirs, and an agency that is about to close has served the last.
- `OneTestIsRunning` and `DialogsTypeCorrect`, from `TestInv`: as long as no key is
  pressed below a dialog, the waiting dialog is shown while a test runs, it has
  its backdrop, and no handler that would remove the backdrop waits anywhere.
- `OnePanelIsOpen`, `HeadingsTell`, `NothingIsLeft`, `UserGoesOn`, from `PatientInv`:
  a user who waits has one thing under way at a time (`OneThing`): nothing, the
  details of a row, its dialog, or a test. A dialog goes through one `Life`: it
  comes, is there, leaves, and its backdrop fades; or it is hidden before it was
  there, when its backdrop has less time to go than it has itself, which is why
  nothing remains. The panels are still, or one opens while another closes, and
  what an object forgets it no longer needs (`PanelsInOrder`).
- `ListKeepsUp`: `QuestionInv` says that what is under way and the newest answer are
  questions that were put, and that with nothing overtaken the rows are those of the
  newest. Questions are only added, so neither a later one nor another date in the
  field changes anything about it.

Every invariant above (`IInv`, `SInv`, `SerialInv`, `RingInv`, ...) was model-checked on
the instance of the component's run before it was proved. Except where a premise
is named, `TestRun`'s theorems cover tests that overlap, for every `MaxTests`.

With these, each safety invariant and each action property of the runs that hold
is a theorem, and so are the refinements
`ImplementsFifo` and `ImplementsPromise`, and `TableIsComplete` for tests that do not
overlap. Only model-checked is what needs fairness: `PopperGoesOn`,
`ImplementsFairFifo`, `TestsAreAnswered`, `AllResultsDelivered`, `RideGoesOn` and
`PageComesBack` (liveness and ENABLED are beyond the prover). The type invariants
of `ResultRing`, `PictureDispatch`, `Modal` and `Carousel` are in no run; they are
proved, that of `Carousel` as part of `CarouselInvariant`.

## 5. Not modelled

- The content of pictures, detections and records, on the server and in the
  tables of the pages; drawing; of the records of a day all but how many rows they
  are; formatting. The properties do not look at them.
- Partial reads: messages on a link are whole. (A header that arrives in two
  parts around the receive timeout desynchronises the stream: hazard.)
- The death of the PS itself, except in the ring, and of the web server, except
  by `log.Fatalln`.
- The loader's self-check and PL branches, system information of a board, DMA,
  power service: hardware or vendor access, or never reached at this commit.
- The login, registration and device pages (one request, one answer), and the
  plugins of bootstrap that no page uses: alert, button, dropdown, tooltip,
  popover, tab, affix. jQuery and `npm.js` are third-party.
- Touch devices, browsers without transitions, listeners that cancel an event, the
  layout of tall dialogs.
- Heartbeat, mode switch, non-maximum suppression, port plan: see the plan.

## 6. Plan

Done: the queue and its abstract list, the ring, the test and its promise, the
dispatch, the web server's sessions, the batch numbers, the pages. Next, in this
order:

1. `ImageMaps`: every test replaces and fills the global maps of pictures
   (utils/ImageMap.go) while workers of another read them.
2. `Heartbeat` and framing: polls with timeouts, partial headers, `AcceptData`'s
   published states.
3. `SharedFlags`: mode switch, self-check and reinforcement flags of `sm_msg`;
   on top of `PictureFifo`'s Discard.
4. `Detection`: intersection over union and suppression against a definition of
   what must remain, over bounded inputs; `Ports`: both computations of the
   ports agree and are injective.
5. `Platform`: `TestRun`'s 1H8 workers over `PictureDispatch`.

Theorems next: that `Collapse` and `Modal` keep for any user what they keep without
`Patient` (the types of panels); the arithmetic of the ring for a reader that
takes several results at once; those of the modules above, types first.
