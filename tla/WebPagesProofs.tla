--------------------------- MODULE WebPagesProofs ---------------------------
(***************************************************************************)
(* Theorems about the performance page and the record page, for any number *)
(* of dialogs, panels, backdrops, requests and questions: for a user who   *)
(* waits, and, where it says so, for one who does not.                     *)
(***************************************************************************)
EXTENDS WebPages, SequenceTheorems, FiniteSetTheorems, TLAPS

-----------------------------------------------------------------------------
(* The dialogs, whatever the user does.  A backdrop is of one dialog, and    *)
(* what waits for a backdrop, waits for one that is on the page.            *)
Backdrops ==
    /\ \A m, n \in Dialog : current[m] = current[n] /\ current[m] # NoBackdrop => m = n
    /\ \A b \in Backdrop \ backdrops : backdropWait[b] = NoWait

Jobs == [call : {"showDialog", "remove", "unlockBody", "hideModal"}, dialog : Dialog]
Hides == [call : {"hideModal"}, dialog : Dialog]

HandlerTypes ==
    /\ jobs \in Seq(Jobs)
    /\ elementWait \in [Dialog -> [handlers : Seq(Hides), left : Int]]
    /\ backdropWait \in [Backdrop -> [handlers : Seq(Jobs), left : Int]]

RequestTypes ==
    /\ running \in Nat /\ asked \in [Details -> Nat]
    /\ hurries \in Nat /\ pressed \in BOOLEAN

In(j, s) == \E i \in 1 .. Len(s) : s[i] = j

(* The backdrop of m is about to be taken off the page.                     *)
Removing(m) ==
    \/ In(Job("remove", m), jobs)
    \/ \E b \in Backdrop : In(Job("remove", m), backdropWait[b].handlers)

(* Without keys below a dialog: the waiting dialog, once shown, has a       *)
(* backdrop that nothing takes away, and it is shown while a test runs.     *)
Waited ==
    ~ pressed =>
        /\ WaitDialog \in shown =>
              current[WaitDialog] # NoBackdrop /\ ~ Removing(WaitDialog)
        /\ running > 0 => running = 1 /\ WaitDialog \in shown

ModalInv == ModalTypeOK /\ HandlerTypes /\ Backdrops

TestInv == ModalInv /\ RequestTypes /\ Waited

-----------------------------------------------------------------------------
(* The panels, while the user waits for them: those that are open or are    *)
(* about to be, ...                                                         *)
Moves(w, call, own) ==
    w = [handlers |-> <<Handler(call, own)>>, left |-> w.left]

Opening(p) == panel[p] = "open" \/ Moves(panelWait[p], "opened", TRUE)

(* ... and what a panel's object says while it moves and when it is still.  *)
PanelOf(p) ==
    \/ /\ panel[p] \in {"open", "closed"} /\ panelWait[p] = NoWait
       /\ data[p] \in {NoData, Object("idle", TRUE)}
    \/ /\ panel[p] = "moving"
       /\ \/ Moves(panelWait[p], "opened", TRUE) /\ data[p] = Object("busy", TRUE)
          \/ Moves(panelWait[p], "closed", TRUE) /\ data[p] = Object("busy", TRUE)
          \/ Moves(panelWait[p], "closed", FALSE) /\ data[p] = NoData

PanelsInOrder ==
    /\ collapsed \subseteq Panel
    /\ panel = [p \in Panel |-> panel[p]]
    /\ data = [p \in Panel |-> data[p]]
    /\ panelWait = [p \in Panel |-> panelWait[p]]
    /\ \A p \in Panel : PanelOf(p)
    /\ \A p, q \in Panel : Opening(p) /\ Opening(q) => p = q
    /\ \A p \in Panel : p \in collapsed <=> ~ Opening(p)

-----------------------------------------------------------------------------
(* The dialogs, while the user waits: none, ...                             *)
Quiet ==
    /\ shown = {} /\ displayed = {} /\ closable = {} /\ jobs = <<>>
    /\ backdrops = {} /\ current = [m \in Dialog |-> NoBackdrop]
    /\ elementWait = [m \in Dialog |-> NoWait]
    /\ backdropWait = [b \in Backdrop |-> NoWait]
    /\ ~ locked /\ bodyPad = 0

(* ... or one with its backdrop, ...                                        *)
Alone(m, b) ==
    /\ shown \subseteq {m} /\ displayed \subseteq {m} /\ closable = shown
    /\ backdrops = {b} /\ current = [n \in Dialog |-> IF n = m THEN b ELSE NoBackdrop]
    /\ elementWait = [n \in Dialog |-> IF n = m THEN elementWait[m] ELSE NoWait]
    /\ backdropWait = [c \in Backdrop |-> IF c = b THEN backdropWait[b] ELSE NoWait]
    /\ padBefore[m] = 0

Wait(w, call, m) ==
    /\ w = [handlers |-> <<Job(call, m)>>, left |-> w.left]
    /\ w.left \in Nat

(* ... at some point of its life: coming, there, leaving, with its backdrop *)
(* fading out, or hidden before it was there.                               *)
Coming(m, b) ==
    /\ m \in shown /\ m \notin displayed /\ elementWait[m] = NoWait
    /\ \/ /\ Wait(backdropWait[b], "showDialog", m)
          /\ backdropWait[b].left <= FadeTime /\ jobs = <<>>
       \/ backdropWait[b] = NoWait /\ jobs = <<Job("showDialog", m)>>

There(m, b) ==
    /\ m \in shown /\ m \in displayed
    /\ elementWait[m] = NoWait /\ backdropWait[b] = NoWait /\ jobs = <<>>

Hasty(m, b) ==
    /\ m \notin shown /\ m \notin displayed /\ Wait(elementWait[m], "hideModal", m)
    /\ \/ /\ Wait(backdropWait[b], "showDialog", m)
          /\ backdropWait[b].left < elementWait[m].left /\ jobs = <<>>
       \/ backdropWait[b] = NoWait /\ jobs = <<Job("showDialog", m)>>

Leaving(m, b) ==
    /\ m \notin shown /\ m \in displayed /\ backdropWait[b] = NoWait
    /\ \/ Wait(elementWait[m], "hideModal", m) /\ jobs = <<>>
       \/ elementWait[m] = NoWait /\ jobs = <<Job("hideModal", m)>>

Fading(m, b) ==
    /\ m \notin shown /\ m \notin displayed /\ elementWait[m] = NoWait
    /\ \/ Wait(backdropWait[b], "remove", m) /\ jobs = <<>>
       \/ backdropWait[b] = NoWait /\ jobs = <<Job("remove", m)>>

Life(m, b) ==
    Alone(m, b) /\ \/ Coming(m, b) \/ There(m, b) \/ Hasty(m, b)
                   \/ Leaving(m, b) \/ Fading(m, b)

NothingAsked == running = 0 /\ asked = [m \in Details |-> 0]

HistoryIsOpen == panel[History] = "open" /\ ~ PanelsMove

(* What the user waits for: nothing, the details of a row, ...              *)
Idle == Quiet /\ NothingAsked

Asking ==
    /\ Quiet /\ running = 0 /\ HistoryIsOpen
    /\ \E m \in Details : asked = [n \in Details |-> IF n = m THEN 1 ELSE 0]

(* ... the dialog of a row, or the waiting dialog, shown as long as the test *)
(* runs, and when its request has failed.                                   *)
Looking ==
    /\ \E m \in Details, b \in Backdrop : Life(m, b)
    /\ NothingAsked /\ HistoryIsOpen

Testing ==
    /\ \E b \in Backdrop : Life(WaitDialog, b)
    /\ asked = [m \in Details |-> 0]
    /\ IF WaitDialog \in shown THEN running = 1 \/ (running = 0 /\ failed)
       ELSE running = 0

OneThing == Idle \/ Asking \/ Looking \/ Testing

PatientInv == hurries = 0 => PanelsInOrder /\ OneThing

-----------------------------------------------------------------------------
(* The questions of the record page.                                        *)
QuestionInv ==
    /\ questions \in Seq(Day \union {NoDay})
    /\ dateval \in Day \union {NoDay}
    /\ unanswered \subseteq 1 .. Len(questions)
    /\ newest \in 0 .. Len(questions)
    /\ overtaken \in BOOLEAN
    /\ ListOfLatestAnswer

-----------------------------------------------------------------------------
(* The page that is open takes its steps, the others take none.             *)
LEMMA WebSteps ==
    ASSUME [WebNext]_webVars
    PROVE  [PageNext]_pageVars /\ [RecordNext]_recordVars
<1>1. CASE UNCHANGED webVars
  BY <1>1 DEF webVars
<1>2. CASE Index
  BY <1>2 DEF Index
<1>3. CASE Performance
  BY <1>3 DEF Performance
<1>4. CASE Record
  BY <1>4 DEF Record
<1> QED
  BY <1>1, <1>2, <1>3, <1>4 DEF WebNext

-----------------------------------------------------------------------------
(* The questions and their answers, in any order.                           *)
LEMMA QuestionStep == QuestionInv /\ [RecordNext]_recordVars => QuestionInv'
<1> SUFFICES ASSUME QuestionInv, [RecordNext]_recordVars PROVE QuestionInv'
  OBVIOUS
<1>1. Len(questions) \in Nat
  BY DEF QuestionInv
<1>2. CASE UNCHANGED <<questions, unanswered, items, newest, overtaken>>
           /\ dateval' \in Day \union {NoDay}
  BY <1>2 DEF QuestionInv, ListOfLatestAnswer
<1>3. CASE GetData
  <2>1. /\ questions' = Append(questions, dateval)
        /\ unanswered' = unanswered \union {Len(questions')}
        /\ UNCHANGED <<dateval, items, newest, overtaken>>
    BY <1>3 DEF GetData
  <2>2. /\ questions' \in Seq(Day \union {NoDay})
        /\ Len(questions') = Len(questions) + 1
        /\ \A q \in 1 .. Len(questions) : questions'[q] = questions[q]
    BY <2>1 DEF QuestionInv
  <2>3. /\ unanswered' \subseteq 1 .. Len(questions')
        /\ newest' \in 0 .. Len(questions')
    <3>1. \A q \in unanswered : q \in 1 .. Len(questions)
      BY DEF QuestionInv
    <3>2. \A q \in 1 .. Len(questions) : q \in 1 .. (Len(questions) + 1)
      BY <1>1
    <3>3. Len(questions) + 1 \in 1 .. (Len(questions) + 1)
      BY <1>1
    <3>4. newest \in 0 .. Len(questions) /\ newest' = newest
      BY <2>1 DEF QuestionInv
    <3>5. newest' \in 0 .. (Len(questions) + 1)
      BY <1>1, <3>4
    <3> QED
      BY <2>1, <2>2, <3>1, <3>2, <3>3, <3>5
  <2>4. newest # 0 => newest \in 1 .. Len(questions)
    BY <1>1 DEF QuestionInv
  <2>5. ListOfLatestAnswer'
    BY <2>1, <2>2, <2>4 DEF QuestionInv, ListOfLatestAnswer
  <2> QED
    BY <2>1, <2>2, <2>3, <2>5 DEF QuestionInv
<1>4. ASSUME NEW q \in unanswered, Answered(q) PROVE QuestionInv'
  <2>1. /\ unanswered' = unanswered \ {q} /\ items' = questions[q]
        /\ newest' = IF q > newest THEN q ELSE newest
        /\ overtaken' = (overtaken \/ q < newest)
        /\ UNCHANGED <<dateval, questions>>
    BY <1>4 DEF Answered, Note
  <2>2. q \in 1 .. Len(questions) /\ newest \in 0 .. Len(questions)
    BY DEF QuestionInv
  <2>3. ~ overtaken' => newest' = q /\ q # 0
    <3>1. overtaken \in BOOLEAN /\ newest \in Int /\ q \in Int /\ q # 0
      BY <1>1, <2>2 DEF QuestionInv
    <3>2. ~ overtaken' => ~ q < newest
      BY <2>1, <3>1
    <3> QED
      BY <2>1, <3>1, <3>2
  <2>4. ListOfLatestAnswer'
    BY <2>1, <2>3 DEF ListOfLatestAnswer
  <2>5. overtaken' \in BOOLEAN /\ newest' \in 0 .. Len(questions)
    BY <1>1, <2>1, <2>2 DEF QuestionInv
  <2> QED
    BY <2>1, <2>4, <2>5 DEF QuestionInv
<1>5. ASSUME NEW q \in unanswered, QuestionFails(q) PROVE QuestionInv'
  BY <1>5 DEF QuestionFails, QuestionInv, ListOfLatestAnswer
<1>6. CASE \E d \in Day \union {NoDay} : ChangeDate(d)
  BY <1>2, <1>6 DEF ChangeDate
<1>7. CASE UNCHANGED questionVars \/ UNCHANGED recordVars
  BY <1>2, <1>7 DEF questionVars, recordVars, QuestionInv
<1> QED
  BY <1>3, <1>4, <1>5, <1>6, <1>7 DEF RecordNext

(* In whatever order questions are put, answered and fail: as long as no    *)
(* answer comes after that to a later question, the list shows the day of   *)
(* the latest question that was answered (record_query.html:214-221).       *)
THEOREM ListKeepsUp == WebSpec => []ListOfLatestAnswer
<1>1. WebInit => QuestionInv
  <2> SUFFICES ASSUME RecordInit PROVE QuestionInv
    BY DEF WebInit
  <2>1. /\ questions = <<Today>> /\ Today \in Day \union {NoDay}
        /\ dateval = Today /\ unanswered = {1} /\ newest = 0 /\ items = NoDay
        /\ overtaken = FALSE
    BY RecordAssumption DEF RecordInit
  <2>2. questions \in Seq(Day \union {NoDay}) /\ Len(questions) = 1
    BY <2>1
  <2>3. unanswered \subseteq 1 .. Len(questions) /\ newest \in 0 .. Len(questions)
    BY <2>1, <2>2
  <2>4. ListOfLatestAnswer
    BY <2>1 DEF ListOfLatestAnswer
  <2> QED
    BY <2>1, <2>2, <2>3, <2>4 DEF QuestionInv
<1>2. QuestionInv /\ [WebNext]_webVars => QuestionInv'
  BY QuestionStep, WebSteps
<1>3. QuestionInv => ListOfLatestAnswer
  BY DEF QuestionInv
<1> QED
  BY <1>1, <1>2, <1>3, PTL DEF WebSpec

-----------------------------------------------------------------------------
(* What waits, and what is called when it is over.                          *)
LEMMA InIs ==
    ASSUME NEW S, NEW s \in Seq(S), NEW j
    PROVE  /\ ~ In(j, <<>>)
           /\ \A e \in S : Append(s, e) \in Seq(S)
                           /\ (In(j, Append(s, e)) => In(j, s) \/ j = e)
           /\ s # <<>> => /\ Tail(s) \in Seq(S) /\ Head(s) \in S
                          /\ In(j, Tail(s)) => In(j, s)
                          /\ In(Head(s), s)
<1>1. ~ In(j, <<>>)
  BY EmptySeq DEF In
<1>2. ASSUME NEW e \in S
      PROVE  Append(s, e) \in Seq(S) /\ (In(j, Append(s, e)) => In(j, s) \/ j = e)
  <2>1. /\ Append(s, e) \in Seq(S) /\ Len(Append(s, e)) = Len(s) + 1 /\ Len(s) \in Nat
        /\ \A i \in 1 .. Len(s) : Append(s, e)[i] = s[i]
        /\ Append(s, e)[Len(s) + 1] = e
    BY AppendProperties, LenProperties
  <2>2. \A i \in 1 .. Len(s) + 1 : i \in 1 .. Len(s) \/ i = Len(s) + 1
    BY <2>1
  <2> QED
    BY <2>1, <2>2 DEF In
<1>3. ASSUME s # <<>>
      PROVE  /\ Tail(s) \in Seq(S) /\ Head(s) \in S
             /\ In(j, Tail(s)) => In(j, s)
             /\ In(Head(s), s)
  <2>1. /\ Head(s) \in S /\ Tail(s) \in Seq(S) /\ Len(Tail(s)) = Len(s) - 1
        /\ \A i \in 1 .. Len(Tail(s)) : Tail(s)[i] = s[i + 1]
        /\ Head(s) = s[1] /\ Len(s) \in Nat /\ Len(s) # 0
    BY <1>3, HeadTailProperties, LenProperties, EmptySeq
  <2>2. 1 \in 1 .. Len(s) /\ \A i \in 1 .. Len(Tail(s)) : i + 1 \in 1 .. Len(s)
    BY <2>1
  <2> QED
    BY <2>1, <2>2 DEF In
<1> QED
  BY <1>1, <1>2, <1>3

LEMMA WaitForIs ==
    ASSUME NEW S, NEW w \in [handlers : Seq(S), left : Int], NEW e \in S, NEW d \in Int
    PROVE  /\ WaitFor(w, e, d) \in [handlers : Seq(S), left : Int]
           /\ \A j : In(j, WaitFor(w, e, d).handlers) => In(j, w.handlers) \/ j = e
<1>1. w.handlers \in Seq(S) /\ w.left \in Int
  OBVIOUS
<1>2. /\ Append(w.handlers, e) \in Seq(S)
      /\ \A j : In(j, Append(w.handlers, e)) => In(j, w.handlers) \/ j = e
  BY <1>1, InIs
<1>3. WaitFor(w, e, d).handlers = Append(w.handlers, e)
      /\ WaitFor(w, e, d) = [handlers |-> Append(w.handlers, e),
                             left |-> IF Waits(w) THEN w.left ELSE d]
  BY DEF WaitFor
<1> QED
  BY <1>1, <1>2, <1>3

LEMMA WaitsAre ==
    /\ NoWait.handlers = <<>> /\ NoWait.left = 0
    /\ \A S : NoWait \in [handlers : Seq(S), left : Int]
    /\ ~ Waits(NoWait) /\ ~ Due(NoWait) /\ Later(NoWait) = NoWait
    /\ \A e, d : WaitFor(NoWait, e, d) = [handlers |-> <<e>>, left |-> d]
    /\ \A S : \A w \in [handlers : Seq(S), left : Int] :
          Later(w) \in [handlers : Seq(S), left : Int] /\ Later(w).handlers = w.handlers
<1>1. NoWait.handlers = <<>> /\ NoWait.left = 0
  BY DEF NoWait
<1>2. ~ Waits(NoWait)
  BY <1>1 DEF Waits
<1>3. \A S : NoWait \in [handlers : Seq(S), left : Int]
  BY EmptySeq DEF NoWait
<1>4. \A e, d : WaitFor(NoWait, e, d) = [handlers |-> <<e>>, left |-> d]
  <2>1. \A e : Append(<<>>, e) = <<e>>
    OBVIOUS
  <2> QED
    BY <1>1, <1>2, <2>1 DEF WaitFor
<1>5. ASSUME NEW S, NEW w \in [handlers : Seq(S), left : Int]
      PROVE  Later(w) \in [handlers : Seq(S), left : Int] /\ Later(w).handlers = w.handlers
  BY DEF Later
<1> QED
  BY <1>1, <1>2, <1>3, <1>4, <1>5 DEF Due, Later

(* A dialog whose backdrop stays.                                           *)
Safe(m) == current[m] # NoBackdrop /\ ~ Removing(m)

SafeKept == \A m \in Dialog : m \in shown /\ Safe(m) => Safe(m)'

LEMMA NumbersAre ==
    /\ MaxBackdrops \in Nat \ {0} /\ Backdrop = 1 .. MaxBackdrops
    /\ NoBackdrop \notin Backdrop
    /\ HideTime = 2 /\ FadeTime = 1 /\ MoveTime = 2
    /\ WaitDialog \in Dialog /\ Static = {WaitDialog} /\ Static \subseteq Dialog
  BY ModalAssumption, PageAssumption DEF Backdrop, NoBackdrop, HideTime, FadeTime, MoveTime

LEMMA JobIs ==
    ASSUME NEW m \in Dialog,
           NEW call \in {"showDialog", "remove", "unlockBody", "hideModal"}
    PROVE  /\ Job(call, m) \in Jobs /\ Job("hideModal", m) \in Hides
           /\ Job(call, m).call = call /\ Job(call, m).dialog = m
           /\ \A n : Job("remove", n) = Job(call, m) => n = m /\ call = "remove"
  BY DEF Job, Jobs, Hides

(* A handler that is called is one of the object's.                         *)
LEMMA HeadIs ==
    ASSUME ModalInv, jobs # <<>>
    PROVE  /\ Head(jobs).dialog \in Dialog /\ Tail(jobs) \in Seq(Jobs)
           /\ \A j : In(j, Tail(jobs)) => In(j, jobs)
           /\ In(Job(Head(jobs).call, Head(jobs).dialog), jobs)
<1>1. jobs \in Seq(Jobs)
  BY DEF ModalInv, HandlerTypes
<1>2. /\ Tail(jobs) \in Seq(Jobs) /\ Head(jobs) \in Jobs /\ In(Head(jobs), jobs)
      /\ \A j : In(j, Tail(jobs)) => In(j, jobs)
  BY <1>1, InIs
<1>3. Head(jobs) = Job(Head(jobs).call, Head(jobs).dialog)
  BY <1>2 DEF Job, Jobs
<1> QED
  BY <1>2, <1>3 DEF Jobs

-----------------------------------------------------------------------------
(* The first branch of backdrop().                                          *)
LEMMA NewBackdropIs ==
    ASSUME ModalInv, NEW m \in Dialog, NEW call \in {"showDialog", "unlockBody"},
           NewBackdrop(m, call)
    PROVE  \E b \in Backdrop \ backdrops :
              /\ backdrops' = backdrops \cup {b}
              /\ current' = [current EXCEPT ![m] = b]
              /\ backdropWait' = [backdropWait EXCEPT ![b] =
                                     [handlers |-> <<Job(call, m)>>, left |-> FadeTime]]
<1> DEFINE b == CHOOSE b \in Backdrop \ backdrops : TRUE
<1>1. /\ Backdrop \ backdrops # {}
      /\ backdrops' = backdrops \cup {b}
      /\ current' = [current EXCEPT ![m] = b]
      /\ backdropWait' = [backdropWait EXCEPT ![b] = WaitFor(NoWait, Job(call, m), FadeTime)]
  BY DEF NewBackdrop
<1>2. b \in Backdrop \ backdrops
  BY <1>1
<1> HIDE DEF b
<1> QED
  BY <1>1, <1>2, WaitsAre

LEMMA NewBackdropKeeps ==
    ASSUME ModalInv, NEW m \in Dialog, NEW call \in {"showDialog", "unlockBody"},
           NewBackdrop(m, call)
    PROVE  /\ backdrops' \subseteq Backdrop
           /\ current' \in [Dialog -> backdrops' \cup {NoBackdrop}]
           /\ backdropWait' \in [Backdrop -> [handlers : Seq(Jobs), left : Int]]
           /\ Backdrops'
           /\ current'[m] # NoBackdrop
           /\ \A n \in Dialog : n # m => current'[n] = current[n]
           /\ \A n \in Dialog : \A b \in Backdrop :
                 In(Job("remove", n), backdropWait'[b].handlers)
                    => In(Job("remove", n), backdropWait[b].handlers)
<1>1. /\ backdrops \subseteq Backdrop
      /\ current \in [Dialog -> backdrops \cup {NoBackdrop}]
      /\ backdropWait \in [Backdrop -> [handlers : Seq(Jobs), left : Int]]
      /\ Backdrops
  BY DEF ModalInv, ModalTypeOK, HandlerTypes
<1> DEFINE w == [handlers |-> <<Job(call, m)>>, left |-> FadeTime]
<1>2. PICK b \in Backdrop \ backdrops :
              /\ backdrops' = backdrops \cup {b}
              /\ current' = [current EXCEPT ![m] = b]
              /\ backdropWait' = [backdropWait EXCEPT ![b] = w]
  BY NewBackdropIs
<1>3. /\ w \in [handlers : Seq(Jobs), left : Int]
      /\ \A n \in Dialog : ~ In(Job("remove", n), w.handlers)
  <2>1. Job(call, m) \in Jobs /\ \A n : Job("remove", n) # Job(call, m)
    BY JobIs
  <2>2. Append(<<>>, Job(call, m)) = <<Job(call, m)>> /\ <<>> \in Seq(Jobs)
    BY EmptySeq
  <2>3. /\ <<Job(call, m)>> \in Seq(Jobs)
        /\ \A n \in Dialog : ~ In(Job("remove", n), <<Job(call, m)>>)
    <3>1. \A j : In(j, Append(<<>>, Job(call, m))) => In(j, <<>>) \/ j = Job(call, m)
      BY <2>1, <2>2, InIs
    <3>2. Append(<<>>, Job(call, m)) \in Seq(Jobs)
      BY <2>1, <2>2, InIs
    <3>3. \A j : ~ In(j, <<>>)
      BY <2>2, InIs
    <3> QED
      BY <2>1, <2>2, <3>1, <3>2, <3>3
  <2> QED
    BY <2>3, NumbersAre
<1> HIDE DEF w
<1>4. /\ \A n \in Dialog : current'[n] = IF n = m THEN b ELSE current[n]
      /\ \A c \in Backdrop : backdropWait'[c] = IF c = b THEN w ELSE backdropWait[c]
      /\ backdropWait' \in [Backdrop -> [handlers : Seq(Jobs), left : Int]]
      /\ current' \in [Dialog -> backdrops' \cup {NoBackdrop}]
  BY <1>1, <1>2, <1>3
<1>5. b # NoBackdrop /\ \A n \in Dialog : current[n] # b
  BY <1>1, <1>2, NumbersAre
<1>6. Backdrops'
  BY <1>1, <1>2, <1>4, <1>5 DEF Backdrops
<1> QED
  BY <1>1, <1>2, <1>3, <1>4, <1>5, <1>6

-----------------------------------------------------------------------------
(* Action by action: the dialogs stay in order, and no dialog that is shown *)
(* loses a backdrop that stays.                                             *)
LEMMA StillSafe ==
    ASSUME UNCHANGED <<current, backdrops, backdropWait>>,
           \A j : In(j, jobs') => In(j, jobs)
    PROVE  /\ Backdrops => Backdrops'
           /\ SafeKept
  BY DEF Backdrops, SafeKept, Safe, Removing

LEMMA ShowHide_modal ==
    ASSUME ModalInv, NEW m \in Dialog, Show(m) \/ Hide(m)
    PROVE  /\ ModalInv' /\ SafeKept
           /\ Show(m) => shown' = shown \cup {m}
           /\ Hide(m) => shown' = shown \ {m}
           /\ Show(m) /\ m \notin shown /\ backdrops = {} /\ jobs = <<>> => Safe(m)'
<1>1. ModalTypeOK /\ HandlerTypes /\ Backdrops
  BY DEF ModalInv
<1>2. CASE UNCHANGED modalVars
  <2>1. UNCHANGED <<shown, displayed, closable, keys, ignoring, current, backdrops,
                    elementWait, backdropWait, locked, bodyPad, padBefore, guard,
                    focused, jobs>>
    BY <1>2 DEF modalVars, dialogVars, backdropVars, bodyVars, focusVars
  <2>2. Backdrops' /\ SafeKept
    BY <1>1, <2>1, StillSafe
  <2>3. ModalInv'
    BY <1>1, <2>1, <2>2 DEF ModalInv, ModalTypeOK, HandlerTypes
  <2>4. Show(m) => m \in shown
    BY <2>1 DEF Show
  <2> QED
    BY <2>1, <2>2, <2>3, <2>4 DEF Show, Hide
<1>3. CASE Show(m) /\ m \notin shown
  <2>1. /\ shown' = shown \cup {m} /\ closable' = closable \cup {m}
        /\ keys' = IF m \in Static THEN keys ELSE keys \cup {m}
        /\ LockBody(m) /\ NewBackdrop(m, "showDialog")
        /\ UNCHANGED <<displayed, ignoring, elementWait, guard, focused, jobs>>
    BY <1>3 DEF Show, focusVars
  <2>2. /\ locked' = TRUE /\ bodyPad' \in Nat /\ padBefore' \in [Dialog -> Nat]
    BY <1>1, <2>1 DEF LockBody, ModalTypeOK
  <2>3. /\ backdrops' \subseteq Backdrop
        /\ current' \in [Dialog -> backdrops' \cup {NoBackdrop}]
        /\ backdropWait' \in [Backdrop -> [handlers : Seq(Jobs), left : Int]]
        /\ Backdrops'
        /\ current'[m] # NoBackdrop
        /\ \A n \in Dialog : n # m => current'[n] = current[n]
        /\ \A n \in Dialog : \A b \in Backdrop :
              In(Job("remove", n), backdropWait'[b].handlers)
                 => In(Job("remove", n), backdropWait[b].handlers)
    BY <2>1, NewBackdropKeeps
  <2>4. ModalTypeOK'
    BY <1>1, <2>1, <2>2, <2>3 DEF ModalTypeOK
  <2>5. HandlerTypes'
    BY <1>1, <2>1, <2>3 DEF HandlerTypes
  <2>6. SafeKept
    BY <2>1, <2>3 DEF SafeKept, Safe, Removing
  <2>7. ASSUME backdrops = {}, jobs = <<>> PROVE Safe(m)'
    <3>1. \A b \in Backdrop : backdropWait[b].handlers = <<>>
      BY <1>1, <2>7, WaitsAre DEF Backdrops
    <3>2. \A j : ~ In(j, <<>>)
      BY EmptySeq DEF In
    <3> QED
      BY <2>1, <2>3, <2>7, <3>1, <3>2 DEF Safe, Removing
  <2>8. ~ Hide(m)
    BY <1>3, <2>1 DEF Hide, modalVars, dialogVars
  <2> QED
    BY <2>1, <2>3, <2>4, <2>5, <2>6, <2>7, <2>8 DEF ModalInv
<1>4. CASE Hide(m) /\ m \in shown
  <2>1. /\ shown' = shown \ {m} /\ closable' = closable \ {m} /\ keys' = keys \ {m}
        /\ elementWait' = [elementWait EXCEPT ![m] =
                              WaitFor(elementWait[m], Job("hideModal", m), HideTime)]
        /\ guard' = {}
        /\ UNCHANGED <<displayed, ignoring, current, backdrops, backdropWait, locked,
                       bodyPad, padBefore, focused, jobs>>
    BY <1>4 DEF Hide, bodyVars
  <2>2. elementWait' \in [Dialog -> [handlers : Seq(Hides), left : Int]]
    <3>1. elementWait \in [Dialog -> [handlers : Seq(Hides), left : Int]]
      BY <1>1 DEF HandlerTypes
    <3>2. Job("hideModal", m) \in Hides /\ HideTime \in Int
      BY JobIs, NumbersAre
    <3>3. WaitFor(elementWait[m], Job("hideModal", m), HideTime)
             \in [handlers : Seq(Hides), left : Int]
      BY <3>1, <3>2, WaitForIs
    <3> QED
      BY <2>1, <3>1, <3>3
  <2>3. Backdrops' /\ SafeKept
    BY <1>1, <2>1, StillSafe
  <2>4. ModalTypeOK'
    BY <1>1, <2>1 DEF ModalTypeOK
  <2>5. HandlerTypes'
    BY <1>1, <2>1, <2>2 DEF HandlerTypes
  <2>6. ~ Show(m)
    BY <1>4, <2>1 DEF Show, modalVars, dialogVars
  <2> QED
    BY <2>1, <2>3, <2>4, <2>5, <2>6 DEF ModalInv
<1> QED
  BY <1>2, <1>3, <1>4 DEF Show, Hide

LEMMA HideModal_modal ==
    ASSUME ModalInv, HideModal
    PROVE  ModalInv' /\ SafeKept /\ shown' = shown
<1>1. ModalTypeOK /\ HandlerTypes /\ Backdrops
  BY DEF ModalInv
<1> DEFINE m == Head(jobs).dialog
<1>2. /\ jobs # <<>> /\ jobs' = Tail(jobs)
      /\ displayed' = displayed \ {m} /\ focused' = focused \ {m}
      /\ \/ /\ m \in shown
            /\ NewBackdrop(m, "unlockBody")
            /\ closable' = closable \cup {m}
            /\ UNCHANGED bodyVars
         \/ /\ m \notin shown /\ current[m] # NoBackdrop
            /\ FadeBackdrop(m)
            /\ UNCHANGED <<closable, current, backdrops, bodyVars>>
         \/ /\ m \notin shown /\ current[m] = NoBackdrop
            /\ UnlockBody(m)
            /\ UNCHANGED <<closable, current, backdrops, backdropWait>>
      /\ UNCHANGED <<shown, keys, ignoring, elementWait, guard>>
  BY DEF HideModal, RunJob
<1>3. /\ m \in Dialog /\ Tail(jobs) \in Seq(Jobs)
      /\ \A j : In(j, Tail(jobs)) => In(j, jobs)
  BY <1>2, HeadIs
<1> HIDE DEF m
<1>4. CASE m \in shown
  <2>1. /\ NewBackdrop(m, "unlockBody") /\ closable' = closable \cup {m}
        /\ UNCHANGED <<locked, bodyPad, padBefore>>
    BY <1>2, <1>4 DEF bodyVars
  <2>2. /\ backdrops' \subseteq Backdrop
        /\ current' \in [Dialog -> backdrops' \cup {NoBackdrop}]
        /\ backdropWait' \in [Backdrop -> [handlers : Seq(Jobs), left : Int]]
        /\ Backdrops'
        /\ current'[m] # NoBackdrop
        /\ \A n \in Dialog : n # m => current'[n] = current[n]
        /\ \A n \in Dialog : \A b \in Backdrop :
              In(Job("remove", n), backdropWait'[b].handlers)
                 => In(Job("remove", n), backdropWait[b].handlers)
    BY <1>3, <2>1, NewBackdropKeeps
  <2>3. ModalTypeOK'
    BY <1>1, <1>2, <1>3, <2>1, <2>2 DEF ModalTypeOK
  <2>4. HandlerTypes'
    BY <1>1, <1>2, <1>3, <2>2 DEF HandlerTypes
  <2>5. SafeKept
    BY <1>2, <1>3, <2>2 DEF SafeKept, Safe, Removing
  <2> QED
    BY <1>2, <2>2, <2>3, <2>4, <2>5 DEF ModalInv
<1>5. CASE m \notin shown /\ current[m] # NoBackdrop
  <2> DEFINE b == current[m]
             w == WaitFor(backdropWait[b], Job("remove", m), FadeTime)
  <2>1. /\ backdropWait' = [backdropWait EXCEPT ![b] = w]
        /\ UNCHANGED <<closable, current, backdrops, locked, bodyPad, padBefore>>
    BY <1>2, <1>5 DEF bodyVars, FadeBackdrop
  <2>2. b \in backdrops /\ b \in Backdrop
    BY <1>1, <1>3, <1>5 DEF ModalTypeOK
  <2>3. backdropWait[b] \in [handlers : Seq(Jobs), left : Int]
        /\ Job("remove", m) \in Jobs /\ FadeTime \in Int
    BY <1>1, <1>3, <2>2, JobIs, NumbersAre DEF HandlerTypes
  <2>4. /\ w \in [handlers : Seq(Jobs), left : Int]
        /\ \A j : In(j, w.handlers) => In(j, backdropWait[b].handlers) \/ j = Job("remove", m)
    BY <2>3, WaitForIs
  <2> HIDE DEF b, w
  <2>5. /\ \A c \in Backdrop : backdropWait'[c] = IF c = b THEN w ELSE backdropWait[c]
        /\ backdropWait' \in [Backdrop -> [handlers : Seq(Jobs), left : Int]]
    BY <1>1, <2>1, <2>4 DEF HandlerTypes
  <2>6. ModalTypeOK'
    BY <1>1, <1>2, <2>1 DEF ModalTypeOK
  <2>7. HandlerTypes'
    BY <1>1, <1>2, <1>3, <2>5 DEF HandlerTypes
  <2>8. Backdrops'
    BY <1>1, <2>1, <2>2, <2>5 DEF Backdrops
  <2>9. \A n \in Dialog : n # m => Job("remove", n) # Job("remove", m)
    BY DEF Job
  <2>10. SafeKept
    <3> SUFFICES ASSUME NEW n \in Dialog, n \in shown, Safe(n)
                 PROVE  Safe(n)'
      BY DEF SafeKept
    <3>1. n # m
      BY <1>5
    <3> QED
      BY <1>2, <1>3, <2>1, <2>4, <2>5, <2>9, <3>1 DEF Safe, Removing
  <2> QED
    BY <1>2, <2>6, <2>7, <2>8, <2>10 DEF ModalInv
<1>6. CASE m \notin shown /\ current[m] = NoBackdrop
  <2>1. /\ locked' = FALSE /\ bodyPad' = padBefore[m] /\ padBefore' = padBefore
        /\ UNCHANGED <<closable, current, backdrops, backdropWait>>
    BY <1>2, <1>6 DEF UnlockBody
  <2>2. Backdrops' /\ SafeKept
    BY <1>1, <1>2, <1>3, <2>1, StillSafe
  <2>3. ModalTypeOK'
    BY <1>1, <1>2, <1>3, <2>1 DEF ModalTypeOK
  <2>4. HandlerTypes'
    BY <1>1, <1>2, <1>3, <2>1 DEF HandlerTypes
  <2> QED
    BY <1>2, <2>2, <2>3, <2>4 DEF ModalInv
<1> QED
  BY <1>4, <1>5, <1>6

LEMMA Remove_modal ==
    ASSUME ModalInv, Remove
    PROVE  ModalInv' /\ SafeKept /\ shown' = shown
<1>1. ModalTypeOK /\ HandlerTypes /\ Backdrops
  BY DEF ModalInv
<1> DEFINE m == Head(jobs).dialog
           b == current[m]
<1>2. /\ jobs # <<>> /\ Head(jobs).call = "remove" /\ jobs' = Tail(jobs)
      /\ backdrops' = backdrops \ {b}
      /\ backdropWait' = [c \in Backdrop |-> IF c = b THEN NoWait ELSE backdropWait[c]]
      /\ current' = [current EXCEPT ![m] = NoBackdrop]
      /\ locked' = FALSE /\ bodyPad' = padBefore[m] /\ padBefore' = padBefore
      /\ UNCHANGED <<shown, displayed, closable, keys, ignoring, elementWait, guard,
                     focused>>
  BY DEF Remove, RunJob, RemoveBackdrop, UnlockBody, dialogVars, focusVars
<1>3. /\ m \in Dialog /\ Tail(jobs) \in Seq(Jobs)
      /\ \A j : In(j, Tail(jobs)) => In(j, jobs)
      /\ In(Job("remove", m), jobs)
  BY <1>2, HeadIs
<1> HIDE DEF m
<1>4. /\ current \in [Dialog -> backdrops \cup {NoBackdrop}]
      /\ backdropWait \in [Backdrop -> [handlers : Seq(Jobs), left : Int]]
      /\ \A n, k \in Dialog : current[n] = current[k] /\ current[n] # NoBackdrop => n = k
      /\ \A c \in Backdrop \ backdrops : backdropWait[c] = NoWait
  BY <1>1 DEF ModalTypeOK, HandlerTypes, Backdrops
<1>5. /\ \A n \in Dialog : current'[n] = IF n = m THEN NoBackdrop ELSE current[n]
      /\ \A c \in Backdrop : backdropWait'[c] = IF c = b THEN NoWait ELSE backdropWait[c]
      /\ backdropWait' \in [Backdrop -> [handlers : Seq(Jobs), left : Int]]
  BY <1>2, <1>3, <1>4, WaitsAre
<1>6. current' \in [Dialog -> backdrops' \cup {NoBackdrop}]
  BY <1>2, <1>3, <1>4, <1>5
<1>7. ModalTypeOK'
  BY <1>1, <1>2, <1>3, <1>6 DEF ModalTypeOK
<1>8. HandlerTypes'
  BY <1>1, <1>2, <1>3, <1>5 DEF HandlerTypes
<1>9. Backdrops'
  BY <1>2, <1>3, <1>4, <1>5 DEF Backdrops
<1>10. SafeKept
  <2> SUFFICES ASSUME NEW n \in Dialog, Safe(n)
               PROVE  Safe(n)'
    BY DEF SafeKept
  <2>1. n # m
    BY <1>3 DEF Safe, Removing
  <2>2. \A j : ~ In(j, NoWait.handlers)
    BY WaitsAre, EmptySeq DEF In
  <2> QED
    BY <1>2, <1>3, <1>5, <2>1, <2>2 DEF Safe, Removing
<1> QED
  BY <1>2, <1>7, <1>8, <1>9, <1>10 DEF ModalInv

LEMMA Handler_modal ==
    ASSUME ModalInv, ShowDialog \/ UnlockUnder
    PROVE  ModalInv' /\ SafeKept /\ shown' = shown
<1>1. ModalTypeOK /\ HandlerTypes /\ Backdrops
  BY DEF ModalInv
<1> DEFINE m == Head(jobs).dialog
<1>2. /\ jobs # <<>> /\ jobs' = Tail(jobs)
      /\ UNCHANGED <<shown, closable, keys, ignoring, current, backdrops, elementWait,
                     backdropWait, padBefore, focused>>
      /\ \/ /\ displayed' = displayed \cup {m} /\ guard' = {m}
            /\ UNCHANGED <<locked, bodyPad>>
         \/ /\ locked' = FALSE /\ bodyPad' = padBefore[m]
            /\ UNCHANGED <<displayed, guard>>
  BY DEF ShowDialog, UnlockUnder, RunJob, EnforceFocus, UnlockBody, backdropVars, bodyVars,
         dialogVars, focusVars
<1>3. /\ m \in Dialog /\ Tail(jobs) \in Seq(Jobs)
      /\ \A j : In(j, Tail(jobs)) => In(j, jobs)
  BY <1>2, HeadIs
<1> HIDE DEF m
<1>4. Backdrops' /\ SafeKept
  BY <1>1, <1>2, <1>3, StillSafe
<1>5. ModalTypeOK'
  BY <1>1, <1>2, <1>3 DEF ModalTypeOK
<1>6. HandlerTypes'
  BY <1>1, <1>2, <1>3 DEF HandlerTypes
<1> QED
  BY <1>2, <1>4, <1>5, <1>6 DEF ModalInv

LEMMA Ends_modal ==
    ASSUME ModalInv,
           \/ \E m \in Dialog : ElementEnds(m)
           \/ \E b \in Backdrop : BackdropEnds(b)
    PROVE  ModalInv' /\ SafeKept /\ shown' = shown
<1>1. ModalTypeOK /\ HandlerTypes /\ Backdrops
  BY DEF ModalInv
<1>2. /\ elementWait \in [Dialog -> [handlers : Seq(Hides), left : Int]]
      /\ backdropWait \in [Backdrop -> [handlers : Seq(Jobs), left : Int]]
  BY <1>1 DEF HandlerTypes
<1>3. \A j : ~ In(j, NoWait.handlers)
  BY WaitsAre, EmptySeq DEF In
<1>4. CASE \E m \in Dialog : ElementEnds(m)
  <2>1. PICK m \in Dialog : ElementEnds(m)
    BY <1>4
  <2>2. /\ jobs' = elementWait[m].handlers
        /\ elementWait' = [elementWait EXCEPT ![m] = NoWait]
        /\ UNCHANGED <<shown, displayed, closable, keys, ignoring, current, backdrops,
                       backdropWait, locked, bodyPad, padBefore, guard, focused>>
    BY <2>1 DEF ElementEnds, dialogVars, bodyVars, focusVars
  <2>3. jobs' \in Seq(Hides) /\ Seq(Hides) \subseteq Seq(Jobs)
    <3>1. Hides \subseteq Jobs
      BY DEF Hides, Jobs
    <3>2. Seq(Hides) \subseteq Seq(Jobs)
      BY <3>1, SeqMonotonic
    <3> QED
      BY <1>2, <2>2, <3>2
  <2>4. \A n : ~ In(Job("remove", n), jobs')
    <3>1. \A i \in 1 .. Len(jobs') : jobs'[i] \in Hides
      BY <2>3, ElementOfSeq
    <3>2. \A n : Job("remove", n) \notin Hides
      BY DEF Job, Hides
    <3> QED
      BY <3>1, <3>2 DEF In
  <2>5. Backdrops'
    BY <1>1, <2>2 DEF Backdrops
  <2>6. SafeKept
    BY <2>2, <2>4 DEF SafeKept, Safe, Removing
  <2>7. ModalTypeOK'
    BY <1>1, <2>2 DEF ModalTypeOK
  <2>8. HandlerTypes'
    BY <1>1, <1>2, <2>2, <2>3, WaitsAre DEF HandlerTypes
  <2> QED
    BY <2>2, <2>5, <2>6, <2>7, <2>8 DEF ModalInv
<1>5. CASE \E b \in Backdrop : BackdropEnds(b)
  <2>1. PICK b \in Backdrop : BackdropEnds(b)
    BY <1>5
  <2>2. /\ jobs' = backdropWait[b].handlers
        /\ backdropWait' = [backdropWait EXCEPT ![b] = NoWait]
        /\ UNCHANGED <<shown, displayed, closable, keys, ignoring, current, backdrops,
                       elementWait, locked, bodyPad, padBefore, guard, focused>>
    BY <2>1 DEF BackdropEnds, dialogVars, bodyVars, focusVars
  <2>3. /\ jobs' \in Seq(Jobs)
        /\ \A c \in Backdrop : backdropWait'[c] = IF c = b THEN NoWait ELSE backdropWait[c]
        /\ backdropWait' \in [Backdrop -> [handlers : Seq(Jobs), left : Int]]
    BY <1>2, <2>2, WaitsAre
  <2>4. Backdrops'
    BY <1>1, <2>2, <2>3 DEF Backdrops
  <2>5. SafeKept
    BY <1>3, <2>2, <2>3 DEF SafeKept, Safe, Removing
  <2>6. ModalTypeOK'
    BY <1>1, <2>2 DEF ModalTypeOK
  <2>7. HandlerTypes'
    BY <1>1, <2>2, <2>3 DEF HandlerTypes
  <2> QED
    BY <2>2, <2>4, <2>5, <2>6, <2>7 DEF ModalInv
<1> QED
  BY <1>4, <1>5

(* Time goes by, or only the focus moves.                                   *)
LEMMA Still_modal ==
    ASSUME ModalInv,
           \/ UNCHANGED modalVars \/ TabOut \/ ModalLater
           \/ \E m \in Dialog : TakeFocus(m) \/ DragOut(m)
           \/ \E m \in Dialog : ClickBeside(m) /\ shown' = shown
    PROVE  ModalInv' /\ SafeKept /\ shown' = shown
<1>1. ModalTypeOK /\ HandlerTypes /\ Backdrops
  BY DEF ModalInv
<1>2. CASE ModalLater
  <2>1. /\ elementWait' = [m \in Dialog |-> Later(elementWait[m])]
        /\ backdropWait' = [b \in Backdrop |-> Later(backdropWait[b])]
        /\ UNCHANGED <<shown, displayed, closable, keys, ignoring, current, backdrops,
                       locked, bodyPad, padBefore, guard, focused, jobs>>
    BY <1>2 DEF ModalLater, dialogVars, bodyVars, focusVars
  <2>2. /\ elementWait \in [Dialog -> [handlers : Seq(Hides), left : Int]]
        /\ backdropWait \in [Backdrop -> [handlers : Seq(Jobs), left : Int]]
    BY <1>1 DEF HandlerTypes
  <2>3. \A b \in Backdrop : /\ backdropWait'[b] = Later(backdropWait[b])
                            /\ backdropWait'[b].handlers = backdropWait[b].handlers
                            /\ backdropWait'[b] \in [handlers : Seq(Jobs), left : Int]
    BY <2>1, <2>2, WaitsAre
  <2>4. \A m \in Dialog : Later(elementWait[m]) \in [handlers : Seq(Hides), left : Int]
    BY <2>2, WaitsAre
  <2>5. HandlerTypes'
    BY <1>1, <2>1, <2>3, <2>4 DEF HandlerTypes
  <2>6. Backdrops'
    BY <1>1, <2>1, <2>3, WaitsAre DEF Backdrops
  <2>7. SafeKept
    BY <2>1, <2>3 DEF SafeKept, Safe, Removing
  <2>8. ModalTypeOK'
    BY <1>1, <2>1 DEF ModalTypeOK
  <2> QED
    BY <2>1, <2>5, <2>6, <2>7, <2>8 DEF ModalInv
<1>3. CASE \/ UNCHANGED modalVars \/ TabOut
           \/ \E m \in Dialog : TakeFocus(m) \/ DragOut(m)
           \/ \E m \in Dialog : ClickBeside(m) /\ shown' = shown
  <2>1. /\ UNCHANGED <<current, backdrops, backdropWait, locked, bodyPad,
                       padBefore, jobs>>
        /\ \/ /\ UNCHANGED <<shown, displayed, closable, keys, elementWait, guard>>
              /\ \/ UNCHANGED <<ignoring, focused>>
                 \/ ignoring' = ignoring /\ focused' \subseteq displayed
                 \/ /\ focused' = focused
                    /\ \E m \in Dialog \ Static : ignoring' = ignoring \cup {m}
                 \/ \E m \in Dialog : focused' = focused /\ ignoring' = ignoring \ {m}
           \/ \E m \in Dialog : Hide(m) /\ shown' = shown
    <3>1. CASE UNCHANGED modalVars
      BY <3>1 DEF modalVars, dialogVars, backdropVars, bodyVars, focusVars
    <3>2. CASE TabOut
      BY <3>2 DEF TabOut, dialogVars, backdropVars, bodyVars, focusVars
    <3>3. ASSUME NEW m \in Dialog, TakeFocus(m) \/ DragOut(m)
          PROVE  /\ UNCHANGED <<current, backdrops, backdropWait, locked, bodyPad,
                                padBefore, jobs>>
                 /\ UNCHANGED <<shown, displayed, closable, keys, elementWait, guard>>
                 /\ \/ ignoring' = ignoring /\ focused' \subseteq displayed
                    \/ /\ focused' = focused
                       /\ \E n \in Dialog \ Static : ignoring' = ignoring \cup {n}
      BY <3>3 DEF TakeFocus, DragOut, dialogVars, backdropVars, bodyVars, focusVars
    <3>4. ASSUME NEW m \in Dialog, ClickBeside(m), shown' = shown
          PROVE  /\ UNCHANGED <<current, backdrops, backdropWait, locked, bodyPad,
                                padBefore, jobs>>
                 /\ \/ /\ UNCHANGED <<shown, displayed, closable, keys, elementWait, guard>>
                       /\ \/ ignoring' = ignoring /\ focused' \subseteq displayed
                          \/ focused' = focused /\ ignoring' = ignoring \ {m}
                    \/ Hide(m)
      BY <3>4 DEF ClickBeside, Hide, modalVars, dialogVars, backdropVars, bodyVars, focusVars
    <3> QED
      BY <1>3, <3>1, <3>2, <3>3, <3>4
  <2>2. CASE \E m \in Dialog : Hide(m) /\ shown' = shown
    BY <2>2, ShowHide_modal
  <2>3. CASE UNCHANGED <<shown, displayed, closable, keys, elementWait, guard>>
    <3>1. Backdrops' /\ SafeKept
      BY <1>1, <2>1, StillSafe
    <3>2. ignoring' \in SUBSET (Dialog \ Static) /\ focused' \in SUBSET displayed
      BY <1>1, <2>1, <2>3 DEF ModalTypeOK, Hide, modalVars, dialogVars, focusVars
    <3>3. ModalTypeOK'
      BY <1>1, <2>1, <2>3, <3>2 DEF ModalTypeOK
    <3>4. HandlerTypes'
      BY <1>1, <2>1, <2>3 DEF HandlerTypes
    <3> QED
      BY <2>3, <3>1, <3>3, <3>4 DEF ModalInv
  <2> QED
    BY <2>1, <2>2, <2>3
<1> QED
  BY <1>2, <1>3

(* Nobody but the page hides the waiting dialog.                            *)
LEMMA ModalEvent_modal ==
    ASSUME ModalInv, ModalEvent
    PROVE  /\ ModalInv' /\ SafeKept
           /\ WaitDialog \in shown' <=> WaitDialog \in shown
<1>1. CASE RunHandler
  BY <1>1, Handler_modal, HideModal_modal, Remove_modal DEF RunHandler
<1>2. CASE TabOut
  BY <1>2, Still_modal
<1>3. ASSUME NEW m \in Dialog, ElementEnds(m)
      PROVE  ModalInv' /\ SafeKept /\ shown' = shown
  BY <1>3, Ends_modal
<1>4. ASSUME NEW b \in Backdrop, BackdropEnds(b)
      PROVE  ModalInv' /\ SafeKept /\ shown' = shown
  BY <1>4, Ends_modal
<1>5. ASSUME NEW m \in Dialog, TakeFocus(m) \/ DragOut(m)
      PROVE  ModalInv' /\ SafeKept /\ shown' = shown
  BY <1>5, Still_modal
<1>6. ASSUME NEW m \in Dialog, CloseButton(m) \/ Escape(m) \/ ClickBeside(m)
      PROVE  /\ ModalInv' /\ SafeKept
             /\ WaitDialog \in shown' <=> WaitDialog \in shown
  <2>1. keys \subseteq Dialog \ Static
    BY DEF ModalInv, ModalTypeOK
  <2>2. \/ Hide(m) /\ m # WaitDialog
        \/ ClickBeside(m) /\ shown' = shown
    BY <1>6, <2>1, NumbersAre DEF CloseButton, Escape, ClickBeside, dialogVars
  <2>3. CASE Hide(m) /\ m # WaitDialog
    BY <2>3, ShowHide_modal
  <2>4. CASE ClickBeside(m) /\ shown' = shown
    BY <2>4, Still_modal
  <2> QED
    BY <2>2, <2>3, <2>4
<1> QED
  BY <1>1, <1>2, <1>3, <1>4, <1>5, <1>6 DEF ModalEvent

-----------------------------------------------------------------------------
(* Step by step on the page: one test at a time, unless keys are used.      *)
LEMMA InitTest == PageInit => TestInv
<1> SUFFICES ASSUME PageInit PROVE TestInv
  OBVIOUS
<1>1. /\ shown = {} /\ displayed = {} /\ closable = {} /\ keys = {} /\ ignoring = {}
      /\ current = [m \in Dialog |-> NoBackdrop] /\ backdrops = {}
      /\ elementWait = [m \in Dialog |-> NoWait]
      /\ backdropWait = [b \in Backdrop |-> NoWait]
      /\ locked = FALSE /\ bodyPad = 0 /\ padBefore = [m \in Dialog |-> 0]
      /\ guard = {} /\ focused = {} /\ jobs = <<>>
      /\ running = 0 /\ asked = [m \in Details |-> 0] /\ hurries = 0 /\ pressed = FALSE
  BY DEF PageInit, ModalInit
<1>2. ModalTypeOK
  BY <1>1 DEF ModalTypeOK
<1>3. HandlerTypes
  BY <1>1, WaitsAre, EmptySeq DEF HandlerTypes
<1>4. Backdrops
  BY <1>1 DEF Backdrops
<1>5. RequestTypes
  BY <1>1 DEF RequestTypes
<1>6. Waited
  <2>1. WaitDialog \notin shown /\ ~ (running > 0)
    BY <1>1
  <2> QED
    BY <2>1 DEF Waited
<1> QED
  BY <1>2, <1>3, <1>4, <1>5, <1>6 DEF TestInv, ModalInv

(* A step in which the waiting dialog stays, and no test begins.            *)
LEMMA WaitedKept ==
    ASSUME TestInv, ModalInv', SafeKept, RequestTypes',
           WaitDialog \in shown' <=> WaitDialog \in shown,
           running' = running, pressed' \in {pressed, TRUE}
    PROVE  TestInv'
<1>1. Waited /\ WaitDialog \in Dialog
  BY NumbersAre DEF TestInv
<1>2. Waited'
  BY <1>1 DEF Waited, SafeKept, Safe
<1> QED
  BY <1>2 DEF TestInv

LEMMA UserActsIs ==
    ASSUME RequestTypes, UserActs
    PROVE  /\ hurries' \in Nat /\ pressed' \in {pressed, TRUE} /\ pressed' \in BOOLEAN
           /\ pressed' \/ Reachable
           /\ jobs = <<>>
           /\ hurries' = 0 => hurries = 0 /\ Reachable /\ Settled
<1>1. hurries \in Nat /\ pressed \in BOOLEAN
  BY DEF RequestTypes
<1>2. CASE Reachable /\ Settled /\ UNCHANGED userVars
  <2>1. hurries' = hurries /\ pressed' = pressed /\ jobs = <<>>
    BY <1>2 DEF userVars, Reachable
  <2> QED
    BY <1>1, <1>2, <2>1
<1>3. CASE hurries' = hurries + 1 /\ Reachable /\ UNCHANGED pressed
  <2>1. hurries' \in Nat /\ hurries' # 0 /\ pressed' = pressed
    BY <1>1, <1>3
  <2>2. jobs = <<>>
    BY <1>3 DEF Reachable
  <2> QED
    BY <1>1, <1>3, <2>1, <2>2
<1>4. CASE hurries' = hurries + 1 /\ jobs = <<>> /\ pressed' = TRUE
  <2>1. hurries' \in Nat /\ hurries' # 0
    BY <1>1, <1>4
  <2> QED
    BY <1>4, <2>1
<1> QED
  BY <1>2, <1>3, <1>4 DEF UserActs

LEMMA AskedIs ==
    ASSUME RequestTypes, NEW m \in Details,
           \/ asked' = [asked EXCEPT ![m] = @ + 1]
           \/ asked[m] > 0 /\ asked' = [asked EXCEPT ![m] = @ - 1]
    PROVE  asked' \in [Details -> Nat]
<1>1. asked \in [Details -> Nat] /\ asked[m] \in Nat
  BY DEF RequestTypes
<1>2. asked[m] + 1 \in Nat /\ (asked[m] > 0 => asked[m] - 1 \in Nat)
  BY <1>1
<1> QED
  BY <1>1, <1>2

LEMMA NextTest == TestInv /\ [PageNext]_pageVars => TestInv'
<1> SUFFICES ASSUME TestInv, [PageNext]_pageVars PROVE TestInv'
  OBVIOUS
<1>1. ModalInv /\ RequestTypes /\ Waited /\ WaitDialog \in Dialog /\ Details \subseteq Dialog
  BY NumbersAre DEF TestInv, Details
<1>2. /\ running \in Nat /\ asked \in [Details -> Nat] /\ hurries \in Nat
      /\ pressed \in BOOLEAN
  BY <1>1 DEF RequestTypes
<1>3. CASE StartTest
  <2>1. /\ hurries' \in Nat /\ pressed' \in {pressed, TRUE} /\ pressed' \in BOOLEAN
        /\ pressed' \/ Reachable
    BY <1>1, <1>3, UserActsIs DEF StartTest
  <2>2. Show(WaitDialog) /\ running' = running + 1 /\ asked' = asked
    BY <1>3 DEF StartTest, Call
  <2>3. RequestTypes'
    BY <1>2, <2>1, <2>2 DEF RequestTypes
  <2>4. /\ ModalInv' /\ shown' = shown \cup {WaitDialog}
        /\ WaitDialog \notin shown /\ backdrops = {} /\ jobs = <<>> => Safe(WaitDialog)'
    BY <1>1, <2>2, ShowHide_modal
  <2>5. ASSUME ~ pressed'
        PROVE  /\ WaitDialog \in shown' /\ running' = 1
               /\ current'[WaitDialog] # NoBackdrop /\ ~ Removing(WaitDialog)'
    <3>1. ~ pressed /\ backdrops = {} /\ jobs = <<>>
      <4>1. Reachable
        BY <2>1, <2>5
      <4>2. ~ pressed
        BY <1>2, <2>1, <2>5
      <4> QED
        BY <4>1, <4>2 DEF Reachable
    <3>2. current[WaitDialog] = NoBackdrop
      BY <1>1, <3>1 DEF ModalInv, ModalTypeOK
    <3>3. WaitDialog \notin shown /\ running = 0
      BY <1>1, <1>2, <3>1, <3>2 DEF Waited
    <3> QED
      BY <2>2, <2>4, <3>1, <3>3 DEF Safe
  <2>6. Waited'
    BY <2>5 DEF Waited
  <2> QED
    BY <2>3, <2>4, <2>6 DEF TestInv
<1>4. CASE TestAnswered
  <2>1. /\ Hide(WaitDialog) /\ running > 0 /\ running' = running - 1 /\ asked' = asked
        /\ hurries' = hurries /\ pressed' = pressed
    BY <1>4 DEF TestAnswered, Call, userVars
  <2>2. RequestTypes'
    BY <1>2, <2>1 DEF RequestTypes
  <2>3. ModalInv' /\ shown' = shown \ {WaitDialog}
    BY <1>1, <2>1, ShowHide_modal
  <2>4. ~ pressed => running' = 0
    BY <1>1, <1>2, <2>1 DEF Waited
  <2>5. Waited'
    BY <2>1, <2>3, <2>4 DEF Waited
  <2> QED
    BY <2>2, <2>3, <2>5 DEF TestInv
<1>5. CASE TestFails
  <2>1. /\ UNCHANGED modalVars /\ running > 0 /\ running' = running - 1 /\ asked' = asked
        /\ hurries' = hurries /\ pressed' = pressed
    BY <1>5 DEF TestFails, userVars
  <2>2. RequestTypes'
    BY <1>2, <2>1 DEF RequestTypes
  <2>3. ModalInv' /\ SafeKept /\ shown' = shown
    BY <1>1, <2>1, Still_modal
  <2>4. ~ pressed => running' = 0
    BY <1>1, <1>2, <2>1 DEF Waited
  <2>5. Waited'
    BY <1>1, <2>1, <2>3, <2>4 DEF Waited, SafeKept, Safe
  <2> QED
    BY <2>2, <2>3, <2>5 DEF TestInv
<1>6. ASSUME NEW m \in Details, AskDetails(m) PROVE TestInv'
  <2>1. /\ hurries' \in Nat /\ pressed' \in {pressed, TRUE} /\ pressed' \in BOOLEAN
    BY <1>1, <1>6, UserActsIs DEF AskDetails
  <2>2. /\ UNCHANGED modalVars /\ running' = running
        /\ asked' = [asked EXCEPT ![m] = @ + 1]
    BY <1>6 DEF AskDetails, ToggleTarget
  <2>3. RequestTypes'
    BY <1>1, <1>2, <2>1, <2>2, AskedIs DEF RequestTypes
  <2>4. ModalInv' /\ SafeKept /\ shown' = shown
    BY <1>1, <2>2, Still_modal
  <2> QED
    BY <2>1, <2>2, <2>3, <2>4, WaitedKept
<1>7. ASSUME NEW m \in Details, DetailsAnswered(m) PROVE TestInv'
  <2>1. /\ Show(m) /\ running' = running /\ hurries' = hurries /\ pressed' = pressed
        /\ asked[m] > 0 /\ asked' = [asked EXCEPT ![m] = @ - 1]
    BY <1>7 DEF DetailsAnswered, Call, userVars
  <2>2. RequestTypes'
    BY <1>1, <1>2, <2>1, AskedIs DEF RequestTypes
  <2>3. ModalInv' /\ SafeKept /\ shown' = shown \cup {m}
    BY <1>1, <2>1, ShowHide_modal
  <2>4. m # WaitDialog
    BY DEF Details
  <2> QED
    BY <2>1, <2>2, <2>3, <2>4, WaitedKept
<1>8. ASSUME NEW m \in Details, DetailsFail(m) PROVE TestInv'
  <2>1. /\ UNCHANGED modalVars /\ running' = running
        /\ hurries' = hurries /\ pressed' = pressed
        /\ asked[m] > 0 /\ asked' = [asked EXCEPT ![m] = @ - 1]
    BY <1>8 DEF DetailsFail, userVars
  <2>2. RequestTypes'
    BY <1>1, <1>2, <2>1, AskedIs DEF RequestTypes
  <2>3. ModalInv' /\ SafeKept /\ shown' = shown
    BY <1>1, <2>1, Still_modal
  <2> QED
    BY <2>1, <2>2, <2>3, WaitedKept
<1>9. ASSUME NEW p \in Panel, MovePanel(p) PROVE TestInv'
  <2>1. /\ hurries' \in Nat /\ pressed' \in {pressed, TRUE} /\ pressed' \in BOOLEAN
        /\ UNCHANGED modalVars /\ running' = running /\ asked' = asked
    BY <1>1, <1>9, UserActsIs DEF MovePanel
  <2>2. RequestTypes'
    BY <1>2, <2>1 DEF RequestTypes
  <2>3. ModalInv' /\ SafeKept /\ shown' = shown
    BY <1>1, <2>1, Still_modal
  <2> QED
    BY <2>1, <2>2, <2>3, WaitedKept
<1>10. CASE DialogEvent
  <2>1. /\ ModalEvent /\ running' = running /\ asked' = asked
        /\ hurries' = hurries /\ pressed' = pressed
    BY <1>10 DEF DialogEvent, requestVars, userVars
  <2>2. RequestTypes'
    BY <1>2, <2>1 DEF RequestTypes
  <2>3. /\ ModalInv' /\ SafeKept
        /\ WaitDialog \in shown' <=> WaitDialog \in shown
    BY <1>1, <2>1, ModalEvent_modal
  <2> QED
    BY <2>1, <2>2, <2>3, WaitedKept
<1>11. CASE Tick \/ UNCHANGED pageVars \/ \E p \in Panel : PanelSettles(p)
  <2>1. /\ ModalLater \/ UNCHANGED modalVars
        /\ running' = running /\ asked' = asked
        /\ hurries' = hurries /\ pressed' = pressed
    BY <1>11 DEF Tick, PanelSettles, pageVars, requestVars, userVars
  <2>2. RequestTypes'
    BY <1>2, <2>1 DEF RequestTypes
  <2>3. ModalInv' /\ SafeKept /\ shown' = shown
    BY <1>1, <2>1, Still_modal
  <2> QED
    BY <2>1, <2>2, <2>3, WaitedKept
<1> QED
  BY <1>3, <1>4, <1>5, <1>6, <1>7, <1>8, <1>9, <1>10, <1>11
     DEF PageNext, User, Server

(* With the mouse, however fast, the page has at most one test running.     *)
THEOREM OneTestIsRunning == WebSpec => []OneTestAtATime
<1>1. WebInit => TestInv
  BY InitTest DEF WebInit
<1>2. TestInv /\ [WebNext]_webVars => TestInv'
  BY NextTest, WebSteps
<1>3. TestInv => OneTestAtATime
  BY DEF TestInv, RequestTypes, Waited, OneTestAtATime
<1> QED
  BY <1>1, <1>2, <1>3, PTL DEF WebSpec

(* The parts of a dialog agree: a dialog's backdrop is one on the page,     *)
(* what has the focus is displayed, and no key closes a static dialog.      *)
THEOREM DialogsTypeCorrect == WebSpec => []ModalTypeOK
<1>1. WebInit => TestInv
  BY InitTest DEF WebInit
<1>2. TestInv /\ [WebNext]_webVars => TestInv'
  BY NextTest, WebSteps
<1>3. TestInv => ModalTypeOK
  BY DEF TestInv, ModalInv
<1> QED
  BY <1>1, <1>2, <1>3, PTL DEF WebSpec

-----------------------------------------------------------------------------
(* The panels of a user who waits.  Nothing moves: ...                      *)
LEMMA MovesAre ==
    ASSUME NEW call, NEW own, NEW w
    PROVE  /\ Moves(w, call, own) => Waits(w) /\ w # NoWait
                                     /\ Moves(Later(w), call, own)
           /\ ~ Moves(NoWait, call, own)
           /\ \A d : Moves(WaitFor(NoWait, Handler(call, own), d), call, own)
           /\ \A c, o : Moves(w, call, own) /\ Moves(w, c, o) => c = call /\ o = own
<1>1. NoWait.handlers = <<>> /\ ~ Waits(NoWait)
  BY WaitsAre
<1>2. ASSUME Moves(w, call, own) PROVE Waits(w) /\ Moves(Later(w), call, own)
  <2>1. /\ w = [handlers |-> <<Handler(call, own)>>, left |-> w.left]
        /\ w.handlers = <<Handler(call, own)>>
    BY <1>2 DEF Moves
  <2>2. Waits(w)
    BY <2>1 DEF Waits
  <2>3. Later(w) = [handlers |-> <<Handler(call, own)>>, left |-> w.left - 1]
    BY <2>1, <2>2 DEF Later
  <2>4. Later(w).left = w.left - 1
    BY <2>3
  <2> QED
    BY <2>2, <2>3, <2>4 DEF Moves
<1>3. ~ Moves(NoWait, call, own)
  <2>1. <<Handler(call, own)>> # <<>>
    OBVIOUS
  <2> QED
    BY <1>1, <2>1 DEF Moves
<1>4. ASSUME NEW d
      PROVE  Moves(WaitFor(NoWait, Handler(call, own), d), call, own)
  BY WaitsAre DEF Moves
<1>5. ASSUME NEW c, NEW o, Moves(w, call, own), Moves(w, c, o)
      PROVE  c = call /\ o = own
  <2>1. w.handlers = <<Handler(call, own)>> /\ w.handlers = <<Handler(c, o)>>
    <3>1. w = [handlers |-> <<Handler(call, own)>>, left |-> w.left]
          /\ w = [handlers |-> <<Handler(c, o)>>, left |-> w.left]
      BY <1>5 DEF Moves
    <3> QED
      BY <3>1
  <2>2. Handler(call, own) = Handler(c, o)
    <3>1. <<Handler(call, own)>>[1] = <<Handler(c, o)>>[1]
      BY <2>1
    <3> QED
      BY <3>1
  <2>3. Handler(c, o).call = c /\ Handler(c, o).own = o
        /\ Handler(call, own).call = call /\ Handler(call, own).own = own
    BY DEF Handler
  <2> QED
    BY <2>2, <2>3
<1> QED
  BY <1>1, <1>2, <1>3, <1>4, <1>5

LEMMA DataAre ==
    /\ Object("idle", TRUE).state = "idle" /\ Object("busy", TRUE).state = "busy"
    /\ Object("idle", TRUE).grouped = TRUE /\ Object("busy", TRUE).grouped = TRUE
    /\ NoData.state = "none" /\ NoData.grouped = FALSE
  BY DEF Object, NoData

LEMMA DisownsNone == Disown(NoWait) = NoWait
<1>1. NoWait = [handlers |-> <<>>, left |-> 0] /\ DOMAIN NoWait.handlers = {}
  BY DEF NoWait
<1>2. ASSUME NEW f, DOMAIN f = {}
      PROVE  [i \in DOMAIN f |-> [f[i] EXCEPT !.own = FALSE]] = [i \in {} |-> 0]
  BY <1>2
<1>3. [i \in {} |-> 0] = <<>>
  OBVIOUS
<1>4. [i \in DOMAIN NoWait.handlers |-> [NoWait.handlers[i] EXCEPT !.own = FALSE]] = <<>>
  BY <1>1, <1>2, <1>3
<1>5. Disown(NoWait)
        = [NoWait EXCEPT !.handlers =
              [i \in DOMAIN NoWait.handlers |-> [NoWait.handlers[i] EXCEPT !.own = FALSE]]]
  BY DEF Disown
<1> QED
  BY <1>1, <1>4, <1>5

LEMMA StillPanels ==
    ASSUME PanelsInOrder, ~ PanelsMove
    PROVE  /\ \A q \in Panel :
                 /\ panelWait[q] = NoWait /\ panel[q] \in {"open", "closed"}
                 /\ data[q] \in {NoData, Object("idle", TRUE)}
                 /\ ~ Busy(q) /\ (Has(q) => data[q] = Object("idle", TRUE))
                 /\ ~ Has(q) => data[q] = NoData
                 /\ q \in collapsed <=> panel[q] = "closed"
           /\ \A q, r \in Panel : panel[q] = "open" /\ panel[r] = "open" => q = r
           /\ collapsed = Remark
<1>1. /\ collapsed \subseteq Panel
      /\ \A q \in Panel : PanelOf(q)
      /\ \A q, r \in Panel : Opening(q) /\ Opening(r) => q = r
      /\ \A q \in Panel : q \in collapsed <=> ~ Opening(q)
  BY DEF PanelsInOrder
<1>2. ASSUME NEW q \in Panel
      PROVE  /\ panelWait[q] = NoWait /\ panel[q] \in {"open", "closed"}
             /\ data[q] \in {NoData, Object("idle", TRUE)}
             /\ Opening(q) <=> panel[q] = "open"
  <2>1. \A call, own : ~ Moves(panelWait[q], call, own)
    BY MovesAre DEF PanelsMove
  <2> QED
    BY <1>1, <2>1 DEF PanelOf, Opening
<1>3. ASSUME NEW q \in Panel
      PROVE  /\ ~ Busy(q) /\ (Has(q) => data[q] = Object("idle", TRUE))
             /\ ~ Has(q) => data[q] = NoData
  BY <1>2, DataAre DEF Busy, Has
<1>4. collapsed = Remark
  BY <1>1, <1>2 DEF Remark
<1> QED
  BY <1>1, <1>2, <1>3, <1>4

(* ... then the click on a heading that closes its panel ...                *)
LEMMA PanelHides ==
    ASSUME PanelsInOrder, ~ PanelsMove, NEW p \in Panel,
           panel[p] = "open", HidePanel(p, TRUE, collapsed)
    PROVE  PanelsInOrder'
<1>1. /\ \A q \in Panel :
            /\ panelWait[q] = NoWait /\ panel[q] \in {"open", "closed"}
            /\ data[q] \in {NoData, Object("idle", TRUE)}
            /\ q \in collapsed <=> panel[q] = "closed"
      /\ \A q, r \in Panel : panel[q] = "open" /\ panel[r] = "open" => q = r
  BY StillPanels
<1>2. /\ collapsed \subseteq Panel /\ panel = [q \in Panel |-> panel[q]]
      /\ data = [q \in Panel |-> data[q]] /\ panelWait = [q \in Panel |-> panelWait[q]]
  BY DEF PanelsInOrder
<1> DEFINE w == WaitFor(NoWait, Handler("closed", TRUE), MoveTime)
<1>3. /\ panel' = [panel EXCEPT ![p] = "moving"] /\ collapsed' = collapsed \cup {p}
      /\ data' = [data EXCEPT ![p] = Object("busy", TRUE)]
      /\ panelWait' = [panelWait EXCEPT ![p] = w]
  BY <1>1 DEF HidePanel
<1>4. /\ Moves(w, "closed", TRUE)
      /\ \A call, own : Moves(w, call, own) => call = "closed"
      /\ \A call, own : ~ Moves(NoWait, call, own)
  <2>1. Moves(w, "closed", TRUE)
    BY MovesAre
  <2> HIDE DEF w
  <2>2. \A call, own : Moves(w, call, own) => call = "closed"
    BY <2>1, MovesAre
  <2>3. \A call, own : ~ Moves(NoWait, call, own)
    BY MovesAre
  <2> QED
    BY <2>1, <2>2, <2>3
<1> HIDE DEF w
<1>5. /\ panel' = [q \in Panel |-> panel'[q]] /\ data' = [q \in Panel |-> data'[q]]
      /\ panelWait' = [q \in Panel |-> panelWait'[q]]
      /\ \A q \in Panel : /\ panel'[q] = IF q = p THEN "moving" ELSE panel[q]
                          /\ data'[q] = IF q = p THEN Object("busy", TRUE) ELSE data[q]
                          /\ panelWait'[q] = IF q = p THEN w ELSE NoWait
  BY <1>1, <1>2, <1>3
<1>6. ASSUME NEW q \in Panel PROVE ~ Opening(q)'
  <2>1. panel'[q] # "open"
    BY <1>1, <1>5
  <2>2. ~ Moves(panelWait'[q], "opened", TRUE)
    BY <1>4, <1>5
  <2> QED
    BY <2>1, <2>2 DEF Opening
<1>7. \A q \in Panel : PanelOf(q)'
  BY <1>1, <1>4, <1>5 DEF PanelOf
<1>8. collapsed' \subseteq Panel /\ \A q \in Panel : q \in collapsed'
  BY <1>1, <1>2, <1>3
<1> QED
  BY <1>5, <1>6, <1>7, <1>8 DEF PanelsInOrder

(* ... or opens it, and closes the one that is open.                        *)
LEMMA ShowPanelIs ==
    ASSUME PanelsInOrder, ~ PanelsMove, NEW p \in Panel,
           panel[p] = "closed", ShowPanel(p, Has(p), TRUE, collapsed)
    PROVE  /\ panel' = [q \in Panel |-> panel'[q]] /\ data' = [q \in Panel |-> data'[q]]
           /\ panelWait' = [q \in Panel |-> panelWait'[q]]
           /\ collapsed' = Panel \ {p}
           /\ panel'[p] = "moving" /\ data'[p] = Object("busy", TRUE)
           /\ panelWait'[p] = WaitFor(NoWait, Handler("opened", TRUE), MoveTime)
           /\ \A q \in Panel : q # p /\ panel[q] = "open" =>
                 /\ panel'[q] = "moving"
                 /\ data'[q] = IF Has(q) THEN Object("busy", TRUE) ELSE NoData
                 /\ panelWait'[q] = WaitFor(NoWait, Handler("closed", Has(q)), MoveTime)
           /\ \A q \in Panel : q # p /\ panel[q] # "open" =>
                 /\ panel'[q] = panel[q] /\ data'[q] = data[q] /\ panelWait'[q] = NoWait
<1> DEFINE had == Has(p)
           actives == Actives(TRUE)
           none == actives # {} /\ ~ Has(FirstOf(actives))
           blocked == actives # {} /\ Busy(FirstOf(actives))
           hiding == {q \in actives : panel[q] = "open" /\ ~ Busy(q)}
           other(q) == IF q \notin actives THEN data[q]
                       ELSE IF none THEN NoData
                       ELSE Object(IF q \in hiding THEN "busy"
                                   ELSE IF Has(q) THEN data[q].state ELSE "idle",
                                   data[q].grouped)
           own == ~ (had /\ none /\ p \in actives)
           handled(q) == IF none /\ q \in actives THEN Disown(panelWait[q])
                         ELSE panelWait[q]
<1>1. \/ blocked
      \/ /\ panel' = [q \in Panel |-> IF q = p \/ q \in hiding THEN "moving" ELSE panel[q]]
         /\ collapsed' = (collapsed \cup hiding) \ {p}
         /\ data' = [q \in Panel |->
                        IF q # p THEN other(q)
                        ELSE IF own THEN Object("busy", TRUE) ELSE NoData]
         /\ panelWait' = [q \in Panel |->
                             IF q = p THEN WaitFor(handled(q), Handler("opened", own), MoveTime)
                             ELSE IF q \in hiding
                             THEN WaitFor(handled(q), Handler("closed", ~ none), MoveTime)
                             ELSE handled(q)]
  BY DEF ShowPanel
<1>2. /\ \A q \in Panel :
            /\ panelWait[q] = NoWait /\ panel[q] \in {"open", "closed"}
            /\ data[q] \in {NoData, Object("idle", TRUE)}
            /\ ~ Busy(q) /\ (Has(q) => data[q] = Object("idle", TRUE))
            /\ ~ Has(q) => data[q] = NoData
            /\ q \in collapsed <=> panel[q] = "closed"
      /\ \A q, r \in Panel : panel[q] = "open" /\ panel[r] = "open" => q = r
  BY StillPanels
<1>3. actives = {q \in Panel : panel[q] = "open"} /\ hiding = actives /\ p \notin actives
  BY <1>2 DEF Actives
<1>4. collapsed \subseteq Panel
  BY DEF PanelsInOrder
<1>5. \A q \in Panel : q \in actives => actives = {q} /\ FirstOf(actives) = q
  <2> SUFFICES ASSUME NEW q \in Panel, q \in actives
               PROVE  actives = {q} /\ FirstOf(actives) = q
    OBVIOUS
  <2>1. actives = {q}
    BY <1>2, <1>3
  <2>2. q \in {q} /\ \A r \in {q} : q <= r
    BY DEF Panel
  <2>3. FirstOf({q}) \in {q}
    BY <2>2 DEF FirstOf
  <2> QED
    BY <2>1, <2>3
<1>6. ~ blocked
  BY <1>2, <1>3, <1>5
<1>7. \A q \in Panel : handled(q) = NoWait
  BY <1>2, DisownsNone
<1>8. own
  BY <1>3
<1>9. \A q \in Panel : q \in actives => (none <=> ~ Has(q))
  BY <1>5
<1>10. \A q \in Panel : q \in actives =>
          other(q) = IF Has(q) THEN Object("busy", TRUE) ELSE NoData
  BY <1>2, <1>3, <1>9, DataAre
<1>11. \A q \in Panel : q \notin actives => other(q) = data[q]
  OBVIOUS
<1> HIDE DEF had, actives, blocked, hiding, other, own, handled
<1>12. \A q \in Panel : q \in actives => none \in BOOLEAN /\ (~ none) = Has(q)
  BY <1>9 DEF Has
<1> HIDE DEF none
<1>13. collapsed' = Panel \ {p}
  BY <1>1, <1>2, <1>3, <1>4, <1>6
<1>14. own = TRUE
  BY <1>8 DEF own
<1>15. /\ panel'[p] = "moving" /\ data'[p] = Object("busy", TRUE)
       /\ panelWait'[p] = WaitFor(NoWait, Handler("opened", TRUE), MoveTime)
  BY <1>1, <1>6, <1>7, <1>8, <1>14
<1>16. ASSUME NEW q \in Panel, q # p, panel[q] = "open"
       PROVE  /\ panel'[q] = "moving"
              /\ data'[q] = IF Has(q) THEN Object("busy", TRUE) ELSE NoData
              /\ panelWait'[q] = WaitFor(NoWait, Handler("closed", Has(q)), MoveTime)
  BY <1>1, <1>3, <1>6, <1>7, <1>10, <1>12, <1>16
<1>17. ASSUME NEW q \in Panel, q # p, panel[q] # "open"
       PROVE  panel'[q] = panel[q] /\ data'[q] = data[q] /\ panelWait'[q] = NoWait
  BY <1>1, <1>3, <1>6, <1>7, <1>11, <1>17
<1>18. /\ panel' = [q \in Panel |-> panel'[q]] /\ data' = [q \in Panel |-> data'[q]]
       /\ panelWait' = [q \in Panel |-> panelWait'[q]]
  BY <1>1, <1>6
<1> QED
  BY <1>13, <1>15, <1>16, <1>17, <1>18

LEMMA PanelShows ==
    ASSUME PanelsInOrder, ~ PanelsMove, NEW p \in Panel,
           panel[p] = "closed", ShowPanel(p, Has(p), TRUE, collapsed)
    PROVE  PanelsInOrder'
<1>1. \A q \in Panel : /\ panelWait[q] = NoWait /\ panel[q] \in {"open", "closed"}
                       /\ data[q] \in {NoData, Object("idle", TRUE)}
  BY StillPanels
<1>2. /\ panel' = [q \in Panel |-> panel'[q]] /\ data' = [q \in Panel |-> data'[q]]
      /\ panelWait' = [q \in Panel |-> panelWait'[q]]
      /\ collapsed' = Panel \ {p}
      /\ panel'[p] = "moving" /\ data'[p] = Object("busy", TRUE)
      /\ panelWait'[p] = WaitFor(NoWait, Handler("opened", TRUE), MoveTime)
      /\ \A q \in Panel : q # p /\ panel[q] = "open" =>
            /\ panel'[q] = "moving"
            /\ data'[q] = IF Has(q) THEN Object("busy", TRUE) ELSE NoData
            /\ panelWait'[q] = WaitFor(NoWait, Handler("closed", Has(q)), MoveTime)
      /\ \A q \in Panel : q # p /\ panel[q] # "open" =>
            /\ panel'[q] = panel[q] /\ data'[q] = data[q] /\ panelWait'[q] = NoWait
  BY ShowPanelIs
<1>3. PanelOf(p)' /\ Opening(p)'
  <2>1. Moves(WaitFor(NoWait, Handler("opened", TRUE), MoveTime), "opened", TRUE)
    BY MovesAre
  <2>2. panelWait'[p] = WaitFor(NoWait, Handler("opened", TRUE), MoveTime)
    BY <1>2
  <2>3. Moves(panelWait'[p], "opened", TRUE)
    BY <2>1, <2>2
  <2> QED
    BY <1>2, <2>3 DEF PanelOf, Opening
<1>4. ASSUME NEW q \in Panel, q # p, panel[q] = "open"
      PROVE  PanelOf(q)' /\ ~ Opening(q)'
  <2>1. Moves(panelWait'[q], "closed", Has(q))
    <3>1. Moves(WaitFor(NoWait, Handler("closed", Has(q)), MoveTime), "closed", Has(q))
      BY MovesAre
    <3>2. panelWait'[q] = WaitFor(NoWait, Handler("closed", Has(q)), MoveTime)
      BY <1>2, <1>4
    <3> QED
      BY <3>1, <3>2
  <2>2. ~ Moves(panelWait'[q], "opened", TRUE)
    BY <2>1, MovesAre
  <2>3. Has(q) \in BOOLEAN
    BY DEF Has
  <2>4. ~ Opening(q)'
    BY <1>2, <1>4, <2>2 DEF Opening
  <2>5. CASE Has(q) = TRUE
    <3>1. Moves(panelWait'[q], "closed", TRUE)
      BY <2>1, <2>5
    <3>2. panel'[q] = "moving" /\ data'[q] = Object("busy", TRUE)
      BY <1>2, <1>4, <2>5
    <3> QED
      BY <2>4, <3>1, <3>2 DEF PanelOf
  <2>6. CASE Has(q) = FALSE
    <3>1. Moves(panelWait'[q], "closed", FALSE)
      BY <2>1, <2>6
    <3>2. panel'[q] = "moving" /\ data'[q] = NoData
      BY <1>2, <1>4, <2>6
    <3> QED
      BY <2>4, <3>1, <3>2 DEF PanelOf
  <2> QED
    BY <2>3, <2>4, <2>5, <2>6
<1>5. ASSUME NEW q \in Panel, q # p, panel[q] # "open"
      PROVE  PanelOf(q)' /\ ~ Opening(q)'
  <2>1. ~ Moves(panelWait'[q], "opened", TRUE)
    BY <1>2, <1>5, MovesAre
  <2>2. ~ Opening(q)'
    BY <1>2, <1>5, <2>1 DEF Opening
  <2>3. PanelOf(q)'
    BY <1>1, <1>2, <1>5 DEF PanelOf
  <2> QED
    BY <2>2, <2>3
<1> QED
  BY <1>2, <1>3, <1>4, <1>5 DEF PanelsInOrder

LEMMA PanelClicked ==
    ASSUME PanelsInOrder, ~ PanelsMove, NEW p \in Panel, ClickHeading(p)
    PROVE  PanelsInOrder'
<1>1. /\ panel[p] \in {"open", "closed"} /\ ~ Busy(p) /\ collapsed = Remark
      /\ Has(p) => data[p] = Object("idle", TRUE)
  BY StillPanels
<1>2. \/ panel[p] = "open" /\ HidePanel(p, TRUE, collapsed)
      \/ panel[p] = "closed" /\ ShowPanel(p, Has(p), TRUE, collapsed)
  <2>1. Has(p) \in BOOLEAN
    BY DEF Has
  <2>2. CASE Has(p) = TRUE
    <3>1. data[p].grouped = TRUE
      BY <1>1, <2>2, DataAre
    <3>2. Toggle(p, TRUE, TRUE, collapsed)
      BY <1>1, <2>2, <3>1 DEF ClickHeading
    <3> QED
      BY <1>1, <2>2, <3>2 DEF Toggle
  <2>3. CASE Has(p) = FALSE
    <3>1. Toggle(p, FALSE, TRUE, collapsed)
      BY <1>1, <2>3 DEF ClickHeading
    <3> QED
      BY <1>1, <2>3, <3>1 DEF Toggle
  <2> QED
    BY <2>1, <2>2, <2>3
<1> QED
  BY <1>2, PanelHides, PanelShows

(* A movement ends as it began: the panel is open if it was opened.         *)
LEMMA PanelEnded ==
    ASSUME PanelsInOrder, NEW p \in Panel, PanelEnds(p)
    PROVE  PanelsInOrder'
<1>1. /\ collapsed \subseteq Panel /\ panel = [q \in Panel |-> panel[q]]
      /\ data = [q \in Panel |-> data[q]] /\ panelWait = [q \in Panel |-> panelWait[q]]
      /\ \A q \in Panel : PanelOf(q)
      /\ \A q, r \in Panel : Opening(q) /\ Opening(r) => q = r
      /\ \A q \in Panel : q \in collapsed <=> ~ Opening(q)
  BY DEF PanelsInOrder
<1> DEFINE called == {panelWait[p].handlers[i] : i \in DOMAIN panelWait[p].handlers}
<1>2. /\ Waits(panelWait[p])
      /\ panel' = [panel EXCEPT ![p] =
                      IF \E h \in called : h.call = "opened" THEN "open"
                      ELSE IF panel[p] = "moving" THEN "closed" ELSE panel[p]]
      /\ data' = [data EXCEPT ![p] =
                     IF \E h \in called : h.own THEN Object("idle", data[p].grouped)
                     ELSE data[p]]
      /\ panelWait' = [panelWait EXCEPT ![p] = NoWait]
      /\ collapsed' = collapsed
  BY DEF PanelEnds, Due
<1>3. ASSUME NEW call, NEW own, Moves(panelWait[p], call, own)
      PROVE  called = {Handler(call, own)}
  <2> DEFINE h == Handler(call, own)
  <2>1. panelWait[p].handlers = <<h>>
    <3>1. panelWait[p] = [handlers |-> <<h>>, left |-> panelWait[p].left]
      BY <1>3 DEF Moves
    <3> QED
      BY <3>1
  <2> HIDE DEF h
  <2>2. DOMAIN <<h>> = {1} /\ <<h>>[1] = h
    OBVIOUS
  <2> QED
    BY <2>1, <2>2 DEF h
<1> HIDE DEF called
<1>4. ASSUME NEW q \in Panel, q # p
      PROVE  PanelOf(q)' /\ (Opening(q)' <=> Opening(q))
  <2>1. panel'[q] = panel[q] /\ data'[q] = data[q] /\ panelWait'[q] = panelWait[q]
    BY <1>1, <1>2, <1>4
  <2> QED
    BY <1>1, <2>1 DEF PanelOf, Opening
<1>5. panelWait'[p] = NoWait /\ \A call, own : ~ Moves(panelWait'[p], call, own)
  <2>1. panelWait'[p] = NoWait
    BY <1>1, <1>2
  <2> QED
    BY <2>1, MovesAre
<1>6. panelWait[p] # NoWait
  BY <1>2, WaitsAre
<1>7. /\ panel[p] = "moving"
      /\ \/ Moves(panelWait[p], "opened", TRUE) /\ data[p] = Object("busy", TRUE)
         \/ Moves(panelWait[p], "closed", TRUE) /\ data[p] = Object("busy", TRUE)
         \/ Moves(panelWait[p], "closed", FALSE) /\ data[p] = NoData
  BY <1>1, <1>6 DEF PanelOf
<1>8. CASE Moves(panelWait[p], "opened", TRUE) /\ data[p] = Object("busy", TRUE)
  <2> DEFINE h == Handler("opened", TRUE)
  <2>0. called = {h} /\ h.call = "opened" /\ h.own = TRUE
    <3>1. called = {h}
      BY <1>3, <1>8
    <3>2. h.call = "opened" /\ h.own = TRUE
      BY DEF Handler
    <3> QED
      BY <3>1, <3>2
  <2> HIDE DEF h
  <2>1. \E g \in called : g.call = "opened"
    BY <2>0
  <2>2. \E g \in called : g.own
    BY <2>0
  <2>3. panel'[p] = "open" /\ data'[p] = Object("idle", TRUE)
    BY <1>1, <1>2, <1>8, <2>1, <2>2, DataAre
  <2>4. PanelOf(p)' /\ Opening(p)' /\ Opening(p)
    BY <1>5, <1>8, <2>3 DEF PanelOf, Opening
  <2> QED
    BY <1>1, <1>2, <1>4, <2>4 DEF PanelsInOrder
<1>9. CASE Moves(panelWait[p], "closed", TRUE) /\ data[p] = Object("busy", TRUE)
  <2> DEFINE h == Handler("closed", TRUE)
  <2>0. called = {h} /\ h.call = "closed" /\ h.own = TRUE
    <3>1. called = {h}
      BY <1>3, <1>9
    <3>2. h.call = "closed" /\ h.own = TRUE
      BY DEF Handler
    <3> QED
      BY <3>1, <3>2
  <2> HIDE DEF h
  <2>1. ~ \E g \in called : g.call = "opened"
    BY <2>0
  <2>2. \E g \in called : g.own
    BY <2>0
  <2>3. panel'[p] = "closed" /\ data'[p] = Object("idle", TRUE)
    BY <1>1, <1>2, <1>7, <1>9, <2>1, <2>2, DataAre
  <2>4. ~ Moves(panelWait[p], "opened", TRUE)
    BY <1>9, MovesAre
  <2>5. PanelOf(p)' /\ ~ Opening(p)' /\ ~ Opening(p)
    BY <1>5, <1>7, <2>3, <2>4 DEF PanelOf, Opening
  <2> QED
    BY <1>1, <1>2, <1>4, <2>5 DEF PanelsInOrder
<1>10. CASE Moves(panelWait[p], "closed", FALSE) /\ data[p] = NoData
  <2> DEFINE h == Handler("closed", FALSE)
  <2>0. called = {h} /\ h.call = "closed" /\ h.own = FALSE
    <3>1. called = {h}
      BY <1>3, <1>10
    <3>2. h.call = "closed" /\ h.own = FALSE
      BY DEF Handler
    <3> QED
      BY <3>1, <3>2
  <2> HIDE DEF h
  <2>1. ~ \E g \in called : g.call = "opened"
    BY <2>0
  <2>2. ~ \E g \in called : g.own
    BY <2>0
  <2>3. panel'[p] = "closed" /\ data'[p] = NoData
    BY <1>1, <1>2, <1>7, <1>10, <2>1, <2>2
  <2>4. ~ Moves(panelWait[p], "opened", TRUE)
    BY <1>10, MovesAre
  <2>5. PanelOf(p)' /\ ~ Opening(p)' /\ ~ Opening(p)
    BY <1>5, <1>7, <2>3, <2>4 DEF PanelOf, Opening
  <2> QED
    BY <1>1, <1>2, <1>4, <2>5 DEF PanelsInOrder
<1> QED
  BY <1>7, <1>8, <1>9, <1>10

(* Time goes by, or something else happens.                                 *)
LEMMA PanelsKept ==
    ASSUME PanelsInOrder, PanelsLater \/ UNCHANGED collapseVars
    PROVE  /\ PanelsInOrder'
           /\ panel' = panel
           /\ ~ PanelsMove => ~ PanelsMove'
<1>1. /\ collapsed \subseteq Panel /\ panel = [q \in Panel |-> panel[q]]
      /\ data = [q \in Panel |-> data[q]] /\ panelWait = [q \in Panel |-> panelWait[q]]
      /\ \A q \in Panel : PanelOf(q)
      /\ \A q, r \in Panel : Opening(q) /\ Opening(r) => q = r
      /\ \A q \in Panel : q \in collapsed <=> ~ Opening(q)
  BY DEF PanelsInOrder
<1>2. /\ UNCHANGED <<panel, collapsed, data>>
      /\ panelWait' = [q \in Panel |-> panelWait'[q]]
      /\ \A q \in Panel : panelWait'[q] \in {panelWait[q], Later(panelWait[q])}
  BY <1>1 DEF PanelsLater, collapseVars
<1>3. ASSUME NEW q \in Panel
      PROVE  /\ \A call, own : Moves(panelWait[q], call, own) => Moves(panelWait'[q], call, own)
             /\ panelWait[q] = NoWait => panelWait'[q] = NoWait
             /\ ~ Waits(panelWait[q]) => ~ Waits(panelWait'[q])
  <2>1. panelWait'[q] = panelWait[q] \/ panelWait'[q] = Later(panelWait[q])
    BY <1>2
  <2>2. ~ Waits(panelWait[q]) => panelWait'[q] = panelWait[q]
    BY <2>1 DEF Later
  <2> QED
    BY <2>1, <2>2, MovesAre, WaitsAre
<1>4. ASSUME NEW q \in Panel PROVE PanelOf(q)'
  BY <1>1, <1>2, <1>3 DEF PanelOf
<1>5. ASSUME NEW q \in Panel PROVE Opening(q)' <=> Opening(q)
  <2>1. CASE Opening(q)
    BY <1>2, <1>3, <2>1 DEF Opening
  <2>2. CASE ~ Opening(q)
    <3>1. panel[q] # "open" /\ ~ Moves(panelWait[q], "opened", TRUE)
      BY <2>2 DEF Opening
    <3>2. \/ panelWait'[q] = NoWait
          \/ \E own : Moves(panelWait'[q], "closed", own)
      BY <1>1, <1>3, <3>1 DEF PanelOf
    <3>3. ~ Moves(panelWait'[q], "opened", TRUE)
      BY <3>2, MovesAre
    <3> QED
      BY <1>2, <2>2, <3>1, <3>3 DEF Opening
  <2> QED
    BY <2>1, <2>2
<1>6. PanelsInOrder'
  BY <1>1, <1>2, <1>4, <1>5 DEF PanelsInOrder
<1> QED
  BY <1>2, <1>3, <1>6 DEF PanelsMove

-----------------------------------------------------------------------------
(* The dialogs of a user who waits: one at a time.                          *)
LEMMA OneJob ==
    ASSUME NEW call, NEW m
    PROVE  /\ Head(<<Job(call, m)>>) = Job(call, m) /\ Tail(<<Job(call, m)>>) = <<>>
           /\ <<Job(call, m)>> # <<>>
           /\ Job(call, m).call = call /\ Job(call, m).dialog = m
  BY DEF Job

LEMMA WaitBegins ==
    ASSUME NEW call, NEW m, NEW d \in Nat
    PROVE  /\ Wait(WaitFor(NoWait, Job(call, m), d), call, m)
           /\ WaitFor(NoWait, Job(call, m), d).left = d
<1>1. WaitFor(NoWait, Job(call, m), d) = [handlers |-> <<Job(call, m)>>, left |-> d]
  BY WaitsAre
<1>2. WaitFor(NoWait, Job(call, m), d).left = d
  BY <1>1
<1> QED
  BY <1>1, <1>2 DEF Wait

LEMMA WaitOn ==
    ASSUME NEW call, NEW m, NEW w, Wait(w, call, m)
    PROVE  /\ w.handlers = <<Job(call, m)>> /\ Waits(w) /\ w # NoWait
           /\ w.left \in Nat
<1>1. w = [handlers |-> <<Job(call, m)>>, left |-> w.left] /\ w.left \in Nat
  BY DEF Wait
<1>2. w.handlers = <<Job(call, m)>>
  BY <1>1
<1>3. Waits(w)
  BY <1>2, OneJob DEF Waits
<1> QED
  BY <1>1, <1>2, <1>3, WaitsAre

LEMMA WaitLater ==
    ASSUME NEW call, NEW m, NEW w, Wait(w, call, m), ~ Due(w)
    PROVE  Wait(Later(w), call, m) /\ Later(w).left = w.left - 1
<1>1. Waits(w) /\ w.left \in Nat /\ w.left # 0
  BY WaitOn DEF Due
<1>2. w = [handlers |-> <<Job(call, m)>>, left |-> w.left]
  BY DEF Wait
<1>3. Later(w) = [handlers |-> <<Job(call, m)>>, left |-> w.left - 1]
  BY <1>1, <1>2 DEF Later
<1>4. Later(w).left = w.left - 1 /\ w.left - 1 \in Nat
  BY <1>1, <1>3
<1> QED
  BY <1>3, <1>4 DEF Wait

LEMMA WaitIs ==
    ASSUME NEW call, NEW m, NEW w
    PROVE  /\ Wait(w, call, m) =>
                 /\ w.handlers = <<Job(call, m)>> /\ Waits(w) /\ w # NoWait
                 /\ w.left \in Nat
                 /\ ~ Due(w) => /\ Wait(Later(w), call, m)
                                /\ Later(w).left = w.left - 1
           /\ \A d \in Nat : /\ Wait(WaitFor(NoWait, Job(call, m), d), call, m)
                             /\ WaitFor(NoWait, Job(call, m), d).left = d
  BY WaitBegins, WaitOn, WaitLater

LEMMA AloneIs ==
    ASSUME NEW m \in Dialog, NEW b \in Backdrop, Alone(m, b)
    PROVE  /\ shown \subseteq {m} /\ displayed \subseteq {m} /\ closable = shown
           /\ backdrops = {b} /\ current[m] = b /\ padBefore[m] = 0
           /\ \A n \in Dialog : n # m => current[n] = NoBackdrop /\ elementWait[n] = NoWait
           /\ \A c \in Backdrop : c # b => backdropWait[c] = NoWait
  BY DEF Alone

LEMMA AloneThen ==
    ASSUME NEW m \in Dialog, NEW b \in Backdrop, ModalInv',
           shown' \subseteq {m}, displayed' \subseteq {m}, closable' = shown',
           backdrops' = {b}, current'[m] = b, padBefore'[m] = 0,
           \A n \in Dialog : n # m => current'[n] = NoBackdrop /\ elementWait'[n] = NoWait,
           \A c \in Backdrop : c # b => backdropWait'[c] = NoWait
    PROVE  Alone(m, b)'
<1>1. /\ current' \in [Dialog -> backdrops' \cup {NoBackdrop}]
      /\ elementWait' \in [Dialog -> [handlers : Seq(Hides), left : Int]]
      /\ backdropWait' \in [Backdrop -> [handlers : Seq(Jobs), left : Int]]
  BY DEF ModalInv, ModalTypeOK, HandlerTypes
<1>2. current' = [n \in Dialog |-> IF n = m THEN b ELSE NoBackdrop]
  BY <1>1
<1>3. elementWait' = [n \in Dialog |-> IF n = m THEN elementWait'[m] ELSE NoWait]
  BY <1>1
<1>4. backdropWait' = [c \in Backdrop |-> IF c = b THEN backdropWait'[b] ELSE NoWait]
  BY <1>1
<1> QED
  BY <1>2, <1>3, <1>4 DEF Alone

QuietVars == <<shown, displayed, closable, jobs, backdrops, current, elementWait,
               backdropWait, locked, bodyPad, padBefore>>

(* The focus moves, or nothing of the dialogs does.                         *)
LEMMA LifeStill ==
    ASSUME UNCHANGED QuietVars
    PROVE  /\ Quiet => Quiet'
           /\ \A m \in Dialog, b \in Backdrop : Life(m, b) => Life(m, b)'
<1>1. /\ shown' = shown /\ displayed' = displayed /\ closable' = closable /\ jobs' = jobs
      /\ backdrops' = backdrops /\ current' = current /\ elementWait' = elementWait
      /\ backdropWait' = backdropWait /\ locked' = locked /\ bodyPad' = bodyPad
      /\ padBefore' = padBefore
  BY DEF QuietVars
<1>2. Quiet => Quiet'
  BY <1>1 DEF Quiet
<1>3. ASSUME NEW m \in Dialog, NEW b \in Backdrop, Life(m, b) PROVE Life(m, b)'
  <2>1. Alone(m, b)'
    BY <1>1, <1>3 DEF Life, Alone
  <2>2. \/ Coming(m, b)' \/ There(m, b)' \/ Hasty(m, b)' \/ Leaving(m, b)' \/ Fading(m, b)'
    BY <1>1, <1>3 DEF Life, Coming, There, Hasty, Leaving, Fading
  <2> QED
    BY <2>1, <2>2 DEF Life
<1> QED
  BY <1>2, <1>3

(* It is shown.                                                             *)
LEMMA LifeBegins ==
    ASSUME ModalInv, Quiet, NEW m \in Dialog, Show(m)
    PROVE  /\ \E b \in Backdrop : Life(m, b)'
           /\ shown' = {m}
<1>1. /\ shown = {} /\ displayed = {} /\ closable = {} /\ jobs = <<>> /\ backdrops = {}
      /\ \A n \in Dialog : current[n] = NoBackdrop /\ elementWait[n] = NoWait
      /\ \A b \in Backdrop : backdropWait[b] = NoWait
      /\ bodyPad = 0
  BY DEF Quiet
<1>2. /\ shown' = {m} /\ closable' = {m} /\ LockBody(m)
      /\ NewBackdrop(m, "showDialog")
      /\ UNCHANGED <<displayed, elementWait, jobs>>
  BY <1>1 DEF Show
<1>3. /\ current \in [Dialog -> backdrops \cup {NoBackdrop}]
      /\ backdropWait \in [Backdrop -> [handlers : Seq(Jobs), left : Int]]
      /\ padBefore \in [Dialog -> Nat]
  BY DEF ModalInv, ModalTypeOK, HandlerTypes
<1> DEFINE w == [handlers |-> <<Job("showDialog", m)>>, left |-> FadeTime]
<1>4. PICK b \in Backdrop \ backdrops :
         /\ backdrops' = backdrops \cup {b}
         /\ current' = [current EXCEPT ![m] = b]
         /\ backdropWait' = [backdropWait EXCEPT ![b] = w]
  BY <1>2, NewBackdropIs
<1>5. Wait(w, "showDialog", m) /\ w.left <= FadeTime
  BY NumbersAre DEF Wait
<1> HIDE DEF w
<1>6. /\ backdrops' = {b} /\ current'[m] = b
      /\ \A n \in Dialog : n # m => current'[n] = NoBackdrop /\ elementWait'[n] = NoWait
      /\ \A c \in Backdrop : c # b => backdropWait'[c] = NoWait
      /\ backdropWait'[b] = w /\ elementWait'[m] = NoWait
  BY <1>1, <1>2, <1>3, <1>4
<1>7. padBefore'[m] = 0
  BY <1>1, <1>2, <1>3 DEF LockBody
<1>8. ModalInv'
  BY ShowHide_modal
<1>9. Alone(m, b)'
  BY <1>1, <1>2, <1>6, <1>7, <1>8, AloneThen
<1>10. Coming(m, b)'
  BY <1>1, <1>2, <1>5, <1>6 DEF Coming
<1> QED
  BY <1>2, <1>9, <1>10 DEF Life

(* It is hidden, displayed or not.                                          *)
LEMMA LifeHidden ==
    ASSUME ModalInv, NEW m \in Dialog, NEW b \in Backdrop, Life(m, b), jobs = <<>>,
           NEW n \in Dialog, n \in shown \/ n \in displayed, Hide(n)
    PROVE  /\ Life(m, b)' /\ n = m
           /\ shown' = {}
<1>1. /\ shown \subseteq {m} /\ displayed \subseteq {m} /\ closable = shown
      /\ backdrops = {b} /\ current[m] = b /\ padBefore[m] = 0
      /\ \A k \in Dialog : k # m => current[k] = NoBackdrop /\ elementWait[k] = NoWait
      /\ \A c \in Backdrop : c # b => backdropWait[c] = NoWait
  BY AloneIs DEF Life
<1>2. n = m
  BY <1>1
<1>3. CASE m \notin shown
  <2>1. UNCHANGED QuietVars
    BY <1>2, <1>3 DEF Hide, modalVars, dialogVars, backdropVars, bodyVars, focusVars, QuietVars
  <2>2. shown' = {}
    BY <1>1, <1>3, <2>1 DEF QuietVars
  <2> QED
    BY <1>2, <2>1, <2>2, LifeStill
<1>4. CASE m \in shown
  <2> DEFINE w == WaitFor(NoWait, Job("hideModal", m), HideTime)
  <2>1. Coming(m, b) \/ There(m, b)
    BY <1>4 DEF Life, Hasty, Leaving, Fading
  <2>2. elementWait[m] = NoWait
    BY <2>1 DEF Coming, There
  <2>3. /\ shown' = {} /\ closable' = {}
        /\ elementWait' = [elementWait EXCEPT ![m] = w]
        /\ UNCHANGED <<displayed, current, backdrops, backdropWait, padBefore, jobs>>
    BY <1>1, <1>2, <1>4, <2>2 DEF Hide, bodyVars
  <2>4. Wait(w, "hideModal", m) /\ w.left = 2
    <3>1. HideTime \in Nat /\ HideTime = 2
      BY NumbersAre
    <3>2. Wait(w, "hideModal", m) /\ w.left = HideTime
      BY <3>1, WaitBegins
    <3> QED
      BY <3>1, <3>2
  <2> HIDE DEF w
  <2>5. elementWait \in [Dialog -> [handlers : Seq(Hides), left : Int]]
    BY DEF ModalInv, HandlerTypes
  <2>6. elementWait'[m] = w /\ \A k \in Dialog : k # m => elementWait'[k] = NoWait
    BY <1>1, <2>3, <2>5
  <2>7. ModalInv'
    BY ShowHide_modal
  <2>8. Alone(m, b)'
    BY <1>1, <2>3, <2>6, <2>7, AloneThen
  <2>9. CASE Coming(m, b)
    <3>1. /\ m \notin displayed /\ jobs = <<>> /\ Wait(backdropWait[b], "showDialog", m)
          /\ backdropWait[b].left <= FadeTime
      BY <2>9, OneJob DEF Coming
    <3>2. backdropWait[b].left < w.left
      <4>1. backdropWait[b].left \in Nat
        BY <3>1 DEF Wait
      <4> QED
        BY <2>4, <3>1, <4>1, NumbersAre
    <3>3. Hasty(m, b)'
      BY <2>3, <2>4, <2>6, <3>1, <3>2 DEF Hasty
    <3> QED
      BY <1>2, <2>3, <2>8, <3>3 DEF Life
  <2>10. CASE There(m, b)
    <3>1. Leaving(m, b)'
      BY <2>3, <2>4, <2>6, <2>10 DEF There, Leaving
    <3> QED
      BY <1>2, <2>3, <2>8, <3>1 DEF Life
  <2> QED
    BY <2>1, <2>9, <2>10
<1> QED
  BY <1>3, <1>4

(* A fade ends.                                                             *)
LEMMA LifeEnds ==
    ASSUME ModalInv, NEW m \in Dialog, NEW b \in Backdrop, Life(m, b),
           \/ \E n \in Dialog : ElementEnds(n)
           \/ \E c \in Backdrop : BackdropEnds(c)
    PROVE  Life(m, b)'
<1>1. /\ shown \subseteq {m} /\ displayed \subseteq {m} /\ closable = shown
      /\ backdrops = {b} /\ current[m] = b /\ padBefore[m] = 0
      /\ \A k \in Dialog : k # m => current[k] = NoBackdrop /\ elementWait[k] = NoWait
      /\ \A c \in Backdrop : c # b => backdropWait[c] = NoWait
  BY AloneIs DEF Life
<1>2. ModalInv'
  BY Ends_modal
<1>3. CASE \E n \in Dialog : ElementEnds(n)
  <2>1. PICK n \in Dialog : ElementEnds(n)
    BY <1>3
  <2>2. /\ jobs = <<>> /\ Waits(elementWait[n])
        /\ Due(elementWait[n]) \/ n \in displayed
        /\ jobs' = elementWait[n].handlers
        /\ elementWait' = [elementWait EXCEPT ![n] = NoWait]
        /\ UNCHANGED <<shown, displayed, closable, current, backdrops, backdropWait,
                       padBefore>>
    BY <2>1 DEF ElementEnds, dialogVars, bodyVars, focusVars, Due
  <2>3. n = m
    BY <1>1, <2>2, WaitsAre
  <2>4. elementWait \in [Dialog -> [handlers : Seq(Hides), left : Int]]
    BY DEF ModalInv, HandlerTypes
  <2>5. elementWait'[m] = NoWait /\ \A k \in Dialog : k # m => elementWait'[k] = NoWait
    BY <1>1, <2>2, <2>3, <2>4
  <2>6. Alone(m, b)'
    BY <1>1, <1>2, <2>2, <2>5, AloneThen
  <2>7. ~ Coming(m, b) /\ ~ There(m, b) /\ ~ Fading(m, b)
    BY <2>2, <2>3, WaitsAre DEF Coming, There, Fading
  <2>8. ~ Hasty(m, b)
    <3> SUFFICES ASSUME Hasty(m, b) PROVE FALSE
      OBVIOUS
    <3>1. /\ Wait(backdropWait[b], "showDialog", m)
          /\ backdropWait[b].left < elementWait[m].left /\ m \notin displayed
      BY <2>2, OneJob DEF Hasty
    <3>2. elementWait[m].left = 0 /\ backdropWait[b].left \in Nat
      BY <2>2, <2>3, <3>1 DEF Due, Wait
    <3> QED
      BY <3>1, <3>2
  <2>9. Leaving(m, b)
    BY <2>7, <2>8 DEF Life
  <2>10. Wait(elementWait[m], "hideModal", m)
    BY <2>2, <2>9, OneJob DEF Leaving
  <2>11. jobs' = <<Job("hideModal", m)>>
    BY <2>2, <2>3, <2>10, WaitIs
  <2>12. Leaving(m, b)'
    BY <2>2, <2>5, <2>9, <2>11 DEF Leaving
  <2> QED
    BY <2>6, <2>12 DEF Life
<1>4. CASE \E c \in Backdrop : BackdropEnds(c)
  <2>1. PICK c \in Backdrop : BackdropEnds(c)
    BY <1>4
  <2>2. /\ jobs = <<>> /\ c \in backdrops /\ Waits(backdropWait[c])
        /\ jobs' = backdropWait[c].handlers
        /\ backdropWait' = [backdropWait EXCEPT ![c] = NoWait]
        /\ UNCHANGED <<shown, displayed, closable, current, backdrops, elementWait,
                       padBefore>>
    BY <2>1 DEF BackdropEnds, dialogVars, bodyVars, focusVars, Due
  <2>3. c = b
    BY <1>1, <2>2
  <2>4. backdropWait \in [Backdrop -> [handlers : Seq(Jobs), left : Int]]
    BY DEF ModalInv, HandlerTypes
  <2>5. backdropWait'[b] = NoWait /\ \A d \in Backdrop : d # b => backdropWait'[d] = NoWait
    BY <1>1, <2>2, <2>3, <2>4
  <2>6. Alone(m, b)'
    BY <1>1, <1>2, <2>2, <2>5, AloneThen
  <2>7. ~ There(m, b) /\ ~ Leaving(m, b)
    BY <2>2, <2>3, WaitsAre DEF There, Leaving
  <2>8. CASE Coming(m, b) \/ Hasty(m, b)
    <3>1. Wait(backdropWait[b], "showDialog", m)
      BY <2>2, <2>8, OneJob DEF Coming, Hasty
    <3>2. jobs' = <<Job("showDialog", m)>>
      BY <2>2, <2>3, <3>1, WaitIs
    <3>3. Coming(m, b)' \/ Hasty(m, b)'
      BY <2>2, <2>5, <2>8, <3>2 DEF Coming, Hasty
    <3> QED
      BY <2>6, <3>3 DEF Life
  <2>9. CASE Fading(m, b)
    <3>1. Wait(backdropWait[b], "remove", m)
      BY <2>2, <2>9, OneJob DEF Fading
    <3>2. jobs' = <<Job("remove", m)>>
      BY <2>2, <2>3, <3>1, WaitIs
    <3>3. Fading(m, b)'
      BY <2>2, <2>5, <2>9, <3>2 DEF Fading
    <3> QED
      BY <2>6, <3>3 DEF Life
  <2> QED
    BY <2>7, <2>8, <2>9 DEF Life
<1> QED
  BY <1>3, <1>4

(* A handler is called; the last one leaves no dialog.                      *)
LEMMA LifeRuns ==
    ASSUME ModalInv, NEW m \in Dialog, NEW b \in Backdrop, Life(m, b), RunHandler
    PROVE  Life(m, b)' \/ (Quiet' /\ m \notin shown)
<1>1. /\ shown \subseteq {m} /\ displayed \subseteq {m} /\ closable = shown
      /\ backdrops = {b} /\ current[m] = b /\ padBefore[m] = 0
      /\ \A k \in Dialog : k # m => current[k] = NoBackdrop /\ elementWait[k] = NoWait
      /\ \A c \in Backdrop : c # b => backdropWait[c] = NoWait
  BY AloneIs DEF Life
<1>2. ModalInv'
  BY Handler_modal, HideModal_modal, Remove_modal DEF RunHandler
<1>3. jobs # <<>>
  BY DEF RunHandler, ShowDialog, HideModal, Remove, UnlockUnder, RunJob
<1>4. b # NoBackdrop
  BY NumbersAre
<1>5. CASE (Coming(m, b) \/ Hasty(m, b)) /\ jobs = <<Job("showDialog", m)>>
  <2>1. Head(jobs).call = "showDialog" /\ Head(jobs).dialog = m /\ Tail(jobs) = <<>>
    BY <1>5, OneJob
  <2>2. ShowDialog
    BY <2>1 DEF RunHandler, ShowDialog, HideModal, Remove, UnlockUnder, RunJob
  <2>3. /\ jobs' = <<>> /\ displayed' = displayed \cup {m}
        /\ UNCHANGED <<shown, closable, current, backdrops, elementWait, backdropWait,
                       padBefore>>
    BY <2>1, <2>2 DEF ShowDialog, RunJob, backdropVars, bodyVars
  <2>4. Alone(m, b)'
    BY <1>1, <1>2, <2>3, AloneThen
  <2>5. backdropWait[b] = NoWait
    BY <1>3, <1>5 DEF Coming, Hasty
  <2>6. Coming(m, b) => There(m, b)'
    BY <2>3, <2>5 DEF Coming, There
  <2>7. Hasty(m, b) => Leaving(m, b)'
    BY <2>3, <2>5 DEF Hasty, Leaving
  <2> QED
    BY <1>5, <2>4, <2>6, <2>7 DEF Life
<1>6. CASE Leaving(m, b)
  <2>1. /\ jobs = <<Job("hideModal", m)>> /\ elementWait[m] = NoWait
        /\ m \notin shown /\ backdropWait[b] = NoWait
    BY <1>3, <1>6 DEF Leaving
  <2>2. Head(jobs).call = "hideModal" /\ Head(jobs).dialog = m /\ Tail(jobs) = <<>>
    BY <2>1, OneJob
  <2>3. HideModal
    BY <2>2 DEF RunHandler, ShowDialog, HideModal, Remove, UnlockUnder, RunJob
  <2> DEFINE w == WaitFor(NoWait, Job("remove", m), FadeTime)
  <2>4. /\ jobs' = <<>> /\ displayed' = displayed \ {m}
        /\ backdropWait' = [backdropWait EXCEPT ![b] = w]
        /\ UNCHANGED <<shown, closable, current, backdrops, elementWait, padBefore>>
    BY <1>1, <1>4, <2>1, <2>2, <2>3 DEF HideModal, RunJob, FadeBackdrop, bodyVars
  <2>5. Wait(w, "remove", m)
    BY WaitIs, NumbersAre
  <2> HIDE DEF w
  <2>6. backdropWait \in [Backdrop -> [handlers : Seq(Jobs), left : Int]]
    BY DEF ModalInv, HandlerTypes
  <2>7. backdropWait'[b] = w /\ \A c \in Backdrop : c # b => backdropWait'[c] = NoWait
    BY <1>1, <2>4, <2>6
  <2>8. Alone(m, b)'
    BY <1>1, <1>2, <2>4, <2>7, AloneThen
  <2>9. Fading(m, b)'
    BY <2>1, <2>4, <2>5, <2>7 DEF Fading
  <2> QED
    BY <2>8, <2>9 DEF Life
<1>7. CASE Fading(m, b)
  <2>1. /\ jobs = <<Job("remove", m)>> /\ elementWait[m] = NoWait
        /\ m \notin shown /\ m \notin displayed
    BY <1>3, <1>7 DEF Fading
  <2>2. Head(jobs).call = "remove" /\ Head(jobs).dialog = m /\ Tail(jobs) = <<>>
    BY <2>1, OneJob
  <2>3. Remove
    BY <2>2 DEF RunHandler, ShowDialog, HideModal, Remove, UnlockUnder, RunJob
  <2>4. /\ jobs' = <<>> /\ backdrops' = backdrops \ {b}
        /\ backdropWait' = [c \in Backdrop |-> IF c = b THEN NoWait ELSE backdropWait[c]]
        /\ current' = [current EXCEPT ![m] = NoBackdrop]
        /\ locked' = FALSE /\ bodyPad' = 0
        /\ UNCHANGED <<shown, displayed, closable, elementWait>>
    BY <1>1, <2>2, <2>3
       DEF Remove, RunJob, RemoveBackdrop, UnlockBody, dialogVars
  <2>5. /\ current \in [Dialog -> backdrops \cup {NoBackdrop}]
        /\ elementWait \in [Dialog -> [handlers : Seq(Hides), left : Int]]
    BY DEF ModalInv, ModalTypeOK, HandlerTypes
  <2>6. current' = [n \in Dialog |-> NoBackdrop]
    BY <1>1, <2>4, <2>5
  <2>7. elementWait' = [n \in Dialog |-> NoWait]
    BY <1>1, <2>1, <2>4, <2>5
  <2>8. backdropWait' = [c \in Backdrop |-> NoWait]
    BY <1>1, <2>4
  <2>9. shown' = {} /\ displayed' = {} /\ closable' = {} /\ backdrops' = {}
    BY <1>1, <2>1, <2>4
  <2>10. Quiet'
    BY <2>4, <2>6, <2>7, <2>8, <2>9 DEF Quiet
  <2> QED
    BY <2>1, <2>10
<1>8. \/ (Coming(m, b) \/ Hasty(m, b)) /\ jobs = <<Job("showDialog", m)>>
      \/ Leaving(m, b) \/ Fading(m, b)
  BY <1>3 DEF Life, Coming, There, Hasty
<1> QED
  BY <1>5, <1>6, <1>7, <1>8

(* Time goes by.                                                            *)
LEMMA LifeLater ==
    ASSUME ModalInv, NEW m \in Dialog, NEW b \in Backdrop, Life(m, b), jobs = <<>>,
           NoModalDue, ModalLater
    PROVE  Life(m, b)'
<1>1. /\ shown \subseteq {m} /\ displayed \subseteq {m} /\ closable = shown
      /\ backdrops = {b} /\ current[m] = b /\ padBefore[m] = 0
      /\ \A k \in Dialog : k # m => current[k] = NoBackdrop /\ elementWait[k] = NoWait
      /\ \A c \in Backdrop : c # b => backdropWait[c] = NoWait
  BY AloneIs DEF Life
<1>2. /\ \A n \in Dialog : elementWait'[n] = Later(elementWait[n])
      /\ \A c \in Backdrop : backdropWait'[c] = Later(backdropWait[c])
      /\ UNCHANGED <<shown, displayed, closable, current, backdrops, padBefore, jobs>>
  BY DEF ModalLater, dialogVars, bodyVars
<1>3. /\ \A k \in Dialog : k # m => elementWait'[k] = NoWait
      /\ \A c \in Backdrop : c # b => backdropWait'[c] = NoWait
      /\ elementWait[m] = NoWait => elementWait'[m] = NoWait
      /\ backdropWait[b] = NoWait => backdropWait'[b] = NoWait
  BY <1>1, <1>2, WaitsAre
<1>4. ModalInv'
  BY Still_modal
<1>5. Alone(m, b)'
  BY <1>1, <1>2, <1>3, <1>4, AloneThen
<1>6. ~ Due(elementWait[m]) /\ ~ Due(backdropWait[b])
  BY DEF NoModalDue
<1>7. \A call : /\ Wait(elementWait[m], call, m) => Wait(elementWait'[m], call, m)
                /\ Wait(backdropWait[b], call, m) => Wait(backdropWait'[b], call, m)
  BY <1>2, <1>6, WaitIs
<1>7a. ASSUME NEW call, NEW w, Wait(w, call, m), ~ Due(w)
       PROVE  Later(w).left = w.left - 1 /\ w.left \in Nat
  BY <1>7a, WaitOn, WaitLater
<1>8. CASE Coming(m, b)
  <2>1. Wait(backdropWait[b], "showDialog", m) /\ backdropWait[b].left <= FadeTime
    BY <1>8, OneJob DEF Coming
  <2>2. backdropWait'[b].left = backdropWait[b].left - 1 /\ backdropWait[b].left \in Nat
    BY <1>2, <1>6, <1>7a, <2>1
  <2>3. backdropWait'[b].left <= FadeTime
    BY <2>1, <2>2, NumbersAre
  <2>4. Coming(m, b)'
    BY <1>2, <1>3, <1>7, <1>8, <2>1, <2>3 DEF Coming
  <2> QED
    BY <1>5, <2>4 DEF Life
<1>9. CASE Hasty(m, b)
  <2>1. /\ Wait(backdropWait[b], "showDialog", m) /\ Wait(elementWait[m], "hideModal", m)
        /\ backdropWait[b].left < elementWait[m].left
    BY <1>9, OneJob DEF Hasty
  <2>2. /\ backdropWait'[b].left = backdropWait[b].left - 1 /\ backdropWait[b].left \in Nat
        /\ elementWait'[m].left = elementWait[m].left - 1 /\ elementWait[m].left \in Nat
    BY <1>2, <1>6, <1>7a, <2>1
  <2>3. backdropWait'[b].left < elementWait'[m].left
    BY <2>1, <2>2
  <2>4. Hasty(m, b)'
    BY <1>2, <1>7, <1>9, <2>1, <2>3 DEF Hasty
  <2> QED
    BY <1>5, <2>4 DEF Life
<1>10. CASE There(m, b)
  <2>1. There(m, b)'
    BY <1>2, <1>3, <1>10 DEF There
  <2> QED
    BY <1>5, <2>1 DEF Life
<1>11. CASE Leaving(m, b)
  <2>1. Leaving(m, b)'
    BY <1>2, <1>3, <1>7, <1>11, OneJob DEF Leaving
  <2> QED
    BY <1>5, <2>1 DEF Life
<1>12. CASE Fading(m, b)
  <2>1. Fading(m, b)'
    BY <1>2, <1>3, <1>7, <1>12, OneJob DEF Fading
  <2> QED
    BY <1>5, <2>1 DEF Life
<1> QED
  BY <1>8, <1>9, <1>10, <1>11, <1>12 DEF Life

(* The steps of the dialogs, when there is none and when there is one.      *)
LEMMA QuietKept ==
    ASSUME ModalInv, Quiet, ModalEvent \/ ModalLater
    PROVE  Quiet'
<1>1. /\ shown = {} /\ displayed = {} /\ closable = {} /\ jobs = <<>> /\ backdrops = {}
      /\ current = [m \in Dialog |-> NoBackdrop]
      /\ elementWait = [m \in Dialog |-> NoWait]
      /\ backdropWait = [b \in Backdrop |-> NoWait]
      /\ ~ locked /\ bodyPad = 0
  BY DEF Quiet
<1>2. CASE ModalLater
  <2>1. /\ elementWait' = [m \in Dialog |-> NoWait]
        /\ backdropWait' = [b \in Backdrop |-> NoWait]
    BY <1>1, <1>2, WaitsAre DEF ModalLater
  <2>2. UNCHANGED <<shown, displayed, closable, current, backdrops, locked, bodyPad, jobs>>
    BY <1>2 DEF ModalLater, dialogVars, bodyVars
  <2> QED
    BY <1>1, <2>1, <2>2 DEF Quiet
<1>3. CASE ModalEvent
  <2>1. ~ RunHandler
    BY <1>1 DEF RunHandler, ShowDialog, HideModal, Remove, UnlockUnder, RunJob
  <2>2. \A m \in Dialog : /\ ~ ElementEnds(m) /\ ~ TakeFocus(m) /\ ~ CloseButton(m)
                          /\ ~ ClickBeside(m) /\ ~ DragOut(m) /\ ~ Escape(m)
    BY <1>1, WaitsAre
       DEF ElementEnds, TakeFocus, CloseButton, ClickBeside, DragOut, Escape
  <2>3. \A b \in Backdrop : ~ BackdropEnds(b)
    BY <1>1 DEF BackdropEnds
  <2>4. TabOut
    BY <1>3, <2>1, <2>2, <2>3 DEF ModalEvent
  <2>5. UNCHANGED QuietVars
    BY <2>4 DEF TabOut, QuietVars, dialogVars, backdropVars, bodyVars
  <2> QED
    BY <2>5, LifeStill
<1> QED
  BY <1>2, <1>3

LEMMA LifeEvent ==
    ASSUME ModalInv, NEW m \in Dialog, NEW b \in Backdrop, Life(m, b), ModalEvent
    PROVE  Life(m, b)' \/ (Quiet' /\ m \notin shown)
<1>1. CASE RunHandler
  BY <1>1, LifeRuns
<1>2. CASE \/ \E n \in Dialog : ElementEnds(n)
           \/ \E c \in Backdrop : BackdropEnds(c)
  BY <1>2, LifeEnds
<1>3. CASE UNCHANGED QuietVars
  BY <1>3, LifeStill
<1>4. ASSUME NEW n \in Dialog, n \in displayed, jobs = <<>>, Hide(n)
      PROVE  Life(m, b)'
  BY <1>4, LifeHidden
<1>5. CASE TabOut
  BY <1>3, <1>5 DEF TabOut, QuietVars, dialogVars, backdropVars, bodyVars
<1>6. ASSUME NEW n \in Dialog, TakeFocus(n) \/ DragOut(n)
      PROVE  UNCHANGED QuietVars
  BY <1>6 DEF TakeFocus, DragOut, QuietVars, dialogVars, backdropVars, bodyVars
<1>7. ASSUME NEW n \in Dialog, CloseButton(n) \/ Escape(n)
      PROVE  n \in displayed /\ jobs = <<>> /\ Hide(n)
  BY <1>7 DEF CloseButton, Escape
<1>8. ASSUME NEW n \in Dialog, ClickBeside(n)
      PROVE  UNCHANGED QuietVars \/ (n \in displayed /\ jobs = <<>> /\ Hide(n))
  BY <1>8 DEF ClickBeside, QuietVars, dialogVars, backdropVars, bodyVars
<1> QED
  BY <1>1, <1>2, <1>3, <1>4, <1>5, <1>6, <1>7, <1>8 DEF ModalEvent

-----------------------------------------------------------------------------
(* Step by step on the page of a user who waits: one thing at a time.       *)
LEMMA HistoryStays ==
    ASSUME PanelsInOrder, PanelsLater \/ UNCHANGED collapseVars, HistoryIsOpen
    PROVE  HistoryIsOpen'
  BY PanelsKept DEF HistoryIsOpen

LEMMA UserIs ==
    ASSUME RequestTypes, PatientInv, User, hurries' = 0
    PROVE  PanelsInOrder /\ Idle /\ ~ PanelsMove
<1>1. UserActs
  BY DEF User, StartTest, AskDetails, MovePanel
<1>2. hurries = 0 /\ Reachable /\ Settled
  BY <1>1, UserActsIs
<1>3. /\ PanelsInOrder /\ OneThing
      /\ backdrops = {} /\ \A m \in Details : asked[m] = 0
      /\ ~ PanelsMove
  BY <1>2 DEF PatientInv, Reachable, Settled
<1>4. ~ Asking
  BY <1>3 DEF Asking
<1>5. ASSUME NEW m, NEW b PROVE ~ Life(m, b)
  BY <1>3 DEF Life, Alone
<1>6. ~ Looking /\ ~ Testing
  BY <1>5 DEF Looking, Testing
<1> QED
  BY <1>3, <1>4, <1>6 DEF OneThing

LEMMA PatientUser ==
    ASSUME TestInv, PatientInv, User, hurries' = 0
    PROVE  PanelsInOrder' /\ OneThing'
<1>1. ModalInv /\ RequestTypes /\ WaitDialog \in Dialog /\ Details \subseteq Dialog
  BY NumbersAre DEF TestInv, Details
<1>2. PanelsInOrder /\ Idle /\ ~ PanelsMove
  BY <1>1, UserIs
<1>3. Quiet /\ running = 0 /\ asked = [m \in Details |-> 0]
  BY <1>2 DEF Idle, NothingAsked
<1>4. CASE StartTest
  <2>1. /\ Show(WaitDialog) /\ running' = 1 /\ asked' = asked
        /\ UNCHANGED collapseVars
    BY <1>3, <1>4 DEF StartTest, Call
  <2>2. (\E b \in Backdrop : Life(WaitDialog, b)') /\ shown' = {WaitDialog}
    BY <1>1, <1>3, <2>1, LifeBegins
  <2>3. Testing'
    BY <1>3, <2>1, <2>2 DEF Testing
  <2> QED
    BY <1>2, <2>1, <2>3, PanelsKept DEF OneThing
<1>5. ASSUME NEW m \in Details, AskDetails(m)
      PROVE  PanelsInOrder' /\ OneThing'
  <2>1. /\ UNCHANGED modalVars /\ UNCHANGED collapseVars /\ running' = 0
        /\ panel[History] = "open" /\ asked' = [asked EXCEPT ![m] = @ + 1]
    BY <1>3, <1>5 DEF AskDetails, ToggleTarget
  <2>2. asked' = [n \in Details |-> IF n = m THEN 1 ELSE 0]
    BY <1>3, <2>1
  <2>3. UNCHANGED QuietVars
    BY <2>1 DEF modalVars, dialogVars, backdropVars, bodyVars, QuietVars
  <2>4. Quiet'
    BY <1>3, <2>3, LifeStill
  <2>5. HistoryIsOpen'
    BY <1>2, <2>1, HistoryStays DEF HistoryIsOpen
  <2>6. Asking'
    BY <2>1, <2>2, <2>4, <2>5 DEF Asking
  <2> QED
    BY <1>2, <2>1, <2>6, PanelsKept DEF OneThing
<1>6. ASSUME NEW p \in Panel, MovePanel(p)
      PROVE  PanelsInOrder' /\ OneThing'
  <2>1. /\ UNCHANGED modalVars /\ ClickHeading(p) /\ UNCHANGED <<running, asked>>
    BY <1>6 DEF MovePanel
  <2>2. UNCHANGED QuietVars
    BY <2>1 DEF modalVars, dialogVars, backdropVars, bodyVars, QuietVars
  <2>3. Quiet'
    BY <1>3, <2>2, LifeStill
  <2>4. Idle'
    BY <1>3, <2>1, <2>3 DEF Idle, NothingAsked
  <2> QED
    BY <1>2, <2>1, <2>4, PanelClicked DEF OneThing
<1> QED
  BY <1>4, <1>5, <1>6 DEF User

LEMMA PatientServer ==
    ASSUME TestInv, PanelsInOrder, OneThing, Server
    PROVE  PanelsInOrder' /\ OneThing'
<1>1. ModalInv /\ RequestTypes /\ WaitDialog \in Dialog /\ Details \subseteq Dialog
  BY NumbersAre DEF TestInv, Details
<1>2. PanelsInOrder' /\ (HistoryIsOpen => HistoryIsOpen')
  <2>1. UNCHANGED collapseVars
    BY DEF Server, TestAnswered, TestFails, DetailsAnswered, DetailsFail
  <2> QED
    BY <2>1, PanelsKept, HistoryStays
<1>3. CASE TestAnswered
  <2>1. /\ Hide(WaitDialog) /\ jobs = <<>> /\ running > 0 /\ running' = running - 1
        /\ asked' = asked
    BY <1>3 DEF TestAnswered, Call
  <2>2. Testing /\ running = 1 /\ WaitDialog \in shown
    <3>1. ~ Idle /\ ~ Asking /\ ~ Looking
      BY <2>1 DEF Idle, Asking, Looking, NothingAsked
    <3>2. Testing
      BY <3>1 DEF OneThing
    <3> QED
      BY <2>1, <3>2 DEF Testing
  <2>3. PICK b \in Backdrop : Life(WaitDialog, b)
    BY <2>2 DEF Testing
  <2>4. Life(WaitDialog, b)' /\ shown' = {}
    BY <1>1, <2>1, <2>2, <2>3, LifeHidden
  <2>5. running' = 0
    BY <2>1, <2>2
  <2>6. Testing'
    BY <2>1, <2>2, <2>4, <2>5 DEF Testing
  <2> QED
    BY <1>2, <2>6 DEF OneThing
<1>4. CASE TestFails
  <2>1. /\ UNCHANGED modalVars /\ running > 0 /\ running' = running - 1
        /\ asked' = asked /\ failed' = TRUE
    BY <1>4 DEF TestFails
  <2>2. Testing /\ running = 1 /\ WaitDialog \in shown
    <3>1. ~ Idle /\ ~ Asking /\ ~ Looking
      BY <2>1 DEF Idle, Asking, Looking, NothingAsked
    <3>2. Testing
      BY <3>1 DEF OneThing
    <3> QED
      BY <2>1, <3>2 DEF Testing
  <2>3. UNCHANGED QuietVars /\ shown' = shown
    BY <2>1 DEF modalVars, dialogVars, backdropVars, bodyVars, QuietVars
  <2>4. PICK b \in Backdrop : Life(WaitDialog, b)
    BY <2>2 DEF Testing
  <2>5. Life(WaitDialog, b)'
    BY <1>1, <2>3, <2>4, LifeStill
  <2>6. running' = 0
    BY <2>1, <2>2
  <2>7. Testing'
    BY <2>1, <2>2, <2>3, <2>5, <2>6 DEF Testing
  <2> QED
    BY <1>2, <2>7 DEF OneThing
<1>5. ASSUME NEW m \in Details, asked[m] > 0
      PROVE  /\ Quiet /\ running = 0 /\ HistoryIsOpen
             /\ asked = [n \in Details |-> IF n = m THEN 1 ELSE 0]
  <2>1. ~ Idle /\ ~ Looking /\ ~ Testing
    BY <1>5 DEF Idle, Looking, Testing, NothingAsked
  <2>2. Asking
    BY <2>1 DEF OneThing
  <2>3. PICK k \in Details : asked = [n \in Details |-> IF n = k THEN 1 ELSE 0]
    BY <2>2 DEF Asking
  <2>4. k = m
    BY <1>5, <2>3
  <2> QED
    BY <2>2, <2>3, <2>4 DEF Asking
<1>6. ASSUME NEW m \in Details, asked[m] > 0, asked' = [asked EXCEPT ![m] = @ - 1],
             running' = running
      PROVE  NothingAsked'
  <2>1. asked = [n \in Details |-> IF n = m THEN 1 ELSE 0] /\ running = 0
    BY <1>5, <1>6
  <2>2. asked' = [n \in Details |-> 0]
    BY <1>6, <2>1
  <2> QED
    BY <1>6, <2>1, <2>2 DEF NothingAsked
<1>7. ASSUME NEW m \in Details, DetailsAnswered(m)
      PROVE  OneThing'
  <2>1. /\ Show(m) /\ asked[m] > 0 /\ asked' = [asked EXCEPT ![m] = @ - 1]
        /\ running' = running
    BY <1>7 DEF DetailsAnswered, Call
  <2>2. Quiet /\ HistoryIsOpen
    BY <1>5, <2>1
  <2>3. \E b \in Backdrop : Life(m, b)'
    BY <1>1, <2>1, <2>2, LifeBegins
  <2>4. NothingAsked'
    BY <1>6, <2>1
  <2>5. Looking'
    BY <1>2, <2>2, <2>3, <2>4 DEF Looking
  <2> QED
    BY <2>5 DEF OneThing
<1>8. ASSUME NEW m \in Details, DetailsFail(m)
      PROVE  OneThing'
  <2>1. /\ UNCHANGED modalVars /\ asked[m] > 0 /\ asked' = [asked EXCEPT ![m] = @ - 1]
        /\ running' = running
    BY <1>8 DEF DetailsFail
  <2>2. Quiet
    BY <1>5, <2>1
  <2>3. UNCHANGED QuietVars
    BY <2>1 DEF modalVars, dialogVars, backdropVars, bodyVars, QuietVars
  <2>4. Quiet'
    BY <2>2, <2>3, LifeStill
  <2>5. NothingAsked'
    BY <1>6, <2>1
  <2> QED
    BY <2>4, <2>5 DEF OneThing, Idle
<1> QED
  BY <1>2, <1>3, <1>4, <1>7, <1>8 DEF Server

(* A step of the dialogs in which no request is made or answered.           *)
LEMMA OneThingKept ==
    ASSUME TestInv, OneThing,
           Quiet => Quiet',
           \A m \in Dialog, b \in Backdrop :
              Life(m, b) => Life(m, b)' \/ (Quiet' /\ m \notin shown),
           WaitDialog \in shown' <=> WaitDialog \in shown,
           HistoryIsOpen => HistoryIsOpen',
           UNCHANGED <<running, asked, failed>>
    PROVE  OneThing'
<1>1. /\ running' = running /\ asked' = asked /\ failed' = failed
      /\ WaitDialog \in Dialog /\ Details \subseteq Dialog
  BY NumbersAre DEF Details
<1>2. NothingAsked => NothingAsked'
  BY <1>1 DEF NothingAsked
<1>3. CASE Idle
  BY <1>2, <1>3 DEF Idle, OneThing
<1>4. CASE Asking
  <2>1. Asking'
    BY <1>1, <1>4 DEF Asking
  <2> QED
    BY <2>1 DEF OneThing
<1>5. CASE Looking
  <2>1. PICK m \in Details, b \in Backdrop : Life(m, b)
    BY <1>5 DEF Looking
  <2>2. CASE Life(m, b)'
    <3>1. Looking'
      BY <1>2, <1>5, <2>2 DEF Looking
    <3> QED
      BY <3>1 DEF OneThing
  <2>3. CASE Quiet'
    BY <1>2, <1>5, <2>3 DEF Looking, Idle, OneThing
  <2> QED
    BY <1>1, <2>1, <2>2, <2>3
<1>6. CASE Testing
  <2>1. PICK b \in Backdrop : Life(WaitDialog, b)
    BY <1>6 DEF Testing
  <2>2. CASE Life(WaitDialog, b)'
    <3>1. Testing'
      BY <1>1, <1>6, <2>2 DEF Testing
    <3> QED
      BY <3>1 DEF OneThing
  <2>3. CASE Quiet' /\ WaitDialog \notin shown
    <3>1. NothingAsked
      BY <1>6, <2>3 DEF Testing, NothingAsked
    <3>2. Idle'
      BY <1>2, <2>3, <3>1 DEF Idle
    <3> QED
      BY <3>2 DEF OneThing
  <2> QED
    BY <1>1, <2>1, <2>2, <2>3
<1> QED
  BY <1>3, <1>4, <1>5, <1>6 DEF OneThing

LEMMA InitPatient == PageInit => PatientInv
<1> SUFFICES ASSUME PageInit PROVE PanelsInOrder /\ Idle
  BY DEF PatientInv, OneThing
<1>1. Idle
  BY DEF PageInit, ModalInit, Idle, Quiet, NothingAsked
<1>2. /\ panel = [p \in Panel |-> IF p = FirstPanel THEN "open" ELSE "closed"]
      /\ collapsed = Panel \ {FirstPanel}
      /\ data = [p \in Panel |-> NoData]
      /\ panelWait = [p \in Panel |-> NoWait]
  BY DEF PageInit, CollapseInit
<1>3. \A p \in Panel : /\ panel[p] = IF p = FirstPanel THEN "open" ELSE "closed"
                       /\ data[p] = NoData /\ panelWait[p] = NoWait
  BY <1>2
<1>4. \A p \in Panel : Opening(p) <=> p = FirstPanel
  <2>1. ~ Moves(NoWait, "opened", TRUE)
    BY MovesAre
  <2>2. \A p \in Panel : panel[p] = "open" <=> p = FirstPanel
    BY <1>3
  <2> QED
    BY <1>3, <2>1, <2>2 DEF Opening
<1>5. \A p \in Panel : PanelOf(p)
  BY <1>3 DEF PanelOf
<1>6. PanelsInOrder
  BY <1>2, <1>4, <1>5 DEF PanelsInOrder
<1> QED
  BY <1>1, <1>6

LEMMA NextPatient == TestInv /\ PatientInv /\ [PageNext]_pageVars => PatientInv'
<1> SUFFICES ASSUME TestInv, PatientInv, [PageNext]_pageVars, hurries' = 0
             PROVE  PanelsInOrder' /\ OneThing'
  BY DEF PatientInv
<1>1. ModalInv /\ RequestTypes
  BY DEF TestInv
<1>2. CASE User
  BY <1>2, PatientUser
<1> SUFFICES ASSUME ~ User PROVE PanelsInOrder' /\ OneThing'
  BY <1>2
<1>3. hurries' = hurries
  BY DEF PageNext, Server, TestAnswered, TestFails, DetailsAnswered, DetailsFail, DialogEvent,
         Tick, PanelSettles, requestVars, userVars, pageVars
<1>4. PanelsInOrder /\ OneThing
  BY <1>3 DEF PatientInv
<1>5. CASE Server
  BY <1>4, <1>5, PatientServer
<1>6. CASE DialogEvent
  <2>1. ModalEvent /\ UNCHANGED collapseVars /\ UNCHANGED <<running, asked, failed>>
    BY <1>6 DEF DialogEvent, requestVars
  <2>2. /\ WaitDialog \in shown' <=> WaitDialog \in shown
        /\ Quiet => Quiet'
        /\ \A m \in Dialog, b \in Backdrop :
              Life(m, b) => Life(m, b)' \/ (Quiet' /\ m \notin shown)
    BY <1>1, <2>1, ModalEvent_modal, QuietKept, LifeEvent
  <2>3. PanelsInOrder' /\ (HistoryIsOpen => HistoryIsOpen')
    BY <1>4, <2>1, PanelsKept, HistoryStays
  <2> QED
    BY <1>4, <2>1, <2>2, <2>3, OneThingKept
<1>7. CASE Tick
  <2>1. /\ jobs = <<>> /\ NoModalDue /\ ModalLater /\ PanelsLater
        /\ UNCHANGED <<running, asked, failed>>
    BY <1>7 DEF Tick, requestVars
  <2>2. /\ shown' = shown
        /\ Quiet => Quiet'
        /\ \A m \in Dialog, b \in Backdrop : Life(m, b) => Life(m, b)'
    BY <1>1, <2>1, Still_modal, QuietKept, LifeLater
  <2>3. PanelsInOrder' /\ (HistoryIsOpen => HistoryIsOpen')
    BY <1>4, <2>1, PanelsKept, HistoryStays
  <2> QED
    BY <1>4, <2>1, <2>2, <2>3, OneThingKept
<1>8. ASSUME NEW p \in Panel, PanelSettles(p) PROVE PanelsInOrder' /\ OneThing'
  <2>1. /\ PanelEnds(p) /\ UNCHANGED modalVars /\ UNCHANGED <<running, asked, failed>>
    BY <1>8 DEF PanelSettles, requestVars
  <2>2. UNCHANGED QuietVars
    BY <2>1 DEF modalVars, dialogVars, backdropVars, bodyVars, QuietVars
  <2>3. /\ shown' = shown
        /\ Quiet => Quiet'
        /\ \A m \in Dialog, b \in Backdrop : Life(m, b) => Life(m, b)'
    BY <2>2, LifeStill DEF QuietVars
  <2>4. PanelsMove
    BY <2>1 DEF PanelEnds, Due, PanelsMove
  <2>5. PanelsInOrder' /\ ~ HistoryIsOpen
    BY <1>4, <2>1, <2>4, PanelEnded DEF HistoryIsOpen
  <2> QED
    BY <1>4, <2>1, <2>3, <2>5, OneThingKept
<1>9. CASE UNCHANGED pageVars
  <2>1. /\ UNCHANGED collapseVars /\ UNCHANGED modalVars
        /\ UNCHANGED <<running, asked, failed>>
    BY <1>9 DEF pageVars, requestVars
  <2>2. UNCHANGED QuietVars
    BY <2>1 DEF modalVars, dialogVars, backdropVars, bodyVars, QuietVars
  <2>3. /\ shown' = shown
        /\ Quiet => Quiet'
        /\ \A m \in Dialog, b \in Backdrop : Life(m, b) => Life(m, b)'
    BY <2>2, LifeStill DEF QuietVars
  <2>4. PanelsInOrder' /\ (HistoryIsOpen => HistoryIsOpen')
    BY <1>4, <2>1, PanelsKept, HistoryStays
  <2> QED
    BY <1>4, <2>1, <2>3, <2>4, OneThingKept
<1> QED
  BY <1>5, <1>6, <1>7, <1>8, <1>9 DEF PageNext

(* What the user sees of it.                                                *)
LEMMA PanelsSeen == PanelsInOrder => OneOpenPanel /\ HeadingsAgree
<1> SUFFICES ASSUME PanelsInOrder PROVE OneOpenPanel /\ HeadingsAgree
  OBVIOUS
<1>1. /\ \A p \in Panel : PanelOf(p)
      /\ \A p, q \in Panel : Opening(p) /\ Opening(q) => p = q
      /\ \A p \in Panel : p \in collapsed <=> ~ Opening(p)
  BY DEF PanelsInOrder
<1> DEFINE open == {p \in Panel : panel[p] = "open"}
<1>2. open = {} \/ \E p \in Panel : open = {p}
  <2> SUFFICES ASSUME NEW p \in open PROVE open = {p}
    OBVIOUS
  <2> QED
    BY <1>1 DEF Opening
<1>3. Cardinality(open) <= 1
  BY <1>2, FS_EmptySet, FS_Singleton
<1>4. OneOpenPanel
  BY <1>3 DEF OneOpenPanel
<1>5. ASSUME NEW p \in Panel, panel[p] # "moving"
      PROVE  p \in collapsed <=> panel[p] = "closed"
  <2>1. panel[p] \in {"open", "closed"} /\ panelWait[p] = NoWait
    BY <1>1, <1>5 DEF PanelOf
  <2>2. Opening(p) <=> panel[p] = "open"
    BY <2>1, MovesAre DEF Opening
  <2> QED
    BY <1>1, <2>1, <2>2
<1> QED
  BY <1>4, <1>5 DEF HeadingsAgree

LEMMA DialogsSeen == OneThing => NothingLeftBehind /\ UserCanGoOn
<1> SUFFICES ASSUME OneThing PROVE NothingLeftBehind /\ UserCanGoOn
  OBVIOUS
<1>1. CASE Quiet
  BY <1>1 DEF Quiet, NothingLeftBehind, UserCanGoOn, Reachable
<1>2. ASSUME NEW m \in Dialog, NEW b \in Backdrop, Life(m, b)
      PROVE  There(m, b) \/ jobs # <<>> \/ ModalMoves
  <2>1. \A w, call : Wait(w, call, m) => Waits(w)
    BY WaitIs
  <2>2. \A call : <<Job(call, m)>> # <<>>
    BY OneJob
  <2> QED
    BY <1>2, <2>1, <2>2 DEF Life, Coming, Hasty, Leaving, Fading, ModalMoves
<1>3. CASE Looking
  <2>1. PICK m \in Details, b \in Backdrop : Life(m, b)
    BY <1>3 DEF Looking
  <2>2. m \in Dialog \ Static /\ m \in Dialog
    BY PageAssumption DEF Details
  <2>3. CASE There(m, b)
    <3>1. m \in shown /\ m \in displayed /\ closable = shown
      BY <2>1, <2>3 DEF There, Life, Alone
    <3>2. Visible(m)
      BY <1>3, <3>1 DEF Visible, Looking, HistoryIsOpen
    <3> QED
      BY <2>2, <3>1, <3>2 DEF NothingLeftBehind, UserCanGoOn
  <2> QED
    BY <1>2, <2>1, <2>2, <2>3 DEF NothingLeftBehind, UserCanGoOn
<1>4. CASE Testing
  <2>1. PICK b \in Backdrop : Life(WaitDialog, b)
    BY <1>4 DEF Testing
  <2>2. CASE There(WaitDialog, b)
    <3>1. WaitDialog \in shown
      BY <2>2 DEF There
    <3>2. running > 0 \/ failed
      BY <1>4, <3>1 DEF Testing
    <3> QED
      BY <3>1, <3>2 DEF NothingLeftBehind, UserCanGoOn
  <2> QED
    BY <1>2, <2>1, <2>2, NumbersAre DEF NothingLeftBehind, UserCanGoOn
<1> QED
  BY <1>1, <1>3, <1>4 DEF OneThing, Idle, Asking

LEMMA WebIsPatient == WebSpec => []PatientInv
<1>1. WebInit => TestInv /\ PatientInv
  BY InitTest, InitPatient DEF WebInit
<1>2. TestInv /\ PatientInv /\ [WebNext]_webVars => TestInv' /\ PatientInv'
  BY NextTest, NextPatient, WebSteps
<1> QED
  BY <1>1, <1>2, PTL DEF WebSpec

(* For a user who waits, at most one panel is open, whichever objects its   *)
(* panels have or had.                                                      *)
THEOREM OnePanelIsOpen == WebSpec => []PatientOneOpenPanel
<1>1. PatientInv => PatientOneOpenPanel
  BY PanelsSeen DEF PatientInv, PatientOneOpenPanel, Patient
<1> QED
  BY <1>1, WebIsPatient, PTL

(* For a user who waits, a heading tells whether its panel is closed.       *)
THEOREM HeadingsTell == WebSpec => []PatientHeadingsAgree
<1>1. PatientInv => PatientHeadingsAgree
  BY PanelsSeen DEF PatientInv, PatientHeadingsAgree, Patient
<1> QED
  BY <1>1, WebIsPatient, PTL

(* For a user who waits, a dialog leaves no backdrop, no lock and no        *)
(* padding, also when it was hidden before it was there.                    *)
THEOREM NothingIsLeft == WebSpec => []PatientNothingLeft
<1>1. PatientInv => PatientNothingLeft
  BY DialogsSeen DEF PatientInv, PatientNothingLeft, Patient
<1> QED
  BY <1>1, WebIsPatient, PTL

(* A user who waits can act, or something is still to come.                 *)
THEOREM UserGoesOn == WebSpec => []PatientUserGoesOn
<1>1. PatientInv => PatientUserGoesOn
  BY DialogsSeen DEF PatientInv, PatientUserGoesOn, Patient
<1> QED
  BY <1>1, WebIsPatient, PTL
=============================================================================
