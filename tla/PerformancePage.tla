--------------------------- MODULE PerformancePage ---------------------------
(***************************************************************************)
(* The page that starts tests (performance_monitor.html): its dialogs, its *)
(* two panels and the requests that open and close the dialogs.            *)
(*                                                                         *)
(* A test shows the static dialog WaitDialog and asks the server; the      *)
(* answer hides it.  A click on a row of the history asks for its details; *)
(* the answer shows the row's dialog, which lies inside the history panel. *)
(* A backdrop takes the clicks that are meant for the page below it, from  *)
(* the moment it is on the page.  Requests that fail run no handler: the   *)
(* page catches nothing.                                                   *)
(*                                                                         *)
(* A key reaches what has the focus, below a backdrop or not: the test     *)
(* button keeps the focus when the dialog comes, and can be pressed again. *)
(*                                                                         *)
(* Left out: the tables that the answers fill.                             *)
(***************************************************************************)
EXTENDS Modal, Collapse

CONSTANTS
    WaitDialog,     \* #myModal
    MaxHurries,     \* bound: times the user acts before all is settled, or by
                    \* key below a dialog
    MaxRequests     \* bound: requests for one row that are not answered

ASSUME PageAssumption ==
    /\ WaitDialog \in Dialog /\ Static = {WaitDialog}
    /\ MaxHurries \in Nat
    /\ MaxRequests \in Nat \ {0}

Details == Dialog \ {WaitDialog}    \* the dialogs of the rows
History == 2                        \* the panel they are in

VARIABLES
    running,    \* tests asked for and not answered
    asked,      \* requests for the details of each row, not answered
    failed,     \* a test's request has failed
    hurries,    \* times the user has acted before all was settled (history)
    pressed     \* or by key below a dialog (history)

userVars == <<hurries, pressed>>
requestVars == <<running, asked, failed, userVars>>
pageVars == <<modalVars, collapseVars, requestVars>>

PageInit ==
    /\ ModalInit /\ CollapseInit
    /\ running = 0 /\ asked = [m \in Details |-> 0] /\ failed = FALSE
    /\ hurries = 0 /\ pressed = FALSE

\* The mouse reaches the page.
Reachable == jobs = <<>> /\ backdrops = {} /\ displayed = {}

Settled == running = 0 /\ (\A m \in Details : asked[m] = 0) /\ ~ PanelsMove

\* The user does something, and has or has not waited for what was asked for
\* and for what moves; or presses a key below a dialog.
UserActs ==
    \/ Reachable /\ Settled /\ UNCHANGED userVars
    \/ /\ hurries < MaxHurries /\ hurries' = hurries + 1
       /\ \/ Reachable /\ ~ Settled /\ UNCHANGED pressed
          \/ jobs = <<>> /\ ~ Reachable /\ focused = {} /\ pressed' = TRUE

\* send()
StartTest ==
    /\ UserActs /\ running < MaxRequests
    /\ Call("show", WaitDialog)
    /\ running' = running + 1
    /\ UNCHANGED <<collapseVars, asked, failed>>

\* Faulty: the dialog is not hidden.
TestAnswered_NotHidden ==
    /\ jobs = <<>> /\ running > 0
    /\ UNCHANGED modalVars
    /\ running' = running - 1
    /\ UNCHANGED <<collapseVars, asked, failed, userVars>>

\* The answer, a table or "err": the dialog is hidden after either.
TestAnswered ==
    /\ jobs = <<>> /\ running > 0
    /\ Call("hide", WaitDialog)
    /\ running' = running - 1
    /\ UNCHANGED <<collapseVars, asked, failed, userVars>>

TestFails ==
    /\ jobs = <<>> /\ running > 0
    /\ running' = running - 1
    /\ failed' = TRUE
    /\ UNCHANGED <<modalVars, collapseVars, asked, userVars>>

\* The rows' links are [data-toggle="modal"], but name no target: the handler of
\* the plugin, which would toggle the target, finds none.
ToggleTarget == UNCHANGED modalVars

\* inferDetails(), from a row of the open history.
AskDetails(m) ==
    /\ UserActs /\ panel[History] = "open" /\ asked[m] < MaxRequests
    /\ asked' = [asked EXCEPT ![m] = @ + 1]
    /\ ToggleTarget
    /\ UNCHANGED <<collapseVars, running, failed>>

DetailsAnswered(m) ==
    /\ jobs = <<>> /\ asked[m] > 0
    /\ Call("show", m)
    /\ asked' = [asked EXCEPT ![m] = @ - 1]
    /\ UNCHANGED <<collapseVars, running, failed, userVars>>

DetailsFail(m) ==
    /\ jobs = <<>> /\ asked[m] > 0
    /\ asked' = [asked EXCEPT ![m] = @ - 1]
    /\ UNCHANGED <<modalVars, collapseVars, running, failed, userVars>>

MovePanel(p) ==
    /\ UserActs
    /\ ClickHeading(p)
    /\ UNCHANGED <<modalVars, running, asked, failed>>

PanelSettles(p) ==
    /\ jobs = <<>>
    /\ PanelEnds(p)
    /\ UNCHANGED <<modalVars, requestVars>>

DialogEvent == ModalEvent /\ UNCHANGED <<collapseVars, requestVars>>

\* A unit of time in which no timer is passed over.
Tick ==
    /\ jobs = <<>> /\ NoModalDue /\ NoPanelDue
    /\ ModalMoves \/ PanelsMove
    /\ ModalLater /\ PanelsLater
    /\ UNCHANGED requestVars

\* The server answers, or the connection breaks.
Server ==
    \/ TestAnswered \/ TestFails
    \/ \E m \in Details : DetailsAnswered(m) \/ DetailsFail(m)

User ==
    \/ StartTest
    \/ \E m \in Details : AskDetails(m)
    \/ \E p \in Panel : MovePanel(p)

PageNext == User \/ Server \/ DialogEvent \/ Tick \/ \E p \in Panel : PanelSettles(p)

\* The browser runs handlers and timers; a request is answered or fails
\* (`TestsAreAnswered' of TestRun).  The user owes nothing.
PageFairness ==
    /\ WF_pageVars(DialogEvent /\ (RunHandler \/ \E m \in Dialog : ElementEnds(m)
                                              \/ \E b \in Backdrop : BackdropEnds(b)))
    /\ WF_pageVars(\E p \in Panel : PanelSettles(p))
    /\ WF_pageVars(Tick)
    /\ WF_pageVars(Server)

PageSpec == PageInit /\ [][PageNext]_pageVars

-----------------------------------------------------------------------------
\* A dialog of a row is seen only in the open panel of the history.
Visible(m) == m \in displayed /\ (m \in Details => panel[History] # "closed")

\* The page can be reached, or a dialog can be closed, or something is still to
\* come.  (A test whose request failed leaves its dialog for good: `failed'.)
UserCanGoOn ==
    \/ Reachable \/ failed
    \/ running > 0 \/ jobs # <<>> \/ ModalMoves
    \/ \E m \in closable \ Static : Visible(m)

\* What holds as long as the user waits.
Patient(P) == hurries = 0 => P

\* A user who waits is never locked out of the page: also when the answer comes
\* while the dialog's backdrop is still fading in (performance_monitor.html:316
\* and 352, bootstrap.js:986-1047).
PatientUserGoesOn == Patient(UserCanGoOn)

\* For a user who waits at most one panel is open (bootstrap.js:577-595).
PatientOneOpenPanel == Patient(OneOpenPanel)

\* For a user who waits the headings tell which panel is closed
\* (bootstrap.js:604-606, 644-646).
PatientHeadingsAgree == Patient(HeadingsAgree)

\* For a user who waits the dialogs leave nothing behind (bootstrap.js:1077-1143).
PatientNothingLeft == Patient(NothingLeftBehind)

\* With the mouse, however fast, the page has one test running at a time: the
\* backdrop of the static dialog is there from the click until the answer has
\* come.  (By key it can have more.)  (performance_monitor.html:316 and 352.)
OneTestAtATime == ~ pressed => running <= 1

\* After a test the page comes back to a user who waits, unless its request
\* failed (performance_monitor.html:352).
PageComesBack == running > 0 ~> (Reachable \/ failed \/ hurries > 0)
=============================================================================
