-------------------------------- MODULE Modal --------------------------------
(***************************************************************************)
(* The dialogs of a page: the modal plugin of bootstrap.js.                *)
(*                                                                         *)
(* Showing and hiding take several turns of the browser's event loop.      *)
(* show() puts up a backdrop and returns; the dialog is displayed by a     *)
(* handler of the end of the backdrop's fade.  hide() takes the dialog's   *)
(* handlers away and returns; at the end of the dialog's fade hideModal    *)
(* takes it off and lets the backdrop fade, and at the end of that the     *)
(* backdrop is removed and the body unlocked.  What is between the turns   *)
(* is decided by what the object says then, not by what it said before.    *)
(* All dialogs share the body, its class "modal-open" and its padding.     *)
(*                                                                         *)
(* `jobs' are the handlers an event has still to call; nothing else runs   *)
(* before they are done.  As on these pages, every dialog fades and has a  *)
(* backdrop, transitions are supported, nothing is loaded by `remote'.     *)
(* Only static ones have a tabindex, but no part that slides in: so the    *)
(* focus that show() gives to a dialog when it has slid in reaches none.   *)
(* Left out: the layout of a dialog that is taller than the window.        *)
(***************************************************************************)
EXTENDS Transitions, FiniteSets

CONSTANTS
    Dialog,         \* the elements of class "modal" of the page
    Static,         \* those shown with {backdrop: 'static', keyboard: false}
    MaxBackdrops    \* bound: backdrops on the page at a time

ASSUME ModalAssumption ==
    /\ Static \subseteq Dialog
    /\ MaxBackdrops \in Nat \ {0}

Backdrop == 1 .. MaxBackdrops
NoBackdrop == 0

VARIABLES
    shown,          \* dialogs whose isShown is true
    displayed,      \* dialogs that are not display: none
    closable,       \* dialogs whose click.dismiss handlers are bound
    keys,           \* dialogs whose keydown.dismiss handler is bound
    ignoring,       \* dialogs whose ignoreBackdropClick is true
    current,        \* this.$backdrop of each
    backdrops,      \* backdrops on the page
    elementWait,    \* what waits for the end of a dialog's fade
    backdropWait,   \* what waits for the end of a backdrop's fade
    locked,         \* the body has class "modal-open"
    bodyPad,        \* its padding, in widths of a scrollbar
    padBefore,      \* this.originalBodyPad of each
    guard,          \* the dialog whose focusin handler is on the document, if any
    focused,        \* the dialog that has the focus, if not the page below
    jobs            \* handlers the event in progress has still to call

dialogVars == <<shown, displayed, closable, keys, ignoring>>
backdropVars == <<current, backdrops, elementWait, backdropWait>>
bodyVars == <<locked, bodyPad, padBefore>>
focusVars == <<guard, focused>>
modalVars == <<dialogVars, backdropVars, bodyVars, focusVars, jobs>>

ModalInit ==
    /\ shown = {} /\ displayed = {} /\ closable = {} /\ keys = {} /\ ignoring = {}
    /\ current = [m \in Dialog |-> NoBackdrop] /\ backdrops = {}
    /\ elementWait = [m \in Dialog |-> NoWait]
    /\ backdropWait = [b \in Backdrop |-> NoWait]
    /\ locked = FALSE /\ bodyPad = 0 /\ padBefore = [m \in Dialog |-> 0]
    /\ guard = {} /\ focused = {}
    /\ jobs = <<>>

Job(call, m) == [call |-> call, dialog |-> m]

HideTime == 2       \* TRANSITION_DURATION, 300 ms
FadeTime == 1       \* BACKDROP_TRANSITION_DURATION

\* The first branch of backdrop(): a new one, that forgets the one before.
NewBackdrop(m, call) ==
    LET free == Backdrop \ backdrops IN
    /\ free # {}
    /\ LET b == CHOOSE b \in free : TRUE IN
       /\ backdrops' = backdrops \cup {b}
       /\ current' = [current EXCEPT ![m] = b]
       /\ backdropWait' = [backdropWait EXCEPT ![b] = WaitFor(NoWait, Job(call, m), FadeTime)]

\* The body's padding makes up for the scrollbar that goes.  Whether the page
\* scrolls depends on what is on it; a locked body does not.
LockBody(m) ==
    /\ padBefore' = [padBefore EXCEPT ![m] = bodyPad]
    /\ \E scrolls \in BOOLEAN :
          bodyPad' = IF scrolls /\ ~ locked THEN bodyPad + 1 ELSE bodyPad
    /\ locked' = TRUE

\* Faulty: keyboard: false is not looked at.
Show_KeysAlways(m) ==
    \/ m \in shown /\ UNCHANGED modalVars
    \/ /\ m \notin shown
       /\ shown' = shown \cup {m}
       /\ closable' = closable \cup {m}
       /\ keys' = keys \cup {m}
       /\ LockBody(m)
       /\ NewBackdrop(m, "showDialog")
       /\ UNCHANGED <<displayed, ignoring, elementWait, focusVars, jobs>>

\* show().
Show(m) ==
    \/ m \in shown /\ UNCHANGED modalVars
    \/ /\ m \notin shown
       /\ shown' = shown \cup {m}
       /\ closable' = closable \cup {m}
       /\ keys' = IF m \in Static THEN keys ELSE keys \cup {m}
       /\ LockBody(m)
       /\ NewBackdrop(m, "showDialog")
       /\ UNCHANGED <<displayed, ignoring, elementWait, focusVars, jobs>>

\* Faulty: a hide that comes before the dialog is displayed takes it off at
\* once and returns.
Hide_AtOnce(m) ==
    \/ m \notin shown /\ UNCHANGED modalVars
    \/ /\ m \in shown
       /\ shown' = shown \ {m}
       /\ closable' = closable \ {m}
       /\ keys' = keys \ {m}
       /\ elementWait' = IF m \in displayed
                         THEN [elementWait EXCEPT ![m] = WaitFor(@, Job("hideModal", m), HideTime)]
                         ELSE elementWait
       /\ guard' = {}
       /\ UNCHANGED <<displayed, ignoring, current, backdrops, backdropWait, bodyVars,
                      focused, jobs>>

\* hide().  The handler on the document goes, whichever dialog's it is.
Hide(m) ==
    \/ m \notin shown /\ UNCHANGED modalVars
    \/ /\ m \in shown
       /\ shown' = shown \ {m}
       /\ closable' = closable \ {m}
       /\ keys' = keys \ {m}
       /\ elementWait' = [elementWait EXCEPT ![m] = WaitFor(@, Job("hideModal", m), HideTime)]
       /\ guard' = {}
       /\ UNCHANGED <<displayed, ignoring, current, backdrops, backdropWait, bodyVars,
                      focused, jobs>>

\* $(m).modal(option): the object, made at the first call, is hidden at first.
Call(option, m) == IF option = "hide" THEN Hide(m) ELSE Show(m)

\* The callback of hideModal's backdrop(): the body is as it was before m.
UnlockBody(m) ==
    /\ locked' = FALSE
    /\ bodyPad' = padBefore[m]
    /\ UNCHANGED padBefore

-----------------------------------------------------------------------------
\* The handlers, in the order an event calls them.

RunJob(call) ==
    /\ jobs # <<>> /\ Head(jobs).call = call
    /\ jobs' = Tail(jobs)

\* enforceFocus(): focus that leaves m is brought back.
EnforceFocus(m) == guard' = {m}

\* The callback of show's backdrop().
ShowDialog ==
    /\ RunJob("showDialog")
    /\ displayed' = displayed \cup {Head(jobs).dialog}
    /\ EnforceFocus(Head(jobs).dialog)
    /\ UNCHANGED <<shown, closable, keys, ignoring, backdropVars, bodyVars, focused>>

\* The second branch of backdrop().
FadeBackdrop(m) ==
    backdropWait' =
        [backdropWait EXCEPT ![current[m]] = WaitFor(@, Job("remove", m), FadeTime)]

\* hideModal(), with the three branches of backdrop().
HideModal ==
    LET m == Head(jobs).dialog IN
    /\ RunJob("hideModal")
    /\ displayed' = displayed \ {m}
    /\ focused' = focused \ {m}
    /\ \/ /\ m \in shown
          /\ NewBackdrop(m, "unlockBody")
          /\ closable' = closable \cup {m}
          /\ UNCHANGED bodyVars
       \/ /\ m \notin shown /\ current[m] # NoBackdrop
          /\ FadeBackdrop(m)
          /\ UNCHANGED <<closable, current, backdrops, bodyVars>>
       \/ /\ m \notin shown /\ current[m] = NoBackdrop
          /\ UnlockBody(m)
          /\ UNCHANGED <<closable, current, backdrops, backdropWait>>
    /\ UNCHANGED <<shown, keys, ignoring, elementWait, guard>>

\* The backdrop that is the object's now.
RemoveBackdrop(m) ==
    /\ backdrops' = backdrops \ {current[m]}
    /\ backdropWait' = [b \in Backdrop |-> IF b = current[m] THEN NoWait ELSE backdropWait[b]]
    /\ current' = [current EXCEPT ![m] = NoBackdrop]

\* Faulty: the body is not unlocked.
Remove_NotUnlocked ==
    LET m == Head(jobs).dialog IN
    /\ RunJob("remove")
    /\ RemoveBackdrop(m)
    /\ UNCHANGED <<dialogVars, elementWait, bodyVars, focusVars>>

\* callbackRemove.
Remove ==
    LET m == Head(jobs).dialog IN
    /\ RunJob("remove")
    /\ RemoveBackdrop(m)
    /\ UnlockBody(m)
    /\ UNCHANGED <<dialogVars, elementWait, focusVars>>

\* hideModal found its dialog shown again: the new backdrop's callback.
UnlockUnder ==
    /\ RunJob("unlockBody")
    /\ UnlockBody(Head(jobs).dialog)
    /\ UNCHANGED <<dialogVars, backdropVars, focusVars>>

RunHandler == ShowDialog \/ HideModal \/ Remove \/ UnlockUnder

-----------------------------------------------------------------------------
\* The events.

\* The end of a dialog's fade: the browser's, after 150 ms, if it is displayed,
\* or the timer's.
ElementEnds(m) ==
    /\ jobs = <<>>
    /\ \/ Due(elementWait[m])
       \/ Waits(elementWait[m]) /\ m \in displayed /\ elementWait[m].left <= FadeTime
    /\ jobs' = elementWait[m].handlers
    /\ elementWait' = [elementWait EXCEPT ![m] = NoWait]
    /\ UNCHANGED <<dialogVars, current, backdrops, backdropWait, bodyVars, focusVars>>

BackdropEnds(b) ==
    /\ jobs = <<>>
    /\ b \in backdrops /\ Due(backdropWait[b])
    /\ jobs' = backdropWait[b].handlers
    /\ backdropWait' = [backdropWait EXCEPT ![b] = NoWait]
    /\ UNCHANGED <<dialogVars, current, backdrops, elementWait, bodyVars, focusVars>>

\* A click on [data-dismiss="modal"].
CloseButton(m) ==
    /\ jobs = <<>>
    /\ m \in (displayed \cap closable) \ Static
    /\ Hide(m)

\* A click, or the tab key, gives the focus to a button in the dialog.
TakeFocus(m) ==
    /\ jobs = <<>>
    /\ m \in displayed \ Static /\ focused # {m}
    /\ focused' = {m}
    /\ UNCHANGED <<dialogVars, backdropVars, bodyVars, guard, jobs>>

\* The tab key moves the focus on the page below: the dialog that guards it
\* takes it, if it is displayed and can have it.
TabOut ==
    /\ jobs = <<>>
    /\ focused' = guard \cap displayed \cap Static
    /\ UNCHANGED <<dialogVars, backdropVars, bodyVars, guard, jobs>>

\* A click beside the dialog.  With a static backdrop it only gives the focus.
ClickBeside(m) ==
    /\ jobs = <<>>
    /\ m \in displayed \cap closable
    /\ \/ /\ m \in ignoring
          /\ ignoring' = ignoring \ {m}
          /\ UNCHANGED <<shown, displayed, closable, keys, backdropVars, bodyVars,
                         focusVars, jobs>>
       \/ /\ m \in Static
          /\ focused' = {m}
          /\ UNCHANGED <<dialogVars, backdropVars, bodyVars, guard, jobs>>
       \/ /\ m \notin ignoring /\ m \notin Static
          /\ Hide(m)

\* The mouse goes down in the dialog and up beside it.
DragOut(m) ==
    /\ jobs = <<>>
    /\ m \in (displayed \cap shown) \ Static
    /\ ignoring' = ignoring \cup {m}
    /\ UNCHANGED <<shown, displayed, closable, keys, backdropVars, bodyVars, focusVars, jobs>>

\* The key reaches the dialog that has the focus.
Escape(m) ==
    /\ jobs = <<>>
    /\ m \in displayed \cap keys /\ m \in focused
    /\ Hide(m)

ModalEvent ==
    \/ RunHandler \/ TabOut
    \/ \E m \in Dialog : \/ ElementEnds(m) \/ TakeFocus(m)
                         \/ CloseButton(m) \/ ClickBeside(m) \/ DragOut(m) \/ Escape(m)
    \/ \E b \in Backdrop : BackdropEnds(b)

NoModalDue ==
    /\ \A m \in Dialog : ~ Due(elementWait[m])
    /\ \A b \in Backdrop : ~ Due(backdropWait[b])

ModalMoves ==
    \/ \E m \in Dialog : Waits(elementWait[m])
    \/ \E b \in Backdrop : Waits(backdropWait[b])

ModalLater ==
    /\ elementWait' = [m \in Dialog |-> Later(elementWait[m])]
    /\ backdropWait' = [b \in Backdrop |-> Later(backdropWait[b])]
    /\ UNCHANGED <<dialogVars, current, backdrops, bodyVars, focusVars, jobs>>

-----------------------------------------------------------------------------
\* `current' is in `backdrops' or none: a backdrop goes off the page by the
\* reference of its dialog only (bootstrap.js:1088-1091).
ModalTypeOK ==
    /\ shown \in SUBSET Dialog /\ displayed \in SUBSET Dialog
    /\ closable \in SUBSET Dialog /\ keys \in SUBSET (Dialog \ Static)
    /\ ignoring \in SUBSET (Dialog \ Static)
    /\ current \in [Dialog -> backdrops \cup {NoBackdrop}]
    /\ backdrops \in SUBSET Backdrop
    /\ guard \in SUBSET Dialog /\ focused \in SUBSET displayed
    /\ locked \in BOOLEAN /\ bodyPad \in Nat /\ padBefore \in [Dialog -> Nat]

\* When every dialog is hidden and every fade is over, nothing of them is left
\* on the page: no dialog, no backdrop that takes the clicks, a body that
\* scrolls and has its padding back; also when the answer came while the
\* dialog's backdrop was fading in (bootstrap.js:961-1047, 1077-1143).
NothingLeftBehind ==
    shown = {} /\ jobs = <<>> /\ ~ ModalMoves
    => displayed = {} /\ backdrops = {} /\ ~ locked /\ bodyPad = 0
=============================================================================
