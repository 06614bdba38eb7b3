------------------------------ MODULE Collapse ------------------------------
(***************************************************************************)
(* The two panels of the performance page, results and history             *)
(* (performance_monitor.html:88-145), of which at most one is to be open:  *)
(* the collapse plugin of bootstrap.js, with data-parent.                  *)
(*                                                                         *)
(* A panel's Collapse object is made at the first click on its heading, or *)
(* when another panel opens and closes it; in this case it is made without *)
(* a parent and forgotten at once.  A handler of the end of a movement     *)
(* belongs to the object that began it (`own': the object is still the     *)
(* panel's).  `transitioning' is the object's, not the panel's.            *)
(***************************************************************************)
EXTENDS Transitions, FiniteSets

CONSTANT NumPanels      \* 2 on the page

ASSUME PanelAssumption == NumPanels \in Nat \ {0}

Panel == 1 .. NumPanels
FirstPanel == 1

VARIABLES
    panel,      \* "open": class in; "moving": class collapsing; "closed"
    collapsed,  \* panels whose heading has class "collapsed"
    data,       \* data('bs.collapse') of each
    panelWait   \* what waits for the end of a panel's movement

collapseVars == <<panel, collapsed, data, panelWait>>

NoData == [state |-> "none", grouped |-> FALSE]
Object(state, grouped) == [state |-> state, grouped |-> grouped]

CollapseInit ==
    /\ panel = [p \in Panel |-> IF p = FirstPanel THEN "open" ELSE "closed"]
    /\ collapsed = Panel \ {FirstPanel}
    /\ data = [p \in Panel |-> NoData]
    /\ panelWait = [p \in Panel |-> NoWait]

MoveTime == 2           \* TRANSITION_DURATION, 350 ms

Has(p) == data[p].state # "none"
Busy(p) == data[p].state = "busy"

Handler(call, own) == [call |-> call, own |-> own]

\* data('bs.collapse', null): what the panel's handlers belong to is forgotten.
Disown(w) ==
    [w EXCEPT !.handlers = [i \in DOMAIN @ |-> [@[i] EXCEPT !.own = FALSE]]]

\* The panels of the group that are open or moving, the panel itself included.
Actives(grouped) == IF grouped THEN {q \in Panel : panel[q] # "closed"} ELSE {}

\* actives.data(...) is that of the first one in the document.
FirstOf(S) == CHOOSE p \in S : \A q \in S : p <= q

\* The constructor, when there is a parent, marks the headings of the group.
Remark == {q \in Panel : panel[q] # "open"}

\* show(), of the object of a panel that had it (`had') or of a new one.
ShowPanel(p, had, grouped, marked) ==
    LET actives == Actives(grouped)
        none == actives # {} /\ ~ Has(FirstOf(actives))
        blocked == actives # {} /\ Busy(FirstOf(actives))
        hiding == {q \in actives : panel[q] = "open" /\ ~ Busy(q)}
        \* Plugin.call(actives, 'hide'), then data(..., null) if none.
        other(q) == IF q \notin actives THEN data[q]
                    ELSE IF none THEN NoData
                    ELSE Object(IF q \in hiding THEN "busy"
                                ELSE IF Has(q) THEN data[q].state ELSE "idle",
                                data[q].grouped)
        own == ~ (had /\ none /\ p \in actives)
        handled(q) == IF none /\ q \in actives THEN Disown(panelWait[q]) ELSE panelWait[q]
    IN
    \/ /\ blocked
       /\ data' = IF had THEN data ELSE [data EXCEPT ![p] = Object("idle", grouped)]
       /\ collapsed' = marked
       /\ UNCHANGED <<panel, panelWait>>
    \/ /\ ~ blocked
       /\ panel' = [q \in Panel |-> IF q = p \/ q \in hiding THEN "moving" ELSE panel[q]]
       /\ collapsed' = (marked \cup hiding) \ {p}
       /\ data' = [q \in Panel |->
                      IF q # p THEN other(q)
                      ELSE IF own THEN Object("busy", grouped) ELSE NoData]
       /\ panelWait' = [q \in Panel |->
                           IF q = p THEN WaitFor(handled(q), Handler("opened", own), MoveTime)
                           ELSE IF q \in hiding
                           THEN WaitFor(handled(q), Handler("closed", ~ none), MoveTime)
                           ELSE handled(q)]

\* Faulty: the heading is not marked.
HidePanel_NotMarked(p, grouped, marked) ==
    /\ panel' = [panel EXCEPT ![p] = "moving"]
    /\ collapsed' = marked
    /\ data' = [data EXCEPT ![p] = Object("busy", grouped)]
    /\ panelWait' = [panelWait EXCEPT ![p] = WaitFor(@, Handler("closed", TRUE), MoveTime)]

\* hide(), called by toggle.
HidePanel(p, grouped, marked) ==
    /\ panel' = [panel EXCEPT ![p] = "moving"]
    /\ collapsed' = marked \cup {p}
    /\ data' = [data EXCEPT ![p] = Object("busy", grouped)]
    /\ panelWait' = [panelWait EXCEPT ![p] = WaitFor(@, Handler("closed", TRUE), MoveTime)]

\* toggle()
Toggle(p, had, grouped, marked) ==
    \/ panel[p] = "open" /\ HidePanel(p, grouped, marked)
    \/ panel[p] # "open" /\ ShowPanel(p, had, grouped, marked)

\* Faulty: the object is made without the parent its heading names.
ClickHeading_NoParent(p) ==
    \/ Has(p) /\ Busy(p) /\ UNCHANGED collapseVars
    \/ Has(p) /\ ~ Busy(p) /\ Toggle(p, TRUE, data[p].grouped, collapsed)
    \/ ~ Has(p) /\ Toggle(p, FALSE, FALSE, Remark)

\* A click on a heading: toggle, by the panel's object or by a new one, which
\* becomes the panel's when its constructor, toggle included, has returned.
ClickHeading(p) ==
    \/ Has(p) /\ Busy(p) /\ UNCHANGED collapseVars
    \/ Has(p) /\ ~ Busy(p) /\ Toggle(p, TRUE, data[p].grouped, collapsed)
    \/ ~ Has(p) /\ Toggle(p, FALSE, TRUE, Remark)

\* The end of a movement: all handlers of the panel.  A "closed" leaves the
\* class "in" of an "opened" alone.
PanelEnds(p) ==
    LET called == {panelWait[p].handlers[i] : i \in DOMAIN panelWait[p].handlers} IN
    /\ Due(panelWait[p])
    /\ panel' = [panel EXCEPT ![p] =
                    IF \E h \in called : h.call = "opened" THEN "open"
                    ELSE IF @ = "moving" THEN "closed" ELSE @]
    /\ data' = [data EXCEPT ![p] =
                   IF \E h \in called : h.own THEN Object("idle", @.grouped) ELSE @]
    /\ panelWait' = [panelWait EXCEPT ![p] = NoWait]
    /\ UNCHANGED collapsed

NoPanelDue == \A p \in Panel : ~ Due(panelWait[p])
PanelsMove == \E p \in Panel : Waits(panelWait[p])
PanelsLater ==
    /\ panelWait' = [p \in Panel |-> Later(panelWait[p])]
    /\ UNCHANGED <<panel, collapsed, data>>

-----------------------------------------------------------------------------
\* At most one panel is open: data-parent="#accordion"
\* (performance_monitor.html:92 and 139), kept by objects that are made, forgotten
\* and made again (bootstrap.js:577-595).
OneOpenPanel == Cardinality({p \in Panel : panel[p] = "open"}) <= 1

\* A heading tells whether its panel is closed, whichever click, on this
\* heading or another, moved it last (bootstrap.js:604-606, 644-646, 680-687).
HeadingsAgree ==
    \A p \in Panel : panel[p] # "moving" => (p \in collapsed <=> panel[p] = "closed")
=============================================================================
