----------------------------- MODULE ScrollSpy -----------------------------
(***************************************************************************)
(* The scrollspy plugin of bootstrap.js: which link of a navigation is     *)
(* marked while the list it points into is scrolled and refilled.          *)
(*                                                                         *)
(* The record page (record_query.html:119) has such a list, but no links   *)
(* in its navigation: there NumLinks = 0, nothing is ever marked, and what *)
(* the plugin keeps is the height of the list.  The list is refilled by    *)
(* every answer, behind the plugin's back (RecordPage): it looks at the    *)
(* height when a scroll event comes.                                       *)
(*                                                                         *)
(* Left out: links to places that are hidden; the class "active", which is *)
(* on the link of `activeTarget' only.                                     *)
(***************************************************************************)
EXTENDS Naturals, FiniteSets, FiniteSetsExt

CONSTANTS
    NumLinks,       \* links of the navigation, each to a section of the list
    MaxSize,        \* bound: rows of a section
    View            \* rows that are seen at a time

ASSUME SpyAssumption ==
    /\ NumLinks \in Nat /\ MaxSize \in Nat
    /\ View \in Nat \ {0}

Link == 1 .. NumLinks
NoLink == 0
Part == 0 .. NumLinks

VARIABLES
    spies,          \* data('bs.scrollspy') exists
    size,           \* rows of each section, and (0) above the first one
    scrollTop,      \* rows above the view
    scrollDue,      \* a scroll event is to come
    offsets,        \* this.offsets: where the sections began at the last refresh
    scrollHeight,   \* this.scrollHeight: the height of the list then
    activeTarget    \* this.activeTarget

spyVars == <<spies, size, scrollTop, scrollDue, offsets, scrollHeight, activeTarget>>
listVars == <<size, scrollTop>>

Top(sizes, l) == MapThenSumSet(LAMBDA k : sizes[k], {k \in Part : k < l})
Tops(sizes) == [l \in Link |-> Top(sizes, l)]

\* getScrollHeight(): of an element that is never less than its view.
GetScrollHeight(sizes) == Max({View, Top(sizes, NumLinks + 1)})

SpyInit ==
    /\ spies = FALSE
    /\ size = [k \in Part |-> 0] /\ scrollTop = 0 /\ scrollDue = FALSE
    /\ offsets = [l \in Link |-> 0] /\ scrollHeight = 0
    /\ activeTarget = NoLink

\* The last section that begins at or above `top', by the given places.
SectionAt(places, top) ==
    {l \in Link : top >= places[l] /\ (l = NumLinks \/ top < places[l + 1])}

\* What process() marks, by the places it has and the height it finds: nothing
\* above the first section.
Marked(places, height, top) ==
    IF NumLinks = 0 THEN NoLink
    ELSE IF top >= height - View THEN NumLinks
    ELSE IF top < places[1] THEN NoLink
    ELSE CHOOSE l \in SectionAt(places, top) : TRUE

\* refresh()
Refresh ==
    /\ offsets' = Tops(size)
    /\ scrollHeight' = GetScrollHeight(size)

\* activate() clears the other marks, clear() leaves none.
Activate(l) == activeTarget' = l

\* The constructor, with refresh() and process().
NewSpy ==
    /\ spies' = TRUE
    /\ Refresh
    /\ Activate(Marked(Tops(size), GetScrollHeight(size), scrollTop))

\* $(list).scrollspy(options)
MakeSpy == ~ spies /\ NewSpy

\* The window's load.
SpyLoad ==
    /\ MakeSpy
    /\ UNCHANGED <<listVars, scrollDue>>

\* process(), the handler of a scroll event: refresh() if the height is not the
\* known one, and the decision by the places read before.
Process ==
    /\ spies /\ scrollDue
    /\ scrollDue' = FALSE
    /\ IF scrollHeight # GetScrollHeight(size)
       THEN Refresh
       ELSE UNCHANGED <<offsets, scrollHeight>>
    /\ Activate(Marked(offsets, GetScrollHeight(size), scrollTop))
    /\ UNCHANGED <<spies, listVars>>

\* A scroll event before there is an object has no handler.
Unheard ==
    /\ ~ spies /\ scrollDue
    /\ scrollDue' = FALSE
    /\ UNCHANGED <<spies, listVars, offsets, scrollHeight, activeTarget>>

Scroll(top) ==
    /\ top # scrollTop /\ top <= GetScrollHeight(size) - View
    /\ scrollTop' = top
    /\ scrollDue' = TRUE
    /\ UNCHANGED <<spies, size, offsets, scrollHeight, activeTarget>>

\* The list gets other rows.  The browser keeps the view inside it, which is a
\* scroll.
Refill(sizes) ==
    LET lowest == GetScrollHeight(sizes) - View IN
    /\ size' = sizes
    /\ scrollTop' = IF scrollTop > lowest THEN lowest ELSE scrollTop
    /\ scrollDue' = (scrollDue \/ scrollTop > lowest)
    /\ UNCHANGED <<spies, offsets, scrollHeight, activeTarget>>

\* Without new rows: the page is loaded, and the list is scrolled.
SpyNext ==
    \/ SpyLoad \/ Process \/ Unheard
    \/ \E top \in 0 .. (NumLinks + 1) * MaxSize : Scroll(top)
=============================================================================
