------------------------------ MODULE Carousel ------------------------------
(***************************************************************************)
(* The slides of the start page (index.html:76-145), driven by the         *)
(* carousel plugin of bootstrap.js.                                        *)
(*                                                                         *)
(* A slide begins in one call and ends in a handler of the transition's    *)
(* end; the event that tells so ("slid") comes later still, from a         *)
(* setTimeout of 0.  A choice made during a slide waits for that event.    *)
(* Whatever else the browser has to do, a tick of the ride, a click, the   *)
(* mouse, comes in between.  A handler runs to its end: `todo' are the     *)
(* waiting choices that the event in progress has still to call.           *)
(*                                                                         *)
(* Left out: `paused', which is TRUE only inside a call (pause() is always *)
(* followed by cycle() on this page); the class of the direction; wrap,    *)
(* which is the default; devices without a mouse.  Transitions are         *)
(* supported.                                                              *)
(***************************************************************************)
EXTENDS Naturals, Sequences, FiniteSets

CONSTANTS
    NumItems,       \* slides, and as many indicators (4 on the page)
    MaxChoices,     \* bound: choices that wait at a time
    MaxDue          \* bound: "slid" events on their way at a time

ASSUME CarouselAssumption ==
    /\ NumItems \in Nat \ {0}
    /\ MaxChoices \in Nat
    /\ MaxDue \in Nat \ {0}

Item == 0 .. NumItems - 1
Still == NumItems           \* no slide is in progress

VARIABLES
    loaded,     \* the window's load event has been handled
    made,       \* data('bs.carousel') exists
    rides,      \* its options.interval is not false
    ticking,    \* this.interval: a timer is set
    hover,      \* the mouse is over the slides
    active,     \* items of class "active"
    indicator,  \* the indicator of class "active"
    moving,     \* the item that slides in, or Still
    sliding,    \* this.sliding
    choices,    \* to(pos) calls registered for the next "slid"
    slidDue,    \* "slid" events whose setTimeout has not run
    todo        \* registered calls the "slid" in progress has still to make

carouselVars == <<loaded, made, rides, ticking, hover, active, indicator,
                  moving, sliding, choices, slidDue, todo>>
wheel == <<loaded, made, rides, hover>>

CarouselInit ==
    /\ loaded = FALSE /\ made = FALSE /\ rides = FALSE
    /\ ticking = FALSE /\ hover = FALSE
    /\ active = {0} /\ indicator = 0
    /\ moving = Still /\ sliding = FALSE
    /\ choices = <<>> /\ slidDue = 0 /\ todo = <<>>

ActiveIndex == CHOOSE i \in active : TRUE

ItemForDirection(dir) ==
    IF dir = "next"
    THEN IF ActiveIndex = NumItems - 1 THEN 0 ELSE ActiveIndex + 1
    ELSE IF ActiveIndex = 0 THEN NumItems - 1 ELSE ActiveIndex - 1

\* cycle(): clears the timer and sets it again if the options have an interval.
Cycle(riding) == ticking' = riding

\* Faulty: the indicator is left where it was.
Slide_NoIndicator(next, riding) ==
    IF next \in active
    THEN /\ sliding' = FALSE
         /\ UNCHANGED <<ticking, indicator, moving>>
    ELSE /\ sliding' = TRUE
         /\ moving' = next
         /\ ticking' = (ticking /\ riding)
         /\ UNCHANGED indicator

\* slide(): a timer that was set is paused and set again.
Slide(next, riding) ==
    IF next \in active
    THEN /\ sliding' = FALSE
         /\ UNCHANGED <<ticking, indicator, moving>>
    ELSE /\ sliding' = TRUE
         /\ indicator' = next
         /\ moving' = next
         /\ ticking' = (ticking /\ riding)

\* next() and prev() do nothing during a slide.
Step(dir, riding) ==
    IF sliding
    THEN UNCHANGED <<ticking, indicator, moving, sliding>>
    ELSE Slide(ItemForDirection(dir), riding)

\* to(pos), with the calls that will be registered for "slid" afterwards.
To(pos, riding, registered) ==
    \/ /\ sliding
       /\ choices' = Append(registered, pos)
       /\ UNCHANGED <<ticking, indicator, moving, sliding>>
    \/ /\ ~ sliding /\ active = {pos}
       /\ Cycle(riding)
       /\ choices' = registered
       /\ UNCHANGED <<indicator, moving, sliding>>
    \/ /\ ~ sliding /\ active # {pos}
       /\ Slide(pos, riding)
       /\ choices' = registered

\* An instance made by an arrow, or by load, has the default interval.
MadeWith(interval) ==
    /\ made' = TRUE
    /\ rides' = IF made THEN rides ELSE interval

Load ==
    /\ todo = <<>> /\ ~ loaded
    /\ loaded' = TRUE
    /\ MadeWith(TRUE)
    /\ Cycle(rides')
    /\ UNCHANGED <<hover, active, indicator, moving, sliding, choices, slidDue, todo>>

\* A click on an arrow, a [data-slide].
Arrow(dir) ==
    /\ todo = <<>>
    /\ MadeWith(TRUE)
    /\ Step(dir, rides')
    /\ UNCHANGED <<loaded, hover, active, choices, slidDue, todo>>

ArrowKey(dir) ==
    /\ todo = <<>> /\ made
    /\ Step(dir, rides)
    /\ UNCHANGED <<wheel, active, choices, slidDue, todo>>

\* A click on an indicator, a [data-slide-to]: an instance made here has
\* interval = false.
Choose(pos) ==
    /\ todo = <<>> /\ Len(choices) < MaxChoices
    /\ MadeWith(FALSE)
    /\ To(pos, rides', choices)
    /\ UNCHANGED <<loaded, hover, active, slidDue, todo>>

\* setInterval's callback: next.
RideTick ==
    /\ todo = <<>> /\ ticking
    /\ Step("next", rides)
    /\ UNCHANGED <<wheel, active, choices, slidDue, todo>>

\* pause(e) clears the timer, and cycle(e) sets it; the handlers are there
\* once there is an instance.
MouseEnter ==
    /\ todo = <<>> /\ ~ hover
    /\ hover' = TRUE
    /\ IF made THEN ticking' = FALSE ELSE UNCHANGED ticking
    /\ UNCHANGED <<loaded, made, rides, active, indicator, moving, sliding,
                   choices, slidDue, todo>>

\* Faulty: the timer is set again only when no slide is in progress.
MouseLeave_NotWhileSliding ==
    /\ todo = <<>> /\ hover
    /\ hover' = FALSE
    /\ IF made /\ ~ sliding THEN Cycle(rides) ELSE UNCHANGED ticking
    /\ UNCHANGED <<loaded, made, rides, active, indicator, moving, sliding,
                   choices, slidDue, todo>>

MouseLeave ==
    /\ todo = <<>> /\ hover
    /\ hover' = FALSE
    /\ IF made THEN Cycle(rides) ELSE UNCHANGED ticking
    /\ UNCHANGED <<loaded, made, rides, active, indicator, moving, sliding,
                   choices, slidDue, todo>>

\* Faulty: nobody is told that the slide is over.
SlideEnds_Untold ==
    /\ todo = <<>> /\ moving # Still /\ slidDue < MaxDue
    /\ active' = {moving}
    /\ moving' = Still
    /\ sliding' = FALSE
    /\ UNCHANGED <<wheel, ticking, indicator, choices, slidDue, todo>>

\* Faulty: the flag is left up.
SlideEnds_FlagLeft ==
    /\ todo = <<>> /\ moving # Still /\ slidDue < MaxDue
    /\ active' = {moving}
    /\ moving' = Still
    /\ slidDue' = slidDue + 1
    /\ UNCHANGED <<wheel, ticking, indicator, sliding, choices, todo>>

\* The end of the transition, from the browser or from the emulation.  It may
\* come at once: the item that slides out has slid in before, and the end of
\* that transition can still be on its way.
SlideEnds ==
    /\ todo = <<>> /\ moving # Still /\ slidDue < MaxDue
    /\ active' = {moving}
    /\ moving' = Still
    /\ sliding' = FALSE
    /\ slidDue' = slidDue + 1
    /\ UNCHANGED <<wheel, ticking, indicator, choices, todo>>

\* The setTimeout of 0: "slid".  The calls are registered with one().
Slid ==
    /\ todo = <<>> /\ slidDue > 0
    /\ slidDue' = slidDue - 1
    /\ todo' = choices
    /\ choices' = <<>>
    /\ UNCHANGED <<wheel, ticking, active, indicator, moving, sliding>>

CallNext ==
    /\ todo # <<>>
    /\ To(Head(todo), rides, choices)
    /\ todo' = Tail(todo)
    /\ UNCHANGED <<wheel, active, slidDue>>

CarouselNext ==
    \/ Load \/ RideTick \/ MouseEnter \/ MouseLeave
    \/ \E dir \in {"next", "prev"} : Arrow(dir) \/ ArrowKey(dir)
    \/ \E pos \in Item : Choose(pos)
    \/ SlideEnds \/ Slid \/ CallNext

\* The browser fires its timers and events; no visitor has to do anything.
CarouselFairness ==
    /\ WF_carouselVars(RideTick)
    /\ WF_carouselVars(SlideEnds)
    /\ WF_carouselVars(Slid)
    /\ WF_carouselVars(CallNext)

CarouselSpec == CarouselInit /\ [][CarouselNext]_carouselVars

-----------------------------------------------------------------------------
\* `active' is what the model keeps of the classes: items, of which slide()
\* (bootstrap.js:446-447) takes the active one away when the next one has come.
CarouselTypeOK ==
    /\ loaded \in BOOLEAN /\ made \in BOOLEAN /\ rides \in BOOLEAN
    /\ ticking \in BOOLEAN /\ hover \in BOOLEAN /\ sliding \in BOOLEAN
    /\ active \in {{i} : i \in Item}
    /\ indicator \in Item
    /\ moving \in Item \cup {Still}
    /\ choices \in Seq(Item) /\ todo \in Seq(Item)
    /\ slidDue \in 0 .. MaxDue

\* The indicator points to the slide that is shown, or to the one that comes,
\* and next() is locked out exactly as long as one comes: after every order of
\* clicks, ticks, ends and late "slid" events (bootstrap.js:428-452).
IndicatorAgrees ==
    /\ indicator = IF moving = Still THEN ActiveIndex ELSE moving
    /\ sliding = (moving # Still)

\* A choice that waits for "slid" has a "slid" to come: the visitor's click is
\* not left behind until somebody moves the slides again (bootstrap.js:382).
NoChoiceLost == choices # <<>> => sliding \/ slidDue > 0

\* Once the page is loaded, slides that ride go on riding whenever the mouse is
\* away: pauses for a slide, and for the mouse, are always taken up again
\* (bootstrap.js:349-359, 388-399, 430 and 461).
RideIsKept == loaded /\ rides /\ ~ hover => ticking

\* A ride moves on: a slide that is shown while the timer is set goes, unless
\* the mouse or a visitor comes (bootstrap.js:401-404).
RideGoesOn == \A i \in Item : (ticking /\ active = {i}) ~> (active # {i} \/ ~ ticking)
=============================================================================
