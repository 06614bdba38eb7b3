--------------------------- MODULE CarouselProofs ---------------------------
(***************************************************************************)
(* The slides, for any number of them and any number of waiting choices:   *)
(* indicator and slide agree, no choice is left behind, and a ride goes on *)
(* whenever the mouse is away.  One invariant carries all of it: besides   *)
(* the three it says that only an instance rides, that the load makes one, *)
(* and that a timer is set only for a ride.                                *)
(***************************************************************************)
EXTENDS Carousel, TLAPS

\* The timer is set only when the slides ride, and an instance exists then.
RideOfInstance ==
    /\ loaded => made
    /\ rides => made
    /\ ticking => rides

CarouselInv ==
    /\ CarouselTypeOK
    /\ IndicatorAgrees
    /\ NoChoiceLost
    /\ RideOfInstance
    /\ RideIsKept

\* What slide() may change, and what holds of it afterwards.
SlideVars == <<ticking, indicator, moving, sliding>>

\* The one active item.
LEMMA OneActive ==
    ASSUME NEW i \in Item, active = {i}
    PROVE  ActiveIndex = i
BY DEF ActiveIndex

\* The neighbours of the active item are items.
LEMMA DirectionItem ==
    ASSUME NEW i \in Item, active = {i}, NEW dir \in {"next", "prev"}
    PROVE  ItemForDirection(dir) \in Item
<1>1. ActiveIndex = i
  BY OneActive
<1> QED
  BY <1>1, CarouselAssumption DEF ItemForDirection, Item

\* What the steps of the slides themselves keep: a slide begins when none is in
\* progress, and takes the indicator with it.
Moved ==
    /\ ticking' \in BOOLEAN /\ sliding' \in BOOLEAN
    /\ indicator' \in Item
    /\ moving' \in Item \cup {Still}
    /\ indicator' = IF moving' = Still THEN ActiveIndex ELSE moving'
    /\ sliding' = (moving' # Still)
    /\ sliding => sliding'

\* slide() keeps the agreement when no slide is in progress.
LEMMA SlideMoves ==
    ASSUME CarouselTypeOK, IndicatorAgrees, ~ sliding,
           NEW next \in Item, NEW riding \in BOOLEAN, Slide(next, riding)
    PROVE  Moved
<1>1. next # Still
  BY CarouselAssumption DEF Item, Still
<1>2. moving = Still /\ indicator = ActiveIndex
  BY DEF IndicatorAgrees
<1>3. CASE next \in active
  BY <1>2, <1>3 DEF Slide, Moved, CarouselTypeOK
<1>4. CASE next \notin active
  BY <1>1, <1>4 DEF Slide, Moved, CarouselTypeOK
<1> QED
  BY <1>3, <1>4

\* next() and prev() keep it always.
LEMMA StepMoves ==
    ASSUME CarouselTypeOK, IndicatorAgrees,
           NEW dir \in {"next", "prev"}, NEW riding \in BOOLEAN, Step(dir, riding)
    PROVE  Moved
<1>1. CASE sliding
  BY <1>1 DEF Step, Moved, CarouselTypeOK, IndicatorAgrees
<1>2. CASE ~ sliding
  <2>1. PICK i \in Item : active = {i}
    BY DEF CarouselTypeOK
  <2>2. ItemForDirection(dir) \in Item
    BY <2>1, DirectionItem
  <2> QED
    BY <1>2, <2>2, SlideMoves DEF Step
<1> QED
  BY <1>1, <1>2

\* to(pos) keeps it, and registers its call only while a slide is in progress.
LEMMA ToMoves ==
    ASSUME CarouselTypeOK, IndicatorAgrees,
           NEW pos \in Item, NEW riding \in BOOLEAN,
           To(pos, riding, choices)
    PROVE  /\ Moved
           /\ choices' \in Seq(Item)
           /\ choices' # choices => sliding
<1>1. CASE sliding /\ choices' = Append(choices, pos) /\ UNCHANGED SlideVars
  <2>1. choices' \in Seq(Item)
    BY <1>1 DEF CarouselTypeOK
  <2>2. Moved
    BY <1>1 DEF SlideVars, Moved, CarouselTypeOK, IndicatorAgrees
  <2> QED
    BY <1>1, <2>1, <2>2
<1>2. CASE ~ sliding /\ Cycle(riding) /\ choices' = choices
           /\ UNCHANGED <<indicator, moving, sliding>>
  BY <1>2 DEF Cycle, Moved, CarouselTypeOK, IndicatorAgrees
<1>3. CASE ~ sliding /\ Slide(pos, riding) /\ choices' = choices
  BY <1>3, SlideMoves DEF CarouselTypeOK
<1> QED
  BY <1>1, <1>2, <1>3 DEF To, SlideVars

\* The timer after a step of the slides: as it was, or that of the ride.
LEMMA SlideTicks ==
    ASSUME NEW next, NEW riding \in BOOLEAN, ticking \in BOOLEAN, Slide(next, riding)
    PROVE  ticking' = ticking \/ ticking' = (ticking /\ riding)
BY DEF Slide

LEMMA StepTicks ==
    ASSUME NEW dir, NEW riding \in BOOLEAN, ticking \in BOOLEAN, Step(dir, riding)
    PROVE  ticking' = ticking \/ ticking' = (ticking /\ riding)
BY SlideTicks DEF Step

LEMMA ToTicks ==
    ASSUME NEW pos, NEW riding \in BOOLEAN, ticking \in BOOLEAN, To(pos, riding, choices)
    PROVE  ticking' = ticking \/ ticking' = (ticking /\ riding) \/ ticking' = riding
BY SlideTicks DEF To, Cycle

-----------------------------------------------------------------------------
\* The page as it comes.
LEMMA InitInv == CarouselInit => CarouselInv
<1> SUFFICES ASSUME CarouselInit PROVE CarouselInv
  OBVIOUS
<1>1. 0 \in Item /\ Still \notin Item
  BY CarouselAssumption DEF Item, Still
<1>2. CarouselTypeOK
  <2>1. active \in {{i} : i \in Item}
    BY <1>1 DEF CarouselInit
  <2>2. slidDue \in 0 .. MaxDue
    BY CarouselAssumption DEF CarouselInit
  <2>3. choices \in Seq(Item) /\ todo \in Seq(Item)
    BY DEF CarouselInit
  <2> QED
    BY <1>1, <2>1, <2>2, <2>3 DEF CarouselInit, CarouselTypeOK
<1>3. ActiveIndex = 0
  BY <1>1, OneActive DEF CarouselInit
<1>4. IndicatorAgrees /\ NoChoiceLost /\ RideOfInstance /\ RideIsKept
  BY <1>3 DEF CarouselInit, IndicatorAgrees, NoChoiceLost, RideOfInstance, RideIsKept
<1> QED
  BY <1>2, <1>4 DEF CarouselInv

\* No step, of the visitor or of the browser, breaks the invariant.
LEMMA NextInv == CarouselInv /\ [CarouselNext]_carouselVars => CarouselInv'
<1> SUFFICES ASSUME CarouselInv, [CarouselNext]_carouselVars PROVE CarouselInv'
  OBVIOUS
<1> USE DEF CarouselInv
<1>1. CASE Load
  <2>1. CarouselTypeOK'
    BY <1>1 DEF Load, MadeWith, Cycle, CarouselTypeOK
  <2>2. (IndicatorAgrees /\ NoChoiceLost)'
    BY <1>1 DEF Load, IndicatorAgrees, NoChoiceLost, ActiveIndex
  <2>3. (RideOfInstance /\ RideIsKept)'
    BY <1>1 DEF Load, MadeWith, Cycle, CarouselTypeOK, RideOfInstance, RideIsKept
  <2> QED
    BY <2>1, <2>2, <2>3
<1>2. ASSUME NEW dir \in {"next", "prev"}, Arrow(dir)
      PROVE  CarouselInv'
  <2>1. rides' \in BOOLEAN /\ made' = TRUE
    BY <1>2 DEF Arrow, MadeWith, CarouselTypeOK
  <2>2. Moved
    BY <1>2, <2>1, StepMoves DEF Arrow
  <2>3. CarouselTypeOK'
    BY <1>2, <2>1, <2>2 DEF Arrow, Moved, CarouselTypeOK
  <2>4. (IndicatorAgrees /\ NoChoiceLost)'
    BY <1>2, <2>2 DEF Arrow, Moved, IndicatorAgrees, NoChoiceLost, ActiveIndex
  <2>5. ticking' = ticking \/ ticking' = (ticking /\ rides')
    BY <1>2, <2>1, StepTicks DEF Arrow, CarouselTypeOK
  <2>6. (RideOfInstance /\ RideIsKept)'
    BY <1>2, <2>1, <2>5 DEF Arrow, MadeWith, CarouselTypeOK, RideOfInstance, RideIsKept
  <2> QED
    BY <2>3, <2>4, <2>6
<1>3. ASSUME NEW dir \in {"next", "prev"}, Step(dir, rides),
             UNCHANGED <<wheel, active, choices, slidDue, todo>>
      PROVE  CarouselInv'
  <2>1. rides \in BOOLEAN /\ ticking \in BOOLEAN
    BY DEF CarouselTypeOK
  <2>2. Moved
    BY <1>3, <2>1, StepMoves
  <2>3. CarouselTypeOK'
    BY <1>3, <2>2 DEF wheel, Moved, CarouselTypeOK
  <2>4. (IndicatorAgrees /\ NoChoiceLost)'
    BY <1>3, <2>2 DEF wheel, Moved, IndicatorAgrees, NoChoiceLost, ActiveIndex
  <2>5. ticking' = ticking \/ ticking' = (ticking /\ rides)
    BY <1>3, <2>1, StepTicks
  <2>6. (RideOfInstance /\ RideIsKept)'
    BY <1>3, <2>1, <2>5 DEF wheel, RideOfInstance, RideIsKept
  <2> QED
    BY <2>3, <2>4, <2>6
<1>4. ASSUME NEW dir \in {"next", "prev"}, ArrowKey(dir)
      PROVE  CarouselInv'
  BY <1>3, <1>4 DEF ArrowKey
<1>5. CASE RideTick
  BY <1>3, <1>5 DEF RideTick
<1>6. ASSUME NEW pos \in Item, Choose(pos)
      PROVE  CarouselInv'
  <2>1. rides' \in BOOLEAN /\ made' = TRUE
    BY <1>6 DEF Choose, MadeWith, CarouselTypeOK
  <2>2. Moved /\ choices' \in Seq(Item) /\ (choices' # choices => sliding)
    BY <1>6, <2>1, ToMoves DEF Choose
  <2>3. CarouselTypeOK'
    BY <1>6, <2>1, <2>2 DEF Choose, Moved, CarouselTypeOK
  <2>4. (IndicatorAgrees /\ NoChoiceLost)'
    BY <1>6, <2>2 DEF Choose, Moved, IndicatorAgrees, NoChoiceLost, ActiveIndex
  <2>5. ticking' = ticking \/ ticking' = (ticking /\ rides') \/ ticking' = rides'
    BY <1>6, <2>1, ToTicks DEF Choose, CarouselTypeOK
  <2>6. (RideOfInstance /\ RideIsKept)'
    <3>1. CASE made
      BY <1>6, <2>1, <2>5, <3>1 DEF Choose, MadeWith, RideOfInstance, RideIsKept
    <3>2. CASE ~ made
      <4>1. ~ loaded /\ ~ ticking /\ ~ rides' /\ ~ loaded'
        BY <1>6, <3>2 DEF Choose, MadeWith, RideOfInstance
      <4>2. ~ ticking'
        BY <2>5, <4>1
      <4> QED
        BY <2>1, <4>1, <4>2 DEF RideOfInstance, RideIsKept
    <3> QED
      BY <3>1, <3>2 DEF CarouselTypeOK
  <2> QED
    BY <2>3, <2>4, <2>6
<1>7. CASE MouseEnter
  <2>1. CarouselTypeOK'
    BY <1>7 DEF MouseEnter, CarouselTypeOK
  <2>2. (IndicatorAgrees /\ NoChoiceLost)'
    BY <1>7 DEF MouseEnter, IndicatorAgrees, NoChoiceLost, ActiveIndex
  <2>3. (RideOfInstance /\ RideIsKept)'
    BY <1>7 DEF MouseEnter, RideOfInstance, RideIsKept
  <2> QED
    BY <2>1, <2>2, <2>3
<1>8. CASE MouseLeave
  <2>1. CarouselTypeOK'
    BY <1>8 DEF MouseLeave, Cycle, CarouselTypeOK
  <2>2. (IndicatorAgrees /\ NoChoiceLost)'
    BY <1>8 DEF MouseLeave, IndicatorAgrees, NoChoiceLost, ActiveIndex
  <2>3. (RideOfInstance /\ RideIsKept)'
    BY <1>8 DEF MouseLeave, Cycle, CarouselTypeOK, RideOfInstance, RideIsKept
  <2> QED
    BY <2>1, <2>2, <2>3
<1>9. CASE SlideEnds
  <2>1. PICK i \in Item : moving = i
    BY <1>9 DEF SlideEnds, CarouselTypeOK
  <2>2. CarouselTypeOK'
    <3>1. active' \in {{k} : k \in Item}
      BY <1>9, <2>1 DEF SlideEnds
    <3>2. slidDue' \in 0 .. MaxDue
      BY <1>9, CarouselAssumption DEF SlideEnds, CarouselTypeOK
    <3> QED
      BY <1>9, <3>1, <3>2 DEF SlideEnds, wheel, CarouselTypeOK
  <2>3. ActiveIndex' = i
    <3>1. active' = {i}
      BY <1>9, <2>1 DEF SlideEnds
    <3> QED
      BY <3>1 DEF ActiveIndex
  <2>4. (IndicatorAgrees /\ NoChoiceLost)'
    <3>1. slidDue' > 0
      BY <1>9, CarouselAssumption DEF SlideEnds, CarouselTypeOK
    <3> QED
      BY <1>9, <2>1, <2>3, <3>1 DEF SlideEnds, IndicatorAgrees, NoChoiceLost
  <2>5. (RideOfInstance /\ RideIsKept)'
    BY <1>9 DEF SlideEnds, wheel, RideOfInstance, RideIsKept
  <2> QED
    BY <2>2, <2>4, <2>5
<1>10. CASE Slid
  <2>1. CarouselTypeOK'
    BY <1>10, CarouselAssumption DEF Slid, wheel, CarouselTypeOK
  <2>2. (IndicatorAgrees /\ NoChoiceLost)'
    BY <1>10 DEF Slid, IndicatorAgrees, NoChoiceLost, ActiveIndex
  <2>3. (RideOfInstance /\ RideIsKept)'
    BY <1>10 DEF Slid, wheel, RideOfInstance, RideIsKept
  <2> QED
    BY <2>1, <2>2, <2>3
<1>11. CASE CallNext
  <2>1. rides \in BOOLEAN /\ ticking \in BOOLEAN
    BY DEF CarouselTypeOK
  <2>2. Head(todo) \in Item /\ Tail(todo) \in Seq(Item)
    BY <1>11 DEF CallNext, CarouselTypeOK
  <2>3. Moved /\ choices' \in Seq(Item) /\ (choices' # choices => sliding)
    BY <1>11, <2>1, <2>2, ToMoves DEF CallNext
  <2>4. CarouselTypeOK'
    BY <1>11, <2>2, <2>3 DEF CallNext, wheel, Moved, CarouselTypeOK
  <2>5. (IndicatorAgrees /\ NoChoiceLost)'
    BY <1>11, <2>3 DEF CallNext, Moved, IndicatorAgrees, NoChoiceLost, ActiveIndex
  <2>6. ticking' = ticking \/ ticking' = (ticking /\ rides) \/ ticking' = rides
    BY <1>11, <2>1, <2>2, ToTicks DEF CallNext
  <2>7. (RideOfInstance /\ RideIsKept)'
    BY <1>11, <2>1, <2>6 DEF CallNext, wheel, RideOfInstance, RideIsKept
  <2> QED
    BY <2>4, <2>5, <2>7
<1>12. CASE UNCHANGED carouselVars
  BY <1>12 DEF carouselVars, CarouselTypeOK, IndicatorAgrees, NoChoiceLost, ActiveIndex,
              RideOfInstance, RideIsKept
<1> QED
  BY <1>1, <1>2, <1>4, <1>5, <1>6, <1>7, <1>8, <1>9, <1>10, <1>11, <1>12 DEF CarouselNext

\* The invariant holds whatever the visitor does (bootstrap.js:310-529).
THEOREM CarouselInvariant == CarouselSpec => []CarouselInv
BY InitInv, NextInv, PTL DEF CarouselSpec

\* The indicator points to the slide that is shown or comes (bootstrap.js:428-452).
THEOREM IndicatorFollows == CarouselSpec => []IndicatorAgrees
<1>1. CarouselInv => IndicatorAgrees
  BY DEF CarouselInv
<1> QED
  BY <1>1, CarouselInvariant, PTL

\* A choice made during a slide is taken up when it is over (bootstrap.js:382).
THEOREM ChoicesKept == CarouselSpec => []NoChoiceLost
<1>1. CarouselInv => NoChoiceLost
  BY DEF CarouselInv
<1> QED
  BY <1>1, CarouselInvariant, PTL

\* A ride is taken up again after every pause (bootstrap.js:349-359, 388-399).
THEOREM RideKept == CarouselSpec => []RideIsKept
<1>1. CarouselInv => RideIsKept
  BY DEF CarouselInv
<1> QED
  BY <1>1, CarouselInvariant, PTL
=============================================================================
