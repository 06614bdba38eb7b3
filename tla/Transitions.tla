---------------------------- MODULE Transitions ----------------------------
(***************************************************************************)
(* Waiting for the end of a CSS transition, as bootstrap.js does it        *)
(* everywhere:                                                             *)
(*     $el.one('bsTransitionEnd', handler).emulateTransitionEnd(duration)  *)
(* The handler is called once, by the browser's event or by the event that *)
(* a timer triggers after the duration.  One event calls all handlers that *)
(* wait on the element, in the order they came, and the other timers of    *)
(* the element then find `called' set and do nothing: so the timer that    *)
(* counts is that of the first handler that waits.                         *)
(*                                                                         *)
(* A unit of time is 150 ms, BACKDROP_TRANSITION_DURATION.  Units can be   *)
(* begun: two waits of which one is longer never end in the wrong order,   *)
(* two that end in the same unit end in any.                               *)
(***************************************************************************)
EXTENDS Naturals, Sequences

\* What waits on an element: its handlers, and the units to the first timer.
NoWait == [handlers |-> <<>>, left |-> 0]

Waits(w) == w.handlers # <<>>

\* one('bsTransitionEnd', h).emulateTransitionEnd(duration)
WaitFor(w, h, duration) ==
    [handlers |-> Append(w.handlers, h),
     left |-> IF Waits(w) THEN w.left ELSE duration]

Due(w) == Waits(w) /\ w.left = 0

\* A unit of time goes by; no timer is passed over.
Later(w) == IF Waits(w) THEN [w EXCEPT !.left = @ - 1] ELSE w
=============================================================================
