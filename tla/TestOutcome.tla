---------------------------- MODULE TestOutcome ----------------------------
(***************************************************************************)
(* What a performance test of the inference platform promises to the page  *)
(* that asked for it: all devices of the user are tried, the answer comes  *)
(* when each of them has concluded, and it is the table of results if none *)
(* failed and "err" otherwise.  TestRun implements this as long as tests   *)
(* do not overlap.                                                         *)
(***************************************************************************)
CONSTANTS Test,      \* requests for a test
          Slot       \* positions in the user's list of devices

VARIABLES outcome,   \* what became of each device of each test
          answer     \* what was sent back to the page

vars == <<outcome, answer>>

Init ==
    /\ outcome = [t \in Test |-> [s \in Slot |-> "pending"]]
    /\ answer = [t \in Test |-> "none"]

(* A device delivers its results (or is known not to support the model), or *)
(* it fails.                                                                *)
Conclude(t, s) ==
    /\ answer[t] = "none"
    /\ outcome[t][s] = "pending"
    /\ \E o \in {"result", "failed"} : outcome' = [outcome EXCEPT ![t][s] = o]
    /\ UNCHANGED answer

(* The page is answered once no device is pending.                          *)
Answer(t) ==
    /\ answer[t] = "none"
    /\ \A s \in Slot : outcome[t][s] # "pending"
    /\ answer' = [answer EXCEPT ![t] =
                    IF \E s \in Slot : outcome[t][s] = "failed"
                    THEN "err" ELSE "records"]
    /\ UNCHANGED outcome

(* A test that is refused, or that breaks before it reaches the devices.    *)
Refuse(t) ==
    /\ answer[t] = "none"
    /\ \A s \in Slot : outcome[t][s] = "pending"
    /\ \E a \in {"blank", "err"} : answer' = [answer EXCEPT ![t] = a]
    /\ UNCHANGED outcome

Next == \E t \in Test : \/ \E s \in Slot : Conclude(t, s)
                        \/ Answer(t)
                        \/ Refuse(t)

Spec == Init /\ [][Next]_vars
=============================================================================
