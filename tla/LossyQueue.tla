----------------------------- MODULE LossyQueue -----------------------------
(***************************************************************************)
(* What a viewer of the live pipeline may count on: messages, numbered as  *)
(* they were sent, are delivered in that order, each at most once; some    *)
(* are lost.  Nothing is promised about how many.                          *)
(***************************************************************************)
EXTENDS Naturals

VARIABLES
    sent,       \* messages sent so far
    inFlight,   \* those neither delivered nor lost
    delivered   \* the last one delivered; 0: none

vars == <<sent, inFlight, delivered>>

Init == sent = 0 /\ inFlight = {} /\ delivered = 0

Send ==
    /\ sent' = sent + 1
    /\ inFlight' = inFlight \cup {sent + 1}
    /\ UNCHANGED delivered

(* Some are lost, wherever they are. *)
Lose ==
    /\ inFlight' \subseteq inFlight
    /\ UNCHANGED <<sent, delivered>>

(* The oldest that was not lost. *)
Deliver ==
    \E n \in inFlight :
        /\ \A m \in inFlight : n <= m
        /\ delivered' = n
        /\ inFlight' = inFlight \ {n}
        /\ UNCHANGED sent

Next == Send \/ Lose \/ Deliver
Spec == Init /\ [][Next]_vars
=============================================================================
