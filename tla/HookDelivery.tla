---------------------------- MODULE HookDelivery ----------------------------
(***************************************************************************)
(* What the Hook inbox promises a Hook: an event whose write returned is    *)
(* delivered at least once before anything removes it.                     *)
(***************************************************************************)
CONSTANT Event

VARIABLES pending, delivered

vars == <<pending, delivered>>

Init == pending = {} /\ delivered = {}

Write(e) ==
    /\ e \notin pending \cup delivered
    /\ pending' = pending \cup {e}
    /\ UNCHANGED delivered

Deliver(e) ==
    /\ e \in pending
    /\ delivered' = delivered \cup {e}
    /\ UNCHANGED pending

Settle(e) ==
    /\ e \in pending \cap delivered
    /\ pending' = pending \ {e}
    /\ UNCHANGED delivered

Next == \E e \in Event : Write(e) \/ Deliver(e) \/ Settle(e)

Spec == Init /\ [][Next]_vars
=============================================================================
