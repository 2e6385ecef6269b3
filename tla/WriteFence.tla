----------------------------- MODULE WriteFence -----------------------------
(***************************************************************************)
(* What the control plane promises a client, with no actors, no clock and  *)
(* no handoffs: the lease id is a fencing token.  Tokens are issued in     *)
(* order, at most one is in force, and a write lands only under the token  *)
(* in force (or under none when none is), and never while frozen.          *)
(***************************************************************************)
EXTENDS Naturals

VARIABLES
  token,   \* the token in force, 0 for none
  issued,  \* the newest token ever issued
  frozen,  \* writes are parked
  landed   \* the token of the latest accepted write, 0 for none

fence == <<token, issued, frozen, landed>>

Init == token = 0 /\ issued = 0 /\ frozen = FALSE /\ landed = 0

Issue ==
  /\ issued' = issued + 1
  /\ token' = issued'
  /\ frozen' \in {frozen, FALSE}
  /\ UNCHANGED landed

\* A token that stops being in force is gone for good.
Retire ==
  /\ token' \in {token, 0}
  /\ frozen' \in BOOLEAN
  /\ UNCHANGED <<issued, landed>>

Write ==
  /\ ~frozen
  /\ landed' = token'
  /\ token' \in {token, 0}
  /\ UNCHANGED <<issued, frozen>>

Next == Issue \/ Retire \/ Write

Spec == Init /\ [][Next]_fence
=============================================================================
