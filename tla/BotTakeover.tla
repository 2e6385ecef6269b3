---------------------------- MODULE BotTakeover ----------------------------
(***************************************************************************)
(* SessionControl with a monitor that watches the one promise its header   *)
(* and docs/SESSION-CONTROL.md make about people and bots: automation may  *)
(* never take the lease from a human.                                      *)
(***************************************************************************)
EXTENDS MCSessionControl

VARIABLE deposed  \* a bot ended a person's running lease, no person acted since

Persons == {a \in Actors : a.kind = "human"}

BotInit == Init /\ deposed = FALSE

BotNext ==
  /\ Next
  /\ deposed' = \/ /\ Live /\ lease.actor \in Persons /\ lease'.id # lease.id
                   /\ by' \notin Persons
                \/ deposed /\ by' \notin Persons

BotSpec == BotInit /\ [][BotNext]_<<vars, deposed>>

\* "automation may NEVER take it from a human" (session_control.py:22): no bot
\* holds the pen after a bot ended a person's running lease.
BotNeverTakesFromAPerson ==
  ~(deposed /\ lease # NoLease /\ lease.actor.kind = "automation")
=============================================================================
