------------------------------ MODULE NeedsYou ------------------------------
(***************************************************************************)
(* NeedsYouQueue (model/queues.py): the decisions parked for the human.    *)
(* The queue is shared by two threads: the runtime's loop parks, consumes  *)
(* and dismisses, the user's thread answers.  A method changes the list    *)
(* under the lock and rings its listeners after releasing it, so an answer *)
(* is two steps.                                                           *)
(*                                                                         *)
(* An item keeps who parked it and its status; "told" is a history         *)
(* variable: how often its answer was handed to the model.                 *)
(***************************************************************************)
EXTENDS Naturals, Sequences, FiniteSets

CONSTANTS
  Calls,       \* tool calls that ask for an approval
  Questions,   \* calls of the question tool
  Limit        \* _MAX_DECISIONS, 100 in the code

ASSUME QueueAssumption ==
  /\ Limit \in Nat \ {0}
  /\ IsFiniteSet(Calls) /\ IsFiniteSet(Questions)
  /\ Calls \cap Questions = {}

VARIABLES
  items,     \* the list, oldest first; nothing is ever removed
  ringing    \* the user's thread has answered and not yet run the listeners

Statuses == {"pending", "answered", "consumed", "dismissed"}

Items == [from : Calls \cup Questions, status : Statuses, told : 0 .. 2]

With(status) == {i \in DOMAIN items : items[i].status = status}

Of(x) == {i \in DOMAIN items : items[i].from = x}

Active == With("pending") \cup With("answered")

\* Mutant: one too many.
FullLate == Cardinality(Active) > Limit

\* len(active) >= _MAX_DECISIONS: defer raises ValueError
Full == Cardinality(Active) >= Limit

QueueTypeOK ==
  /\ items \in Seq(Items)
  /\ Cardinality(Active) <= Limit
  /\ ringing \in BOOLEAN

QueueInit == items = <<>> /\ ringing = FALSE

Parked(x) == Append(items, [from |-> x, status |-> "pending", told |-> 0])

\* The list with the items of I in a new status, those of J told once more.
Moved(I, status, J) ==
  [i \in DOMAIN items |->
     [items[i] EXCEPT !.status = IF i \in I THEN status ELSE @,
                      !.told   = IF i \in J THEN @ + 1 ELSE @]]

\* answer, on the user's thread: only a pending item takes it.
AnswerItem(i) ==
  /\ ~ringing
  /\ i \in With("pending")
  /\ items' = Moved({i}, "answered", {})
  /\ ringing' = TRUE
=============================================================================
