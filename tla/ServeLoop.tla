------------------------------ MODULE ServeLoop ------------------------------
(***************************************************************************)
(* The main loop of kernel/serve.py: one coroutine takes operations off    *)
(* the queue that stdin and every attached peer feed, remembers the keyed  *)
(* ones durably, and starts the turn whose coroutine then runs beside it.  *)
(* What the loop does between two awaits is one action.                    *)
(*                                                                         *)
(* The gate (authenticate, authorize) is a choice between accepting and    *)
(* refusing: SessionControl models what it decides.  The orchestrator      *)
(* behind session.execute is external: it asks the provider, which is when *)
(* a steer is injected, runs tools, of which the question tool waits for   *)
(* an answer that only the loop can bring, and ends when it has no goal    *)
(* left.                                                                   *)
(***************************************************************************)
EXTENDS Naturals, Sequences, FiniteSets

CONSTANTS
  Keys,        \* idempotency keys clients use
  NoKey,       \* "no idem field"
  RingSize,    \* MAX_IDEMPOTENCY_ENTRIES
  SteerLimit,  \* MAX_QUEUE_ITEMS
  MaxOps,      \* bound: operations waiting in the queue
  MaxTurns,    \* bound: turns in one behaviour
  MaxRestarts  \* bound: processes after the first

ASSUME ServeAssumption ==
  /\ NoKey \notin Keys
  /\ RingSize \in Nat \ {0} /\ SteerLimit \in Nat \ {0}
  /\ MaxOps \in Nat /\ MaxTurns \in Nat /\ MaxRestarts \in Nat

VARIABLES
  ops,       \* the asyncio queue of operations
  loop,      \* serving, arming (awaiting configure_goal), draining, stopped
  ring,      \* _State.idempotency, on disk: key and whether it was answered ok
  turns,     \* turns created so far
  slot,      \* the turn variable: the latest turn of this process, 0 for None
  phase,     \* where each turn's coroutine stands
  steers,    \* SteeringQueue: the turn each steer was enqueued in and aimed at
  goal,      \* session_state["goal"] is armed
  restarts,
  started,   \* history: turns created on behalf of each key
  evicted,   \* history: keys that fell out of the ring
  applied    \* history: the latest injection

vars == <<ops, loop, ring, turns, slot, phase, steers, goal, restarts, started, evicted, applied>>

turnVars == <<turns, slot, phase, steers, goal, started, applied>>

Writes == {"submit", "goal", "clear", "steer", "decision"}

Turns == 1 .. MaxTurns

MaybeTurn == 0 .. MaxTurns

Phases == {"none", "submit", "goal", "running", "asking", "closing", "done"}

Steers == [aim : MaybeTurn, at : MaybeTurn]

Operations ==
  [kind : Writes \cup {"control", "quit"}, key : Keys \cup {NoKey}, aim : MaybeTurn]

TypeOK ==
  /\ ops \in Seq(Operations) /\ Len(ops) <= MaxOps
  /\ loop \in {"serving", "arming", "draining", "stopped"}
  /\ ring \in Seq([key : Keys, ok : BOOLEAN]) /\ Len(ring) <= RingSize
  /\ turns \in MaybeTurn /\ slot \in 0 .. turns
  /\ phase \in [Turns -> Phases]
  /\ steers \in Seq(Steers) /\ Len(steers) <= SteerLimit
  /\ goal \in BOOLEAN
  /\ restarts \in 0 .. MaxRestarts
  /\ started \in [Keys -> MaybeTurn]
  /\ evicted \subseteq Keys
  /\ applied \in [aim : MaybeTurn, at : MaybeTurn, turn : MaybeTurn]

Init ==
  /\ ops = <<>> /\ loop = "serving" /\ ring = <<>>
  /\ turns = 0 /\ slot = 0 /\ phase = [t \in Turns |-> "none"]
  /\ steers = <<>> /\ goal = FALSE /\ restarts = 0
  /\ started = [k \in Keys |-> 0] /\ evicted = {}
  /\ applied = [aim |-> 0, at |-> 0, turn |-> 0]

\* Mutant: a turn counts only once it was admitted.
BusyOnceRunning == slot # 0 /\ phase[slot] = "running"

\* turn is not None and not turn.done()
Busy == slot # 0 /\ phase[slot] # "done"

Current == IF Busy THEN slot ELSE 0

-----------------------------------------------------------------------------
(* Clients, over stdin or an attached socket.                               *)

Send(kind, k) ==
  /\ loop \in {"serving", "arming"} /\ Len(ops) < MaxOps
  /\ kind = "quit" => k = NoKey
  /\ ops' = Append(ops, [kind |-> kind, key |-> k, aim |-> IF kind = "steer" THEN Current ELSE 0])
  /\ UNCHANGED <<loop, ring, restarts, evicted, turnVars>>

-----------------------------------------------------------------------------
(* Idempotency: replay and remember.                                        *)

KeysOf(r) == {r[i].key : i \in DOMAIN r}

Known(k) == k \in KeysOf(ring)

\* The oldest entry beyond the limit goes.  The entry of the same key that the
\* code filters out first is never there: replay would have answered it.
Remembered(k, ok) ==
  LET longer == Append(ring, [key |-> k, ok |-> ok])
  IN  IF Len(longer) > RingSize THEN Tail(longer) ELSE longer

Remember(k, ok) ==
  /\ ring' = IF k = NoKey THEN ring ELSE Remembered(k, ok)
  /\ evicted' = evicted \cup (KeysOf(ring) \ KeysOf(ring'))

-----------------------------------------------------------------------------
(* The loop: one operation per action.                                      *)

Take(kinds) ==
  /\ loop = "serving" /\ ops # <<>>
  /\ Head(ops).kind \in kinds
  /\ ops' = Tail(ops)
  /\ UNCHANGED restarts

Key == Head(ops).key

\* A remembered key: the stored records are emitted, nothing is done.
Replay ==
  /\ Take(Writes \cup {"control"}) /\ Known(Key)
  /\ UNCHANGED <<loop, ring, evicted, turnVars>>

\* authenticate or authorize refuses.
Refuse ==
  /\ Take(Writes \cup {"control"}) /\ ~Known(Key)
  /\ UNCHANGED <<loop, ring, evicted, turnVars>>

\* A control operation is answered, with success or with a conflict.
Control ==
  /\ Take({"control"}) /\ ~Known(Key)
  /\ \E ok \in BOOLEAN : Remember(Key, ok)
  /\ UNCHANGED <<loop, turnVars>>

\* The acknowledgement of an authorized write is stored before it is acted on.
Admit(kind) ==
  /\ Take({kind}) /\ ~Known(Key)
  /\ Remember(Key, TRUE)

\* create_task(_run_turn) or create_task(_run_goal)
NewTurn(pending) ==
  /\ turns < MaxTurns
  /\ turns' = turns + 1
  /\ slot' = turns + 1
  /\ phase' = [phase EXCEPT ![turns + 1] = pending]
  /\ started' = IF Key = NoKey THEN started ELSE [started EXCEPT ![Key] = @ + 1]
  /\ UNCHANGED <<steers, goal, applied>>

\* A submit is dropped while a turn runs; malformed attachments are an error.
Submit ==
  /\ Admit("submit")
  /\ \/ ~Busy /\ NewTurn("submit")
     \/ UNCHANGED turnVars
  /\ UNCHANGED loop

\* A goal set while a turn runs only arms: the loop awaits configure_goal.
SetGoal ==
  /\ Admit("goal")
  /\ \/ ~Busy /\ NewTurn("goal") /\ UNCHANGED loop
     \/ Busy /\ loop' = "arming" /\ UNCHANGED turnVars

Arm ==
  /\ loop = "arming"
  /\ loop' = "serving"
  /\ goal' \in {goal, TRUE}
  /\ UNCHANGED <<ops, ring, turns, slot, phase, steers, restarts, started, evicted, applied>>

\* goal.clear: configure_goal has nothing to await here.
ClearGoal ==
  /\ Admit("clear")
  /\ goal' = FALSE
  /\ UNCHANGED <<loop, turns, slot, phase, steers, started, applied>>

\* A full queue drops the steer without a word.
Steer ==
  /\ Admit("steer")
  /\ steers' = IF Len(steers) < SteerLimit
               THEN Append(steers, [aim |-> Head(ops).aim, at |-> Current])
               ELSE steers
  /\ UNCHANGED <<loop, turns, slot, phase, goal, started, applied>>

\* The answer is for the question a turn waits on, or for no open question.
Decision ==
  /\ Admit("decision")
  /\ \/ \E t \in Turns : phase[t] = "asking" /\ phase' = [phase EXCEPT ![t] = "running"]
     \/ UNCHANGED phase
  /\ UNCHANGED <<loop, turns, slot, steers, goal, started, applied>>

\* quit, or end of input: what is still queued is never looked at.
Quit ==
  /\ loop = "serving" /\ ops # <<>> /\ Head(ops).kind = "quit"
  /\ loop' = "draining"
  /\ ops' = <<>>
  /\ UNCHANGED <<ring, restarts, evicted, turnVars>>

\* The finally clause awaits the turn in flight.
Drain ==
  /\ loop = "draining" /\ ~Busy
  /\ loop' = "stopped"
  /\ UNCHANGED <<ops, ring, restarts, evicted, turnVars>>

Serve ==
  Replay \/ Refuse \/ Control \/ Submit \/ SetGoal \/ Arm \/ ClearGoal \/ Steer
  \/ Decision \/ Quit \/ Drain

-----------------------------------------------------------------------------
(* The turn's own coroutine.                                                *)

loopVars == <<ops, loop, ring, turns, slot, restarts, started, evicted>>

Executing == \E t \in Turns : phase[t] \in {"running", "asking"}

\* submit is admitted (a goal is armed first), or raises before it begins: a
\* goal that was not admitted is rolled back or was never armed.
Begin(t) ==
  /\ phase[t] \in {"submit", "goal"}
  /\ \/ /\ ~Executing
        /\ phase' = [phase EXCEPT ![t] = "running"]
        /\ goal' = (goal \/ phase[t] = "goal")
     \/ /\ phase' = [phase EXCEPT ![t] = "closing"]
        /\ goal' \in {goal, goal /\ phase[t] # "goal"}
  /\ UNCHANGED <<loopVars, steers, applied>>

\* provider:request: the bridge injects the oldest steer.
Inject(t) ==
  /\ phase[t] = "running" /\ steers # <<>>
  /\ applied' = [aim |-> Head(steers).aim, at |-> Head(steers).at, turn |-> t]
  /\ steers' = Tail(steers)
  /\ UNCHANGED <<loopVars, phase, goal>>

\* The question tool awaits its answer, without a timeout and past any
\* interrupt, which is only heard at a step boundary.
Ask(t) ==
  /\ phase[t] = "running"
  /\ phase' = [phase EXCEPT ![t] = "asking"]
  /\ UNCHANGED <<loopVars, steers, goal, applied>>

\* The orchestrator passes its last goal boundary, where an armed goal has
\* been achieved or given up; then come the awaits of the close-out.
Finish(t) ==
  /\ phase[t] = "running"
  /\ phase' = [phase EXCEPT ![t] = "closing"]
  /\ goal' = FALSE
  /\ UNCHANGED <<loopVars, steers, applied>>

\* Mutant: the close-out needs the loop, which is awaiting the turn by then.
CloseWhileServing(t) ==
  /\ phase[t] = "closing" /\ loop \in {"serving", "arming"}
  /\ phase' = [phase EXCEPT ![t] = "done"]
  /\ steers' = <<>>
  /\ UNCHANGED <<loopVars, goal, applied>>

\* The finally clause of _run_turn and _run_goal: drain_steers.
Close(t) ==
  /\ phase[t] = "closing"
  /\ phase' = [phase EXCEPT ![t] = "done"]
  /\ steers' = <<>>
  /\ UNCHANGED <<loopVars, goal, applied>>

-----------------------------------------------------------------------------
(* Death of the process, and the next one on the same session directory.    *)

Reborn ==
  /\ restarts < MaxRestarts
  /\ restarts' = restarts + 1
  /\ ops' = <<>> /\ loop' = "serving"
  /\ slot' = 0 /\ steers' = <<>> /\ goal' = FALSE
  /\ phase' = [t \in Turns |-> IF phase[t] = "none" THEN "none" ELSE "done"]
  /\ UNCHANGED <<turns, started, applied>>

\* Mutant: the ring lives in memory.
RestartForgets == Reborn /\ ring' = <<>> /\ UNCHANGED evicted

Restart == Reborn /\ UNCHANGED <<ring, evicted>>

\* The worst moment: the acknowledgement is on disk, the work is not begun.
DieAfterRemember ==
  /\ loop = "serving" /\ ops # <<>>
  /\ Head(ops).kind # "quit" /\ ~Known(Key)
  /\ Remember(Key, TRUE)
  /\ Reborn

Next ==
  \/ \E kind \in Writes \cup {"control", "quit"}, k \in Keys \cup {NoKey} : Send(kind, k)
  \/ Serve
  \/ \E t \in Turns : Begin(t) \/ Inject(t) \/ Ask(t) \/ Finish(t) \/ Close(t)
  \/ Restart
  \/ DieAfterRemember

Spec == Init /\ [][Next]_vars

\* The event loop runs every ready coroutine.  A turn that does not wait for an
\* answer ends: provider calls and approvals are bounded by their timeouts.  One
\* that asks may wait for ever, and nothing is assumed about it.
Fairness ==
  /\ WF_vars(Serve)
  /\ \A t \in Turns : WF_vars(Begin(t)) /\ WF_vars(Finish(t)) /\ WF_vars(Close(t))

FairSpec == Spec /\ Fairness

-----------------------------------------------------------------------------
(* Correctness.                                                             *)

\* A retried submit or goal never starts a second turn, through crashes and
\* restarts, for as long as its key has not been pushed out of the ring.
AtMostOneTurnPerKey == \A k \in Keys : started[k] > 1 => k \in evicted

\* Two turns of a session never run interleaved.
OneTurnAtATime == Cardinality({t \in Turns : phase[t] \notin {"none", "done"}}) <= 1

\* A steer that was enqueued while a turn ran is injected into that turn or
\* into none.
SteerStaysInItsTurn == applied.at # 0 => applied.turn = applied.at

\* Turns are kept apart: they never run interleaved, and what was said to one
\* is never heard by the next (and TypeOK).
TurnsStayApart == TypeOK /\ OneTurnAtATime /\ SteerStaysInItsTurn

Asking == \E t \in Turns : phase[t] = "asking"

\* Closing the input lets the turn in flight finish, and then ends the loop,
\* unless that turn comes to a question, which nobody can answer any more.
QuitCompletes == loop = "draining" ~> (loop # "draining" \/ Asking)

-----------------------------------------------------------------------------
(* Promises of the docs and comments that the code does not keep.           *)

\* "an unconsumed steer must never inject into a later turn the user never
\* aimed it at" (_run_turn, serve.py:1535).
SteerReachesItsAim == applied.aim # 0 => applied.turn = applied.aim

\* "The current execution discovers it at its goal boundary and owns
\* subsequent continuations" (serve.py, goal.set): an armed goal has a turn.
ArmedGoalHasATurn == goal => Busy

\* "Let an in-flight turn finish ... so a piped one-shot submit completes
\* cleanly on stdin EOF" (serve_loop, serve.py:1484).
QuitEnds == loop = "draining" ~> loop # "draining"
=============================================================================
