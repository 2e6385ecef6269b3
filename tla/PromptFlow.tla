---------------------------- MODULE PromptFlow ----------------------------
(***************************************************************************)
(* What happens to the words the user sends (ui/app.py, ui/app_support.py, *)
(* ui/session_ops_controller.py, ui/runtime_adapter.py).  The interface    *)
(* and the runtime have an event loop each, in a thread of its own, and    *)
(* talk through two FIFO channels: toRt carries calls, toUi carries events *)
(* and the returns of calls.  What the interface knows about the runtime   *)
(* is what it has heard; fences (admission, rewind, context operation,     *)
(* goal) keep it from sending what would meet something still under way.   *)
(*                                                                         *)
(* A text is a set of words.  A key pressed in the composer reaches the    *)
(* application as a message, later (inbox).  The running of a turn is      *)
(* external; the interrupt only asks it to end, which it may do anyway.    *)
(***************************************************************************)
EXTENDS Naturals, Sequences, FiniteSets, SequencesExt

CONSTANTS
  Words,        \* what the user may type, each once
  MaxPressed,   \* texts sent or recalled with a key, prompts a command generates
  MaxAsked,     \* restores and context operations
  MaxGoals      \* goals started

ASSUME FlowAssumption ==
  IsFiniteSet(Words) /\ {MaxPressed, MaxAsked, MaxGoals} \subseteq Nat

VARIABLES
  composer, parked,   \* the draft; drafts moved to the Up-arrow history
  inbox,              \* messages of the composer that the app has not handled
  slot, steer,        \* SteeringQueue: the next-turn message, the pending steer
  running,            \* turn_active: the submission whose turn runs, or 0
  admission,          \* _submit_admission: a submission, or 0
  drain,              \* _turn_queues_pending
  rewind,             \* fork_pending, with the place and progress of confirm_restore
  ctx,                \* the context operation under way (_clear_pending ...)
  goal,               \* _goal_pending
  turns,              \* the visible turns (OutcomeLedger)
  toRt, toUi,
  jobs, ops,          \* the runtime: coroutines of submit; of the other calls
  context,            \* the turns of the model's context
  sent, pressed, asked, goals,
  typed,              \* history: words the user has used
  settled,            \* history: words given up, as the user was told, or replaced in the slot
  cut,                \* history: a restore failed since the last turn ended
  doubt               \* history: view and context may differ, and the user knows

queues == <<slot, steer>>
fences == <<admission, drain, rewind, ctx, goal>>
runtime == <<jobs, ops, context>>
counts == <<pressed, asked, goals>>
vars == <<composer, parked, inbox, queues, running, fences, turns, toRt, toUi,
          runtime, sent, counts, typed, settled, cut, doubt>>

NoSteer == [text |-> {}, for |-> 0]
NoRewind == [stage |-> "none", at |-> 0]
NoOp == [do |-> "none", stage |-> "none", id |-> 0]

Init ==
  /\ composer = {} /\ parked = {} /\ inbox = <<>> /\ slot = {} /\ steer = NoSteer
  /\ running = 0 /\ admission = 0 /\ drain = FALSE /\ rewind = NoRewind
  /\ ctx = NoOp /\ goal = FALSE /\ turns = <<>> /\ toRt = <<>> /\ toUi = <<>>
  /\ jobs = {} /\ ops = {} /\ context = <<>>
  /\ sent = 0 /\ pressed = 0 /\ asked = 0 /\ goals = 0
  /\ typed = {} /\ settled = {} /\ cut = FALSE /\ doubt = FALSE

\* context_operation_pending; submit refuses while one of these holds.
Pending == ctx # NoOp \/ goal
Rewinding == rewind # NoRewind
Busy == admission # 0 \/ running # 0
Idle == ~Busy /\ ~Rewinding

Submission(text, via) == [do |-> "submit", id |-> sent + 1, text |-> text, via |-> via]
WordsOf(ts) == UNION Range(ts)
Unused == Words \ typed

-----------------------------------------------------------------------------
(* Where a text can go.                                                     *)

\* _restore_unaccepted_prompt: the newer draft is parked, never overwritten.
Return(text) == parked' = parked \cup composer /\ composer' = text

\* _queue_message: the slot holds one message, a second one replaces it.
Enqueue(text) == slot' = text /\ settled' = settled \cup slot

Send(text, via) ==
  /\ toRt' = Append(toRt, Submission(text, via))
  /\ sent' = sent + 1 /\ admission' = sent + 1

\* submit_prompt.
Submit(text) ==
  /\ IF Pending \/ (Busy /\ ~Rewinding)
       THEN Return(text) /\ UNCHANGED <<toRt, sent, admission>>
     ELSE IF Rewinding
       THEN composer' = composer \cup text /\ UNCHANGED <<parked, toRt, sent, admission>>
     ELSE Send(text, "composer") /\ UNCHANGED <<composer, parked>>
  /\ UNCHANGED <<slot, settled>>

\* finish_turn_queues: the queued message is sent, unless a draft is in the
\* composer or a fence is up, and then it is kept; a steer that was not
\* applied is discarded.
PickedUp(draft, active) ==
  slot # {} /\ draft = {} /\ ~Pending /\ ~active /\ admission = 0

FinishTurnQueues(draft, active) ==
  /\ drain' = FALSE /\ steer' = NoSteer
  /\ IF PickedUp(draft, active)
       THEN slot' = {} /\ Send(slot, "queue")
       ELSE UNCHANGED <<slot, toRt, sent, admission>>

-----------------------------------------------------------------------------
(* The user.                                                                *)

Type(w) ==
  /\ w \in Unused /\ typed' = typed \cup {w}
  /\ composer = {} /\ composer' = {w}
  /\ UNCHANGED <<parked, inbox, queues, running, fences, turns, toRt, toUi, runtime,
                 sent, counts, settled, cut, doubt>>

\* Composer.handle_enter and handle_queue: blocked while a restore runs.
Press(key) ==
  /\ composer # {} /\ ~Rewinding
  /\ pressed < MaxPressed /\ pressed' = pressed + 1
  /\ inbox' = Append(inbox,
       [key |-> IF key = "enter" /\ running # 0 THEN "steer"
                ELSE IF key = "enter" THEN "submit" ELSE "queue",
        text |-> composer, for |-> running])
  /\ composer' = {}
  /\ UNCHANGED <<parked, queues, running, fences, turns, toRt, toUi, runtime, sent,
                 asked, goals, settled, cut, doubt, typed>>

\* recall_queued_message.
Recall ==
  /\ pressed < MaxPressed /\ pressed' = pressed + 1
  /\ slot # {} /\ steer = NoSteer /\ composer = {}
  /\ composer' = slot /\ slot' = {}
  /\ UNCHANGED <<parked, inbox, steer, running, fences, turns, toRt, toUi, runtime, sent,
                 asked, goals, settled, cut, doubt, typed>>

\* submit_or_queue_generated_prompt: the prompt a skill or an MCP prompt made.
Generate(w) ==
  /\ w \in Unused /\ typed' = typed \cup {w}
  /\ pressed < MaxPressed /\ pressed' = pressed + 1
  /\ IF Busy
       THEN Enqueue({w}) /\ UNCHANGED <<composer, parked, toRt, sent, admission>>
       ELSE Submit({w})
  /\ UNCHANGED <<inbox, steer, running, drain, rewind, ctx, goal, turns, toUi, runtime,
                 asked, goals, cut, doubt>>

\* manage_goal: a goal's condition is its first prompt, and has no admission
\* of its own but the pending flag.
StartGoal(w) ==
  /\ w \in Unused /\ typed' = typed \cup {w}
  /\ goals < MaxGoals /\ goals' = goals + 1
  /\ ~Pending /\ Idle
  /\ goal' = TRUE
  /\ toRt' = Append(toRt, Submission({w}, "goal")) /\ sent' = sent + 1
  /\ UNCHANGED <<composer, parked, inbox, queues, running, admission, drain, rewind, ctx,
                 turns, toUi, runtime, pressed, asked, settled, cut, doubt>>

\* OutcomeLedger.checkpoints: the running turn has one too.
Checkpoints == 1..(Len(turns) + (IF running # 0 THEN 1 ELSE 0))

\* handle_restore: also while a turn runs, or is about to.
Restore(i) ==
  /\ asked < MaxAsked /\ asked' = asked + 1
  /\ ~Pending /\ ~Rewinding
  /\ rewind' = [stage |-> "wait", at |-> i]
  /\ UNCHANGED <<composer, parked, inbox, queues, running, admission, drain, ctx, goal,
                 turns, toRt, toUi, runtime, sent, pressed, goals, settled, cut, doubt, typed>>

\* Mutant of MayOperate: the submission under way is not looked at.
OperateAnyway(do) == ctx = NoOp /\ ~Rewinding /\ (do # "clear" => running = 0)

\* compact_context wants an idle session, as begin_context_snapshot does in
\* the same words; clear_context interrupts a running turn first.  None of
\* them looks at the goal.
MayOperate(do) ==
  /\ ctx = NoOp /\ ~Rewinding /\ admission = 0
  /\ do # "clear" => running = 0

Operate(do) ==
  /\ asked < MaxAsked /\ asked' = asked + 1
  /\ MayOperate(do)
  /\ ctx' = [do |-> do, stage |-> IF running # 0 THEN "wait" ELSE "call", id |-> asked + 1]
  /\ UNCHANGED <<composer, parked, inbox, queues, running, admission, drain, rewind, goal,
                 turns, toRt, toUi, runtime, sent, pressed, goals, settled, cut, doubt, typed>>

-----------------------------------------------------------------------------
(* The application: messages of the composer, and the workers.              *)

OnSteer(m) ==
  IF Pending THEN Return(m.text) /\ UNCHANGED <<queues, settled>>
  ELSE IF steer # NoSteer
    THEN Enqueue(m.text) /\ UNCHANGED <<steer, composer, parked>>
  ELSE /\ steer' = [text |-> m.text, for |-> m.for]
       /\ UNCHANGED <<slot, composer, parked, settled>>

\* on_composer_queue_message.
OnQueue(m) ==
  IF Pending \/ running = 0
    THEN Submit(m.text)
    ELSE Enqueue(m.text) /\ UNCHANGED <<composer, parked, toRt, sent, admission>>

Deliver ==
  /\ inbox # <<>> /\ inbox' = Tail(inbox)
  /\ LET m == Head(inbox)
     IN  \/ m.key = "submit" /\ Submit(m.text) /\ UNCHANGED steer
         \/ m.key = "queue" /\ OnQueue(m) /\ UNCHANGED steer
         \/ m.key = "steer" /\ OnSteer(m) /\ UNCHANGED <<toRt, sent, admission>>
  /\ UNCHANGED <<running, drain, rewind, ctx, goal, turns, toUi, runtime, counts, cut, doubt, typed>>

\* confirm_restore, once no turn is active.
CallRestore ==
  /\ rewind.stage = "wait" /\ running = 0
  /\ rewind' = [rewind EXCEPT !.stage = "called"]
  /\ toRt' = Append(toRt, [do |-> "restore", at |-> rewind.at, text |-> {}])
  /\ UNCHANGED <<composer, parked, inbox, queues, running, admission, drain, ctx, goal,
                 turns, toUi, runtime, sent, counts, settled, cut, doubt, typed>>

\* _clear_context waits for the turn it interrupted; _compact_context and
\* the snapshots call at once.
CallOperation ==
  /\ ctx.stage = "call" \/ (ctx.stage = "wait" /\ running = 0)
  /\ ctx' = [ctx EXCEPT !.stage = "called"]
  /\ toRt' = Append(toRt, [do |-> ctx.do, id |-> ctx.id, text |-> {}])
  /\ UNCHANGED <<composer, parked, inbox, queues, running, admission, drain, rewind, goal,
                 turns, toUi, runtime, sent, counts, settled, cut, doubt, typed>>

\* The interrupt failed, or the turn did not end in time.
GiveUpClear ==
  /\ ctx.stage = "wait" /\ running # 0
  /\ ctx' = NoOp
  /\ UNCHANGED <<composer, parked, inbox, queues, running, admission, drain, rewind, goal,
                 turns, toRt, toUi, runtime, sent, counts, settled, cut, doubt, typed>>

\* The call takes too long: the runtime is told to cancel it, and the user
\* that the state of the context is uncertain.
TimeOut ==
  /\ ctx.stage = "called"
  /\ ctx' = NoOp /\ doubt' = TRUE
  /\ toRt' = Append(toRt, [do |-> "cancel", id |-> ctx.id, text |-> {}])
  /\ UNCHANGED <<composer, parked, inbox, queues, running, admission, drain, rewind, goal,
                 turns, toUi, runtime, sent, counts, settled, cut, typed>>

-----------------------------------------------------------------------------
(* What the interface hears.                                                *)

Message(do) == toUi # <<>> /\ Head(toUi).do = do /\ toUi' = Tail(toUi)

\* turn_started.
HearStart ==
  /\ Message("start")
  /\ admission' = 0 /\ goal' = FALSE /\ running' = Head(toUi).id
  /\ UNCHANGED <<composer, parked, inbox, queues, drain, rewind, ctx, turns, toRt, runtime,
                 sent, counts, settled, cut, doubt, typed>>

\* turn_finished, and the drain _consume_events runs when it has read all
\* there is, at once or after other events, but not while a restore is under way.
DrainsNow == ~Rewinding

HearComplete ==
  /\ Message("complete")
  /\ running' = 0 /\ cut' = FALSE
  /\ turns' = Append(turns, Head(toUi).text)
  /\ \/ /\ DrainsNow /\ FinishTurnQueues(composer, FALSE)
        /\ settled' = settled \cup steer.text
     \/ drain' = TRUE /\ UNCHANGED <<queues, admission, toRt, sent, settled>>
  /\ UNCHANGED <<composer, parked, inbox, rewind, ctx, goal, runtime, counts, doubt, typed>>

\* The last event that was waiting, or any later one, finds the drain pending.
HearOther ==
  /\ drain /\ DrainsNow
  /\ FinishTurnQueues(composer, running # 0) /\ settled' = settled \cup steer.text
  /\ UNCHANGED <<composer, parked, inbox, running, rewind, ctx, goal, turns, toUi,
                 runtime, counts, cut, doubt, typed>>

\* Mutant of TurnedAway: any admission will do.
TurnedAwayAny(m) == ~m.ok /\ admission # 0

\* _submit_prompt and _submit_queued_message go on when the call returns: it
\* was turned away exactly if its admission is still the current one.
TurnedAway(m) == ~m.ok /\ admission = m.id

\* _restore_unaccepted_queue: back in the slot, or else in the composer; if
\* both are taken the user is told that it could not be restored.
ReturnQueued(text) ==
  /\ slot' = IF slot = {} THEN text ELSE slot
  /\ composer' = IF slot # {} /\ composer = {} THEN text ELSE composer
  /\ settled' = IF slot # {} /\ composer # {} THEN settled \cup text ELSE settled

\* Mutant of Releases: only an accepted turn's return.
ReleasesAccepted(m) == admission = m.id /\ m.ok

\* The finally of both workers: each releases its own admission only.
Releases(m) == admission = m.id

HearReturn ==
  /\ Message("returned")
  /\ LET m == Head(toUi)
     IN  /\ admission' = IF Releases(m) THEN 0 ELSE admission
         /\ goal' = IF m.via = "goal" THEN FALSE ELSE goal
         /\ IF m.via = "goal"
              THEN /\ settled' = IF m.admitted THEN settled ELSE settled \cup m.text
                   /\ UNCHANGED <<composer, parked, slot>>
            ELSE IF ~TurnedAway(m)
              THEN UNCHANGED <<composer, parked, slot, settled>>
            ELSE IF m.via = "queue"
              THEN ReturnQueued(m.text) /\ UNCHANGED parked
            ELSE Return(m.text) /\ UNCHANGED <<slot, settled>>
  /\ UNCHANGED <<inbox, steer, running, drain, rewind, ctx, turns, toRt, runtime, sent,
                 counts, cut, doubt, typed>>

\* Mutant of CancelsDrain: the drain of the interrupted turn stays pending.
CancelsNothing(m) == FALSE

\* cancel_turn_queue_drain.
CancelsDrain(m) == ~m.whole

\* confirm_restore: the view is cut only if the conversation was, the
\* restored prompt takes the composer, and the draft there is parked.  After
\* a failed or partial restore the queue is left to the user.
HearRestored ==
  /\ Message("restored")
  /\ rewind' = NoRewind
  /\ LET m == Head(toUi)
         draft == IF m.conversation THEN turns[rewind.at] ELSE composer
         gone == IF m.conversation
                   THEN WordsOf(SubSeq(turns, rewind.at + 1, Len(turns))) ELSE {}
     IN  /\ composer' = draft
         /\ parked' = IF m.conversation THEN parked \cup composer ELSE parked
         /\ turns' = IF m.conversation THEN SubSeq(turns, 1, rewind.at - 1) ELSE turns
         /\ IF m.whole /\ drain
              THEN /\ FinishTurnQueues(draft, running # 0)
                   /\ settled' = settled \cup gone \cup steer.text
                   /\ UNCHANGED cut
              ELSE /\ drain' = (drain /\ ~CancelsDrain(m))
                   /\ settled' = settled \cup gone
                   /\ cut' = (cut \/ ~m.whole)
                   /\ UNCHANGED <<queues, admission, toRt, sent>>
  /\ UNCHANGED <<inbox, running, ctx, goal, runtime, counts, doubt, typed>>

\* A worker that timed out hears nothing.
HearOperated ==
  /\ Message("operated")
  /\ LET m == Head(toUi)
         mine == ctx.stage = "called" /\ ctx.id = m.id
     IN  /\ ctx' = IF mine THEN NoOp ELSE ctx
         /\ IF mine /\ m.cleared
              THEN turns' = <<>> /\ settled' = settled \cup WordsOf(turns)
              ELSE UNCHANGED <<turns, settled>>
  /\ UNCHANGED <<composer, parked, inbox, queues, running, admission, drain, rewind, goal,
                 toRt, runtime, sent, counts, cut, doubt, typed>>

-----------------------------------------------------------------------------
(* The runtime (kernel/runtime.py).                                         *)

Executing == \E j \in jobs : j.stage \in {"begin", "turn"}
Restoring == \E o \in ops : o.do = "restore"

Take ==
  /\ toRt # <<>> /\ toRt' = Tail(toRt)
  /\ LET c == Head(toRt)
     IN  \/ /\ c.do = "submit"
            /\ jobs' = jobs \cup {[id |-> c.id, text |-> c.text, via |-> c.via,
                                   stage |-> "preflight", ok |-> TRUE]}
            /\ UNCHANGED <<ops, toUi>>
         \/ /\ c.do = "restore" /\ UNCHANGED jobs
            /\ IF Executing \/ Restoring
                 THEN /\ toUi' = Append(toUi, [do |-> "restored", whole |-> FALSE,
                                               conversation |-> FALSE, text |-> {}])
                      /\ UNCHANGED ops
                 ELSE ops' = ops \cup {c} /\ UNCHANGED toUi
         \/ /\ c.do \in {"clear", "compact"}
            /\ ops' = ops \cup {c} /\ UNCHANGED <<jobs, toUi>>
         \/ /\ c.do = "cancel"
            /\ ops' = {o \in ops : o.do = "restore" \/ o.id # c.id}
            /\ UNCHANGED <<jobs, toUi>>
  /\ UNCHANGED <<composer, parked, inbox, queues, running, fences, turns, context, sent,
                 counts, settled, cut, doubt, typed>>

Move(j, stage) == jobs' = (jobs \ {j}) \cup {[j EXCEPT !.stage = stage]}
Returned(j, ok, why) ==
  [do |-> "returned", id |-> j.id, text |-> j.text, via |-> j.via, ok |-> ok,
   admitted |-> j.stage = "closing", why |-> why]

\* submit: everything before the echo may turn the prompt away.
Refuse(j, why) ==
  jobs' = jobs \ {j} /\ toUi' = Append(toUi, Returned(j, FALSE, why))

Preflight(j) ==
  /\ j.stage = "preflight"
  /\ \/ Refuse(j, "recovery")
     \/ Restoring /\ Refuse(j, "restoring")
     \/ ~Restoring /\ Executing /\ Refuse(j, "executing")
     \/ ~Restoring /\ ~Executing /\ Move(j, "begin") /\ UNCHANGED toUi
  /\ UNCHANGED <<steer, context, settled>>

Begin(j) ==
  /\ j.stage = "begin"
  /\ \/ Refuse(j, "checkpoint")
     \/ Move(j, "turn") /\ toUi' = Append(toUi, [do |-> "start", id |-> j.id, text |-> {}])
  /\ UNCHANGED <<steer, context, settled>>

\* The step boundary: StepBoundaryBridge takes the oldest steer.
ApplySteer(j) ==
  /\ j.stage = "turn" /\ steer # NoSteer
  /\ steer' = NoSteer /\ settled' = settled \cup steer.text
  /\ UNCHANGED <<jobs, toUi, context>>

\* The turn ends, well or badly.  A turn lasts longer than a message takes
\* from one loop to the other.
Execute(j) ==
  /\ j.stage = "turn" /\ toRt = <<>> /\ toUi = <<>>
  /\ \E ok \in BOOLEAN : jobs' = (jobs \ {j}) \cup {[j EXCEPT !.stage = "closing", !.ok = ok]}
  /\ context' = Append(context, j.text)
  /\ UNCHANGED <<steer, toUi, settled>>

CloseOut(j) ==
  /\ j.stage = "closing"
  /\ jobs' = jobs \ {j}
  /\ toUi' = toUi \o << [do |-> "complete", text |-> j.text], Returned(j, j.ok, "turn") >>
  /\ UNCHANGED <<steer, context, settled>>

TurnStep ==
  /\ \E j \in jobs : Preflight(j) \/ Begin(j) \/ ApplySteer(j) \/ Execute(j) \/ CloseOut(j)
  /\ UNCHANGED <<composer, parked, inbox, slot, running, fences, turns, toRt, ops, sent,
                 counts, cut, doubt, typed>>

\* restore_checkpoint fails, or restores in part or as a whole; a clear may
\* be unavailable.
Finish(o) ==
  /\ ops' = ops \ {o}
  /\ doubt' = (doubt \/ (o.do = "clear" /\ jobs # {}))
  /\ IF o.do = "restore"
       THEN \E whole \in BOOLEAN, conversation \in {FALSE, o.at <= Len(context) + 1} :
              /\ context' = IF conversation THEN SubSeq(context, 1, o.at - 1) ELSE context
              /\ toUi' = Append(toUi, [do |-> "restored", whole |-> whole,
                                       conversation |-> conversation, text |-> {}])
       ELSE \E cleared \in (IF o.do = "clear" THEN BOOLEAN ELSE {FALSE}) :
              /\ context' = IF cleared THEN <<>> ELSE context
              /\ toUi' = Append(toUi, [do |-> "operated", id |-> o.id, cleared |-> cleared,
                                       text |-> {}])
  /\ UNCHANGED <<composer, parked, inbox, queues, running, fences, turns, toRt, jobs, sent,
                 counts, settled, cut, typed>>

-----------------------------------------------------------------------------
User ==
  \/ \E w \in Words : Type(w) \/ Generate(w) \/ StartGoal(w)
  \/ \E key \in {"enter", "queue"} : Press(key)
  \/ Recall
  \/ \E i \in Checkpoints : Restore(i)
  \/ \E do \in {"clear", "compact"} : Operate(do)

Interface ==
  \/ Deliver \/ CallRestore \/ CallOperation
  \/ HearStart \/ HearComplete \/ HearOther \/ HearReturn \/ HearRestored \/ HearOperated

Runtime == Take \/ TurnStep \/ \E o \in ops : Finish(o)

Next == User \/ Interface \/ GiveUpClear \/ TimeOut \/ Runtime

Fairness == WF_vars(Interface) /\ WF_vars(Runtime)

Spec == Init /\ [][Next]_vars /\ Fairness

-----------------------------------------------------------------------------
(* Properties.                                                              *)

TypeOK ==
  /\ {composer, parked, slot, steer.text, settled} \subseteq SUBSET Words
  /\ {running, admission, sent} \subseteq Nat
  /\ {drain, goal, cut, doubt} \subseteq BOOLEAN
  /\ rewind.stage \in {"none", "wait", "called"}
  /\ ctx.stage \in {"none", "wait", "call", "called"}
  /\ turns \in Seq(SUBSET Words) /\ context \in Seq(SUBSET Words)

\* Where a word is, as seen from nowhere: a prompt counts as accepted from
\* the moment its turn was announced.
Places ==
  <<composer, parked, slot, steer.text, settled, WordsOf(turns)>>
  \o [i \in DOMAIN inbox |-> inbox[i].text]
  \o [i \in DOMAIN toRt |-> toRt[i].text]
  \o [i \in DOMAIN toUi |->
        IF toUi[i].do = "returned" /\ toUi[i].admitted THEN {} ELSE toUi[i].text]
  \o [i \in 1..Cardinality(jobs) |-> SetToSeq(jobs)[i].text]

\* No prompt is lost and none runs twice: a word the user has sent is in
\* exactly one place, so a prompt that was turned away is back in the
\* composer or the queue, and one that was accepted is never put back; it
\* ends without a turn only when the user is told or a later message takes
\* its place in the next-turn slot, which holds one
\* (submit_prompt, _submit_prompt, _restore_unaccepted_prompt).
PromptsAreKept ==
  /\ TypeOK
  /\ \A w \in typed : Cardinality({i \in DOMAIN Places : w \in Places[i]}) = 1

\* Only one thing at a time touches the context: no clear, compaction
\* or restore runs in the runtime beside a turn from the composer or
\* the queue, from its checkpoint to its close-out, and no prompt is turned
\* away because another turn runs, though the runtime itself checks that for
\* restores and prompts only.  And when nothing is under way the turns the
\* user sees are the turns of the model's context, unless the user was told
\* otherwise.
ContextIsFenced ==
  /\ \A j \in jobs : j.stage # "preflight" /\ j.via # "goal" => ops = {}
  /\ \A m \in Range(toUi) : m.do = "returned" => m.why # "executing"
  /\ (toRt = <<>> /\ toUi = <<>> /\ jobs = {} /\ ops = {} /\ ~doubt) => turns = context

\* The queued message is sent only at the end of a turn: not behind a draft,
\* not while the context is being restored, and not by a close-out that a
\* failed or partial restore has overtaken (cancel_turn_queue_drain).
QueueWaitsForItsTurn ==
  [][(slot # {} /\ slot' = {} /\ toRt' # toRt) =>
        composer' = {} /\ ~cut' /\ ~(rewind # NoRewind)' /\ ctx = NoOp]_vars

Fenced == admission # 0 \/ Rewinding \/ Pending

\* No fence stays up: admissions, restores, context operations and pending
\* goals end, so that the user can send again, whatever was turned away,
\* failed or timed out, and whoever finished first.
FencesFall == Fenced ~> ~Fenced

\* docs/ARCHITECTURE.md:576: a steer left over is discarded at the end of its
\* turn, so none waits in a later one.
SteersEndWithTheirTurn ==
  \A j \in jobs : j.stage = "turn" /\ steer # NoSteer => steer.for = j.id

\* session_ops_controller.py:406: a goal claims the same window as a prompt.
GoalsAreFencedToo ==
  \A j \in jobs : j.stage # "preflight" => ops = {}
=============================================================================
