-------------------------------- MODULE Rewind --------------------------------
(***************************************************************************)
(* Rewinding a session to the moment before one of its prompts             *)
(* (kernel/runtime.py restore_checkpoint, kernel/persistence.py            *)
(* *_rewind_intent, kernel/rewind.py, and the branch half of               *)
(* kernel/checkpoints.py).                                                 *)
(*                                                                         *)
(* One restore changes up to four places that no single write can change   *)
(* together: the model's live context, the stored transcript, the          *)
(* append-only event log the interface is rebuilt from, and the workspace  *)
(* with its list of checkpoints.  The code goes through a durable intent   *)
(* and finishes it at the next start when the process dies half way.       *)
(*                                                                         *)
(* A turn stands for its prompt, its reply, its log records and, when it   *)
(* is tracked, the workspace checkpoint of the same number and the edits   *)
(* it made.  Ids are never used twice, as the code's uuids are not.  The   *)
(* file-level half of a restore is module Checkpoints.                     *)
(***************************************************************************)
EXTENDS Integers, Sequences, SequencesExt

CONSTANTS
    MaxTurns,       \* bound: prompts sent
    MaxRestores,    \* bound: restores asked for
    MaxFaults,      \* bound: failing writes and refusals by the context
    MaxCrashes,     \* bound: process exits (a crash or a plain quit)
    MaxClears,      \* bound: uses of /clear
    MaxMishaps,     \* bound: failures, exits and clears together
    Faulty          \* which of FaultPoints can fail at all

FaultPoints == {"begin", "stage", "reject", "code", "arm", "save", "reconcile", "fold"}

ASSUME RewindAssumption ==
    /\ MaxTurns \in Nat /\ MaxRestores \in Nat /\ MaxFaults \in Nat
    /\ MaxCrashes \in Nat /\ MaxClears \in Nat /\ MaxMishaps \in Nat
    /\ Faulty \subseteq FaultPoints

Turns    == 1..MaxTurns
Restores == 1..MaxRestores
Scopes   == {"both", "conversation", "code"}

VARIABLES
    \* On disk.
    transcript,     \* transcript.jsonl: the turns of the stored conversation
    shown, marked,  \* ui-events.jsonl, which is only appended to: the turns a replay of
                    \* it would show, and the rewind markers in it
    intent,         \* rewind-intent.json (a cancelled one is "none")
    branch,         \* visible-branch-intent.json of the checkpoint store
    order,          \* index.json: the active workspace checkpoints (oldest first: by number)
    held,           \* manifests: the turns whose edits each checkpoint can undo
    undo,           \* restore-*.json: the file restore a crash would interrupt
    code,           \* the turns whose edits are in the workspace
    \* In memory.
    up,             \* the process is running
    ctx,            \* the live context the model is shown
    ledger, base,   \* the interface's turns; the context turns before the first
    saved,          \* IncrementalSaver._last_message_count
    gate,           \* _rewind_recovery_pending, .._disk_reconciled, _workspace_reconcile_pending
    sub,            \* the submit coroutine
    op,             \* the restore coroutine
    loaded,         \* the transcript a recovery has loaded
    \* History and budgets.
    sent, tracked,  \* prompts sent so far; those whose ledger entry names a checkpoint
    asked,          \* the restores that reached the code or the context
    reported,       \* combined restores reported complete to the user
    stored,         \* turns the stored transcript has ever held
    cleared,        \* turns /clear removed from the context
    faults, crashes, clears

log    == <<shown, marked>>
disk   == <<transcript, log, intent, branch, order, held, undo, code>>
memory == <<up, ctx, ledger, base, saved, gate, sub, op, loaded>>
ghost  == <<sent, tracked, asked, reported, stored, cleared>>
budget == <<faults, crashes, clears>>
vars   == <<disk, memory, ghost, budget>>

NoIntent == [state |-> "none", r |-> 0, keep |-> 0, msgs |-> <<>>]
NoBranch == [state |-> "none", r |-> 0, visible |-> {}]
NoUndo   == [at |-> 0, retain |-> FALSE]
Idle     == [pc |-> "idle", scope |-> "code", i |-> 0, r |-> 0,
             plan |-> <<>>, orig |-> <<>>, settled |-> FALSE, clean |-> TRUE]
Open     == [pending |-> FALSE, diskDone |-> FALSE, branchDue |-> FALSE]

Ops == [pc : {"idle", "retry", "apply", "start", "stage", "context", "code", "undoing",
              "arm", "save", "settle", "fold"},
        scope : Scopes, i : Nat, r : 0..MaxRestores,
        plan : Seq(Turns), orig : Seq(Turns), settled : BOOLEAN, clean : BOOLEAN]

DiskOK ==
    /\ transcript \in Seq(Turns)
    /\ shown \in Seq(Turns) /\ marked \subseteq Restores
    /\ intent \in [state : {"none", "unready", "ready"}, r : 0..MaxRestores,
                   keep : Nat, msgs : Seq(Turns)]
    /\ branch \in [state : {"none", "staged"}, r : 0..MaxRestores, visible : SUBSET Turns]
    /\ order \subseteq Turns /\ held \in [Turns -> SUBSET Turns]
    /\ undo \in [at : 0..MaxTurns, retain : BOOLEAN] /\ code \subseteq Turns

MemoryOK ==
    /\ up \in BOOLEAN /\ base \in Nat /\ saved \in Nat
    /\ ctx \in Seq(Turns) /\ ledger \in Seq(Turns) /\ loaded \in Seq(Turns)
    /\ gate \in [pending : BOOLEAN, diskDone : BOOLEAN, branchDue : BOOLEAN]
    /\ sub \in {"idle", "retry", "apply", "admit", "begun", "running"}
    /\ op \in Ops

HistoryOK ==
    /\ sent \in 0..MaxTurns /\ tracked \subseteq Turns
    /\ asked \in Seq([scope : Scopes, first : Turns, dropped : SUBSET Turns])
    /\ Len(asked) <= MaxRestores
    /\ reported \subseteq Restores
    /\ stored \subseteq Turns /\ cleared \subseteq Turns

BudgetOK == faults \in 0..MaxFaults /\ crashes \in 0..MaxCrashes /\ clears \in 0..MaxClears

TypeOK == DiskOK /\ MemoryOK /\ HistoryOK /\ BudgetOK

Init ==
    /\ transcript = <<>> /\ shown = <<>> /\ marked = {} /\ intent = NoIntent /\ branch = NoBranch
    /\ order = {} /\ held = [t \in Turns |-> {}] /\ undo = NoUndo /\ code = {}
    /\ up = TRUE /\ ctx = <<>> /\ ledger = <<>> /\ base = 0 /\ saved = 0
    /\ gate = Open /\ sub = "idle" /\ op = Idle /\ loaded = <<>>
    /\ sent = 0 /\ tracked = {} /\ asked = <<>> /\ reported = {} /\ stored = {} /\ cleared = {}
    /\ faults = 0 /\ crashes = 0 /\ clears = 0

-------------------------------------------------------------------------------
(***************************************************************************)
(* Helpers.  Fault spends one failure; the code can fail only at the       *)
(* points of Faulty.                                                       *)
(***************************************************************************)
Mishap   == faults + crashes + clears < MaxMishaps
Fault(p) == /\ p \in Faulty /\ faults < MaxFaults /\ Mishap
            /\ faults' = faults + 1 /\ UNCHANGED <<crashes, clears>>
NoFault  == UNCHANGED budget

Dropped == UNION {asked[r].dropped : r \in marked}

\* The first k of a sequence, or all of it: Python's s[:k].
Take(s, k) == SubSeq(s, 1, IF k < Len(s) THEN k ELSE Len(s))

\* Mutant of Reconcile: the transcript is left as it is.
ReconcileLogOnly(k) ==
    /\ UNCHANGED <<transcript, stored>>
    /\ IF intent.state = "ready" /\ k >= 2 /\ intent.r \notin marked
       THEN shown' = Take(shown, intent.keep) /\ marked' = marked \cup {intent.r}
       ELSE UNCHANGED log
    /\ intent' = IF k = 3 THEN NoIntent ELSE intent

\* reconcile_rewind_intent: the stored transcript, the marker unless it is there
\* already, and then the removal of the intent: the first k of those three writes.
\* An unready intent is only removed.  A replay keeps the marker's turns
\* (drop_rewound_events).
Reconcile(k) ==
    /\ transcript' = IF intent.state = "ready" /\ k >= 1 THEN intent.msgs ELSE transcript
    /\ stored' = stored \cup ToSet(transcript')
    /\ IF intent.state = "ready" /\ k >= 2 /\ intent.r \notin marked
       THEN shown' = Take(shown, intent.keep) /\ marked' = marked \cup {intent.r}
       ELSE UNCHANGED log
    /\ intent' = IF k = 3 THEN NoIntent ELSE intent

\* IncrementalSaver._save: only a context that has grown is written, unless forced.
Save(forced) ==
    IF forced \/ Len(ctx) > saved
    THEN transcript' = ctx /\ saved' = Len(ctx) /\ stored' = stored \cup ToSet(ctx)
    ELSE UNCHANGED <<transcript, saved, stored>>

\* reconcile_visible raises ValueError when a hidden checkpoint precedes a kept one.
Contiguous(visible) ==
    \A t \in order \cap visible : \A u \in order : u < t => u \in visible

\* reconcile_visible: hidden checkpoints leave the index; their edits are folded
\* into the last one kept, so that a later code restore still finds them.
Fold(visible) ==
    LET hidden  == order \ visible
        edits   == UNION {held[t] : t \in hidden}
        Newest(t) == t \in visible /\ \A u \in order \cap visible : u <= t
    IN /\ order' = order \cap visible
       /\ held' = [t \in Turns |-> IF t \notin order THEN held[t]
                                   ELSE IF t \in hidden THEN {}
                                   ELSE IF Newest(t) THEN held[t] \cup edits ELSE held[t]]

\* The checkpoints a file restore of t selects, and what it does when every
\* file is restored: retained as empty anchors, or retired.
From(t) == {u \in order : u >= t}
Unwind(t, retain) ==
    /\ code' = code \ UNION {held[u] : u \in From(t)}
    /\ held' = [u \in Turns |-> IF u \in From(t) THEN {} ELSE held[u]]
    /\ order' = IF retain THEN order ELSE order \ From(t)

-------------------------------------------------------------------------------
(***************************************************************************)
(* The send gate.  A prompt or a restore that finds a recovery pending     *)
(* retries it first: the disk, then the context, then the workspace        *)
(* branch.  A failure leaves the gate closed and refuses the request.      *)
(***************************************************************************)
RetryDisk ==
    \/ /\ ~gate.diskDone /\ intent.state # "none" /\ NoFault
       /\ Reconcile(3) /\ gate' = [gate EXCEPT !.diskDone = TRUE]
       /\ loaded' = transcript'
    \/ /\ gate.diskDone /\ NoFault
       /\ loaded' = transcript /\ UNCHANGED <<transcript, stored, log, intent, gate>>
RetryDiskFails ==
    /\ ~gate.diskDone
    /\ \/ intent.state = "none" /\ NoFault /\ UNCHANGED <<transcript, stored, log, intent>>
       \/ intent.state # "none" /\ Fault("reconcile") /\ \E k \in 0..2 : Reconcile(k)
    /\ UNCHANGED <<gate, loaded>>

\* set_messages, the staged workspace branch, and the save watermark.
RetryApply ==
    /\ NoFault /\ ctx' = loaded /\ saved' = Len(loaded)
    /\ IF gate.branchDue
       THEN /\ branch.state = "staged" /\ branch.r \in marked /\ Contiguous(branch.visible)
            /\ Fold(branch.visible) /\ branch' = NoBranch
       ELSE UNCHANGED <<order, held, branch>>
    /\ gate' = Open
RetryApplyFails ==
    /\ \/ Fault("reject") /\ UNCHANGED ctx
       \/ /\ gate.branchDue /\ ctx' = loaded
          /\ \/ Fault("fold")
             \/ NoFault /\ ~(/\ branch.state = "staged" /\ branch.r \in marked
                             /\ Contiguous(branch.visible))
    /\ UNCHANGED <<saved, order, held, branch, gate>>

-------------------------------------------------------------------------------
(***************************************************************************)
(* A prompt                                                                *)
(***************************************************************************)
\* Mutant of Send: the gate is not looked at.
SendAnyway ==
    /\ up /\ sub = "idle" /\ op.pc = "idle" /\ sent < MaxTurns
    /\ sub' = "admit"
    /\ UNCHANGED <<disk, up, ctx, ledger, base, saved, gate, op, loaded, ghost, budget>>

\* The interface blocks the composer while a restore is under way.
Send ==
    /\ up /\ sub = "idle" /\ op.pc = "idle"
    /\ sub' = IF gate.pending THEN "retry" ELSE "admit"
    /\ gate.pending \/ sent < MaxTurns
    /\ UNCHANGED <<disk, up, ctx, ledger, base, saved, gate, op, loaded, ghost, budget>>

SubmitRetryDisk ==
    /\ up /\ sub = "retry"
    /\ \/ RetryDisk /\ sub' = "apply"
       \/ RetryDiskFails /\ sub' = "idle"
    /\ UNCHANGED <<branch, order, held, undo, code, up, ctx, ledger, base, saved, op,
                   sent, tracked, asked, reported, cleared>>

SubmitRetryApply ==
    /\ up /\ sub = "apply"
    /\ \/ RetryApply /\ sub' = IF sent < MaxTurns THEN "admit" ELSE "idle"
       \/ RetryApplyFails /\ sub' = "idle"
    /\ UNCHANGED <<transcript, log, intent, undo, code, up, ledger, base, op, loaded, ghost>>

\* The file checkpoint is cut before the prompt is shown; none in plan mode.
Begin ==
    /\ up /\ sub = "admit" /\ op.pc = "idle"
    /\ sub' = "begun" /\ sent' = sent + 1
    /\ \/ order' = order \cup {sent + 1} /\ tracked' = tracked \cup {sent + 1}
       \/ UNCHANGED <<order, tracked>>
    /\ UNCHANGED <<transcript, log, intent, branch, held, undo, code, up, ctx, ledger, base,
                   saved, gate, op, loaded, asked, reported, stored, cleared, budget>>

\* PromptSubmit reaches the log and the ledger, and the prompt the context.
Prompt ==
    /\ up /\ sub = "begun" /\ sub' = "running"
    /\ shown' = Append(shown, sent) /\ ledger' = Append(ledger, sent) /\ ctx' = Append(ctx, sent)
    /\ UNCHANGED <<transcript, marked, intent, branch, order, held, undo, code, up, base, saved,
                   gate, op, loaded, ghost, budget>>

\* An edit by a tool, captured by the open checkpoint, and the save that follows a tool.
Work ==
    /\ up /\ sub = "running" /\ sent \in order \ code
    /\ code' = code \cup {sent} /\ held' = [held EXCEPT ![sent] = {sent}]
    /\ Save(FALSE)
    /\ UNCHANGED <<log, intent, branch, order, undo, up, ctx, ledger, base, gate, sub, op,
                   loaded, sent, tracked, asked, reported, cleared, budget>>

\* The save at the end of the turn is best effort.
EndTurn ==
    /\ up /\ sub = "running" /\ sub' = "idle"
    /\ \/ Save(FALSE) /\ NoFault
       \/ Fault("save") /\ UNCHANGED <<transcript, saved, stored>>
    /\ UNCHANGED <<log, intent, branch, order, held, undo, code, up, ctx, ledger, base, gate,
                   op, loaded, sent, tracked, asked, reported, cleared>>

\* /clear empties the context and the ledger; the checkpoint index and the save
\* watermark stay.
Clear ==
    /\ up /\ sub = "idle" /\ op.pc = "idle" /\ ctx # <<>> /\ clears < MaxClears /\ Mishap
    /\ clears' = clears + 1 /\ UNCHANGED <<faults, crashes>>
    /\ cleared' = cleared \cup ToSet(ctx)
    /\ ctx' = <<>> /\ ledger' = <<>> /\ base' = 0
    /\ UNCHANGED <<disk, up, saved, gate, sub, op, loaded, sent, tracked, asked, reported, stored>>

-------------------------------------------------------------------------------
(***************************************************************************)
(* A restore                                                               *)
(***************************************************************************)
\* The interface interrupts a running turn and waits for it before it asks.
Ask ==
    /\ up /\ op.pc = "idle" /\ sub = "idle" /\ Len(asked) < MaxRestores
    /\ \E scope \in Scopes, i \in 1..Len(ledger) :
          op' = [Idle EXCEPT !.pc = IF gate.pending THEN "retry" ELSE "start",
                             !.scope = scope, !.i = i]
    /\ UNCHANGED <<disk, up, ctx, ledger, base, saved, gate, sub, loaded, ghost, budget>>

RestoreRetryDisk ==
    /\ up /\ op.pc = "retry"
    /\ \/ RetryDisk /\ op' = [op EXCEPT !.pc = "apply"]
       \/ RetryDiskFails /\ op' = Idle
    /\ UNCHANGED <<branch, order, held, undo, code, up, ctx, ledger, base, saved, sub,
                   sent, tracked, asked, reported, cleared>>

RestoreRetryApply ==
    /\ up /\ op.pc = "apply"
    /\ \/ RetryApply /\ op' = [op EXCEPT !.pc = "start"]
       \/ RetryApplyFails /\ op' = Idle
    /\ UNCHANGED <<transcript, log, intent, undo, code, up, ledger, base, sub, loaded, ghost>>

\* The slice of the context before the prompt, and the durable intent, written in
\* the given state and for the first `keep` log records.
PlanAs(state, keep) ==
    LET kept == Take(ctx, base + op.i - 1)
    IN /\ up /\ op.pc = "start"
       /\ asked' = Append(asked, [scope |-> op.scope, first |-> ledger[op.i],
                                  dropped |-> IF op.scope = "code" THEN {}
                                              ELSE ToSet(ctx) \ ToSet(kept)])
       /\ \/ /\ op.scope = "code" /\ NoFault /\ UNCHANGED intent
             /\ op' = [op EXCEPT !.pc = "code", !.r = Len(asked')]
          \/ /\ op.scope # "code" /\ NoFault
             /\ intent' = [state |-> state, r |-> Len(asked'), keep |-> keep, msgs |-> kept]
             /\ op' = [op EXCEPT !.pc = IF op.scope = "both" THEN "context" ELSE "stage",
                                 !.r = Len(asked'), !.plan = kept, !.orig = ctx]
          \/ op.scope # "code" /\ Fault("begin") /\ op' = Idle /\ UNCHANGED intent
       /\ UNCHANGED <<transcript, log, branch, order, held, undo, code, up, ctx, ledger, base,
                      saved, gate, sub, loaded, sent, tracked, reported, stored, cleared>>

\* Mutant of Plan: the prompt's predecessor goes too.
PlanDropsTwo == PlanAs(IF op.scope = "both" THEN "unready" ELSE "ready", op.i - 2)

\* The intent is ready at once for a conversation restore, armed after the code half
\* for a combined one.
Plan == PlanAs(IF op.scope = "both" THEN "unready" ELSE "ready", op.i - 1)

Visible == {ledger[j] : j \in 1..(op.i - 1)}

\* stage_visible_reconcile, for a conversation restore only.
Stage ==
    /\ up /\ op.pc = "stage"
    /\ \/ /\ NoFault /\ op' = [op EXCEPT !.pc = "context"]
          /\ branch' = [state |-> "staged", r |-> op.r, visible |-> Visible]
          /\ gate' = [gate EXCEPT !.branchDue = TRUE] /\ UNCHANGED intent
       \/ Fault("stage") /\ op' = Idle /\ intent' = NoIntent /\ UNCHANGED <<branch, gate>>
    /\ UNCHANGED <<transcript, log, order, held, undo, code, up, ctx, ledger, base, saved, sub,
                   loaded, ghost>>

\* set_messages(plan).  A context that refuses takes the intents back with it.
Commit ==
    /\ up /\ op.pc = "context"
    /\ \/ /\ NoFault /\ ctx' = op.plan
          /\ op' = [op EXCEPT !.pc = IF op.scope = "both" THEN "code" ELSE "save"]
          /\ UNCHANGED <<intent, branch, gate>>
       \/ /\ Fault("reject") /\ op' = Idle /\ intent' = NoIntent
          /\ branch' = IF op.scope = "conversation" THEN NoBranch ELSE branch
          /\ gate' = [gate EXCEPT !.branchDue = @ /\ op.scope # "conversation"]
          /\ UNCHANGED ctx
    /\ UNCHANGED <<transcript, log, order, held, undo, code, up, ledger, base, saved, sub,
                   loaded, ghost>>

\* rollback_combined_conversation, or just the end of a code-only restore.
GiveUp ==
    /\ op' = Idle
    /\ IF op.scope = "both" THEN ctx' = op.orig /\ intent' = NoIntent
                            ELSE UNCHANGED <<ctx, intent>>

\* checkpoint_status, and the restore journal when the checkpoint is active.
Code ==
    LET t == ledger[op.i]
    IN /\ up /\ op.pc = "code"
       /\ \/ /\ t \in order
             /\ undo' = [at |-> t, retain |-> op.scope = "code"]
             /\ op' = [op EXCEPT !.pc = "undoing"] /\ UNCHANGED <<ctx, intent>>
          \/ /\ t \notin order /\ t \in tracked
             /\ op' = IF op.scope = "both" THEN [op EXCEPT !.pc = "arm"] ELSE Idle
             /\ UNCHANGED <<undo, ctx, intent>>
          \/ t \notin tracked /\ GiveUp /\ UNCHANGED undo
       /\ UNCHANGED <<transcript, log, branch, order, held, code, up, ledger, base, saved,
                      gate, sub, loaded, ghost, budget>>

\* The file restore.  One that meets a conflict or an error undoes part of the
\* edits, keeps the rest retryable, and takes a combined restore back.
Undo ==
    /\ up /\ op.pc = "undoing" /\ undo' = NoUndo
    /\ \/ /\ NoFault /\ Unwind(undo.at, undo.retain)
          /\ op' = IF op.scope = "both" THEN [op EXCEPT !.pc = "arm"] ELSE Idle
          /\ UNCHANGED <<ctx, intent>>
       \/ /\ Fault("code") /\ GiveUp /\ UNCHANGED order
          /\ \E done \in SUBSET UNION {held[u] : u \in From(undo.at)} :
                code' = code \ done /\ held' = [u \in Turns |-> held[u] \ done]
    /\ UNCHANGED <<transcript, log, branch, up, ledger, base, saved, gate, sub, loaded, ghost>>

Arm ==
    /\ up /\ op.pc = "arm"
    /\ \/ /\ NoFault /\ intent' = [intent EXCEPT !.state = "ready"]
          /\ op' = [op EXCEPT !.pc = "save"] /\ UNCHANGED ctx
       \/ Fault("arm") /\ GiveUp
    /\ UNCHANGED <<transcript, log, branch, order, held, undo, code, up, ledger, base, saved,
                   gate, sub, loaded, ghost>>

\* force_save of the shortened context.
ForceSave ==
    /\ up /\ op.pc = "save" /\ op' = [op EXCEPT !.pc = "settle"]
    /\ \/ Save(TRUE) /\ NoFault
       \/ Fault("save") /\ UNCHANGED <<transcript, saved, stored>>
    /\ UNCHANGED <<log, intent, branch, order, held, undo, code, up, ctx, ledger, base, gate,
                   sub, loaded, sent, tracked, asked, reported, cleared>>

\* Mutant of Settle: a failure leaves the gate open.
SettleOpen ==
    /\ up /\ op.pc = "settle"
    /\ \/ /\ NoFault /\ Reconcile(3) /\ saved' = Len(op.plan)
          /\ gate' = [gate EXCEPT !.pending = FALSE, !.diskDone = FALSE]
          /\ op' = [op EXCEPT !.pc = "fold", !.settled = TRUE]
       \/ /\ Fault("reconcile") /\ (\E k \in 0..2 : Reconcile(k)) /\ UNCHANGED <<saved, gate>>
          /\ op' = [op EXCEPT !.pc = "fold", !.clean = FALSE]
    /\ UNCHANGED <<branch, order, held, undo, code, up, ctx, ledger, base, sub, loaded,
                   sent, tracked, asked, reported, cleared>>

\* The reconciliation of the intent by the restore itself.
Settle ==
    /\ up /\ op.pc = "settle"
    /\ \/ /\ NoFault /\ Reconcile(3) /\ saved' = Len(op.plan)
          /\ gate' = [gate EXCEPT !.pending = FALSE, !.diskDone = FALSE]
          /\ op' = [op EXCEPT !.pc = "fold", !.settled = TRUE]
       \/ /\ Fault("reconcile") /\ (\E k \in 0..2 : Reconcile(k)) /\ UNCHANGED saved
          /\ gate' = [gate EXCEPT !.pending = TRUE, !.diskDone = FALSE]
          /\ op' = [op EXCEPT !.pc = "fold", !.clean = FALSE]
    /\ UNCHANGED <<branch, order, held, undo, code, up, ctx, ledger, base, sub, loaded,
                   sent, tracked, asked, reported, cleared>>

\* The checkpoint index follows the shortened conversation; then the outcome is
\* reported and the interface trims its ledger.
Finish ==
    /\ up /\ op.pc = "fold" /\ op' = Idle
    /\ ledger' = Take(ledger, op.i - 1)
    /\ \/ /\ op.scope = "conversation" /\ ~op.settled /\ NoFault
          /\ UNCHANGED <<order, held, branch, gate, reported>>
       \/ /\ op.scope = "conversation" /\ op.settled /\ Contiguous(branch.visible) /\ NoFault
          /\ Fold(branch.visible) /\ branch' = NoBranch
          /\ gate' = [gate EXCEPT !.branchDue = FALSE] /\ UNCHANGED reported
       \/ /\ op.scope = "conversation" /\ op.settled
          /\ \/ ~Contiguous(branch.visible) /\ NoFault
             \/ Fault("fold")
          /\ gate' = [gate EXCEPT !.pending = TRUE, !.diskDone = TRUE]
          /\ UNCHANGED <<order, held, branch, reported>>
       \/ /\ op.scope = "both" /\ Contiguous(Visible) /\ NoFault
          /\ Fold(Visible) /\ UNCHANGED <<branch, gate>>
          /\ reported' = IF op.clean THEN reported \cup {op.r} ELSE reported
       \/ /\ op.scope = "both"
          /\ \/ ~Contiguous(Visible) /\ NoFault
             \/ Fault("fold")
          /\ UNCHANGED <<order, held, branch, gate, reported>>
    /\ UNCHANGED <<transcript, log, intent, undo, code, up, ctx, base, saved, sub, loaded,
                   sent, tracked, asked, stored, cleared>>

-------------------------------------------------------------------------------
(***************************************************************************)
(* The process ends, at any point, and the session is resumed.             *)
(***************************************************************************)
Crash ==
    /\ up /\ crashes < MaxCrashes /\ Mishap /\ up' = FALSE
    /\ crashes' = crashes + 1 /\ UNCHANGED <<faults, clears>>
    /\ ctx' = <<>> /\ ledger' = <<>> /\ base' = 0 /\ saved' = 0 /\ gate' = Open
    /\ sub' = "idle" /\ op' = Idle /\ loaded' = <<>>
    /\ UNCHANGED <<disk, ghost>>

\* load() finishes the intent first, or fails to after k of its writes.
Due == branch.state = "staged" /\ branch.r \notin marked'
Load ==
    \/ NoFault /\ Reconcile(3) /\ gate' = [pending |-> Due, diskDone |-> Due, branchDue |-> Due]
    \/ /\ intent.state # "none" /\ Fault("reconcile")
       /\ \E k \in 0..2 : Reconcile(k)
       /\ gate' = [pending |-> TRUE, diskDone |-> FALSE, branchDue |-> Due]

\* The checkpoint store then finishes an interrupted file restore and a staged
\* branch whose marker is in the log (there is never both), and the interface
\* takes its ledger from the replayed log unless that disagrees with the transcript.
Boot ==
    /\ ~up /\ Load /\ up' = TRUE /\ ctx' = transcript'
    /\ IF branch.state = "staged" /\ ~Due
       THEN /\ Contiguous(branch.visible) /\ Fold(branch.visible) /\ branch' = NoBranch
            /\ UNCHANGED <<code, undo>>
       ELSE /\ UNCHANGED branch /\ undo' = NoUndo
            /\ IF undo.at # 0 THEN Unwind(undo.at, undo.retain)
                              ELSE UNCHANGED <<code, held, order>>
    /\ IF Len(shown') = Len(transcript')
       THEN ledger' = shown' /\ base' = 0
       ELSE ledger' = <<>> /\ base' = Len(transcript')
    /\ UNCHANGED <<saved, sub, op, loaded, sent, tracked, asked, reported, cleared>>

\* A staged branch that is no prefix of the index keeps the session from starting.
BootRefused ==
    /\ ~up /\ intent.state # "none" /\ Reconcile(3) /\ NoFault
    /\ branch.state = "staged" /\ ~Due /\ ~Contiguous(branch.visible)
    /\ UNCHANGED <<branch, order, held, undo, code, memory, sent, tracked, asked, reported,
                   cleared>>

Submit  == Send \/ SubmitRetryDisk \/ SubmitRetryApply \/ Begin \/ Prompt \/ Work \/ EndTurn
Restore == \/ RestoreRetryDisk \/ RestoreRetryApply \/ Plan \/ Stage \/ Commit \/ Code
           \/ Undo \/ Arm \/ ForceSave \/ Settle \/ Finish
Next == Submit \/ Ask \/ Restore \/ Clear \/ Crash \/ Boot \/ BootRefused

(***************************************************************************)
(* A coroutine that has started goes on, the user starts an ended session  *)
(* again, and keeps sending while a recovery is pending.                   *)
(***************************************************************************)
Fairness == /\ WF_vars(Restore) /\ WF_vars(Boot \/ BootRefused)
            /\ WF_vars(Begin \/ Prompt \/ EndTurn \/ SubmitRetryDisk \/ SubmitRetryApply)
            /\ WF_vars(gate.pending /\ Send)

Spec == Init /\ [][Next]_vars /\ Fairness

-------------------------------------------------------------------------------
(***************************************************************************)
(* Properties                                                              *)
(***************************************************************************)
Running == sub \in {"admit", "begun", "running"}

\* No prompt is admitted, shown or run while a restore is still to be finished on
\* disk: the save at its end would put the rewound turns back, and the recovery
\* would then throw the new turn away.
GateHoldsBack == Running => intent.state # "ready" /\ ~gate.pending

\* A turn never runs on a context that holds turns a completed rewind dropped:
\* the marker in the log and the live context agree once a prompt is admitted.
NoTurnOnRewoundContext == Running => ToSet(ctx) \cap Dropped = {}

\* With no restore to be finished, the stored transcript and the log's markers
\* tell the same story: no rewound turn is stored, and every turn ever stored is
\* still there unless a rewind in the log or a /clear took it.
StoredTogether ==
    intent.state = "none" /\ op.pc # "settle" =>
        /\ ToSet(transcript) \cap Dropped = {}
        /\ stored \ (Dropped \cup cleared) \subseteq ToSet(transcript)

\* A combined restore has its marker in the log only after its code half: by then
\* the checkpoint it aimed at has been used up, whatever was interrupted and retried.
CodeGoesFirst ==
    \A r \in marked : asked[r].scope = "both" => asked[r].first \notin order

\* What a resume would rebuild is what is on the screen and what the model is shown:
\* as long as nothing failed, the log with its markers replayed, the transcript, the
\* ledger and the context stay one history through every mix of turns and rewinds.
ResumeShowsTheSame ==
    /\ sub = "idle" /\ op.pc = "idle"
    /\ faults = 0 /\ crashes = 0 /\ clears = 0
    => shown = transcript /\ ledger = transcript /\ ctx = transcript

\* A rewind leaves every copy of the session in agreement: all of the above, whatever
\* was interrupted, failed and was retried.
RewoundTogether ==
    NoTurnOnRewoundContext /\ StoredTogether /\ CodeGoesFirst /\ ResumeShowsTheSame

\* A restore the disk says is to be finished is finished, by the next prompt, the
\* next restore or the next start.
ReadyIsFinished == intent.state = "ready" ~> intent.state # "ready"

\* docs/USER-GUIDE.md:594: restore journals and branch intents are replayed, and
\* then checkpoint operations are allowed again: the gate does not stay closed.
GateReopens == (up /\ gate.pending) ~> (up /\ ~gate.pending)

\* docs/USER-GUIDE.md:539: a combined restore that is reported complete has undone
\* the tracked edits of every turn it dropped.
CompleteMeansUndone == \A r \in reported : code \cap asked[r].dropped = {}
===============================================================================
