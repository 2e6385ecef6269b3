# A TLA+ model of amplifier-app-tui's shared sessions

amplifier-app-tui is a terminal front end (and a headless JSON-lines server)
over an agent session. What makes it hard is not the terminal. One session may
be driven by several parties at once: a person at the TUI, a bot behind
`serve`, a second process that attaches over a Unix socket, a notification
answered from a phone. And what it keeps lives in many files that no single
write changes together: the transcript, its metadata, the event log, the rewind
intents, the workspace checkpoints. This directory models that core, checks it
with TLC and proves its central claims with TLAPS.

All paths below are relative to the repository; `kernel/` stands for
`src/amplifier_app_tui/kernel/`, `ui/` and `model/` for its siblings. The
`__init__.py` of `kernel` and `model` redirect imports to the sibling
distribution `amplifier-runtime` where that is installed; what is modelled are
the copies in this repository.

## Inventory

| Component | Source | State it keeps | Operations | Model |
|---|---|---|---|---|
| Session control plane | `kernel/session_control.py` | `control.json`: lease, epoch, paused, handoffs, idempotency ring, audit_seq; `control-audit.jsonl` | acquire, heartbeat, release, takeover, pause, claim_handoff, resume, authorize, authenticate, replay, remember, note_ambient | `SessionControl`, `WriteFence`; the ring in `ServeLoop` |
| File lock | `kernel/file_lock.py` | the `.lock` marker | `locked()` | `FileLock` |
| Read-modify-write stores | `session_control.py` (`_transaction`), `session_authz.py` (`TokenStore`), `attention_store.py` | one JSON file each | read, change, append audit, replace | `LockedUpdate` |
| Live attachment | `kernel/session_attach.py`, `kernel/serve.py` (`_join_live_session`, `_ensure_attach`) | `attach.json`, the socket, each server's endpoint | live_endpoint, start, stop, run_attach_client | `SessionAttach` |
| Protocol server | `kernel/serve.py` | the op queue, the turn slot, goal arming | one arm per op, `_run_turn`, `_run_goal`, shutdown | `ServeLoop` |
| Steering, needs-you queue | `model/queues.py`, `kernel/steering.py` | pending steers, next-turn message, needs-you items, lane queues | enqueue, consume, drain, restore, answer | `ServeLoop`, `PromptFlow`; items in `NeedsYou`; lane queues not modelled |
| Approval broker, question tool | `kernel/approval.py`, `kernel/question.py` | staged details, ticket queue, futures, listeners | stage, request, answer, defer, time out, execute | `ApprovalBroker`, `Decisions` |
| Turn runtime | `kernel/runtime.py` | `_executing`, `_restoring_checkpoint`, the recovery gate, the saver | start, submit, restore_checkpoint, clear, goal, interrupt, fork, cleanup | `Rewind`, `PromptFlow`, `SessionFiles`, `ServeLoop`; fork and background agents not modelled |
| Checkpoints | `kernel/checkpoints.py` | per session: order, change log, journals, transaction; the workspace lease | begin, capture, finish, restore, reconcile_visible, recover | `Checkpoints` |
| Rewind | `kernel/rewind.py`, `runtime.py`, `persistence.py` (`*_rewind_intent`) | intent, staged branch, log markers, live context | restore (three scopes), recover at start and before a prompt | `Rewind` |
| Persistence, integrity | `kernel/persistence.py`, `kernel/session_integrity.py` | transcript and metadata with backups, save watermark | save, update_metadata, load, repair | `SessionFiles`, `TranscriptRepair` |
| Session management | `kernel/session_manager.py`, `kernel/session_ops.py` | fork children's directives, names | fork, resume, take directive, rename, clear | `SessionFiles`; deletion, tags, listings not modelled |
| Replies to notifications | `kernel/ambient/reply.py`, `kernel/attention_store.py` | nonces, outcomes, event rows | notify, verify, reserve, submit, record, acknowledge, revoke | `Replies` |
| Live MCP | `kernel/live_mcp.py` | owned and stranded managers, the lock | add, reload, remove, close with their rollbacks | `LiveMCP` |
| Prompts in the interface | `ui/app.py`, `ui/app_support.py`, `ui/composer.py`, `ui/session_ops_controller.py`, `ui/runtime_adapter.py` | draft, history, queue slot, admission, fences | submit, steer, queue, recall, restore, clear, compact, goal | `PromptFlow`; the approval bar in `ApprovalBroker` |
| Governance and trust | `kernel/governance_hook.py`, `model/trust.py`, `kernel/directory_permissions.py` | grants, denial counters | classify one tool call | not modelled, see below |
| Delegation, attention push, other ambient parts | `kernel/spawner.py`, `model/lanes.py`, `kernel/attention_push.py`, `kernel/ambient/*.py` | in-memory registries | | not modelled |
| Reducer, transcript view | `ui/reducer.py`, `ui/transcript.py`, `model/turn.py` | screen state | fold of events | not modelled: sequential, layout-bound |
| Configuration, setup, updates, CLI | `kernel/config.py`, `kernel/setup.py`, `kernel/updater.py`, `main.py` | files | | not modelled: I/O with little state |

### How the parts interact

`serve_loop` takes operations from one queue that stdin and every attached peer
feed. Each guarded operation passes `SessionControl.authenticate`, then the
idempotency ring, then (for writes) `authorize`, and only then reaches the
runtime: a submit becomes a turn task that runs beside the loop and takes
steers from the shared `SteeringQueue` at each provider request.
`SessionControl`, `TokenStore` and `AttentionStore` may be used from several
processes, so each wraps its read-modify-write in `locked()`, and
`AttachServer.start` claims ownership of the session under the same lock.

Inside one process there are two event loops, each in its own thread: the
runtime's, where turns run, tool calls wait for approvals and questions wait
for answers, and the interface's, where the human gives them. They share the
steering and needs-you queues, which have locks, and otherwise post to each
other: calls one way, events and returned values the other.

A turn opens a workspace checkpoint before its prompt is echoed, captures what
its file tools change, saves the transcript after tools and at its end, and
closes the checkpoint. A restore goes through `RealRuntime.restore_checkpoint`,
which drives the checkpoint store (files), the context (live messages), the
session store (transcript, intent) and the event log (marker) in turn.

### What is hard here

Lost ownership when controllers die; stale lease ids; the lock's deliberate
escape hatches (break after 30 s, proceed after 5 s); unlocked unlinks of files
that a successor may have published; operations that are read after the turn
they were meant for; retries of what was already done, across a crash; awaits
between a test and its use; a decision that crosses two threads while its timer
runs; restores that change several files and the memory, any of which may fail
or be the last thing before a crash; rollbacks that fail; an interface that
decides on what it has heard so far. `PROJECT.json` lists each hazard at its
line with the properties that watch it.

## Modules

**`SessionControl`** is the control plane. Each public method is one
transaction, hence one action; a refusal is a disjunct that still reaps the
expired lease, as the code does. Lease ids are epochs, expiry is a countdown,
and the audit file is reduced to its last line: the lease a reader believes in
force (`trail`), and whether its number is `behind` the `audit_seq` of
`control.json`. The append is best-effort in the code (`_audit` suppresses
`OSError`), so every append may fail here, and the operation goes on; the trail
alone is not the truth, and the properties say what it is. Clients are `(id, kind)` claims; `Vanish` kills a controller's
process and `Tick` lets time pass. `MCSessionControl` gives the constants values.

**`WriteFence`** is what clients are promised, stated without leases, ranks or
files: a fencing token. A write lands under the newest token or under none, and
never while frozen. `SessionControl` implements it with
`token <- lease.id, issued <- epoch, frozen <- paused`.

**`BotTakeover`** adds one history variable to `SessionControl`: the person
whose lease was ended by somebody else. It states the rule the module
docstring states, about sequences of operations instead of one.

**`FileLock`** is `locked()`, one system call per step. A marker's age and a
caller's deadline are the two booleans the code computes from the clocks.
**`LockedUpdate`** extends it with the body every store runs under the lock.
`Checked` are the callers that look at the yielded boolean (`AttentionStore`);
the others go on without the lock, as `TokenStore` and `SessionControl` do. An
append that fails leaves a gap: its number is used up and its line is not there.
`overlap` is history: who wrote between a caller's read and its own write.

**`SessionAttach`** has one step per file operation of opening, joining,
claiming, serving and stopping. The claim runs under the marker of `locked()`,
whose boolean `start` drops: the marker stays when its maker dies (`Crash`), is
broken when it looks old (`BreakLock`), and is not waited for longer than the
timeout (`GoAhead`). Age and deadline are not measured, so both may happen at any
time; `LockedUpdate` has them. The history variable `hits` counts what leaves a
claim unprotected: a claimer that goes ahead without the marker or loses it while it is at work, and
an unlink by somebody without it that takes a listening process's file. The
safety property says what holds at each count, and `AttachTwoOwners.cfg` shows
that the first such event is enough for two owners.

**`ServeLoop`** is the main loop; what runs between two awaits is one action.
The write gate is a choice (its decisions are `SessionControl`'s subject), the
orchestrator is external. A turn may come to a question (`Ask`), which waits
without a timeout until a `decision` operation answers it. `DieAfterRemember` is the crash between storing an
acknowledgement and acting on it. `aim` is the turn a client saw when it sent a
steer, `at` the turn in which the loop enqueued it.

**`NeedsYou`** is the queue of parked decisions. A method changes the list under
its lock and rings its listeners after releasing it, so an answer of the human
is two steps (`AnswerItem`, then `Ring`), and anything on the other thread may
happen in between. `told` counts how often an answer was given to the model.

**`ApprovalBroker`** extends it with the tickets. `toUi` and `toRt` are what
each loop has posted to the other; every step of either loop is an action. A
future that is done only schedules the waiting call: `Return` is a step of its
own, and the timer may still fire before it (`expired`), which asyncio turns
into a timeout of a call that has its answer. Details are claimed by prompt,
and all calls of the model share one prompt, the case that has to be told apart.

**`Decisions`** adds the question tool and the step-boundary bridge, and
composes all of it. A question parks its prompts one step at a time, and looks
once at the queue after subscribing; the bridge and the finishing tool compete
for the same answered items.

**`Rewind`** is what the session's own files and the live context go through. A
restore is a program with a counter (`op.pc`): `Plan` writes the durable intent,
`Stage` the workspace branch, `SetContext` slices the live context, the code
half runs, `Arm` makes a combined intent ready, `Save` and `Settle` finish it;
each may fail or be the last step of the process. `Boot` finishes what the disk
says is due, and a send first goes through the gate (`Retry...`). A turn stands
for its prompt, reply, log records, checkpoint and edits; ids are never reused,
as the code's uuids are not. Left out: a torn write of the intent, failing
cancellations and rollbacks, two overlapped retries, and the pruning of expired
checkpoints. The restore at start meets no file conflicts, turns in plan mode
make no tracked edits, and a cancelled intent is no intent.

**`Checkpoints`** is the file half: the sessions of one workspace, their change
logs, journals and transactions, the lease they share, and a person who edits
the same files. `op` is whoever holds the lease and where it stands: a begin, a
restore, a compaction or a recovery. A file is its content and inode, a record
of a change is its before- and after-state; `maker` remembers which turn made
which content, and `by` the sessions that wrote a file as it is or put that state on
record. Left out: the blob store and its collector, links and modes, more
than one tracked call at a time in a turn, a capture hook that fails twice in a
row, and a failing update of a journal. The compare-and-swap of one file
(check, rename) is one step. Compaction forgets the recovery requirement of a
checkpoint it hides, as the code does; that is the second disjunct of
`RecordsMatch`.

**`TranscriptRepair`** is `repair_resumed_transcript` as a function on
conversations. What counts as out of place is decided by `amplifier_foundation`;
`Misplaced` is what the code relies on it to find. **`SessionFiles`** puts that
function behind the real files: transcript and metadata, each with the backup
of its previous version, written one file at a time (`Plan` lists the writes of
a save, `Write` does one), by a live process that boots, runs a fork's pending
directive, takes turns and clears, and by a shell that renames. No lock is
taken, so `metadata` is read, merged and written across other writers' steps.

**`Replies`** follows one question from the queue to a device and back. Each
arrival of an envelope is a handler thread that verifies, reserves the nonce,
submits, records and acknowledges, one step each; the person answers in the
interface meanwhile, the device is revoked, the process restarts on the same
files, and decision ids start again from one. A handler acknowledges from rows it
read without the lock and writes all of them back (`AckLoad`, `AckSave`); `said`
is what each row was last set to, `overlapped` the rows that were set while some
handler stood between the two. An event that cannot be written is kept in memory
and published all the same, and a failing acknowledgement is only dropped. Left out: handoff replies (no
producer binds one), eviction from the nonce ring, failures of the lock (they
are `FileLock`'s), the listener's registry and the push to the service.

**`LiveMCP`** is the reconciler that mounts the tools of configured servers into
the running session. One action per await: connect, unmount, mount, stop, and
the undo of each. A failing mount, unmount or stop leaves things as they were;
`torn` remembers that an undo failed, `behind` the servers whose last operation
did. The tools an undo brings back are listed in some order (`Gone`); none of the
properties depends on it. The upstream capability (which the pinned tool-mcp does not offer) and the
precedence of configuration scopes are left out.

**`PromptFlow`** is the way of the user's words. The composer posts a message
per key; the application turns it into a submission, a steer or a queued
message; a worker calls the runtime in the other thread and hears of it through
`toUi`, one FIFO for events and returned values. `admission` is the identity
token of the submission under way, and `rewind`, `ctx`, `goal` are the other
fences; what the runtime itself refuses is in `Preflight` and `Take`. `typed`,
`settled`, `cut` and `doubt` are history; a message that a later one replaced in
the next-turn slot counts as settled, since the slot is documented to hold one,
though the interface shows only the notice of the new one. It takes for granted that a turn
lasts longer than a message takes from one loop to the other (`Execute`), that
an interrupt only asks a turn to end, and that the draft is typed into an empty
composer. Only the restore of `/rewind` is modelled, since nothing in the
interface calls `handle_fork`; snapshots for `/branch` and `/fork` are fenced
like a compaction and merged with it. Left out: images and texts too long, lane
steers, palette commands, the capture of a custom decision, the splash.

Definitions marked "Mutant" are plausible wrong versions of the definition
below them. Nothing uses them; substituting one must break the property
`PROJECT.json` pairs it with. Several properties are conjunctions of named
parts (`ControlAgrees`, `UpdatesAreKept`, `TurnsStayApart`, `RewoundTogether`,
`RecordsAgree`, `ReplyActsOnce`, `ToolsAreServed`, `DecidedWaitsEnd`), and in
most modules `TypeOK` is the first conjunct of an invariant.

## Runs

| Run | Module | States | What it shows |
|---|---|---|---|
| `session_control` | `MCSessionControl` | 127,568 | Whatever appends fail, a trail that is not behind names the lease in force, which is the newest, and a pause can be claimed; the pen never passes downward in rank in one step; the fence is implemented; a vanished holder is reaped |
| `locked_update` | `LockedUpdate` | 322,724 | Without a crash or stall owners exclude each other even while others time out; an update is lost only between a read and a write that overlapped it, and then one of the two had no marker, or somebody died or stalled; a change has its line or its gap; everybody gets through |
| `session_attach` | `SessionAttach` | 370,868 | While every claim is protected a live owner is findable and alone, and peers share it; owners never outnumber one and the times a claim was not; nobody is wedged by a dead owner or its marker |
| `serve_loop` | `ServeLoop` | 821,752 | One turn per key through retries and crashes, one turn at a time, no steer of one turn in another; quit completes unless the turn in flight asks a question |
| `decisions` | `Decisions` | 44,718 | Nothing is allowed but by the human; the oldest call is the one shown and is put to the human once; an answer reaches the model once; a failed question leaves nothing behind; decided calls and answered questions return |
| `rewind` | `Rewind` | 638,515 | No turn is admitted over an unfinished restore; transcript, log, context and workspace leave a rewind together, through two failures, crashes or clears; what the disk says is due gets done |
| `checkpoints` | `Checkpoints` | 2.18 million | Two sessions, one file and a person: what is on record fits what is on disk, no turn begins over half a restore, and a restore replaces only states its own session has on record |
| `checkpoints_files` | `Checkpoints` | 270,517 | One session, two files: a restore reported complete has undone every tracked write; the lease always comes back |
| `replies` | `Replies` | 1,416,880 | However often an envelope arrives, and whatever dies in between, it answers one question once and the outcomes on disk are true; an unanswered question is acknowledged only in person, and a row is lost or taken back only if it was set between the load and the save of a reply |
| `session_files` | `SessionFiles` | 4.14 million | A resumed conversation is well-formed and its repair is stable; names and directives survive; one fault costs at most the last save; an ended turn is stored |
| `live_mcp` | `LiveMCP` | 5.26 million | No connection is lost sight of; the model's tools are served at every await and whole between operations; reports are true |
| `prompt_flow` | `PromptFlow` | 654,561 | A word is in exactly one place; only one thing at a time touches the context; the queued message waits for the end of a turn; no fence stays up |

Every action of these modules fires in its run. Deadlock is not checked where
the system may stop: `session_attach` and `serve_loop` end, and in the others
the bounds run out.

### Bounds

* `SessionControl`: three clients, one of each rank (the code compares only
  ids and ranks); no ttl request and requests below and above the clamp; three grants
  and two handoffs, enough for a superseded holder and a claimed handoff beside
  an unclaimed one. `MaxEpoch` and `MaxHandoffs` are guards of `Grant` and `Pause`.
* `LockedUpdate`: three processes (an owner, a waiter that breaks the marker,
  a third that slips in), one death, one stall. A marker may also be left over
  from before.
* `SessionAttach`: three processes that open once, one killed. Three are
  needed for a successor and a rival. `_ensure_attach` is called at most twice, by
  one of them (`Twice`), and once by the others.
* `ServeLoop`: two keys and a ring of one entry (128 in the code), so that
  eviction happens; a steering queue of one (32); two turns; one restart.
* `Decisions`: any two of two calls and two questions of two prompts each
  (`MaxStarted`), and a queue with room for two items (100 in the code), so
  that two questions, or a question and a deferral, fill it in the middle of
  the parking. Two tickets are enough for a head that changes; mode changes,
  timers and answers are not bounded.
* `Rewind`: three turns and two restores, so that a restore meets what an
  earlier one left; of failing writes, ends of the process and clears, one of
  each and two in all (`MaxMishaps`). Every write that can fail is in `Faulty`.
* `Checkpoints`: two turns, two writes, two restores and a window of two (100 in
  the code) make the window move and a restore start from an earlier restore's
  records; one fault at a time. Two sessions share one file in one run, one
  session has two files in the other: the lease is about sessions, the journal
  about files.
* `Replies`: two handlers, two questions, two nonces, two envelopes and one
  fault (a crash or a failing write); handlers are interchangeable (symmetry).
* `SessionFiles`: conversations of up to four messages over two tool calls hold
  every damage the repair tells apart; one rename; one fault, which may be a
  crash, a failing write or a spoiled file, at any write.
* `LiveMCP`: two servers competing for two names, two specifications each,
  four commands and two failures: enough for a failing undo and what comes
  after it.
* `PromptFlow`: two texts (a third changes nothing that was found with two in a
  run without liveness: 1.7 million states with one restore or context operation, no violation), three keys, two
  restores or context operations, one goal. With two goals an invariant fails,
  see below.

### Fairness

* `SessionControl`: time passes (`Tick`) and some client keeps asking
  (`Authorize`); reaping is lazy, so without a request nothing would reap.
* `LockedUpdate`: processes run, deadlines expire, an abandoned marker ages.
* `SessionAttach`: a process in the middle of opening, claiming or stopping
  goes on; nothing is assumed about when anybody opens or stops.
* `ServeLoop`: the event loop serves ready coroutines, and a turn ends that is
  not waiting for an answer. A question has no timeout and an interrupt is only
  graceful, so nothing is assumed of a turn that asks; hence the second
  disjunct of `QuitCompletes`, and `ServeQuestion.cfg`.
  Nothing is assumed about clients or about steers being injected.
* `Decisions`: both loops run what was posted to them, and a tool that can go
  on does. No timer has to fire and the human owes no answer, so a call nobody
  decides may wait for ever in the model (its timer, an hour, ends it in the code).
* `Rewind`: a coroutine that has begun goes on, a session that ended is started
  again, and a user who is held back keeps sending. Without the last nothing
  would retry the recovery.
* `Checkpoints`: an operation that holds the lease goes on, and a turn ends.
* `PromptFlow`: the interface's loop takes what is posted and its workers go on;
  the runtime's loop serves its calls, and a turn ends. Nothing is assumed of
  the user, of timeouts or of events that are not part of a turn.
* `Replies`, `SessionFiles` and `LiveMCP` state no liveness and no fairness.

## Proofs

`SessionControlProofs` proves, for all sets of identities and actors, all ttl
bounds and all bounds on grants and handoffs (assumptions `ActorsAssumption`,
`TtlAssumption`, `BoundsAssumption`):

* `TypeCorrect`: `Spec => []TypeOK`.
* `Safety`: `Spec => []ControlAgrees`.
* `RankRespected`: `Spec => NeverSeizedByWeaker`.
* `ImplementsFence`: `Spec => FenceSpec`, each step a step of `WriteFence` or a stutter.

The argument rests on `IInv`, the type invariant with the three safety
invariants. `TrailAgrees` is inductive only with `TypeOK` (an id of an absent
lease is 0), and only with `behind`: once an append has failed the trail may name
a lease long gone until a later line is written. `FenceSpec` needs `LeaseIsNewest`: a write accepted under the
lease is accepted under the newest epoch only because of it. Expiry inside
operations is handled once, in the lemmas `ReapedType` and `ReapedSafe`.

The same module proves of `LockedUpdate`, which the control plane's transactions
are, for any finite set of callers, any deadlines and any number of deaths and
stalls (`ProcsAssumption`):

* `UpdateTypes`: `UpdateSpec => []UpdateTypeOK`.
* `OwnersNeverOverlap`: `UpdateSpec => []OwnersExclude`.
* `UpdatesNeverLost`: `UpdateSpec => []UpdatesAreKept`.

The invariant has a part for each hypothesis. `Holder`, for runs without deaths and
stalls, says that the marker is then its owner's and that nobody is about to
break it; exclusion alone is not inductive, since a caller that stands before
`unlink` has already decided. `Overlaps`, in every run, follows an update that was
replaced to the one who had read before it; `OwnersApart` says that without deaths
and stalls owners are not among each other's overlaps. `Serial`, for runs in which
everybody also waited for the marker, says that what a transaction has read is
still what is in the file.
`Trail` is unconditional: a line, or the gap an append left that failed, comes
before the update, whatever happens. The sequence numbers are counted with the cardinality lemmas
(`OneMore`, `SeqFits`), which is what the finiteness of `Procs` is for.

`ServeLoopProofs` proves, for any keys, ring, queue and number of restarts
(`ServeAssumption`):

* `RetriesStartNothing`: `Spec => []AtMostOneTurnPerKey`.
* `TurnsKeptApart`: `Spec => []TurnsStayApart`.

`KeysRemembered` is why the first is inductive: a key that has started a turn is in
the ring or known to have been pushed out of it, because the loop remembers
before it starts. `SteersOfTheTurn` says that a steer enqueued during a turn waits
only while that turn is live, so that the next turn cannot be given it.

The same module proves of `SessionAttach`, for any set of processes and any
number of kills:

* `AttachTypes`: `AttachSpec => []AttachTypeOK`.
* `OwnersAreFound`: `AttachSpec => []OwnerIsFindable`.
* `SecondOwnerIsPaidFor`: `AttachSpec => [](hits = 0 => OneOwner)`.

Two invariants, for the two halves of `OwnerIsFindable`. `Protected` and `Findable`
hold as long as nothing was counted: who is past the wait made the marker, and a
claimer that goes on to wipe and bind has found nobody who listens. `Paid` holds
always and keeps an account of owners. `Contenders` are those who own or may come to
own without another look under a marker; each of them but one has cost an event,
and that one is free only while it keeps the next claimer out, by its marker or by
an endpoint that answers (`Settled`). Every step is one of four kinds (`Stays`,
`Leaves`, `Swaps`, `Joins`), and `Balance` says that each keeps the account. The last theorem restates
the promise of `AttachServer.start` with the hypothesis it needs.

`DecisionsProofs` proves, for all finite sets of calls and questions, any
number of prompts and any room in the queue (`QueueAssumption`,
`BrokerAssumption`, `PromptsAssumption`), with `Default = "Deny"`, which is
what every caller in the repository passes:

* `TypeCorrect`: `Spec => []TypeOK`, with the limit of the queue.
* `NoAllowUnsaid`: `Spec => []AllowedOnlyByTheHuman`.
* `ToldOnce`: `Spec => []AnswerToldOnce`.
* `FailedLeavesNothing`: `Spec => []FailedQuestionLeavesNothing`.
* `HumanIsReached`: `Spec => []CallsReachTheHuman`.

The invariant has two halves. `BrokerInv` follows the human's word on its way:
what is posted was said (`Posted`), a future holds "Allow" only if it was said
(`Heard`), only a timer cancels (`Cancelled`), and every call about to ask
finds a detail (`StagedCount`). `ToolInv` says whose the items are: while a
question runs nobody takes its items (`OwnedBy`), which holds because the
bridge acts only between tools; without it `AnswerToldOnce` is not inductive,
since `Finish` tells what it has seen and consumes what is answered, and these
must be the same items. The lemmas `ParkedSets` and `MovedSets` say what the two
operations on the list do to the sets the rest talks about.

`HumanIsReached` has an invariant of its own, `BarInv`, over the messages between
the two loops. The property speaks of quiet states only; what makes it inductive
is where a presented ticket is otherwise (`UnderWay`: last on its way to the bar,
in the bar, or its decision on its way back), that it is there once (`PutOnce`),
and that what was presented before can no longer be answered (`PresentedIsHead`).

`RewindProofs` proves, for any number of turns, restores, failures, ends of the
process and clears (`RewindAssumption`):

* `TypeCorrect`: `Spec => []TypeOK`.
* `GateHolds`: `Spec => []GateHoldsBack`.
* `RewindsTogether`: `Spec => []RewoundTogether`.

`GateHoldsBack` is not inductive: nothing in it keeps a restore that is about
to write its intent from starting beside a turn, or a gate from opening while
the intent is there. `Control` says what each value of a program counter
implies (who holds the process, which intents may exist), and `GateInv` that
every durable intent of a running process belongs to the restore under way or
to the closed gate, and that the gate opens only after the disk half is done.
The proof goes by the three kinds of step, a send, a restore and the rest
(`SubmitStep`, `RestoreStep`, `OtherStep`), over one lemma per operator on the
data (`ReconcileType`, `FoldType`, `UnwindType`, `SaveType`).

`RewoundTogether` compares the histories on disk and in memory with the markers,
and needs the story behind them (`RInv`, on top of `Control` and `GateInv`):

* `Fresh`: a turn that is sent has a number no copy, intent or marker has seen, so
  a dropped turn never comes back under its own number.
* `Transit`: the intent on disk is the running restore's, no marker names it yet,
  and once the live context is sliced it is the intent's.
* `Story`: the transcript and the context hold no turn the markers drop and every
  stored turn that neither they nor `/clear` took (`Agrees`), except while a
  restore is between its steps; then its intent will agree once its marker is
  written (`AgreesAfter`).
* `CodeInv`: a ready intent of a combined restore means its code half is done.
* `OneHistory`, as long as nothing failed, ended or was cleared: where each of the
  four copies stands at each step of a send and of a restore.

There is one lemma per action; what the restore, the retry and the start of a
session have in common, the finishing of an intent, is `ReconcileStory`.

`RecordsProofs` holds the proofs about what is on record: the outcomes of replies, and
the changes of files. For `Replies`, for any finite set of handler threads, any number of
questions, envelopes and faults and any ring (`RepliesAssumption`):

* `TypeCorrect`: `Spec => []TypeOK`.
* `NothingDisappears`: `Spec => []UnansweredStaysOpen`.
* `EnvelopesActOnce`: `Spec => [](Len(mail) <= MaxNonces => ReplyActsOnce)`.

The second needs to know what a thread that has read the store will write back: the
store is written whole, across other threads' steps. `Loaded` says that what it holds
acknowledges no question that waits unseen, `Kept` that its rows are the current
ones but for those set since it read. The third
holds only while the ring has room for every nonce (`Roomy`), and the theorem
says so: beyond that the code forgets the oldest nonce. The runs stay inside the
bound, where `Reserved` (a nonce in the ring has one thread) and `Acting` (what
that thread has done is what was recorded) carry the argument.

For `Checkpoints`, for any sessions and paths, any window of checkpoints and any
number of writes, restores and faults (`CheckpointsAssumption`):

* `StoreTypes`: `StoreSpec => []StoreTypeOK`.
* `TurnsBeginWhole`: `StoreSpec => []NoTurnOverHalfUndone`.
* `RecordsAreOwn`: `StoreSpec => []Seen`, the invariant behind the next one.
* `OwnStateIsReplaced`: `StoreSpec => OnlyOwnStateIsReplaced`.
* `RecordsAgreeUnlessStopped`:
  `StoreSpec /\ [][~StopsOver]_storeVars => []RecordsAgree`.
* `RecordsAgreeOverTwoFaults`:
  `StoreSpec => [](storeFaults <= 2 => RecordsAgree)`.

Types alone need more than types here: a restore cuts a list of changes where a
checkpoint begins (`Older`), and that place exists only because the changes of a
path are recorded in the order of the checkpoints (`Ascending`). `StoreInv` adds to
the types where the operation that holds the lease can stand (`Stages`), that a turn
has the newest checkpoint and finds no journal and no transaction (`InTurn`), that
every record, on disk or in a transaction, belongs to a checkpoint of its index
(`Lists`), that a journal asking for recovery is remembered by the holder
(`Required`), and that the files a restore has yet to write have records that fit
together up to the checkpoint it goes back to (`PlanSound`). Every operation on a
list has a lemma that says what comes out of it: `NewerOnes`, `OlderOnes`, `KeptOnes`,
`RebasedOnes`, `Longer`, `CompactIs`, `CommitIs`. `Seen` says of each recorded state
that, while a file still is in it, the session of the record wrote that file last or
put the state on record itself; it survives because a file state is a content and an
inode, and every write makes a new one.

`RecordsAgree` speaks only of a session at rest, with nothing open; between two such
moments a crash can leave any prefix of a checkpoint, a restore or a transaction. `RecordsInv` says what
remains true throughout. A file `Fit`s its list of changes when it is in the state
the last change left, in one recorded before a change of the last checkpoint on the list,
or in one that an open restore goes back to; a file of one session
alone fits the list on disk, and the list of a pending transaction
(`Recorded`, with and without the operation that is about to be closed). `Redoing`
says that in the middle of a restore such a file was put there by this restore, and
`Ended` and `Closing` that a checkpoint that never ended is older than any restore,
so that the warnings it earns later do not cut off what the restore undoes.

One step is outside this argument. A restore that starts while the transaction of
an earlier one is still to be applied goes on over it; if a fault stops it there, the
old transaction is applied later to files that have moved on, and `RecordsInv` does
not say how they stand to it. `StopsOver` names that step and the first theorem
excludes it and nothing else. The second shows how far away it is: a journal left
open by somebody who is gone has cost one fault, a restore over a pending transaction
two (`Scarce`), so stopping it takes a third. The runs have at most one fault, so it
states what they check for every value of the other constants.

`LiveMCPProofs` proves, for any finite sets of servers and tools, any
configurations and any number of commands and failures (`MCPAssumption`):

* `NoConnectionIsLost`: `Spec => []NothingLeaks`, with the types of the variables.
* `ToolsStayServed`: `Spec => []ToolsAreServed`.
* `ReportsHold`: `Spec => []ReportsAreTrue`.

None of the three is inductive, because an operation is a dozen steps with a
rollback at each. `Control` says where an operation of each kind can stand.
`Accounted` says whose every running manager is, and that the operation's own
manager is nobody else's. `Handling` says which tools the operation has still to
handle: without it nothing keeps a mounted tool from belonging to a manager
about to be stopped. `BootKept` says that the server started at boot is never
touched. `Whole` holds as long as no undo has failed, and lists exactly what an
owned server may be missing at each stage (`HasAll`). `Asked` and `Told` connect
the queue with the saved configuration: the last command for a server is what is
saved. There is one lemma per action, over `RetiredKept` (a manager without tools
is stopped or stranded), `ToldReport` (a report is true) and the lemmas on
sequences. `SetToSeqElements` is why `Names` and `Servers` are finite, and
`MCPAssumption` names "none" as no server, since it is the absent one.

`PromptFlowProofs` proves, for any texts and any number of keys, restores and
operations (`FlowAssumption`):

* `TypeCorrect`: `Spec => []TypeOK`.
* `QueueWaits`: `Spec => QueueWaitsForItsTurn`.
* `ContextSafe`: `Spec => []ContextIsFenced`, for at most one goal.
* `PromptsSafe`: `Spec => []PromptsAreKept`, for at most one goal.

The hypothesis on goals is not for convenience: with two, `ContextIsFenced` fails
(`PromptTwoGoals.cfg`). `QueueWaits` needs only to know where a queued message can
be drained and holds for all values. Each fence of the interface is a variable
that claims something is under way; what is really under way is somewhere between
the two loops. The invariant says where: a submission waits in the call queue, is a
job of the runtime, or its answer is on its way back, and an answer that is late
cannot be taken for the one awaited (`Submissions`, `Announced`). The restore and
the operations on the context are located likewise and exclude each other
(`RestoreAt`, `RestoreApart`, `OperationsHeld`, `OperationsApart`,
`OperationsOnce`, `OneOperation`). `InStep` relates what the interface has heard
to what the runtime has done, up to the messages still in `toUi`, and
`NeverExecuting` says that the runtime never has to refuse a prompt because
another one executes: the fences have seen to it. `Kept` counts the places of
each word; every action moves a word or settles it, one lemma per action on the
sum.

`SessionFilesProofs` proves, for any finite set of call ids, any length of the
conversation and any number of names and faults (`FilesAssumption`):

* `TypeCorrect`: `Spec => []TypeOK`.
* `UpdatesHold`: `Spec => []UpdatesSurvive`.
* `OneFault`: `Spec => []OneFaultIsSurvived`.
* `TurnsAreStored`: `Spec => []EndedTurnIsStored`.
* `ConversationsAre`: `Spec => []Conversations`.
* `RepairHolds`: `Spec => []RepairIsSound`.

The files are written one at a time without a lock, so the invariant follows each
writer. `Standing` says which writes the live process can be in the middle of;
`Merged`, that what a writer has read of the metadata and merged is still what
is there, as long as no two overlapped; `Cleared`, that a directive that was
taken is about to be cleared or is. `Stored` compares the transcript with the
context up to the watermark, and with what a save has still to write.
`TextSurvives` and `MetaSurvives` say which of a file and its backup is readable
after a single fault: the old version becomes the backup first, so the one a
fault spoils is never the only one. The steps are described by what they do to
the files (one operator per effect), and each conjunct is shown once for each
effect.

`RepairHolds` is about what the repair computes for a conversation of any length.
Induction as a scheme is not available, so `FlattenPlaces`, which says where each
element of a list of lists ends up when they are put together, is
proved by its least counterexample; `Picked` and `Filling` say with it what the two
passes of the repair do, and nothing after them looks into the recursion.
`StagedIs`: dropping a tool's late results drops no call and puts nothing out of place.
`FilledIs`: placeholders answer what is missing and stand between a call and its
results only where results stand. `MendedIsLeft`: what comes out passes both again
unchanged. They need conversations to be `Consistent`: a call is made once and
answered at most once, later, by a message that answers nothing else.
`Conversations`, the invariant, is that everything held or stored is.

Only model-checked: liveness (`VanishedHolderIsReaped`,
`EveryCallerGetsThrough`, `NeverWedged`, `QuitCompletes`, `DecidedWaitsEnd`,
`ReadyIsFinished`, `LeaseIsReturned`, `FencesFall`), which is outside the
prover's reach; and, of `Checkpoints`,
`CompleteRestoreUndoesAll`, which relates the files to the history of a turn across
everything other sessions may do to them in between, and `RecordsAgree` in a
behaviour with a step of `StopsOver`. Whether it can fail there is open: TLC, by
hand, with four faults and three restores, one session, one path, two checkpoints
and two writes, found no counterexample.

## Configurations that end in a counterexample

Next to the runs are configurations run by hand. Each checks one sentence of a
comment or a doc, quoted at the property, and TLC answers with a behaviour in which
the code does not keep it.

| Configuration | Module | Property | What the behaviour shows |
|---|---|---|---|
| `AttachTwoOwners` | `SessionAttach` | `OneOwner` | A claimer waits out its timeout while another holds the marker, goes on without it, and both bind and advertise. (An unlink without the marker leads there too: a server that stops removes the files of the successor that has claimed meanwhile) |
| `BotTakeover` | `BotTakeover` | `BotNeverTakesFromAPerson` | A client of a lower rank releases a person's lease without naming it, and the bot acquires the pen |
| `TokensLost` | `LockedUpdate` | `IssueAndRevokeSurvive` | Two callers that do not look at the boolean, one of them out of time: it reads and replaces beside the owner, and one of the two updates is gone (session_authz.py:384 says they cannot lose each other) |
| `LockStaleBreak` | `LockedUpdate` | `NoStaleOverwrite` | An owner stalls until its marker is stale; it is broken, another updates the file, and the first overwrites that |
| `LockHang` | `LockedUpdate` | `NeverHangs` | In a directory that can no longer be written a stale marker is seen and not removed, for ever: this branch does not look at the deadline |
| `ServeGoal` | `ServeLoop` | `ArmedGoalHasATurn` | A goal set while the turn it counts on ends stays armed with no turn |
| `ServeSteer` | `ServeLoop` | `SteerReachesItsAim` | A steer read after its turn ended is taken by the next turn |
| `ServeQuestion` | `ServeLoop` | `QuitEnds` | After the end of input the turn in flight asks a question; nobody can answer it and the loop awaits the turn for ever (serve.py:1484) |
| `ApprovalDetail` | `Decisions` | `DetailIsOwn` | Two calls with the same prompt exchange their details |
| `RewindStuck` | `Rewind` | `GateReopens` | After `/clear` and a rewind the disk half of the recovery succeeds and the branch never does: every send is held back again |
| `RewindPartial` | `Rewind` | `CompleteMeansUndone` | A restore reported complete leaves edits of a dropped turn, after an earlier one was cut off by a crash |
| `CheckpointsManual` | `Checkpoints` | `ManualIsNeverOverwritten` | A person's change made between two turns became a before-state; a restore brings it back and puts it on record as its own, the next restore replaces it |
| `SessionDirective` | `SessionFiles` | `DirectiveIsTakenOnce` | A rename reads the metadata before a resume clears the directive and writes them back after it: the next resume runs the directive again |
| `RepliesQuestion` | `Replies` | `ReplyAnswersItsQuestion` | Ids start again after a restart: an envelope for the first question answers the second |
| `RepliesStaleAck` | `Replies` | `AcknowledgementStays` | A reply's handler has loaded the rows, the person acknowledges a newer event, and the handler's save takes that back (attention_store.py:25) |
| `PromptTwoGoals` | `PromptFlow` | `ContextIsFenced` | The late answer to one goal lowers the fence of the next |
| `PromptGoal` | `PromptFlow` | `GoalsAreFencedToo` | A goal and an operation on the context start beside each other |
| `PromptSteer` | `PromptFlow` | `SteersEndWithTheirTurn` | A steer pressed as its turn ends waits in the next one |

## Plan

1. An abstract specification of a prompt (drafted, under way, done) that
   `PromptFlow` implements; `PromptsSafe` proves the invariant behind it.
2. `SessionAuthz`: authentication in front of `SessionControl` (token
   issue, expiry, revocation against a policy cached per connection).
3. The server's `approve` and `interrupt` arms with `ApprovalBroker`, and its
   `decision` arm with `NeedsYou` (`ServeLoop` has only its effect on a turn).
4. Governance in front of `ApprovalBroker`; deletion and tags of sessions.

Runs are few and each asks several questions of one component; a property that
joins an existing one (`RewoundTogether` and its like) is stated as a named
conjunct.

## Not modelled, and why

* Governance and trust: one tool call is classified at a time, without steps
  that interleave; what matters over time (denial counters, grants) is in the
  list above, and its questions go through `ApprovalBroker`.
* Delegation and lanes: the scheduling of child sessions belongs to the external
  orchestrator, the registry is a view. Attention push is one outbound
  connection; the rows it announces are in `Replies`.
* The other ambient parts (interpretation desk, grants, sources, voice) are a
  library that no code of the application calls yet.
* Session deletion, tags and listings; `/compact`'s content; the tail of the
  event log and its redaction; `authenticate` (on the plan).
* The reducer, the transcript and the widgets: a large sequential fold with its
  own unit tests. Configuration, setup and update code: I/O with almost no
  state of its own. The command line: parsing and dispatch.
* The orchestrator, the providers, `amplifier_foundation` and the MCP servers are
  external packages; they appear as the choices they may make.
