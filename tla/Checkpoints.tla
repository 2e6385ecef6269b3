------------------------------ MODULE Checkpoints ------------------------------
(***************************************************************************)
(* The file half of a rewind: kernel/checkpoints.py                        *)
(* WorkspaceCheckpointStore.                                               *)
(*                                                                         *)
(* Every session of one workspace keeps its own checkpoints and shares one *)
(* lease with the others: a turn holds it from its first checkpoint to its *)
(* end, a restore for as long as it runs.  The structured file tools of a  *)
(* turn record what a file was before and after each call; a restore       *)
(* follows these records backwards and writes a file only when it is still *)
(* what the last record says.  Everything a crash can interrupt is on disk *)
(* first: a journal before the files change, a transaction before the list *)
(* of checkpoints does.                                                    *)
(*                                                                         *)
(* A file state is its content and its identity (the inode: every write    *)
(* makes a new one); an absent file is a content like any other.  The      *)
(* branch of the conversation a checkpoint belongs to is module Rewind.    *)
(***************************************************************************)
EXTENDS Integers, FiniteSets, SequencesExt

CONSTANTS
    Sessions, Paths,
    Nobody,         \* not a session
    Unknown,        \* not a path: a capture that failed for a target nobody knows
    MaxKept,        \* max_checkpoints
    MaxCut,         \* bound: checkpoints cut
    MaxWrites,      \* bound: writes by tracked tool calls
    MaxManual,      \* bound: writes by anybody else
    MaxRestores,    \* bound: restores and compactions asked for
    MaxStoreFaults  \* bound: process exits, failing writes and failing captures

ASSUME CheckpointsAssumption ==
    /\ Nobody \notin Sessions /\ Unknown \notin Paths
    /\ MaxKept \in Nat \ {0}
    /\ MaxCut \in Nat /\ MaxWrites \in Nat /\ MaxManual \in Nat
    /\ MaxRestores \in Nat /\ MaxStoreFaults \in Nat

CheckpointIds == 1..MaxCut
Contents == 0..(MaxWrites + MaxManual)
States   == [data : Contents, ino : Nat]
Changes  == [id : CheckpointIds, before : States, after : States]
Warnings == [id : CheckpointIds, path : Paths \cup {Unknown}]

VARIABLES
    \* The workspace.
    file,       \* what each path holds
    ino,        \* identities handed out so far
    lease,      \* the workspace lease (_ownership_lock): a session or Nobody
    \* On the disk of each session.
    order,      \* index.json: the active checkpoints (oldest first: by number)
    log, warn,  \* their manifests: the recorded changes of each path, and the warnings
    unended,    \* manifests that are not finished
    pend,       \* pending/: the calls whose before-state is recorded and whose end is not
    journals,   \* restores/: open ones, and those with recovery_required
    tx,         \* restore-transaction.json: the index and manifests to be written
    \* In the memory of each session.
    up, active, \* running; _active_checkpoint (0: none)
    needs,      \* _recovery_required
    op,         \* the operation the holder of the lease is in
    \* History and budgets.
    by,         \* the sessions that wrote each file as it is, or put it on record so
    maker,      \* the session and checkpoint each content of a tool call was written under
    manual,     \* contents written by others while no tracked call was on the path
    cut, writes, others, restores, storeFaults

disk   == <<order, log, warn, unended, pend, journals, tx>>
memory == <<up, active, needs, op>>
ghost  == <<by, maker, manual>>
budget == <<cut, writes, others, restores, storeFaults>>
storeVars == <<file, ino, lease, disk, memory, ghost, budget>>

NoTx == [set |-> FALSE, order |-> {}, log |-> [p \in Paths |-> <<>>], warn |-> {}]
NoOperation == [pc |-> "idle", why |-> "boot", target |-> 0, keep |-> FALSE,
         id |-> 0, retain |-> FALSE, recovering |-> FALSE, todo |-> {},
         wrote |-> <<>>, skipped |-> {}, failed |-> FALSE]

StoreTypeOK ==
    /\ file \in [Paths -> States] /\ ino \in Nat
    /\ lease \in Sessions \cup {Nobody}
    /\ order \in [Sessions -> SUBSET CheckpointIds]
    /\ unended \in [Sessions -> SUBSET CheckpointIds]
    /\ log \in [Sessions -> [Paths -> Seq(Changes)]] /\ warn \in [Sessions -> SUBSET Warnings]
    /\ tx \in [Sessions -> [set : BOOLEAN, order : SUBSET CheckpointIds,
                            log : [Paths -> Seq(Changes)], warn : SUBSET Warnings]]
    /\ \A s \in Sessions :
          /\ pend[s] \subseteq [id : CheckpointIds, path : Paths, before : States]
          /\ journals[s] \subseteq
                [id : CheckpointIds, retain : BOOLEAN, phase : {"open", "required"}]
    /\ up \in [Sessions -> BOOLEAN] /\ active \in [Sessions -> 0..MaxCut]
    /\ needs \in [Sessions -> SUBSET CheckpointIds]
    /\ op.pc \in {"idle", "recover", "plan", "files", "apply", "close"}
    /\ op.todo \subseteq Paths /\ DOMAIN op.wrote \subseteq Paths
    /\ op.skipped \subseteq Paths \cup {Unknown}
    /\ {op.target, op.id} \subseteq 0..MaxCut
    /\ op.pc # "idle" => lease \in Sessions
    /\ \A s \in Sessions : lease = s => up[s] /\ (active[s] # 0) = (op.pc = "idle")
    /\ by \in [Paths -> SUBSET Sessions] /\ manual \subseteq Contents
    /\ maker \in [1..MaxWrites -> [who : Sessions \cup {Nobody}, id : 0..MaxCut]]
    /\ cut \in 0..MaxCut /\ writes \in 0..MaxWrites /\ others \in 0..MaxManual
    /\ restores \in 0..MaxRestores /\ storeFaults \in 0..MaxStoreFaults

StoreInit ==
    /\ file = [p \in Paths |-> [data |-> 0, ino |-> 0]] /\ ino = 0 /\ lease = Nobody
    /\ order = [s \in Sessions |-> {}] /\ unended = [s \in Sessions |-> {}]
    /\ log = [s \in Sessions |-> [p \in Paths |-> <<>>]] /\ warn = [s \in Sessions |-> {}]
    /\ pend = [s \in Sessions |-> {}] /\ journals = [s \in Sessions |-> {}]
    /\ tx = [s \in Sessions |-> NoTx]
    /\ up = [s \in Sessions |-> TRUE] /\ active = [s \in Sessions |-> 0]
    /\ needs = [s \in Sessions |-> {}] /\ op = NoOperation
    /\ by = [p \in Paths |-> {}] /\ manual = {}
    /\ maker = [d \in 1..MaxWrites |-> [who |-> Nobody, id |-> 0]]
    /\ cut = 0 /\ writes = 0 /\ others = 0 /\ restores = 0 /\ storeFaults = 0

Fault   == /\ storeFaults < MaxStoreFaults /\ storeFaults' = storeFaults + 1
           /\ UNCHANGED <<cut, writes, others, restores>>
NoFault == UNCHANGED budget

-------------------------------------------------------------------------------
(***************************************************************************)
(* What is recorded about a path                                           *)
(***************************************************************************)
\* How many changes of a list are older than a checkpoint: lists are in the order of
\* the checkpoints.
Older(l, id) == CHOOSE n \in 0..Len(l) : \A k \in 1..Len(l) : n < k <=> id <= l[k].id
Newer(l, id) == SubSeq(l, Older(l, id) + 1, Len(l))

\* The changes a session has on record of a path, from a checkpoint on and before it.
Since(s, id, p)  == Newer(log[s][p], id)
Before(s, id, p) == SubSeq(log[s][p], 1, Older(log[s][p], id))
Continuous(c)    == \A k \in 1..(Len(c) - 1) : c[k].after = c[k + 1].before
Expected(c)      == c[Len(c)].after
Desired(c)       == c[1].before

\* Mutant of EndCalls: a call that never ended is forgotten.
EndCallsSilently(s, ids) ==
    LET calls == {r \in pend[s] : r.id \in ids \cap unended[s]}
    IN /\ unended' = [unended EXCEPT ![s] = @ \ ids]
       /\ pend' = [pend EXCEPT ![s] = @ \ calls] /\ UNCHANGED warn

\* The calls of these checkpoints that never ended become warnings, and the
\* checkpoints are finished: finish, and _finalize_incomplete_for_restore.
EndCalls(s, ids) ==
    LET calls == {r \in pend[s] : r.id \in ids \cap unended[s]}
    IN /\ unended' = [unended EXCEPT ![s] = @ \ ids]
       /\ warn' = [warn EXCEPT ![s] = @ \cup {[id |-> r.id, path |-> r.path] : r \in calls}]
       /\ pend' = [pend EXCEPT ![s] = @ \ calls]

-------------------------------------------------------------------------------
(***************************************************************************)
(* A turn                                                                  *)
(***************************************************************************)
\* The before-state of a file is on disk before the tool runs.  A capture that
\* fails leaves a warning about a path nobody knows.
Pre(s) ==
    /\ active[s] # 0 /\ \A r \in pend[s] : r.id # active[s]
    /\ \/ \E p \in Paths :
             /\ pend' = [pend EXCEPT ![s] =
                    @ \cup {[id |-> active[s], path |-> p, before |-> file[p]]}]
             /\ UNCHANGED warn /\ NoFault
       \/ /\ Fault /\ UNCHANGED pend
          /\ warn' = [warn EXCEPT ![s] = @ \cup {[id |-> active[s], path |-> Unknown]}]
    /\ UNCHANGED <<file, ino, lease, order, log, unended, journals, tx, memory, ghost>>

\* The tool writes: a tracked call, or one whose capture failed.
ToolWrites(s) ==
    /\ active[s] # 0 /\ writes < MaxWrites
    /\ \E p \in Paths :
          /\ \/ \E r \in pend[s] : r.path = p /\ r.id = active[s]
             \/ [id |-> active[s], path |-> Unknown] \in warn[s]
          /\ file' = [file EXCEPT ![p] = [data |-> writes + 1, ino |-> ino + 1]]
          /\ by' = [by EXCEPT ![p] = {}]
    /\ ino' = ino + 1 /\ writes' = writes + 1
    /\ maker' = [maker EXCEPT ![writes + 1] = [who |-> s, id |-> active[s]]]
    /\ UNCHANGED <<lease, disk, memory, manual, cut, others, restores, storeFaults>>

\* The after-state, recorded when it differs.
Post(s) ==
    /\ active[s] # 0
    /\ \E r \in pend[s] :
          /\ r.id = active[s]
          /\ \/ /\ NoFault /\ pend' = [pend EXCEPT ![s] = @ \ {r}] /\ UNCHANGED warn
                /\ IF r.before.data # file[r.path].data
                   THEN /\ log' = [log EXCEPT ![s][r.path] =
                              Append(@, [id |-> r.id, before |-> r.before, after |-> file[r.path]])]
                        /\ by' = [by EXCEPT ![r.path] = @ \cup {s}]
                   ELSE UNCHANGED <<log, by>>
             \/ /\ Fault /\ UNCHANGED <<pend, log, by>>
                /\ warn' = [warn EXCEPT ![s] = @ \cup {[id |-> r.id, path |-> Unknown]}]
    /\ UNCHANGED <<file, ino, lease, order, unended, journals, tx, memory, maker, manual>>

\* The turn ends.  A manifest that cannot be written stays open, with its calls.
Finish(s) ==
    /\ active[s] # 0
    /\ \/ NoFault /\ EndCalls(s, {active[s]})
       \/ Fault /\ UNCHANGED <<unended, warn, pend>>
    /\ active' = [active EXCEPT ![s] = 0] /\ lease' = Nobody
    /\ UNCHANGED <<file, ino, order, log, journals, tx, up, needs, op, ghost>>

\* A shell command, a subagent, an editor: a write no session records.
Manual ==
    /\ others < MaxManual /\ others' = others + 1 /\ ino' = ino + 1
    /\ \E p \in Paths :
          LET d == MaxWrites + others + 1
          IN /\ file' = [file EXCEPT ![p] = [data |-> d, ino |-> ino + 1]]
             /\ by' = [by EXCEPT ![p] = {}]
             /\ manual' = IF \E s \in Sessions : \E r \in pend[s] : r.path = p /\ r.id = active[s]
                          THEN manual ELSE manual \cup {d}
    /\ UNCHANGED <<lease, disk, memory, maker, cut, writes, restores, storeFaults>>

-------------------------------------------------------------------------------
(***************************************************************************)
(* The lease, and what whoever takes it has to finish first                *)
(***************************************************************************)
\* _acquire_storage: an interrupted transaction is completed; a journal that asks for
\* recovery is remembered unless its checkpoint has left the index.
Acquire(s, request) ==
    LET now    == IF tx[s].set THEN tx[s].order ELSE order[s]
        asking == {j \in journals[s] : j.phase = "required"}
        moot   == {j \in asking : j.id \notin now}
    IN /\ lease = Nobody /\ lease' = s /\ op' = request
       /\ order' = [order EXCEPT ![s] = now]
       /\ log' = [log EXCEPT ![s] = IF tx[s].set THEN tx[s].log ELSE @]
       /\ warn' = [warn EXCEPT ![s] = IF tx[s].set THEN tx[s].warn ELSE @]
       /\ tx' = [tx EXCEPT ![s] = NoTx]
       /\ journals' = [journals EXCEPT ![s] = @ \ moot]
       /\ needs' = [needs EXCEPT ![s] = (@ \ {j.id : j \in moot}) \cup {j.id : j \in asking \ moot}]

AskBegin(s) ==
    /\ up[s] /\ cut < MaxCut
    /\ Acquire(s, [NoOperation EXCEPT !.pc = "recover", !.why = "begin"])
    /\ UNCHANGED <<file, ino, unended, pend, up, active, ghost, budget>>

\* retain: a restore of the code only, which keeps the checkpoints it empties.
AskRestore(s) ==
    /\ up[s] /\ restores < MaxRestores /\ restores' = restores + 1
    /\ \E id \in order[s], keep \in BOOLEAN :
          Acquire(s, [NoOperation EXCEPT !.pc = "recover", !.why = "restore",
                                         !.target = id, !.keep = keep])
    /\ UNCHANGED <<file, ino, unended, pend, up, active, ghost, cut, writes, others, storeFaults>>

\* reconcile_visible, after a conversation was rewound and its code was not.
AskCompact(s) ==
    /\ up[s] /\ restores < MaxRestores /\ restores' = restores + 1
    /\ \E id \in order[s] :
          Acquire(s, [NoOperation EXCEPT !.pc = "recover", !.why = "compact", !.target = id])
    /\ UNCHANGED <<file, ino, unended, pend, up, active, ghost, cut, writes, others, storeFaults>>

\* A session that starts while another holds the lease leaves its recovery to its
\* first own operation.
OpenStore(s) ==
    /\ ~up[s] /\ up' = [up EXCEPT ![s] = TRUE]
    /\ \/ Acquire(s, [NoOperation EXCEPT !.pc = "recover"])
       \/ lease # Nobody /\ UNCHANGED <<lease, order, log, warn, tx, journals, needs, op>>
    /\ UNCHANGED <<file, ino, unended, pend, active, ghost, budget>>

Release == op' = NoOperation /\ lease' = Nobody

\* _recover_incomplete_restore_journals: an open journal whose checkpoint is gone was
\* committed; the restore of any other is done again.
Recover ==
    LET s == lease
        Due == {j \in journals[s] : j.phase = "open"}
    IN /\ op.pc = "recover"
       /\ \E j \in Due :
             IF j.id \in order[s]
             THEN /\ op' = [op EXCEPT !.pc = "plan", !.id = j.id, !.retain = j.retain,
                                      !.recovering = TRUE]
                  /\ UNCHANGED journals
             ELSE journals' = [journals EXCEPT ![s] = @ \ {j}] /\ UNCHANGED op
       /\ UNCHANGED <<file, ino, lease, order, log, warn, unended, pend, tx, up, active, needs,
                      ghost, budget>>

Recovered == op.pc = "recover" /\ \A j \in journals[lease] : j.phase # "open"

\* begin, once the store is recovered: refused while a restore needs attention.
Begin ==
    LET s == lease
        new  == cut + 1
        all  == order[s] \cup {new}
        kept == {i \in all : Cardinality({j \in all : j >= i}) <= MaxKept}
        first == CHOOSE i \in kept : \A j \in kept : i <= j
    IN /\ Recovered /\ op.why = "begin" /\ needs[s] = {}
       /\ cut' = new /\ active' = [active EXCEPT ![s] = new] /\ op' = NoOperation
       /\ order' = [order EXCEPT ![s] = kept]
       /\ unended' = [unended EXCEPT ![s] = (@ \cup {new}) \cap kept]
       /\ log' = [log EXCEPT ![s] = [p \in Paths |-> Newer(@[p], first)]]
       /\ warn' = [warn EXCEPT ![s] = {w \in @ : w.id \in kept}]
       /\ pend' = [pend EXCEPT ![s] = {r \in @ : r.id \in kept}]
       /\ UNCHANGED <<file, ino, lease, journals, tx, up, needs, ghost, writes, others,
                      restores, storeFaults>>

\* Mutant of Decline: begin raises without releasing the lease.
DeclineHolding ==
    /\ Recovered /\ Release
    /\ \/ op.why = "boot"
       \/ op.why = "restore" /\ op.target \notin order[lease]
       \/ op.why = "compact" /\ \A i \in order[lease] : i < op.target
    /\ UNCHANGED <<file, ino, disk, up, active, needs, ghost, budget>>

\* Nothing left to do, a refused prompt, or a restore of a checkpoint that is gone.
Decline ==
    /\ Recovered /\ Release
    /\ \/ op.why = "boot"
       \/ op.why = "begin" /\ needs[lease] # {}
       \/ op.why = "restore" /\ op.target \notin order[lease]
       \/ op.why = "compact" /\ \A i \in order[lease] : i < op.target
    /\ UNCHANGED <<file, ino, disk, up, active, needs, ghost, budget>>

Go ==
    /\ Recovered /\ op.why = "restore" /\ op.target \in order[lease]
    /\ op' = [op EXCEPT !.pc = "plan", !.id = op.target, !.retain = op.keep, !.recovering = FALSE]
    /\ UNCHANGED <<file, ino, lease, disk, up, active, needs, ghost, budget>>

\* The hidden checkpoints are folded into the last one kept and retired.
Compact ==
    LET s == lease
        kept   == {i \in order[s] : i < op.target}
        hidden == order[s] \ kept
        last   == CHOOSE i \in kept : \A j \in kept : j <= i
        Into(c) == IF c.id \in hidden THEN [c EXCEPT !.id = last] ELSE c
    IN /\ Recovered /\ op.why = "compact" /\ hidden # {}
       /\ IF kept = {} THEN UNCHANGED <<unended, warn, pend>>
          ELSE EndCalls(s, {last} \cup hidden)
       /\ \/ /\ NoFault /\ op' = [op EXCEPT !.pc = "apply"]
             /\ tx' = [tx EXCEPT ![s] = [set |-> TRUE, order |-> kept,
                   log |-> [p \in Paths |-> IF kept = {} THEN <<>>
                                            ELSE [k \in 1..Len(log[s][p]) |-> Into(log[s][p][k])]],
                   warn |-> IF kept = {} THEN {} ELSE {Into(w) : w \in warn'[s]}]]
          \/ Fault /\ op' = [op EXCEPT !.pc = "close"] /\ UNCHANGED tx
       /\ UNCHANGED <<file, ino, lease, order, log, journals, up, active, needs, ghost>>

-------------------------------------------------------------------------------
(***************************************************************************)
(* restore                                                                 *)
(***************************************************************************)
\* Which of the recorded paths can be restored: not one with a warning (none at all
\* after a failed capture), whose records do not fit together, or that no longer is
\* what the last record says.  A file that already is what it should be is done.
PlanRestore ==
    LET s == lease
        here    == {i \in order[s] : i >= op.id}
        warned  == {w.path : w \in {x \in warn'[s] : x.id \in here}}
        touched == {p \in Paths : Since(s, op.id, p) # <<>>}
        sound   == IF Unknown \in warned THEN {}
                   ELSE {p \in touched \ warned : Continuous(Since(s, op.id, p))}
        done    == {p \in sound : file[p].data = Desired(Since(s, op.id, p)).data}
        todo    == {p \in sound \ done : file[p] = Expected(Since(s, op.id, p))}
    IN /\ op.pc = "plan" /\ EndCalls(s, here)
       /\ \/ /\ NoFault
             /\ journals' = [journals EXCEPT
                    ![s] = @ \cup {[id |-> op.id, retain |-> op.retain, phase |-> "open"]}]
             /\ op' = [op EXCEPT !.pc = "files", !.todo = todo,
                                 !.wrote = [p \in done |-> file[p]],
                                 !.skipped = warned \cup (touched \ (done \cup todo))]
             /\ UNCHANGED lease
          \/ /\ Fault /\ UNCHANGED journals      \* the journal cannot be written: nothing is restored
             /\ IF op.recovering
                THEN op' = [op EXCEPT !.pc = "close", !.failed = TRUE] /\ UNCHANGED lease
                ELSE Release
       /\ UNCHANGED <<file, ino, order, log, tx, up, active, needs, ghost>>

Wrote(w, p, state) == [q \in {p} \cup DOMAIN w |-> IF q = p THEN state ELSE w[q]]

\* Mutant of RestoreFile: the file is not compared once more.
RestoreFileAnyway ==
    /\ op.pc = "files"
    /\ \E p \in op.todo :
          LET new == [data |-> Desired(Since(lease, op.id, p)).data, ino |-> ino + 1]
          IN /\ file' = [file EXCEPT ![p] = new] /\ ino' = ino + 1
             /\ by' = [by EXCEPT ![p] = {lease}]
             /\ op' = [op EXCEPT !.todo = @ \ {p}, !.wrote = Wrote(@, p, new)]
    /\ UNCHANGED <<lease, disk, up, active, needs, maker, manual, budget>>

\* _apply_restore: compare once more, and replace the file.
RestoreFile ==
    /\ op.pc = "files"
    /\ \E p \in op.todo :
          LET c   == Since(lease, op.id, p)
              new == [data |-> Desired(c).data, ino |-> ino + 1]
          IN \/ /\ file[p] = Expected(c) /\ NoFault
                /\ file' = [file EXCEPT ![p] = new] /\ ino' = ino + 1
                /\ by' = [by EXCEPT ![p] = {lease}]
                /\ op' = [op EXCEPT !.todo = @ \ {p}, !.wrote = Wrote(@, p, new)]
             \/ /\ (file[p] # Expected(c) /\ NoFault) \/ Fault
                /\ op' = [op EXCEPT !.todo = @ \ {p}, !.skipped = @ \cup {p}]
                /\ UNCHANGED <<file, ino, by>>
    /\ UNCHANGED <<lease, disk, up, active, needs, maker, manual>>

\* Mutant of Rebased: the earlier records are left alone.
RebasedNot(c, state) == c

\* The newest earlier change of a restored path now ends in what the restore left
\* (_rebased_predecessors).
Rebased(c, state) == IF c = <<>> THEN c ELSE [c EXCEPT ![Len(c)].after = state]

\* What changed right after it was written is not restored.  The new lists are then
\* on disk as a transaction: with anything skipped, the checkpoints stay and keep the
\* changes of the skipped paths; else they are emptied, or retired.
Commit ==
    LET s == lease
        kept == {p \in DOMAIN op.wrote : file[p] = op.wrote[p]}
        skip == op.skipped \cup (DOMAIN op.wrote \ kept)
    IN /\ op.pc = "files" /\ op.todo = {}
       /\ \/ /\ NoFault /\ op' = [op EXCEPT !.pc = "apply", !.skipped = skip]
             /\ tx' = [tx EXCEPT ![s] =
                   [set |-> TRUE, warn |-> warn[s],
                    order |-> IF skip = {} /\ ~op.retain THEN {i \in order[s] : i < op.id}
                              ELSE order[s],
                    log |-> [p \in Paths |->
                                IF p \in skip THEN log[s][p]
                                ELSE IF p \in kept THEN Rebased(Before(s, op.id, p), op.wrote[p])
                                ELSE Before(s, op.id, p)]]]
             /\ by' = [p \in Paths |-> IF p \in kept THEN by[p] \cup {s} ELSE by[p]]
          \/ /\ Fault /\ UNCHANGED <<tx, by>>
             /\ op' = [op EXCEPT !.pc = "close", !.skipped = skip, !.failed = TRUE]
       /\ UNCHANGED <<file, ino, lease, order, log, warn, unended, pend, journals, up, active,
                      needs, maker, manual>>

\* _apply_restore_transaction; what fails is left to the next owner of the lease.
Apply ==
    LET s == lease
    IN /\ op.pc = "apply"
       /\ \/ /\ NoFault /\ op' = [op EXCEPT !.pc = "close"]
             /\ order' = [order EXCEPT ![s] = tx[s].order]
             /\ log' = [log EXCEPT ![s] = tx[s].log] /\ warn' = [warn EXCEPT ![s] = tx[s].warn]
             /\ tx' = [tx EXCEPT ![s] = NoTx]
          \/ /\ Fault /\ op' = [op EXCEPT !.pc = "close", !.failed = TRUE]
             /\ UNCHANGED <<order, log, warn, tx>>
       /\ UNCHANGED <<file, ino, lease, unended, pend, journals, up, active, needs, ghost>>

\* The journal is finished.  A failed commit asks for recovery, and so does a recovered
\* restore that skipped anything; an explicit restore that is complete withdraws it.
\* When the journal cannot be written it stays open, and a recovery ends there.
Clean == op.skipped = {} /\ ~op.failed
Asks  == op.failed \/ (op.recovering /\ ~Clean)
Close ==
    LET s == lease
        mine == [id |-> op.id, retain |-> op.retain, phase |-> "open"]
        mark == [mine EXCEPT !.phase = "required"]
        met  == {j \in journals[s] : j.id = op.id /\ j.phase = "required"}
    IN /\ op.pc = "close"
       /\ \/ op.id = 0 /\ Release /\ UNCHANGED <<journals, needs>> /\ NoFault
          \/ /\ op.id # 0 /\ NoFault
             /\ journals' = [journals EXCEPT ![s] =
                    (@ \ ({mine} \cup IF Clean /\ ~op.recovering THEN met ELSE {}))
                       \cup (IF Asks THEN {mark} ELSE {})]
             /\ needs' = [needs EXCEPT ![s] =
                    IF Asks THEN @ \cup {op.id}
                    ELSE IF op.recovering \/ ~Clean THEN @ ELSE @ \ {op.id}]
             /\ IF op.recovering
                THEN /\ op' = [NoOperation EXCEPT !.pc = "recover", !.why = op.why,
                                           !.target = op.target, !.keep = op.keep]
                     /\ UNCHANGED lease
                ELSE Release
          \/ /\ op.id # 0 /\ Fault /\ Release /\ UNCHANGED journals
             /\ needs' = [needs EXCEPT ![s] = IF Asks THEN @ \cup {op.id} ELSE @]
       /\ UNCHANGED <<file, ino, order, log, warn, unended, pend, tx, up, active, ghost>>

\* The process ends; the system frees its lease.
ProcessEnds(s) ==
    /\ up[s] /\ Fault
    /\ up' = [up EXCEPT ![s] = FALSE] /\ active' = [active EXCEPT ![s] = 0]
    /\ needs' = [needs EXCEPT ![s] = {}]
    /\ IF lease = s THEN op' = NoOperation /\ lease' = Nobody ELSE UNCHANGED <<op, lease>>
    /\ UNCHANGED <<file, ino, disk, ghost>>

TurnStep(s) == Pre(s) \/ ToolWrites(s) \/ Post(s) \/ Finish(s)
StoreStep   == \/ Recover \/ Begin \/ Decline \/ Go \/ Compact
               \/ PlanRestore \/ RestoreFile \/ Commit \/ Apply \/ Close
StoreNext   == \/ Manual \/ StoreStep
               \/ \E s \in Sessions : \/ TurnStep(s) \/ OpenStore(s) \/ ProcessEnds(s)
                                      \/ AskBegin(s) \/ AskRestore(s) \/ AskCompact(s)

\* An operation that has started goes on, and a turn ends.
Fairness == WF_storeVars(StoreStep) /\ \A s \in Sessions : WF_storeVars(Finish(s))
StoreSpec == StoreInit /\ [][StoreNext]_storeVars /\ Fairness

-------------------------------------------------------------------------------
(***************************************************************************)
(* Properties                                                              *)
(***************************************************************************)
\* A restore writes a file only over a state its own session has on record: never
\* over what another session's turn, a shell command or a person left there since.
OnlyOwnStateIsReplaced ==
    [][\A p \in Paths : RestoreFile /\ file'[p] # file[p] => lease \in by[p]]_storeVars

\* A restore that reports no skipped file has undone every tracked write of its
\* checkpoint and of the later ones, across crashes, partial restores and compactions.
CompleteRestoreUndoesAll ==
    op.pc = "close" /\ op.id # 0 /\ Clean =>
        \A p \in Paths : file[p].data \in 1..MaxWrites /\ maker[file[p].data].who = lease =>
            maker[file[p].data].id < op.id

\* docs/USER-GUIDE.md:594: no turn begins over a restore that is half done.
NoTurnOverHalfUndone ==
    \A s \in Sessions : active[s] # 0 => journals[s] = {} /\ ~tx[s].set

\* Between operations, and with no restore left to finish, a file its session was the
\* last to write is in a state the session has on record: no interrupted, partial or
\* folded restore left it in one that nothing can be undone from.
RecordsMatch ==
    \A s \in Sessions, p \in Paths :
        /\ op.pc = "idle" /\ journals[s] = {} /\ ~tx[s].set
        /\ s \in by[p] /\ log[s][p] # <<>>
        => \/ file[p] = Expected(log[s][p])
           \/ \E c \in ToSet(log[s][p]) : file[p].data = c.before.data

\* What is on record fits what is on disk, between operations (RecordsMatch) and when a
\* turn begins (NoTurnOverHalfUndone).
RecordsAgree == StoreTypeOK /\ RecordsMatch /\ NoTurnOverHalfUndone

\* The lease always comes back: recovery ends, whatever was interrupted.
LeaseIsReturned == lease # Nobody ~> lease = Nobody

\* docs/USER-GUIDE.md:551, checkpoints.py:8: a manual change is skipped, never
\* overwritten by a restore.
ManualIsNeverOverwritten ==
    [][\A p \in Paths : RestoreFile /\ file'[p] # file[p] => file[p].data \notin manual]_storeVars
===============================================================================
