---------------------------- MODULE RewindProofs ----------------------------
(***************************************************************************)
(* Proofs about module Rewind: its types, the send gate, and what a        *)
(* completed rewind leaves behind.                                         *)
(***************************************************************************)
EXTENDS Rewind, TLAPS

Restoring == {"stage", "context", "code", "undoing", "arm", "save", "settle"}

(***************************************************************************)
(* What the values of the program counters say.                            *)
(***************************************************************************)
Control ==
    /\ sub # "idle" => up /\ op.pc = "idle"
    /\ op.pc # "idle" => up /\ op.i \in 1..Len(ledger)
    /\ op.pc \in {"retry", "apply", "start"} => Len(asked) < MaxRestores
    /\ op.pc \in Restoring \cup {"fold"} => op.r \in 1..Len(asked)
    /\ sub = "admit" => sent < MaxTurns
    /\ sub \in {"begun", "running"} => sent \in Turns
    /\ intent.state # "none" => intent.r \in 1..Len(asked)
    /\ op.pc \in {"context", "save", "settle"} => op.scope # "code"
    /\ op.pc = "stage" => op.scope = "conversation"
    /\ op.pc = "arm" => op.scope = "both"
    /\ op.pc # "fold" => ~op.settled
    /\ op.pc \in {"code", "undoing"} => op.scope \in {"code", "both"}
    /\ op.pc \in {"context", "code", "undoing", "arm"} /\ op.scope = "both" => intent.state = "unready"

(***************************************************************************)
(* Where an intent can be on disk, and who may be waiting for it.          *)
(***************************************************************************)
GateInv ==
    /\ op.pc \in Restoring \cup {"start"} => ~gate.pending
    /\ sub \in {"retry", "apply"} \/ op.pc \in {"retry", "apply"} => gate.pending
    /\ gate.diskDone => gate.pending /\ intent.state = "none"
    /\ intent.state # "none" => ~up \/ gate.pending \/ op.pc \in Restoring
    /\ sub = "apply" \/ op.pc = "apply" => intent.state = "none"
    /\ op.pc = "fold" /\ op.settled => intent.state = "none"
    /\ op.pc \in {"code", "undoing"} /\ op.scope = "code" => intent.state = "none"
    /\ Running => ~gate.pending

IInv == TypeOK /\ Control /\ GateInv

-------------------------------------------------------------------------------
(***************************************************************************)
(* The operators.                                                          *)
(***************************************************************************)
\* The records the steps go back to.
LEMMA RestTypes ==
  /\ NoIntent \in [state : {"none", "unready", "ready"}, r : 0..MaxRestores,
                   keep : Nat, msgs : Seq(Turns)]
  /\ NoBranch \in [state : {"none", "staged"}, r : 0..MaxRestores, visible : SUBSET Turns]
  /\ NoUndo \in [at : 0..MaxTurns, retain : BOOLEAN]
<1>1. <<>> \in Seq(Turns)
  OBVIOUS
<1> QED
  BY <1>1, RewindAssumption DEF NoIntent, NoBranch, NoUndo

LEMMA IdleType == /\ Idle \in Ops /\ Idle.pc = "idle" /\ ~Idle.settled
                  /\ NoIntent.state = "none" /\ Open.pending = FALSE /\ Open.diskDone = FALSE
                  /\ Open \in [pending : BOOLEAN, diskDone : BOOLEAN, branchDue : BOOLEAN]
<1>1. <<>> \in Seq(Turns)
  OBVIOUS
<1> QED
  BY <1>1, RewindAssumption DEF Idle, Ops, NoIntent, Open, Scopes

\* Going back to where the restore began.
LEMMA GiveUpEffect ==
  ASSUME GiveUp
  PROVE  /\ op' = Idle
         /\ ctx' = ctx \/ ctx' = op.orig
         /\ intent' = intent \/ intent' = NoIntent
         /\ op.scope = "both" => intent' = NoIntent
  BY DEF GiveUp

\* The fields the steps read.
LEMMA IParts ==
  ASSUME IInv
  PROVE  /\ op.scope \in Scopes /\ op.i \in Nat /\ op.r \in 0..MaxRestores
         /\ op.plan \in Seq(Turns) /\ op.orig \in Seq(Turns) /\ op.settled \in BOOLEAN
         /\ Len(asked) \in Nat /\ Len(ledger) \in Nat /\ Len(transcript) \in Nat
<1>1. op \in Ops
  BY DEF IInv, TypeOK, MemoryOK
<1>2. /\ op.scope \in Scopes /\ op.i \in Nat /\ op.r \in 0..MaxRestores
      /\ op.plan \in Seq(Turns) /\ op.orig \in Seq(Turns) /\ op.settled \in BOOLEAN
  BY <1>1 DEF Ops
<1>3. Len(asked) \in Nat /\ Len(ledger) \in Nat /\ Len(transcript) \in Nat
  BY DEF IInv, TypeOK, DiskOK, MemoryOK, HistoryOK
<1> QED
  BY <1>2, <1>3

\* A prefix of a sequence is one of the same set, and no longer.
LEMMA TakeType ==
  ASSUME NEW S, NEW s \in Seq(S), NEW k \in Nat
  PROVE  Take(s, k) \in Seq(S) /\ Len(Take(s, k)) <= k /\ Len(Take(s, k)) <= Len(s)
  BY DEF Take

LEMMA ToSetType ==
  ASSUME NEW S, NEW s \in Seq(S)
  PROVE  ToSet(s) \subseteq S
  BY DEF ToSet

\* The parts of TypeOK that a reconciliation disturbs.
LEMMA ReconcileType ==
  ASSUME TypeOK, Control, NEW k, Reconcile(k)
  PROVE  /\ transcript' \in Seq(Turns) /\ stored' \subseteq Turns
         /\ shown' \in Seq(Turns) /\ marked' \subseteq Restores
         /\ intent' = IF k = 3 THEN NoIntent ELSE intent
<1>1. intent.msgs \in Seq(Turns) /\ intent.keep \in Nat
  BY DEF TypeOK, DiskOK, MemoryOK, HistoryOK, BudgetOK
<1>2. intent.state = "ready" => intent.r \in Restores
  BY RewindAssumption DEF TypeOK, DiskOK, HistoryOK, Control, Restores
<1>3. transcript' \in Seq(Turns)
  BY <1>1 DEF Reconcile, TypeOK, DiskOK, MemoryOK, HistoryOK, BudgetOK
<1>4. ToSet(transcript') \subseteq Turns
  BY <1>3, ToSetType
<1>5. Take(shown, intent.keep) \in Seq(Turns)
  BY <1>1, TakeType DEF TypeOK, DiskOK, MemoryOK, HistoryOK, BudgetOK
<1>6. shown' \in Seq(Turns) /\ marked' \subseteq Restores
  <2>1. CASE intent.state = "ready" /\ k >= 2 /\ intent.r \notin marked
    BY <2>1, <1>2, <1>5 DEF Reconcile, TypeOK, DiskOK, MemoryOK, HistoryOK, BudgetOK
  <2>2. CASE ~(intent.state = "ready" /\ k >= 2 /\ intent.r \notin marked)
    BY <2>2 DEF Reconcile, TypeOK, DiskOK, log
  <2> QED
    BY <2>1, <2>2
<1>7. stored' \subseteq Turns
  BY <1>4 DEF Reconcile, TypeOK, DiskOK, MemoryOK, HistoryOK, BudgetOK
<1>8. intent' = IF k = 3 THEN NoIntent ELSE intent
  BY Zenon DEF Reconcile
<1> QED
  BY <1>3, <1>6, <1>7, <1>8

LEMMA FoldType ==
  ASSUME TypeOK, NEW visible, Fold(visible)
  PROVE  order' \subseteq Turns /\ held' \in [Turns -> SUBSET Turns] /\ order' \subseteq order
<1>1. order' \subseteq order
  BY DEF Fold
<1>2. \A t \in Turns : held[t] \subseteq Turns
  BY DEF TypeOK, DiskOK, MemoryOK, HistoryOK, BudgetOK
<1>3. UNION {held[t] : t \in order \ visible} \subseteq Turns
  <2>1. order \subseteq Turns
    BY DEF TypeOK, DiskOK, MemoryOK, HistoryOK, BudgetOK
  <2> QED
    BY <1>2, <2>1, Zenon
<1> DEFINE edits == UNION {held[t] : t \in order \ visible}
           Newest(t) == t \in visible /\ \A u \in order \cap visible : u <= t
           New(t) == IF t \notin order THEN held[t]
                     ELSE IF t \in order \ visible THEN {}
                     ELSE IF Newest(t) THEN held[t] \cup edits ELSE held[t]
<1>5. held' = [t \in Turns |-> New(t)]
  BY DEF Fold
<1>6. \A t \in Turns : New(t) \in SUBSET Turns
  BY <1>2, <1>3
<1>7. held' \in [Turns -> SUBSET Turns]
  <2> HIDE DEF New
  <2> QED
    BY <1>5, <1>6
<1> QED
  BY <1>1, <1>7 DEF TypeOK, DiskOK, MemoryOK, HistoryOK, BudgetOK

LEMMA UnwindType ==
  ASSUME TypeOK, NEW t, NEW retain, Unwind(t, retain)
  PROVE  order' \subseteq Turns /\ held' \in [Turns -> SUBSET Turns] /\ code' \subseteq Turns
  BY DEF TypeOK, DiskOK, MemoryOK, HistoryOK, BudgetOK, Unwind, From

LEMMA SaveType ==
  ASSUME TypeOK, NEW forced, Save(forced)
  PROVE  transcript' \in Seq(Turns) /\ saved' \in Nat /\ stored' \subseteq Turns
<1>1. ToSet(ctx) \subseteq Turns
  BY ToSetType DEF TypeOK, DiskOK, MemoryOK, HistoryOK, BudgetOK
<1>2. CASE forced \/ Len(ctx) > saved
  BY <1>1, <1>2 DEF TypeOK, DiskOK, MemoryOK, HistoryOK, BudgetOK, Save
<1>3. CASE ~(forced \/ Len(ctx) > saved)
  BY <1>3 DEF TypeOK, DiskOK, MemoryOK, HistoryOK, BudgetOK, Save
<1> QED
  BY <1>2, <1>3

\* A coroutine between its plan and its end, and what a step of it does to op.
LEMMA InRestore ==
  ASSUME IInv, op.pc \in Restoring
  PROVE  /\ up /\ sub = "idle" /\ op \in Ops /\ op.i \in 1..Len(ledger) /\ op.r \in 1..Len(asked)
         /\ ~op.settled /\ ~gate.pending /\ ~gate.diskDone
         /\ intent.state # "none" => intent.r \in 1..Len(asked)
  BY DEF IInv, TypeOK, MemoryOK, Control, GateInv, Restoring

LEMMA OpMoves ==
  ASSUME op \in Ops,
         NEW pc \in {"idle", "retry", "apply", "start", "stage", "context", "code", "undoing",
                     "arm", "save", "settle", "fold"},
         op' = [op EXCEPT !.pc = pc]
  PROVE  /\ op' \in Ops /\ op'.pc = pc /\ op'.scope = op.scope /\ op'.i = op.i /\ op'.r = op.r
         /\ op'.settled = op.settled
  BY DEF Ops

LEMMA BudgetType ==
  ASSUME TypeOK, NEW p, Fault(p) \/ NoFault
  PROVE  /\ BudgetOK'
<1>1. CASE Fault(p)
  BY <1>1, RewindAssumption DEF TypeOK, DiskOK, MemoryOK, HistoryOK, BudgetOK, Fault
<1>2. CASE NoFault
  BY <1>2 DEF TypeOK, DiskOK, MemoryOK, HistoryOK, BudgetOK, NoFault, budget
<1> QED
  BY <1>1, <1>2

-------------------------------------------------------------------------------
LEMMA InitHolds == Init => IInv
<1> SUFFICES ASSUME Init PROVE IInv
  OBVIOUS
<1>0. <<>> \in Seq(Turns)
  OBVIOUS
<1>1. TypeOK
  BY <1>0, RewindAssumption DEF Init, TypeOK, DiskOK, MemoryOK, HistoryOK, BudgetOK, NoIntent, NoBranch, NoUndo, Idle, Ops, Open, Scopes
<1>2. Control /\ GateInv
  BY DEF Init, Control, GateInv, NoIntent, Idle, Open, Running, Restoring
<1> QED
  BY <1>1, <1>2 DEF IInv

-------------------------------------------------------------------------------
(***************************************************************************)
(* The two halves of a retried recovery.                                   *)
(***************************************************************************)
LEMMA RetryDiskEffect ==
  ASSUME IInv, RetryDisk
  PROVE  /\ transcript' \in Seq(Turns) /\ stored' \subseteq Turns
         /\ shown' \in Seq(Turns) /\ marked' \subseteq Restores
         /\ loaded' \in Seq(Turns) /\ budget' = budget
         /\ intent'.state = "none" /\ (intent' = intent \/ intent' = NoIntent)
         /\ gate' = gate \/ gate' = [gate EXCEPT !.diskDone = TRUE]
<1>1. CASE Reconcile(3) /\ NoFault /\ loaded' = transcript'
           /\ gate' = [gate EXCEPT !.diskDone = TRUE]
  <2>1. /\ transcript' \in Seq(Turns) /\ stored' \subseteq Turns
        /\ shown' \in Seq(Turns) /\ marked' \subseteq Restores
        /\ intent' = IF 3 = 3 THEN NoIntent ELSE intent
    BY <1>1, ReconcileType DEF IInv
  <2> QED
    BY <1>1, <2>1 DEF NoIntent, NoFault
<1>2. CASE gate.diskDone /\ NoFault /\ loaded' = transcript
           /\ UNCHANGED <<transcript, stored, log, intent, gate>>
  BY <1>2 DEF IInv, TypeOK, DiskOK, MemoryOK, HistoryOK, GateInv, log, NoFault
<1> QED
  BY <1>1, <1>2, Zenon DEF RetryDisk

LEMMA RetryDiskFailsEffect ==
  ASSUME IInv, RetryDiskFails
  PROVE  /\ transcript' \in Seq(Turns) /\ stored' \subseteq Turns
         /\ shown' \in Seq(Turns) /\ marked' \subseteq Restores
         /\ UNCHANGED <<loaded, intent, gate>>
         /\ BudgetOK'
<1>1. CASE NoFault /\ UNCHANGED <<transcript, stored, log, intent>>
  BY <1>1, BudgetType DEF IInv, TypeOK, DiskOK, HistoryOK, log, RetryDiskFails
<1>2. ASSUME NEW k \in 0..2, Fault("reconcile"), Reconcile(k)
      PROVE  /\ transcript' \in Seq(Turns) /\ stored' \subseteq Turns
             /\ shown' \in Seq(Turns) /\ marked' \subseteq Restores /\ intent' = intent
             /\ BudgetOK'
  <2>1. /\ transcript' \in Seq(Turns) /\ stored' \subseteq Turns
        /\ shown' \in Seq(Turns) /\ marked' \subseteq Restores
        /\ intent' = IF k = 3 THEN NoIntent ELSE intent
    BY <1>2, ReconcileType DEF IInv
  <2>2. BudgetOK'
    BY <1>2, BudgetType DEF IInv
  <2> QED
    BY <2>1, <2>2
<1>3. UNCHANGED <<loaded, gate>>
  BY DEF RetryDiskFails
<1> QED
  BY <1>1, <1>2, <1>3 DEF RetryDiskFails

LEMMA RetryApplyEffect ==
  ASSUME IInv, RetryApply
  PROVE  /\ ctx' = loaded /\ saved' \in Nat /\ gate' = Open /\ budget' = budget
         /\ order' \subseteq Turns /\ held' \in [Turns -> SUBSET Turns]
         /\ branch' = branch \/ branch' = NoBranch
<1>1. saved' \in Nat
  BY DEF RetryApply, IInv, TypeOK, DiskOK, MemoryOK, HistoryOK, BudgetOK
<1>2. CASE Fold(branch.visible) /\ branch' = NoBranch
  <2>1. order' \subseteq Turns /\ held' \in [Turns -> SUBSET Turns]
    BY <1>2, FoldType DEF IInv
  <2> QED
    BY <1>1, <1>2, <2>1 DEF RetryApply, NoFault
<1>3. CASE UNCHANGED <<order, held, branch>>
  BY <1>1, <1>3 DEF RetryApply, NoFault, IInv, TypeOK, DiskOK, MemoryOK, HistoryOK, BudgetOK
<1> QED
  BY <1>2, <1>3 DEF RetryApply

LEMMA RetryApplyFailsEffect ==
  ASSUME IInv, RetryApplyFails
  PROVE  /\ ctx' = loaded \/ ctx' = ctx
         /\ UNCHANGED <<saved, order, held, branch, gate>>
         /\ BudgetOK'
<1>1. (\E p : Fault(p)) \/ NoFault
  BY DEF RetryApplyFails
<1>2. BudgetOK'
  BY <1>1, BudgetType DEF IInv
<1> QED
  BY <1>2 DEF RetryApplyFails

-------------------------------------------------------------------------------
(***************************************************************************)
(* Every step of a prompt keeps the invariant.                             *)
(***************************************************************************)
LEMMA SubmitStep == IInv /\ Submit => IInv'
<1> SUFFICES ASSUME IInv, Submit PROVE IInv'
  OBVIOUS
<1> USE DEF disk, log, ghost, budget
<1>1. CASE Send
  <2>a. DiskOK'
    BY <1>1 DEF Send, IInv, TypeOK, DiskOK
  <2>b. MemoryOK'
    BY <1>1 DEF Send, IInv, TypeOK, MemoryOK
  <2>c. HistoryOK'
    BY <1>1 DEF Send, IInv, TypeOK, HistoryOK
  <2>d. BudgetOK'
    BY <1>1 DEF Send, IInv, TypeOK, BudgetOK
  <2>e. Control'
    BY <1>1 DEF Send, IInv, TypeOK, MemoryOK, Control, Restoring
  <2>f. GateInv'
    BY <1>1 DEF Send, IInv, TypeOK, MemoryOK, Control, GateInv, Running, Restoring
  <2> QED
    BY <2>a, <2>b, <2>c, <2>d, <2>e, <2>f DEF IInv, TypeOK
<1>2. CASE SubmitRetryDisk
  <2>1. CASE RetryDisk /\ sub' = "apply"
    <3>1. /\ transcript' \in Seq(Turns) /\ stored' \subseteq Turns
          /\ shown' \in Seq(Turns) /\ marked' \subseteq Restores
          /\ loaded' \in Seq(Turns) /\ budget' = budget
          /\ intent'.state = "none" /\ (intent' = intent \/ intent' = NoIntent)
          /\ gate' = gate \/ gate' = [gate EXCEPT !.diskDone = TRUE]
      BY <2>1, RetryDiskEffect
    <3>a. DiskOK'
      BY <1>2, <2>1, <3>1, RestTypes DEF SubmitRetryDisk, IInv, TypeOK, DiskOK
    <3>b. MemoryOK'
      BY <1>2, <2>1, <3>1 DEF SubmitRetryDisk, IInv, TypeOK, MemoryOK
    <3>c. HistoryOK'
      BY <1>2, <2>1, <3>1 DEF SubmitRetryDisk, IInv, TypeOK, HistoryOK
    <3>d. BudgetOK'
      BY <1>2, <2>1, <3>1 DEF SubmitRetryDisk, IInv, TypeOK, BudgetOK
    <3>e. Control'
      BY <1>2, <2>1, <3>1 DEF SubmitRetryDisk, IInv, TypeOK, MemoryOK, Control, Restoring, NoIntent
    <3>f. GateInv'
      BY <1>2, <2>1, <3>1 DEF SubmitRetryDisk, IInv, TypeOK, MemoryOK, Control, GateInv, Running, Restoring, NoIntent
    <3> QED
      BY <3>a, <3>b, <3>c, <3>d, <3>e, <3>f DEF IInv, TypeOK
  <2>2. CASE RetryDiskFails /\ sub' = "idle"
    <3>1. /\ transcript' \in Seq(Turns) /\ stored' \subseteq Turns
          /\ shown' \in Seq(Turns) /\ marked' \subseteq Restores
          /\ UNCHANGED <<loaded, intent, gate>>
          /\ BudgetOK'
      BY <2>2, RetryDiskFailsEffect
    <3>a. DiskOK'
      BY <1>2, <2>2, <3>1 DEF SubmitRetryDisk, IInv, TypeOK, DiskOK
    <3>b. MemoryOK'
      BY <1>2, <2>2, <3>1 DEF SubmitRetryDisk, IInv, TypeOK, MemoryOK
    <3>c. HistoryOK'
      BY <1>2, <2>2, <3>1 DEF SubmitRetryDisk, IInv, TypeOK, HistoryOK
    <3>d. BudgetOK'
      BY <1>2, <2>2, <3>1 DEF SubmitRetryDisk, IInv, TypeOK, BudgetOK
    <3>e. Control'
      BY <1>2, <2>2, <3>1 DEF SubmitRetryDisk, IInv, TypeOK, MemoryOK, Control, Restoring
    <3>f. GateInv'
      BY <1>2, <2>2, <3>1 DEF SubmitRetryDisk, IInv, TypeOK, MemoryOK, Control, GateInv, Running, Restoring
    <3> QED
      BY <3>a, <3>b, <3>c, <3>d, <3>e, <3>f DEF IInv, TypeOK
  <2> QED
    BY <1>2, <2>1, <2>2 DEF SubmitRetryDisk
<1>3. CASE SubmitRetryApply
  <2>1. CASE RetryApply /\ sub' = IF sent < MaxTurns THEN "admit" ELSE "idle"
    <3>1. /\ ctx' = loaded /\ saved' \in Nat /\ gate' = Open /\ budget' = budget
          /\ order' \subseteq Turns /\ held' \in [Turns -> SUBSET Turns]
          /\ branch' = branch \/ branch' = NoBranch
      BY <2>1, RetryApplyEffect
    <3>a. DiskOK'
      BY <1>3, <2>1, <3>1, RestTypes DEF SubmitRetryApply, IInv, TypeOK, DiskOK
    <3>b. MemoryOK'
      BY <1>3, <2>1, <3>1 DEF SubmitRetryApply, IInv, TypeOK, MemoryOK, Open
    <3>c. HistoryOK'
      BY <1>3, <2>1, <3>1 DEF SubmitRetryApply, IInv, TypeOK, HistoryOK
    <3>d. BudgetOK'
      BY <1>3, <2>1, <3>1 DEF SubmitRetryApply, IInv, TypeOK, BudgetOK
    <3>e. Control'
      BY <1>3, <2>1, <3>1 DEF SubmitRetryApply, IInv, TypeOK, MemoryOK, Control, Restoring, Open
    <3>f. GateInv'
      BY <1>3, <2>1, <3>1 DEF SubmitRetryApply, IInv, TypeOK, MemoryOK, Control, GateInv, Running, Restoring, Open
    <3> QED
      BY <3>a, <3>b, <3>c, <3>d, <3>e, <3>f DEF IInv, TypeOK
  <2>2. CASE RetryApplyFails /\ sub' = "idle"
    <3>1. /\ ctx' = loaded \/ ctx' = ctx
          /\ UNCHANGED <<saved, order, held, branch, gate>>
          /\ BudgetOK'
      BY <2>2, RetryApplyFailsEffect
    <3>a. DiskOK'
      BY <1>3, <2>2, <3>1 DEF SubmitRetryApply, IInv, TypeOK, DiskOK
    <3>b. MemoryOK'
      BY <1>3, <2>2, <3>1 DEF SubmitRetryApply, IInv, TypeOK, MemoryOK
    <3>c. HistoryOK'
      BY <1>3, <2>2, <3>1 DEF SubmitRetryApply, IInv, TypeOK, HistoryOK
    <3>d. BudgetOK'
      BY <1>3, <2>2, <3>1 DEF SubmitRetryApply, IInv, TypeOK, BudgetOK
    <3>e. Control'
      BY <1>3, <2>2, <3>1 DEF SubmitRetryApply, IInv, TypeOK, MemoryOK, Control, Restoring
    <3>f. GateInv'
      BY <1>3, <2>2, <3>1 DEF SubmitRetryApply, IInv, TypeOK, MemoryOK, Control, GateInv, Running, Restoring
    <3> QED
      BY <3>a, <3>b, <3>c, <3>d, <3>e, <3>f DEF IInv, TypeOK
  <2> QED
    BY <1>3, <2>1, <2>2 DEF SubmitRetryApply
<1>4. CASE Begin
  <2>1. sent + 1 \in Turns /\ sent' = sent + 1 /\ sent' \in 0..MaxTurns
    BY <1>4, RewindAssumption DEF Begin, IInv, TypeOK, HistoryOK, Control, Turns
  <2>2. order' \subseteq Turns /\ tracked' \subseteq Turns
    BY <1>4, <2>1 DEF Begin, IInv, TypeOK, DiskOK, HistoryOK
  <2>a. DiskOK'
    BY <1>4, <2>1, <2>2 DEF Begin, IInv, TypeOK, DiskOK
  <2>b. MemoryOK'
    BY <1>4, <2>1, <2>2 DEF Begin, IInv, TypeOK, MemoryOK
  <2>c. HistoryOK'
    BY <1>4, <2>1, <2>2 DEF Begin, IInv, TypeOK, HistoryOK
  <2>d. BudgetOK'
    BY <1>4, <2>1, <2>2 DEF Begin, IInv, TypeOK, BudgetOK
  <2>e. Control'
    BY <1>4, <2>1, <2>2 DEF Begin, IInv, TypeOK, MemoryOK, Control, Restoring
  <2>f. GateInv'
    BY <1>4, <2>1, <2>2 DEF Begin, IInv, TypeOK, MemoryOK, Control, GateInv, Running, Restoring
  <2> QED
    BY <2>a, <2>b, <2>c, <2>d, <2>e, <2>f DEF IInv, TypeOK
<1>5. CASE Prompt
  <2>1. sent \in Turns
    BY <1>5 DEF Prompt, IInv, Control
  <2>2. /\ shown' \in Seq(Turns) /\ ctx' \in Seq(Turns) /\ ledger' \in Seq(Turns)
    BY <1>5, <2>1 DEF Prompt, IInv, TypeOK, DiskOK, MemoryOK
  <2>a. DiskOK'
    BY <1>5, <2>1, <2>2 DEF Prompt, IInv, TypeOK, DiskOK
  <2>b. MemoryOK'
    BY <1>5, <2>1, <2>2 DEF Prompt, IInv, TypeOK, MemoryOK
  <2>c. HistoryOK'
    BY <1>5, <2>1, <2>2 DEF Prompt, IInv, TypeOK, HistoryOK
  <2>d. BudgetOK'
    BY <1>5, <2>1, <2>2 DEF Prompt, IInv, TypeOK, BudgetOK
  <2>e. Control'
    BY <1>5, <2>1, <2>2 DEF Prompt, IInv, TypeOK, MemoryOK, Control, Restoring
  <2>f. GateInv'
    BY <1>5, <2>1, <2>2 DEF Prompt, IInv, TypeOK, MemoryOK, Control, GateInv, Running, Restoring
  <2> QED
    BY <2>a, <2>b, <2>c, <2>d, <2>e, <2>f DEF IInv, TypeOK
<1>6. CASE Work
  <2>1. Save(FALSE) /\ sent \in Turns
    BY <1>6 DEF Work, IInv, Control
  <2>2. transcript' \in Seq(Turns) /\ saved' \in Nat /\ stored' \subseteq Turns
    BY <2>1, SaveType DEF IInv
  <2>a. DiskOK'
    BY <1>6, <2>1, <2>2 DEF Work, IInv, TypeOK, DiskOK
  <2>b. MemoryOK'
    BY <1>6, <2>1, <2>2 DEF Work, IInv, TypeOK, MemoryOK
  <2>c. HistoryOK'
    BY <1>6, <2>1, <2>2 DEF Work, IInv, TypeOK, HistoryOK
  <2>d. BudgetOK'
    BY <1>6, <2>1, <2>2 DEF Work, IInv, TypeOK, BudgetOK
  <2>e. Control'
    BY <1>6, <2>1, <2>2 DEF Work, IInv, TypeOK, MemoryOK, Control, Restoring
  <2>f. GateInv'
    BY <1>6, <2>1, <2>2 DEF Work, IInv, TypeOK, MemoryOK, Control, GateInv, Running, Restoring
  <2> QED
    BY <2>a, <2>b, <2>c, <2>d, <2>e, <2>f DEF IInv, TypeOK
<1>7. CASE EndTurn
  <2>1. BudgetOK'
    BY <1>7, BudgetType DEF EndTurn, IInv
  <2>2. transcript' \in Seq(Turns) /\ saved' \in Nat /\ stored' \subseteq Turns
    BY <1>7, SaveType DEF EndTurn, IInv, TypeOK, DiskOK, MemoryOK, HistoryOK
  <2>a. DiskOK'
    BY <1>7, <2>1, <2>2 DEF EndTurn, IInv, TypeOK, DiskOK
  <2>b. MemoryOK'
    BY <1>7, <2>1, <2>2 DEF EndTurn, IInv, TypeOK, MemoryOK
  <2>c. HistoryOK'
    BY <1>7, <2>1, <2>2 DEF EndTurn, IInv, TypeOK, HistoryOK
  <2>d. BudgetOK'
    BY <1>7, <2>1, <2>2 DEF EndTurn, IInv, TypeOK, BudgetOK
  <2>e. Control'
    BY <1>7, <2>1, <2>2 DEF EndTurn, IInv, TypeOK, MemoryOK, Control, Restoring
  <2>f. GateInv'
    BY <1>7, <2>1, <2>2 DEF EndTurn, IInv, TypeOK, MemoryOK, Control, GateInv, Running, Restoring
  <2> QED
    BY <2>a, <2>b, <2>c, <2>d, <2>e, <2>f DEF IInv, TypeOK
<1> QED
  BY <1>1, <1>2, <1>3, <1>4, <1>5, <1>6, <1>7 DEF Submit

-------------------------------------------------------------------------------
(***************************************************************************)
(* Every step of a restore keeps the invariant.                            *)
(***************************************************************************)
LEMMA RestoreStep == IInv /\ Restore => IInv'
<1> SUFFICES ASSUME IInv, Restore PROVE IInv'
  OBVIOUS
<1> USE DEF disk, log, ghost, budget
<1>1. CASE RestoreRetryDisk
  <2>1. CASE RetryDisk /\ op' = [op EXCEPT !.pc = "apply"]
    <3>1. /\ transcript' \in Seq(Turns) /\ stored' \subseteq Turns
          /\ shown' \in Seq(Turns) /\ marked' \subseteq Restores
          /\ loaded' \in Seq(Turns) /\ budget' = budget
          /\ intent'.state = "none" /\ (intent' = intent \/ intent' = NoIntent)
          /\ gate' = gate \/ gate' = [gate EXCEPT !.diskDone = TRUE]
      BY <2>1, RetryDiskEffect
    <3>a. DiskOK'
      BY <1>1, <2>1, <3>1, RestTypes, IParts DEF RestoreRetryDisk, IInv, TypeOK, DiskOK
    <3>o. op' \in Ops
      BY <1>1, <2>1, <3>1, IdleType, IParts DEF RestoreRetryDisk, IInv, TypeOK, MemoryOK, Ops
    <3>b. MemoryOK'
      BY <1>1, <2>1, <3>1, <3>o, IdleType, IParts DEF RestoreRetryDisk, IInv, TypeOK, MemoryOK
    <3>c. HistoryOK'
      BY <1>1, <2>1, <3>1 DEF RestoreRetryDisk, IInv, TypeOK, HistoryOK
    <3>d. BudgetOK'
      BY <1>1, <2>1, <3>1 DEF RestoreRetryDisk, IInv, TypeOK, BudgetOK
    <3>e. Control'
      BY <1>1, <2>1, <3>1, IdleType, IParts DEF RestoreRetryDisk, IInv, TypeOK, MemoryOK, Ops, Control, Restoring
    <3>f. GateInv'
      BY <1>1, <2>1, <3>1, IdleType, IParts DEF RestoreRetryDisk, IInv, TypeOK, MemoryOK, Ops, Control, GateInv, Running, Restoring
    <3> QED
      BY <3>a, <3>b, <3>c, <3>d, <3>e, <3>f DEF IInv, TypeOK
  <2>2. CASE RetryDiskFails /\ op' = Idle
    <3>1. /\ transcript' \in Seq(Turns) /\ stored' \subseteq Turns
          /\ shown' \in Seq(Turns) /\ marked' \subseteq Restores
          /\ UNCHANGED <<loaded, intent, gate>>
          /\ BudgetOK'
      BY <2>2, RetryDiskFailsEffect
    <3>a. DiskOK'
      BY <1>1, <2>2, <3>1, RestTypes, IParts DEF RestoreRetryDisk, IInv, TypeOK, DiskOK
    <3>o. op' \in Ops
      BY <1>1, <2>2, <3>1, IdleType, IParts DEF RestoreRetryDisk, IInv, TypeOK, MemoryOK, Ops
    <3>b. MemoryOK'
      BY <1>1, <2>2, <3>1, <3>o, IdleType, IParts DEF RestoreRetryDisk, IInv, TypeOK, MemoryOK
    <3>c. HistoryOK'
      BY <1>1, <2>2, <3>1 DEF RestoreRetryDisk, IInv, TypeOK, HistoryOK
    <3>d. BudgetOK'
      BY <1>1, <2>2, <3>1 DEF RestoreRetryDisk, IInv, TypeOK, BudgetOK
    <3>e. Control'
      BY <1>1, <2>2, <3>1, IdleType, IParts DEF RestoreRetryDisk, IInv, TypeOK, MemoryOK, Ops, Control, Restoring
    <3>f. GateInv'
      BY <1>1, <2>2, <3>1, IdleType, IParts DEF RestoreRetryDisk, IInv, TypeOK, MemoryOK, Ops, Control, GateInv, Running, Restoring
    <3> QED
      BY <3>a, <3>b, <3>c, <3>d, <3>e, <3>f DEF IInv, TypeOK
  <2> QED
    BY <1>1, <2>1, <2>2 DEF RestoreRetryDisk
<1>2. CASE RestoreRetryApply
  <2>1. CASE RetryApply /\ op' = [op EXCEPT !.pc = "start"]
    <3>1. /\ ctx' = loaded /\ saved' \in Nat /\ gate' = Open /\ budget' = budget
          /\ order' \subseteq Turns /\ held' \in [Turns -> SUBSET Turns]
          /\ branch' = branch \/ branch' = NoBranch
      BY <2>1, RetryApplyEffect
    <3>a. DiskOK'
      BY <1>2, <2>1, <3>1, RestTypes, IParts DEF RestoreRetryApply, IInv, TypeOK, DiskOK
    <3>o. op' \in Ops
      BY <1>2, <2>1, <3>1, IdleType, IParts DEF RestoreRetryApply, IInv, TypeOK, MemoryOK, Ops
    <3>b. MemoryOK'
      BY <1>2, <2>1, <3>1, <3>o, IdleType, IParts DEF RestoreRetryApply, IInv, TypeOK, MemoryOK
    <3>c. HistoryOK'
      BY <1>2, <2>1, <3>1 DEF RestoreRetryApply, IInv, TypeOK, HistoryOK
    <3>d. BudgetOK'
      BY <1>2, <2>1, <3>1 DEF RestoreRetryApply, IInv, TypeOK, BudgetOK
    <3>e. Control'
      BY <1>2, <2>1, <3>1, IdleType, IParts DEF RestoreRetryApply, IInv, TypeOK, MemoryOK, Ops, Control, Restoring
    <3>f. GateInv'
      BY <1>2, <2>1, <3>1, IdleType, IParts DEF RestoreRetryApply, IInv, TypeOK, MemoryOK, Ops, Control, GateInv, Running, Restoring
    <3> QED
      BY <3>a, <3>b, <3>c, <3>d, <3>e, <3>f DEF IInv, TypeOK
  <2>2. CASE RetryApplyFails /\ op' = Idle
    <3>1. /\ ctx' = loaded \/ ctx' = ctx
          /\ UNCHANGED <<saved, order, held, branch, gate>>
          /\ BudgetOK'
      BY <2>2, RetryApplyFailsEffect
    <3>a. DiskOK'
      BY <1>2, <2>2, <3>1, RestTypes, IParts DEF RestoreRetryApply, IInv, TypeOK, DiskOK
    <3>o. op' \in Ops
      BY <1>2, <2>2, <3>1, IdleType, IParts DEF RestoreRetryApply, IInv, TypeOK, MemoryOK, Ops
    <3>b. MemoryOK'
      BY <1>2, <2>2, <3>1, <3>o, IdleType, IParts DEF RestoreRetryApply, IInv, TypeOK, MemoryOK
    <3>c. HistoryOK'
      BY <1>2, <2>2, <3>1 DEF RestoreRetryApply, IInv, TypeOK, HistoryOK
    <3>d. BudgetOK'
      BY <1>2, <2>2, <3>1 DEF RestoreRetryApply, IInv, TypeOK, BudgetOK
    <3>e. Control'
      BY <1>2, <2>2, <3>1, IdleType, IParts DEF RestoreRetryApply, IInv, TypeOK, MemoryOK, Ops, Control, Restoring
    <3>f. GateInv'
      BY <1>2, <2>2, <3>1, IdleType, IParts DEF RestoreRetryApply, IInv, TypeOK, MemoryOK, Ops, Control, GateInv, Running, Restoring
    <3> QED
      BY <3>a, <3>b, <3>c, <3>d, <3>e, <3>f DEF IInv, TypeOK
  <2> QED
    BY <1>2, <2>1, <2>2 DEF RestoreRetryApply
<1>3. CASE Plan
  <2> DEFINE kept == Take(ctx, base + op.i - 1)
             what == [scope |-> op.scope, first |-> ledger[op.i],
                      dropped |-> IF op.scope = "code" THEN {} ELSE ToSet(ctx) \ ToSet(kept)]
  <2>0. /\ up /\ op.pc = "start"
        /\ UNCHANGED <<transcript, shown, marked, branch, order, held, undo, code, up, ctx, ledger,
                       base, saved, gate, sub, loaded, sent, tracked, reported, stored, cleared>>
    BY <1>3 DEF Plan, PlanAs
  <2>1. op.i \in 1..Len(ledger) /\ op.i - 1 \in Nat /\ base + op.i - 1 \in Nat /\ ledger[op.i] \in Turns
    BY <2>0 DEF IInv, TypeOK, MemoryOK, Ops, Control
  <2>2. kept \in Seq(Turns) /\ ToSet(ctx) \subseteq Turns
    BY <2>1, TakeType, ToSetType DEF IInv, TypeOK, MemoryOK
  <2>3. what \in [scope : Scopes, first : Turns, dropped : SUBSET Turns]
    BY <2>1, <2>2, IParts
  <2>4. asked' = Append(asked, what)
    BY <1>3 DEF Plan, PlanAs
  <2>5. Len(asked') = Len(asked) + 1 /\ Len(asked') <= MaxRestores
    BY <2>0, <2>3, <2>4, RewindAssumption DEF IInv, TypeOK, HistoryOK, Control
  <2>6. Len(asked') \in 1..Len(asked') /\ Len(asked') \in 0..MaxRestores
    BY <2>5, RewindAssumption DEF IInv, TypeOK, HistoryOK
  <2>7. BudgetOK'
    BY <1>3, BudgetType DEF Plan, PlanAs, IInv
  <2>8. asked' \in Seq([scope : Scopes, first : Turns, dropped : SUBSET Turns])
    BY <2>3, <2>4 DEF IInv, TypeOK, HistoryOK
  <2> HIDE DEF kept, what
  <2>9. \/ op.scope = "code" /\ op' = [op EXCEPT !.pc = "code", !.r = Len(asked')] /\ intent' = intent
        \/ /\ op.scope # "code"
           /\ intent' = [state |-> IF op.scope = "both" THEN "unready" ELSE "ready",
                         r |-> Len(asked'), keep |-> op.i - 1, msgs |-> kept]
           /\ op' = [op EXCEPT !.pc = IF op.scope = "both" THEN "context" ELSE "stage",
                               !.r = Len(asked'), !.plan = kept, !.orig = ctx]
        \/ op.scope # "code" /\ op' = Idle /\ intent' = intent
    BY <1>3 DEF Plan, PlanAs, kept
  <2>10. [state |-> IF op.scope = "both" THEN "unready" ELSE "ready",
          r |-> Len(asked'), keep |-> op.i - 1, msgs |-> kept]
         \in [state : {"none", "unready", "ready"}, r : 0..MaxRestores, keep : Nat, msgs : Seq(Turns)]
    BY <2>1, <2>2, <2>6
  <2>a. DiskOK'
    BY <2>0, <2>1, <2>2, <2>5, <2>6, <2>7, <2>8, <2>9, <2>10, RestTypes, IParts DEF IInv, TypeOK, DiskOK
  <2>11. op \in Ops /\ sub = "idle" /\ ~op.settled /\ op.scope \in Scopes
    BY <2>0 DEF IInv, TypeOK, MemoryOK, Control, Ops
  <2>12. ~gate.pending /\ ~gate.diskDone /\ intent.state = "none"
    BY <2>0 DEF IInv, GateInv, Restoring
  <2>13. /\ op' \in Ops /\ ~op'.settled
         /\ \/ /\ op.scope = "code" /\ op'.pc = "code" /\ op'.scope = "code" /\ op'.i = op.i
               /\ op'.r = Len(asked') /\ intent'.state = "none"
            \/ /\ op.scope # "code" /\ op'.scope = op.scope /\ op'.i = op.i /\ op'.r = Len(asked')
               /\ op'.pc = IF op.scope = "both" THEN "context" ELSE "stage"
               /\ intent'.state = IF op.scope = "both" THEN "unready" ELSE "ready"
               /\ intent'.r = Len(asked')
            \/ op'.pc = "idle" /\ intent'.state = "none"
    <3>1. CASE op.scope = "code" /\ op' = [op EXCEPT !.pc = "code", !.r = Len(asked')] /\ intent' = intent
      BY <2>6, <2>11, <2>12, <3>1 DEF Ops
    <3>2. CASE /\ op.scope # "code"
               /\ intent' = [state |-> IF op.scope = "both" THEN "unready" ELSE "ready",
                             r |-> Len(asked'), keep |-> op.i - 1, msgs |-> kept]
               /\ op' = [op EXCEPT !.pc = IF op.scope = "both" THEN "context" ELSE "stage",
                                   !.r = Len(asked'), !.plan = kept, !.orig = ctx]
      <4>1. ctx \in Seq(Turns)
        BY DEF IInv, TypeOK, MemoryOK
      <4>2. /\ op' \in Ops /\ op'.settled = op.settled
            /\ op'.scope = op.scope /\ op'.i = op.i /\ op'.r = Len(asked')
            /\ op'.pc = IF op.scope = "both" THEN "context" ELSE "stage"
        BY <2>2, <2>6, <2>11, <3>2, <4>1 DEF Ops
      <4>3. /\ intent'.state = IF op.scope = "both" THEN "unready" ELSE "ready"
            /\ intent'.r = Len(asked')
        BY <3>2
      <4> QED
        BY <2>11, <3>2, <4>2, <4>3
    <3>3. CASE op' = Idle /\ intent' = intent
      BY <2>12, <3>3, IdleType
    <3> QED
      BY <2>9, <3>1, <3>2, <3>3
  <2>o. op' \in Ops
    BY <2>13
  <2>b. MemoryOK'
    BY <2>0, <2>1, <2>2, <2>5, <2>6, <2>7, <2>8, <2>9, <2>o, IdleType, IParts DEF IInv, TypeOK, MemoryOK
  <2>c. HistoryOK'
    BY <2>0, <2>1, <2>2, <2>5, <2>6, <2>7, <2>8, <2>9 DEF IInv, TypeOK, HistoryOK
  <2>d. BudgetOK'
    BY <2>0, <2>1, <2>2, <2>5, <2>6, <2>7, <2>8, <2>9 DEF IInv, TypeOK, BudgetOK
  <2>e. Control'
    BY <2>0, <2>1, <2>6, <2>11, <2>13 DEF Control, Restoring, Scopes
  <2>f. GateInv'
    BY <2>0, <2>11, <2>12, <2>13 DEF GateInv, Running, Restoring
  <2> QED
    BY <2>a, <2>b, <2>c, <2>d, <2>e, <2>f DEF IInv, TypeOK
<1>4. CASE Stage
  <2>1. Visible \subseteq Turns
    BY <1>4 DEF Stage, Visible, IInv, TypeOK, MemoryOK, Ops, Control
  <2>2. BudgetOK'
    BY <1>4, BudgetType DEF Stage, IInv
  <2>3. /\ op.pc = "stage" /\ up
        /\ \/ /\ op' = [op EXCEPT !.pc = "context"] /\ UNCHANGED intent
              /\ branch' = [state |-> "staged", r |-> op.r, visible |-> Visible]
              /\ gate' = [gate EXCEPT !.branchDue = TRUE]
           \/ op' = Idle /\ intent' = NoIntent /\ UNCHANGED <<branch, gate>>
        /\ UNCHANGED <<transcript, log, order, held, undo, code, up, ctx, ledger, base, saved, sub,
                       loaded, ghost>>
    BY <1>4 DEF Stage
  <2>4. [state |-> "staged", r |-> op.r, visible |-> Visible]
          \in [state : {"none", "staged"}, r : 0..MaxRestores, visible : SUBSET Turns]
    BY <2>1, IParts
  <2>a. DiskOK'
    BY <2>1, <2>2, <2>3, <2>4, RestTypes, IParts DEF IInv, TypeOK, DiskOK
  <2>5. /\ up /\ sub = "idle" /\ op \in Ops /\ op.i \in 1..Len(ledger) /\ op.r \in 1..Len(asked)
        /\ ~op.settled /\ ~gate.pending /\ ~gate.diskDone
        /\ intent.state # "none" => intent.r \in 1..Len(asked)
    BY <2>3, InRestore DEF Restoring
  <2>6. op.scope = "conversation"
    BY <2>3 DEF IInv, Control
  <2>7. gate'.pending = gate.pending /\ gate'.diskDone = gate.diskDone
    BY <2>3 DEF IInv, TypeOK, MemoryOK
  <2>8. /\ op' \in Ops /\ ~op'.settled
        /\ \/ /\ op'.pc = "context" /\ op'.scope = op.scope /\ op'.i = op.i /\ op'.r = op.r
              /\ intent' = intent
           \/ op'.pc = "idle" /\ intent'.state = "none"
    BY <2>3, <2>5, OpMoves, IdleType
  <2>o. op' \in Ops
    BY <2>8
  <2>b. MemoryOK'
    BY <2>1, <2>2, <2>3, <2>4, <2>o, IdleType, IParts DEF IInv, TypeOK, MemoryOK
  <2>c. HistoryOK'
    BY <2>1, <2>2, <2>3, <2>4 DEF IInv, TypeOK, HistoryOK
  <2>d. BudgetOK'
    BY <2>1, <2>2, <2>3, <2>4 DEF IInv, TypeOK, BudgetOK
  <2>e. Control'
    BY <2>3, <2>5, <2>6, <2>8 DEF Control, Restoring
  <2>f. GateInv'
    BY <2>3, <2>5, <2>6, <2>7, <2>8 DEF GateInv, Running, Restoring
  <2> QED
    BY <2>a, <2>b, <2>c, <2>d, <2>e, <2>f DEF IInv, TypeOK
<1>5. CASE Commit
  <2>1. BudgetOK'
    BY <1>5, BudgetType DEF Commit, IInv
  <2>2. /\ op.pc = "context" /\ up
        /\ \/ /\ op' = [op EXCEPT !.pc = IF op.scope = "both" THEN "code" ELSE "save"]
              /\ ctx' = op.plan /\ UNCHANGED <<intent, branch, gate>>
           \/ /\ op' = Idle /\ intent' = NoIntent
              /\ branch' = branch \/ branch' = NoBranch
              /\ gate' = [gate EXCEPT !.branchDue = @ /\ op.scope # "conversation"]
              /\ UNCHANGED ctx
        /\ UNCHANGED <<transcript, log, order, held, undo, code, up, ledger, base, saved, sub,
                       loaded, ghost>>
    BY <1>5 DEF Commit
  <2>a. DiskOK'
    BY <2>1, <2>2, RestTypes, IParts DEF IInv, TypeOK, DiskOK
  <2>3. /\ up /\ sub = "idle" /\ op \in Ops /\ op.i \in 1..Len(ledger) /\ op.r \in 1..Len(asked)
        /\ ~op.settled /\ ~gate.pending /\ ~gate.diskDone
        /\ intent.state # "none" => intent.r \in 1..Len(asked)
    BY <2>2, InRestore DEF Restoring
  <2>4. op.scope \in {"both", "conversation"} /\ (op.scope = "both" => intent.state = "unready")
    BY <2>2, IParts DEF IInv, Control, Scopes
  <2>5. gate'.pending = gate.pending /\ gate'.diskDone = gate.diskDone
    BY <2>2 DEF IInv, TypeOK, MemoryOK
  <2>6. /\ op' \in Ops /\ ~op'.settled
        /\ \/ /\ op'.pc = IF op.scope = "both" THEN "code" ELSE "save"
              /\ op'.scope = op.scope /\ op'.i = op.i /\ op'.r = op.r /\ intent' = intent
           \/ op'.pc = "idle" /\ intent'.state = "none"
    BY <2>2, <2>3, OpMoves, IdleType
  <2>o. op' \in Ops
    BY <2>6
  <2>b. MemoryOK'
    BY <2>1, <2>2, <2>o, IdleType, IParts DEF IInv, TypeOK, MemoryOK
  <2>c. HistoryOK'
    BY <2>1, <2>2 DEF IInv, TypeOK, HistoryOK
  <2>d. BudgetOK'
    BY <2>1, <2>2 DEF IInv, TypeOK, BudgetOK
  <2>e. Control'
    BY <2>2, <2>3, <2>4, <2>6 DEF Control, Restoring
  <2>f. GateInv'
    BY <2>2, <2>3, <2>4, <2>5, <2>6 DEF GateInv, Running, Restoring
  <2> QED
    BY <2>a, <2>b, <2>c, <2>d, <2>e, <2>f DEF IInv, TypeOK
<1>6. CASE Code
  <2>1. /\ op.pc = "code" /\ up
        /\ UNCHANGED <<transcript, log, branch, order, held, code, up, ledger, base, saved,
                       gate, sub, loaded, ghost, budget>>
    BY <1>6 DEF Code
  <2>2. ledger[op.i] \in Turns /\ ledger[op.i] \in 0..MaxTurns
    <3>1. ledger[op.i] \in Turns
      BY <2>1 DEF IInv, TypeOK, MemoryOK, Control
    <3> QED
      BY <3>1, RewindAssumption DEF Turns
  <2>3. \/ /\ undo' = [at |-> ledger[op.i], retain |-> op.scope = "code"]
           /\ op' = [op EXCEPT !.pc = "undoing"] /\ UNCHANGED <<ctx, intent>>
        \/ /\ op' = IF op.scope = "both" THEN [op EXCEPT !.pc = "arm"] ELSE Idle
           /\ UNCHANGED <<undo, ctx, intent>>
        \/ /\ UNCHANGED undo
           /\ op' = Idle /\ (ctx' = ctx \/ ctx' = op.orig)
              /\ IF op.scope = "both" THEN intent' = NoIntent ELSE intent' = intent
    BY <1>6 DEF Code, GiveUp
  <2>4. [at |-> ledger[op.i], retain |-> op.scope = "code"] \in [at : 0..MaxTurns, retain : BOOLEAN]
    <3>1. (op.scope = "code") \in BOOLEAN
      BY Zenon
    <3> QED
      BY <2>2, <3>1, Zenon
  <2>a. DiskOK'
    BY <2>1, <2>2, <2>3, <2>4, RestTypes, IParts DEF IInv, TypeOK, DiskOK
  <2>5. /\ up /\ sub = "idle" /\ op \in Ops /\ op.i \in 1..Len(ledger) /\ op.r \in 1..Len(asked)
        /\ ~op.settled /\ ~gate.pending /\ ~gate.diskDone
        /\ intent.state # "none" => intent.r \in 1..Len(asked)
    BY <2>1, InRestore DEF Restoring
  <2>6. /\ op.scope \in {"code", "both"} /\ (op.scope = "both" => intent.state = "unready")
        /\ op.scope = "code" => intent.state = "none"
    BY <2>1 DEF IInv, Control, GateInv
  <2>7. /\ op' \in Ops /\ ~op'.settled
        /\ \/ /\ op'.pc = "undoing" \/ (op'.pc = "arm" /\ op.scope = "both")
              /\ op'.scope = op.scope /\ op'.i = op.i /\ op'.r = op.r /\ intent' = intent
           \/ op'.pc = "idle" /\ intent'.state = "none"
    <3>1. CASE op' = [op EXCEPT !.pc = "undoing"] /\ intent' = intent
      BY <2>5, <3>1, OpMoves
    <3>2. CASE op.scope = "both" /\ op' = [op EXCEPT !.pc = "arm"] /\ intent' = intent
      BY <2>5, <3>2, OpMoves
    <3>3. CASE op' = Idle /\ (intent' = NoIntent \/ (op.scope = "code" /\ intent' = intent))
      BY <2>6, <3>3, IdleType
    <3> QED
      BY <2>3, <2>6, <3>1, <3>2, <3>3
  <2>o. op' \in Ops
    BY <2>7
  <2>b. MemoryOK'
    BY <2>1, <2>2, <2>3, <2>4, <2>o, IdleType, IParts DEF IInv, TypeOK, MemoryOK
  <2>c. HistoryOK'
    BY <2>1, <2>2, <2>3, <2>4 DEF IInv, TypeOK, HistoryOK
  <2>d. BudgetOK'
    BY <2>1, <2>2, <2>3, <2>4 DEF IInv, TypeOK, BudgetOK
  <2>e. Control'
    BY <2>1, <2>5, <2>6, <2>7 DEF Control, Restoring
  <2>f. GateInv'
    BY <2>1, <2>5, <2>6, <2>7 DEF GateInv, Running, Restoring
  <2> QED
    BY <2>a, <2>b, <2>c, <2>d, <2>e, <2>f DEF IInv, TypeOK
<1>7. CASE Undo
  <2>1. BudgetOK'
    BY <1>7, BudgetType DEF Undo, IInv
  <2>2. order' \subseteq Turns /\ held' \in [Turns -> SUBSET Turns] /\ code' \subseteq Turns
    <3>1. CASE Unwind(undo.at, undo.retain)
      BY <3>1, UnwindType DEF IInv
    <3>2. ASSUME UNCHANGED order, NEW done,
                 code' = code \ done, held' = [u \in Turns |-> held[u] \ done]
          PROVE  order' \subseteq Turns /\ held' \in [Turns -> SUBSET Turns] /\ code' \subseteq Turns
      BY <3>2 DEF IInv, TypeOK, DiskOK
    <3> QED
      BY <1>7, <3>1, <3>2 DEF Undo
  <2>3. /\ op.pc = "undoing" /\ up /\ undo' = NoUndo
        /\ UNCHANGED <<transcript, log, branch, up, ledger, base, saved, gate, sub, loaded, ghost>>
    BY <1>7 DEF Undo
  <2>4. \/ /\ op' = IF op.scope = "both" THEN [op EXCEPT !.pc = "arm"] ELSE Idle
           /\ UNCHANGED <<ctx, intent>>
        \/ /\ op' = Idle /\ (ctx' = ctx \/ ctx' = op.orig)
              /\ IF op.scope = "both" THEN intent' = NoIntent ELSE intent' = intent
    BY <1>7 DEF Undo, GiveUp
  <2>a. DiskOK'
    BY <2>1, <2>2, <2>3, <2>4, RestTypes, IParts DEF IInv, TypeOK, DiskOK
  <2>5. /\ up /\ sub = "idle" /\ op \in Ops /\ op.i \in 1..Len(ledger) /\ op.r \in 1..Len(asked)
        /\ ~op.settled /\ ~gate.pending /\ ~gate.diskDone
        /\ intent.state # "none" => intent.r \in 1..Len(asked)
    BY <2>3, InRestore DEF Restoring
  <2>6. /\ op.scope \in {"code", "both"} /\ (op.scope = "both" => intent.state = "unready")
        /\ op.scope = "code" => intent.state = "none"
    BY <2>3 DEF IInv, Control, GateInv
  <2>7. /\ op' \in Ops /\ ~op'.settled
        /\ \/ /\ op'.pc = "arm" /\ op.scope = "both"
              /\ op'.scope = op.scope /\ op'.i = op.i /\ op'.r = op.r /\ intent' = intent
           \/ op'.pc = "idle" /\ intent'.state = "none"
    <3>1. CASE op.scope = "both" /\ op' = [op EXCEPT !.pc = "arm"] /\ intent' = intent
      BY <2>5, <3>1, OpMoves
    <3>2. CASE op' = Idle /\ (intent' = NoIntent \/ (op.scope = "code" /\ intent' = intent))
      BY <2>6, <3>2, IdleType
    <3> QED
      BY <2>4, <2>6, <3>1, <3>2
  <2>o. op' \in Ops
    BY <2>7
  <2>b. MemoryOK'
    BY <2>1, <2>2, <2>3, <2>4, <2>o, IdleType, IParts DEF IInv, TypeOK, MemoryOK
  <2>c. HistoryOK'
    BY <2>1, <2>2, <2>3, <2>4 DEF IInv, TypeOK, HistoryOK
  <2>d. BudgetOK'
    BY <2>1, <2>2, <2>3, <2>4 DEF IInv, TypeOK, BudgetOK
  <2>e. Control'
    BY <2>3, <2>5, <2>6, <2>7 DEF Control, Restoring
  <2>f. GateInv'
    BY <2>3, <2>5, <2>6, <2>7 DEF GateInv, Running, Restoring
  <2> QED
    BY <2>a, <2>b, <2>c, <2>d, <2>e, <2>f DEF IInv, TypeOK
<1>8. CASE Arm
  <2>1. BudgetOK'
    BY <1>8, BudgetType DEF Arm, IInv
  <2>2. /\ op.pc = "arm" /\ up
        /\ \/ /\ intent' = [intent EXCEPT !.state = "ready"]
              /\ op' = [op EXCEPT !.pc = "save"] /\ UNCHANGED ctx
           \/ /\ op' = Idle /\ (ctx' = ctx \/ ctx' = op.orig)
              /\ IF op.scope = "both" THEN intent' = NoIntent ELSE intent' = intent
        /\ UNCHANGED <<transcript, log, branch, order, held, undo, code, up, ledger, base, saved,
                       gate, sub, loaded, ghost>>
    BY <1>8 DEF Arm, GiveUp
  <2>3. intent' = NoIntent \/ (intent'.r = intent.r /\ intent'.state \in {intent.state, "ready"})
    <3>1. op.scope = "both"
      BY <2>2 DEF IInv, Control
    <3>2. CASE intent' = [intent EXCEPT !.state = "ready"]
      BY <3>2 DEF IInv, TypeOK, DiskOK
    <3>3. intent' = [intent EXCEPT !.state = "ready"] \/ intent' = NoIntent
      BY <2>2, <3>1, Zenon
    <3> QED
      BY <3>2, <3>3
  <2>a. DiskOK'
    BY <2>1, <2>2, <2>3, RestTypes, IParts DEF IInv, TypeOK, DiskOK
  <2>4. /\ up /\ sub = "idle" /\ op \in Ops /\ op.i \in 1..Len(ledger) /\ op.r \in 1..Len(asked)
        /\ ~op.settled /\ ~gate.pending /\ ~gate.diskDone
        /\ intent.state # "none" => intent.r \in 1..Len(asked)
    BY <2>2, InRestore DEF Restoring
  <2>5. op.scope = "both" /\ intent.state = "unready"
    BY <2>2 DEF IInv, Control
  <2>6. /\ op' \in Ops /\ ~op'.settled
        /\ \/ /\ op'.pc = "save" /\ op'.scope = op.scope /\ op'.i = op.i /\ op'.r = op.r
              /\ intent' = [intent EXCEPT !.state = "ready"]
           \/ op'.pc = "idle" /\ intent' = NoIntent
    BY <2>2, <2>4, <2>5, OpMoves, IdleType
  <2>7. intent'.state # "none" => op'.pc = "save" /\ intent'.r \in 1..Len(asked)
    BY <2>3, <2>4, <2>5, <2>6, IdleType
  <2>o. op' \in Ops
    BY <2>6
  <2>b. MemoryOK'
    BY <2>1, <2>2, <2>3, <2>o, IdleType, IParts DEF IInv, TypeOK, MemoryOK
  <2>c. HistoryOK'
    BY <2>1, <2>2, <2>3 DEF IInv, TypeOK, HistoryOK
  <2>d. BudgetOK'
    BY <2>1, <2>2, <2>3 DEF IInv, TypeOK, BudgetOK
  <2>e. Control'
    BY <2>2, <2>4, <2>5, <2>6, <2>7 DEF Control, Restoring
  <2>f. GateInv'
    BY <2>2, <2>4, <2>5, <2>6, <2>7 DEF GateInv, Running, Restoring
  <2> QED
    BY <2>a, <2>b, <2>c, <2>d, <2>e, <2>f DEF IInv, TypeOK
<1>9. CASE ForceSave
  <2>1. BudgetOK'
    BY <1>9, BudgetType DEF ForceSave, IInv
  <2>2. transcript' \in Seq(Turns) /\ saved' \in Nat /\ stored' \subseteq Turns
    BY <1>9, SaveType DEF ForceSave, IInv, TypeOK, DiskOK, MemoryOK, HistoryOK
  <2>a. DiskOK'
    BY <1>9, <2>1, <2>2, RestTypes, IParts DEF ForceSave, IInv, TypeOK, DiskOK
  <2>3. /\ op.pc = "save" /\ op' = [op EXCEPT !.pc = "settle"] /\ up' = up
        /\ UNCHANGED <<intent, ledger, gate, sub, sent, asked>>
    BY <1>9 DEF ForceSave
  <2>4. /\ up /\ sub = "idle" /\ op \in Ops /\ op.i \in 1..Len(ledger) /\ op.r \in 1..Len(asked)
        /\ ~op.settled /\ ~gate.pending /\ ~gate.diskDone
        /\ intent.state # "none" => intent.r \in 1..Len(asked)
    BY <2>3, InRestore DEF Restoring
  <2>5. op.scope # "code"
    BY <2>3 DEF IInv, Control
  <2>6. /\ op' \in Ops /\ ~op'.settled
        /\ op'.pc = "settle" /\ op'.scope = op.scope /\ op'.i = op.i /\ op'.r = op.r
    BY <2>3, <2>4, OpMoves
  <2>o. op' \in Ops
    BY <2>6
  <2>b. MemoryOK'
    BY <1>9, <2>1, <2>2, <2>o, IdleType, IParts DEF ForceSave, IInv, TypeOK, MemoryOK
  <2>c. HistoryOK'
    BY <1>9, <2>1, <2>2 DEF ForceSave, IInv, TypeOK, HistoryOK
  <2>d. BudgetOK'
    BY <1>9, <2>1, <2>2 DEF ForceSave, IInv, TypeOK, BudgetOK
  <2>e. Control'
    BY <2>3, <2>4, <2>5, <2>6 DEF Control, Restoring
  <2>f. GateInv'
    BY <2>3, <2>4, <2>5, <2>6 DEF GateInv, Running, Restoring
  <2> QED
    BY <2>a, <2>b, <2>c, <2>d, <2>e, <2>f DEF IInv, TypeOK
<1>10. CASE Settle
  <2>1. BudgetOK'
    BY <1>10, BudgetType DEF Settle, IInv
  <2>2. PICK k \in 0..3 : /\ Reconcile(k)
                         /\ \/ /\ k = 3 /\ saved' = Len(op.plan)
                               /\ gate' = [gate EXCEPT !.pending = FALSE, !.diskDone = FALSE]
                               /\ op' = [op EXCEPT !.pc = "fold", !.settled = TRUE]
                            \/ /\ k # 3 /\ UNCHANGED saved
                               /\ gate' = [gate EXCEPT !.pending = TRUE, !.diskDone = FALSE]
                               /\ op' = [op EXCEPT !.pc = "fold", !.clean = FALSE]
    BY <1>10 DEF Settle
  <2>3. /\ transcript' \in Seq(Turns) /\ stored' \subseteq Turns
        /\ shown' \in Seq(Turns) /\ marked' \subseteq Restores
        /\ intent' = IF k = 3 THEN NoIntent ELSE intent
    BY <2>2, ReconcileType DEF IInv
  <2>4. saved' \in Nat
    BY <2>2 DEF IInv, TypeOK, MemoryOK
  <2>5. /\ op.pc = "settle" /\ up
        /\ UNCHANGED <<branch, order, held, undo, code, up, ctx, ledger, base, sub, loaded,
                       sent, tracked, asked, reported, cleared>>
    BY <1>10 DEF Settle
  <2>6. k = 3 => intent'.state = "none" /\ intent' \in {NoIntent}
    BY <2>3, IdleType
  <2>a. DiskOK'
    BY <2>5, <2>6, <2>1, <2>2, <2>3, <2>4, RestTypes, IParts DEF IInv, TypeOK, DiskOK
  <2>7. /\ up /\ sub = "idle" /\ op \in Ops /\ op.i \in 1..Len(ledger) /\ op.r \in 1..Len(asked)
        /\ ~op.settled /\ ~gate.pending /\ ~gate.diskDone
        /\ intent.state # "none" => intent.r \in 1..Len(asked)
    BY <2>5, InRestore DEF Restoring
  <2>8. /\ op' \in Ops /\ op'.pc = "fold" /\ op'.i = op.i /\ op'.r = op.r
        /\ op'.settled => k = 3
    <3>1. CASE k = 3 /\ op' = [op EXCEPT !.pc = "fold", !.settled = TRUE]
      BY <2>7, <3>1 DEF Ops
    <3>2. CASE k # 3 /\ op' = [op EXCEPT !.pc = "fold", !.clean = FALSE]
      BY <2>7, <3>2 DEF Ops
    <3> QED
      BY <2>2, <3>1, <3>2
  <2>9. ~gate'.diskDone /\ (k # 3 => gate'.pending)
    BY <2>2 DEF IInv, TypeOK, MemoryOK
  <2>10. intent'.state # "none" => k # 3 /\ intent' = intent
    BY <2>3, <2>6
  <2>o. op' \in Ops
    BY <2>8
  <2>b. MemoryOK'
    BY <2>5, <2>6, <2>1, <2>2, <2>3, <2>4, <2>o, IdleType, IParts DEF IInv, TypeOK, MemoryOK
  <2>c. HistoryOK'
    BY <2>5, <2>6, <2>1, <2>2, <2>3, <2>4 DEF IInv, TypeOK, HistoryOK
  <2>d. BudgetOK'
    BY <2>5, <2>6, <2>1, <2>2, <2>3, <2>4 DEF IInv, TypeOK, BudgetOK
  <2>e. Control'
    BY <2>5, <2>7, <2>8, <2>10 DEF Control, Restoring
  <2>f. GateInv'
    BY <2>5, <2>7, <2>8, <2>9, <2>10 DEF GateInv, Running, Restoring
  <2> QED
    BY <2>a, <2>b, <2>c, <2>d, <2>e, <2>f DEF IInv, TypeOK
<1>11. CASE Finish
  <2>1. BudgetOK'
    BY <1>11, BudgetType DEF Finish, IInv
  <2>2. order' \subseteq Turns /\ held' \in [Turns -> SUBSET Turns]
    BY <1>11, FoldType DEF Finish, IInv, TypeOK, DiskOK
  <2>3. ledger' \in Seq(Turns)
    <3>1. op.i - 1 \in Nat /\ ledger \in Seq(Turns)
      BY <1>11, IParts DEF Finish, IInv, TypeOK, MemoryOK, Control
    <3>2. ledger' = Take(ledger, op.i - 1)
      BY <1>11, Zenon DEF Finish
    <3> QED
      BY <3>1, <3>2, TakeType
  <2>4. op.r \in Restores
    BY <1>11, RewindAssumption DEF Finish, IInv, TypeOK, HistoryOK, Control, Restores
  <2>5. branch' = branch \/ branch' = NoBranch
    BY <1>11 DEF Finish
  <2>6. reported' \subseteq Restores
    BY <1>11, <2>4 DEF Finish, IInv, TypeOK, HistoryOK
  <2>7. \/ gate' = gate \/ gate' = [gate EXCEPT !.branchDue = FALSE]
        \/ op.settled /\ gate' = [gate EXCEPT !.pending = TRUE, !.diskDone = TRUE]
    BY <1>11 DEF Finish
  <2>8. /\ op.pc = "fold" /\ up /\ op' = Idle
        /\ UNCHANGED <<transcript, log, intent, undo, code, up, ctx, base, saved, sub, loaded,
                       sent, tracked, asked, stored, cleared>>
    BY <1>11 DEF Finish
  <2>a. DiskOK'
    BY <2>8, <2>1, <2>2, <2>3, <2>4, <2>5, <2>6, <2>7, RestTypes, IParts DEF IInv, TypeOK, DiskOK
  <2>o. op' \in Ops
    BY <2>8, <2>1, <2>2, <2>3, <2>4, <2>5, <2>6, <2>7, IdleType, IParts DEF IInv, TypeOK, MemoryOK, Ops
  <2>b. MemoryOK'
    BY <2>8, <2>1, <2>2, <2>3, <2>4, <2>5, <2>6, <2>7, <2>o, IdleType, IParts DEF IInv, TypeOK, MemoryOK
  <2>c. HistoryOK'
    BY <2>8, <2>1, <2>2, <2>3, <2>4, <2>5, <2>6, <2>7 DEF IInv, TypeOK, HistoryOK
  <2>d. BudgetOK'
    BY <2>8, <2>1, <2>2, <2>3, <2>4, <2>5, <2>6, <2>7 DEF IInv, TypeOK, BudgetOK
  <2>e. Control'
    BY <2>8, <2>1, <2>2, <2>3, <2>4, <2>5, <2>6, <2>7, IdleType, IParts DEF IInv, TypeOK, MemoryOK, Ops, Control, Restoring
  <2>f. GateInv'
    BY <2>8, <2>1, <2>2, <2>3, <2>4, <2>5, <2>6, <2>7, IdleType, IParts DEF IInv, TypeOK, MemoryOK, Ops, Control, GateInv, Running, Restoring
  <2> QED
    BY <2>a, <2>b, <2>c, <2>d, <2>e, <2>f DEF IInv, TypeOK
<1> QED
  BY <1>1, <1>2, <1>3, <1>4, <1>5, <1>6, <1>7, <1>8, <1>9, <1>10, <1>11 DEF Restore

-------------------------------------------------------------------------------
(***************************************************************************)
(* So does everything else.                                                *)
(***************************************************************************)
LEMMA OtherStep ==
  IInv /\ (Ask \/ Clear \/ Crash \/ Boot \/ BootRefused \/ UNCHANGED vars) => IInv'
<1> SUFFICES ASSUME IInv, Ask \/ Clear \/ Crash \/ Boot \/ BootRefused \/ UNCHANGED vars PROVE IInv'
  OBVIOUS
<1> USE DEF disk, log, ghost, budget
<1>1. CASE Ask
  <2>1. PICK scope \in Scopes, i \in 1..Len(ledger) :
          op' = [Idle EXCEPT !.pc = IF gate.pending THEN "retry" ELSE "start", !.scope = scope, !.i = i]
    BY <1>1 DEF Ask
  <2>2. /\ up /\ op.pc = "idle" /\ sub = "idle" /\ Len(asked) < MaxRestores
        /\ UNCHANGED <<disk, up, ctx, ledger, base, saved, gate, sub, loaded, ghost, budget>>
    BY <1>1 DEF Ask
  <2>3. i \in Nat /\ i \in 1..Len(ledger)
    BY DEF IInv, TypeOK, MemoryOK
  <2>4. /\ op' \in Ops /\ op'.i = i /\ op'.scope = scope /\ ~op'.settled
        /\ op'.pc = IF gate.pending THEN "retry" ELSE "start"
    BY <2>1, <2>3, IdleType DEF Ops
  <2>a. DiskOK'
    BY <2>2, <2>3, <2>4, RestTypes, IParts DEF IInv, TypeOK, DiskOK
  <2>o. op' \in Ops
    BY <2>2, <2>3, <2>4, IdleType, IParts DEF IInv, TypeOK, MemoryOK, Ops
  <2>b. MemoryOK'
    BY <2>2, <2>3, <2>4, <2>o, IdleType, IParts DEF IInv, TypeOK, MemoryOK
  <2>c. HistoryOK'
    BY <2>2, <2>3, <2>4 DEF IInv, TypeOK, HistoryOK
  <2>d. BudgetOK'
    BY <2>2, <2>3, <2>4 DEF IInv, TypeOK, BudgetOK
  <2>e. Control'
    BY <2>2, <2>3, <2>4, IdleType, IParts DEF IInv, TypeOK, MemoryOK, Ops, Control, Restoring
  <2>f. GateInv'
    BY <2>2, <2>3, <2>4, IdleType, IParts DEF IInv, TypeOK, MemoryOK, Ops, Control, GateInv, Running, Restoring
  <2> QED
    BY <2>a, <2>b, <2>c, <2>d, <2>e, <2>f DEF IInv, TypeOK
<1>2. CASE Clear
  <2>1. <<>> \in Seq(Turns) /\ ToSet(ctx) \subseteq Turns
    BY ToSetType DEF IInv, TypeOK, MemoryOK
  <2>2. clears + 1 \in 0..MaxClears
    BY <1>2, RewindAssumption DEF Clear, IInv, TypeOK, BudgetOK
  <2>a. DiskOK'
    BY <1>2, <2>1, <2>2, RestTypes, IParts DEF Clear, IInv, TypeOK, DiskOK
  <2>o. op' \in Ops
    BY <1>2, <2>1, <2>2, IdleType, IParts DEF Clear, IInv, TypeOK, MemoryOK, Ops
  <2>b. MemoryOK'
    BY <1>2, <2>1, <2>2, <2>o, IdleType, IParts DEF Clear, IInv, TypeOK, MemoryOK
  <2>c. HistoryOK'
    BY <1>2, <2>1, <2>2 DEF Clear, IInv, TypeOK, HistoryOK
  <2>d. BudgetOK'
    BY <1>2, <2>1, <2>2 DEF Clear, IInv, TypeOK, BudgetOK
  <2>e. Control'
    BY <1>2, <2>1, <2>2, IdleType, IParts DEF Clear, IInv, TypeOK, MemoryOK, Ops, Control, Restoring
  <2>f. GateInv'
    BY <1>2, <2>1, <2>2, IdleType, IParts DEF Clear, IInv, TypeOK, MemoryOK, Ops, Control, GateInv, Running, Restoring
  <2> QED
    BY <2>a, <2>b, <2>c, <2>d, <2>e, <2>f DEF IInv, TypeOK
<1>3. CASE Crash
  <2>1. <<>> \in Seq(Turns)
    OBVIOUS
  <2>2. crashes + 1 \in 0..MaxCrashes
    BY <1>3, RewindAssumption DEF Crash, IInv, TypeOK, BudgetOK
  <2>a. DiskOK'
    BY <1>3, <2>1, <2>2, RestTypes, IParts DEF Crash, IInv, TypeOK, DiskOK
  <2>o. op' \in Ops
    BY <1>3, <2>1, <2>2, IdleType, IParts DEF Crash, IInv, TypeOK, MemoryOK, Ops
  <2>b. MemoryOK'
    BY <1>3, <2>1, <2>2, <2>o, IdleType, IParts DEF Crash, IInv, TypeOK, MemoryOK
  <2>c. HistoryOK'
    BY <1>3, <2>1, <2>2 DEF Crash, IInv, TypeOK, HistoryOK
  <2>d. BudgetOK'
    BY <1>3, <2>1, <2>2 DEF Crash, IInv, TypeOK, BudgetOK
  <2>e. Control'
    BY <1>3, <2>1, <2>2, IdleType, IParts DEF Crash, IInv, TypeOK, MemoryOK, Ops, Control, Restoring
  <2>f. GateInv'
    BY <1>3, <2>1, <2>2, IdleType, IParts DEF Crash, IInv, TypeOK, MemoryOK, Ops, Control, GateInv, Running, Restoring
  <2> QED
    BY <2>a, <2>b, <2>c, <2>d, <2>e, <2>f DEF IInv, TypeOK
<1>4. CASE Boot
  <2>1. PICK k \in 0..3, d \in BOOLEAN :
           /\ Reconcile(k)
           /\ \/ k = 3 /\ gate' = [pending |-> d, diskDone |-> d, branchDue |-> d]
              \/ k # 3 /\ gate' = [pending |-> TRUE, diskDone |-> FALSE, branchDue |-> d]
    <3>1. Due \in BOOLEAN
      BY Zenon DEF Due
    <3> QED
      BY <1>4, <3>1 DEF Boot, Load
  <2>2. /\ transcript' \in Seq(Turns) /\ stored' \subseteq Turns
        /\ shown' \in Seq(Turns) /\ marked' \subseteq Restores
        /\ intent' = IF k = 3 THEN NoIntent ELSE intent
    BY <2>1, ReconcileType DEF IInv
  <2>3. BudgetOK'
    BY <1>4, BudgetType DEF Boot, Load, IInv
  <2>4. order' \subseteq Turns /\ held' \in [Turns -> SUBSET Turns] /\ code' \subseteq Turns
    BY <1>4, FoldType, UnwindType DEF Boot, IInv, TypeOK, DiskOK
  <2>5. branch' \in {branch, NoBranch} /\ undo' \in {undo, NoUndo}
    BY <1>4, Zenon DEF Boot
  <2>6. ledger' \in Seq(Turns) /\ base' \in Nat /\ ctx' = transcript'
    <3>1. <<>> \in Seq(Turns) /\ Len(transcript') \in Nat
      BY <2>2
    <3>2. /\ ctx' = transcript'
          /\ (ledger' = shown' /\ base' = 0) \/ (ledger' = <<>> /\ base' = Len(transcript'))
      BY <1>4, Zenon DEF Boot
    <3>3. CASE ledger' = shown' /\ base' = 0
      BY <2>2, <3>2, <3>3
    <3>4. CASE ledger' = <<>> /\ base' = Len(transcript')
      BY <3>1, <3>2, <3>4
    <3> QED
      BY <3>2, <3>3, <3>4
  <2>8. UNCHANGED <<saved, sub, op, loaded, sent, tracked, asked, reported, cleared>> /\ up' = TRUE /\ ~up
    BY <1>4 DEF Boot
  <2>9. k = 3 => intent'.state = "none"
    BY <2>2, IdleType
  <2>10. gate' \in [pending : BOOLEAN, diskDone : BOOLEAN, branchDue : BOOLEAN]
    <3>1. /\ [pending |-> d, diskDone |-> d, branchDue |-> d]
              \in [pending : BOOLEAN, diskDone : BOOLEAN, branchDue : BOOLEAN]
          /\ [pending |-> TRUE, diskDone |-> FALSE, branchDue |-> d]
              \in [pending : BOOLEAN, diskDone : BOOLEAN, branchDue : BOOLEAN]
      BY Zenon
    <3> QED
      BY <2>1, <3>1, Zenon
  <2> HIDE DEF Due
  <2>a. DiskOK'
    BY <2>9, <2>10, <2>1, <2>2, <2>3, <2>4, <2>5, <2>6, <2>8, RestTypes, IParts DEF IInv, TypeOK, DiskOK
  <2>o. op' \in Ops
    BY <2>9, <2>10, <2>1, <2>2, <2>3, <2>4, <2>5, <2>6, <2>8, IdleType, IParts DEF IInv, TypeOK, MemoryOK, Ops
  <2>b. MemoryOK'
    BY <2>9, <2>10, <2>1, <2>2, <2>3, <2>4, <2>5, <2>6, <2>8, <2>o, IdleType, IParts DEF IInv, TypeOK, MemoryOK
  <2>c. HistoryOK'
    BY <2>9, <2>10, <2>1, <2>2, <2>3, <2>4, <2>5, <2>6, <2>8 DEF IInv, TypeOK, HistoryOK
  <2>d. BudgetOK'
    BY <2>9, <2>10, <2>1, <2>2, <2>3, <2>4, <2>5, <2>6, <2>8 DEF IInv, TypeOK, BudgetOK
  <2>e. Control'
    BY <2>9, <2>10, <2>1, <2>2, <2>3, <2>4, <2>5, <2>6, <2>8, IdleType, IParts DEF IInv, TypeOK, MemoryOK, Ops, Control, Restoring
  <2>11. op'.pc = "idle" /\ sub' = "idle"
    BY <2>8 DEF IInv, Control
  <2>12. gate'.diskDone => gate'.pending /\ intent'.state = "none"
    BY <2>1, <2>9
  <2>13. intent'.state # "none" => gate'.pending
    BY <2>1, <2>9
  <2>f. GateInv'
    BY <2>11, <2>12, <2>13 DEF GateInv, Running, Restoring
  <2> QED
    BY <2>a, <2>b, <2>c, <2>d, <2>e, <2>f DEF IInv, TypeOK
<1>5. CASE BootRefused
  <2>1. /\ transcript' \in Seq(Turns) /\ stored' \subseteq Turns
        /\ shown' \in Seq(Turns) /\ marked' \subseteq Restores
        /\ intent' = IF 3 = 3 THEN NoIntent ELSE intent
    BY <1>5, ReconcileType DEF BootRefused, IInv
  <2>a. DiskOK'
    BY <1>5, <2>1, RestTypes, IParts DEF BootRefused, IInv, TypeOK, DiskOK, memory
  <2>o. op' \in Ops
    BY <1>5, <2>1, IdleType, IParts DEF BootRefused, IInv, TypeOK, MemoryOK, Ops, memory
  <2>b. MemoryOK'
    BY <1>5, <2>1, <2>o, IdleType, IParts DEF BootRefused, IInv, TypeOK, MemoryOK, memory
  <2>c. HistoryOK'
    BY <1>5, <2>1 DEF BootRefused, IInv, TypeOK, HistoryOK, memory
  <2>d. BudgetOK'
    BY <1>5, <2>1 DEF BootRefused, IInv, TypeOK, BudgetOK, memory, NoFault
  <2>e. Control'
    BY <1>5, <2>1, IdleType, IParts DEF BootRefused, IInv, TypeOK, MemoryOK, Ops, Control, Restoring, memory
  <2>f. GateInv'
    BY <1>5, <2>1, IdleType, IParts DEF BootRefused, IInv, TypeOK, MemoryOK, Ops, Control, GateInv, Running, Restoring, memory
  <2> QED
    BY <2>a, <2>b, <2>c, <2>d, <2>e, <2>f DEF IInv, TypeOK
<1>6. CASE UNCHANGED vars
  <2>a. DiskOK'
    BY <1>6, RestTypes, IParts DEF vars, memory, IInv, TypeOK, DiskOK
  <2>o. op' \in Ops
    BY <1>6, IdleType, IParts DEF vars, memory, IInv, TypeOK, MemoryOK, Ops
  <2>b. MemoryOK'
    BY <1>6, <2>o, IdleType, IParts DEF vars, memory, IInv, TypeOK, MemoryOK
  <2>c. HistoryOK'
    BY <1>6 DEF vars, memory, IInv, TypeOK, HistoryOK
  <2>d. BudgetOK'
    BY <1>6 DEF vars, memory, IInv, TypeOK, BudgetOK
  <2>e. Control'
    BY <1>6, IdleType, IParts DEF vars, memory, IInv, TypeOK, MemoryOK, Ops, Control, Restoring
  <2>f. GateInv'
    BY <1>6, IdleType, IParts DEF vars, memory, IInv, TypeOK, MemoryOK, Ops, Control, GateInv, Running, Restoring
  <2> QED
    BY <2>a, <2>b, <2>c, <2>d, <2>e, <2>f DEF IInv, TypeOK
<1> QED
  BY <1>1, <1>2, <1>3, <1>4, <1>5, <1>6

-------------------------------------------------------------------------------
(***************************************************************************)
(* The theorems.                                                           *)
(***************************************************************************)
LEMMA Invariance == Spec => []IInv
<1>1. IInv /\ [Next]_vars => IInv'
  BY SubmitStep, RestoreStep, OtherStep DEF Next
<1> QED
  BY <1>1, InitHolds, PTL DEF Spec

\* Every value of every variable, on disk and in memory, is one the code can hold:
\* an index into the ledger, the number of a restore, a prefix of a conversation.
THEOREM TypeCorrect == Spec => []TypeOK
<1>1. IInv => TypeOK
  BY DEF IInv
<1> QED
  BY <1>1, Invariance, PTL

\* However restores, retries, failures and crashes are mixed, no prompt is admitted,
\* shown or run while a restore is still to be finished on disk.
THEOREM GateHolds == Spec => []GateHoldsBack
<1>1. IInv => GateHoldsBack
  BY DEF IInv, TypeOK, MemoryOK, Control, GateInv, GateHoldsBack, Running, Restoring
<1> QED
  BY <1>1, Invariance, PTL

-------------------------------------------------------------------------------
(***************************************************************************)
(* What a rewind leaves behind.  Turns are numbered as they are sent, so   *)
(* that a new one is never one that a rewind dropped.                      *)
(***************************************************************************)
Known == 1..(IF sub = "begun" THEN sent - 1 ELSE sent)

Fresh ==
    /\ ToSet(transcript) \subseteq Known /\ ToSet(shown) \subseteq Known
    /\ ToSet(ctx) \subseteq Known /\ ToSet(ledger) \subseteq Known
    /\ ToSet(loaded) \subseteq Known /\ ToSet(intent.msgs) \subseteq Known
    /\ ToSet(op.plan) \subseteq Known /\ ToSet(op.orig) \subseteq Known
    /\ \A r \in DOMAIN asked : asked[r].dropped \subseteq Known /\ asked[r].first \in Known

\* The live context has been sliced, and the restore still has to be finished on disk.
Committed ==
    \/ op.pc \in {"save", "settle"}
    \/ op.scope = "both" /\ op.pc \in {"code", "undoing", "arm"}

\* The intent on disk is that of the restore under way, which no marker names yet.
Transit ==
    /\ marked \subseteq DOMAIN asked
    /\ op.pc \in Restoring =>
         asked[op.r].scope = op.scope /\ asked[op.r].first = ledger[op.i]
    /\ op.pc \in Restoring /\ op.scope # "code" =>
         /\ intent.state # "none" /\ op.r = intent.r /\ op.plan = intent.msgs
         /\ op.r \notin marked
    /\ op.pc \in {"save", "settle"} => intent.state = "ready"
    /\ op.pc \in {"stage", "context"} /\ op.scope = "conversation" => intent.state = "ready"
    /\ Committed => ctx = op.plan
    /\ op.pc = "undoing" => undo.at = ledger[op.i] /\ (undo.retain <=> op.scope = "code")

\* A conversation tells the story of the markers: it holds no turn they drop, and
\* every stored turn that neither they nor /clear took.  AgreesAfter: it will,
\* once the marker of restore r is written.
Agrees(q) ==
    /\ ToSet(q) \cap Dropped = {}
    /\ stored \ (Dropped \cup cleared) \subseteq ToSet(q)

AgreesAfter(q, r) ==
    /\ ToSet(q) \cap (Dropped \cup asked[r].dropped) = {}
    /\ stored \ (Dropped \cup cleared \cup asked[r].dropped) \subseteq ToSet(q)

Story ==
    /\ ToSet(transcript) \subseteq stored /\ ToSet(transcript) \cap Dropped = {}
    /\ intent.state # "ready" \/ op.pc \in {"stage", "context"} => Agrees(transcript)
    /\ intent.state # "none" => AgreesAfter(intent.msgs, intent.r)
    /\ up /\ ~gate.pending /\ ~Committed => Agrees(ctx)
    /\ op.pc \in {"context", "code", "undoing", "arm"} /\ op.scope = "both" => Agrees(op.orig)
    /\ sub = "apply" \/ op.pc = "apply" => Agrees(loaded)

\* The code half of a combined restore comes before its intent can be finished.
CodeInv ==
    /\ CodeGoesFirst
    /\ intent.state = "ready" /\ asked[intent.r].scope = "both" =>
         asked[intent.r].first \notin order
    /\ op.pc = "arm" => ledger[op.i] \notin order

\* As long as nothing failed: where the four copies of the history stand.
Clean == faults = 0 /\ crashes = 0 /\ clears = 0

OneHistory ==
    /\ up /\ base = 0 /\ (gate.pending => gate.diskDone)
    /\ sub # "running" /\ op.pc \notin {"settle", "fold"} =>
         transcript = ledger /\ shown = ledger /\ saved = Len(ledger)
    /\ sub # "running" /\ op.pc # "fold" /\ ~Committed => ctx = ledger
    /\ sub = "running" =>
         /\ shown = ctx /\ ledger = ctx
         /\ (transcript = ctx /\ saved = Len(ctx)) \/ saved < Len(ctx)
    /\ sub = "apply" \/ op.pc = "apply" => loaded = ledger
    /\ op.pc \in Restoring /\ op.scope # "code" =>
         op.plan = Take(ledger, op.i - 1) /\ intent.keep = op.i - 1
    /\ op.pc \in {"context", "code", "undoing", "arm"} /\ op.scope = "both" => op.orig = ledger
    /\ op.pc = "settle" => shown = ledger /\ transcript = op.plan
    /\ op.pc = "fold" =>
         /\ shown = Take(ledger, op.i - 1) /\ transcript = shown /\ ctx = shown
         /\ saved = Len(shown)

RInv == Transit /\ Fresh /\ Story /\ CodeInv /\ (Clean => OneHistory)
-------------------------------------------------------------------------------
(***************************************************************************)
(* The sets of turns the invariant talks about.                            *)
(***************************************************************************)
LEMMA SetsOfTurns ==
  ASSUME NEW q \in Seq(Turns)
  PROVE  /\ ToSet(<<>>) = {}
         /\ \A k \in Nat : ToSet(Take(q, k)) \subseteq ToSet(q)
         /\ \A t \in Turns : ToSet(Append(q, t)) = ToSet(q) \cup {t}
<1>1. DOMAIN q = 1..Len(q) /\ Len(q) \in Nat
  OBVIOUS
<1>2. ASSUME NEW k \in Nat PROVE ToSet(Take(q, k)) \subseteq ToSet(q)
  <2> DEFINE p == Take(q, k)
  <2>1. /\ DOMAIN p \subseteq DOMAIN q
        /\ \A i \in DOMAIN p : p[i] = q[i]
    BY <1>1 DEF Take
  <2> HIDE DEF p
  <2>2. ToSet(p) \subseteq ToSet(q)
    BY <2>1 DEF ToSet
  <2> QED
    BY <2>2 DEF p
<1>3. ASSUME NEW t \in Turns PROVE ToSet(Append(q, t)) = ToSet(q) \cup {t}
  <2> DEFINE p == Append(q, t)
  <2>1. /\ DOMAIN p = 1..(Len(q) + 1) /\ p[Len(q) + 1] = t
        /\ \A i \in 1..Len(q) : p[i] = q[i]
    OBVIOUS
  <2>2. \A i \in 1..(Len(q) + 1) : i \in 1..Len(q) \/ i = Len(q) + 1
    BY <1>1
  <2>3. 1..Len(q) \subseteq 1..(Len(q) + 1) /\ Len(q) + 1 \in 1..(Len(q) + 1)
    BY <1>1
  <2> HIDE DEF p
  <2>4. ToSet(p) \subseteq ToSet(q) \cup {t}
    BY <1>1, <2>1, <2>2 DEF ToSet
  <2>5. ToSet(q) \cup {t} \subseteq ToSet(p)
    BY <1>1, <2>1, <2>3 DEF ToSet
  <2> QED
    BY <2>4, <2>5 DEF p
<1>4. ToSet(<<>>) = {}
  BY DEF ToSet
<1> QED
  BY <1>2, <1>3, <1>4

LEMMA AllTypes ==
  ASSUME TypeOK
  PROVE  /\ transcript \in Seq(Turns) /\ shown \in Seq(Turns) /\ ctx \in Seq(Turns)
         /\ ledger \in Seq(Turns) /\ loaded \in Seq(Turns) /\ intent.msgs \in Seq(Turns)
         /\ op.plan \in Seq(Turns) /\ op.orig \in Seq(Turns)
         /\ op.i \in Nat /\ base \in Nat /\ saved \in Nat /\ sent \in Nat
         /\ Len(asked) \in Nat /\ DOMAIN asked = 1..Len(asked)
         /\ intent.r \in Nat /\ intent.keep \in Nat
         /\ faults \in Nat /\ crashes \in Nat /\ clears \in Nat
         /\ op \in Ops /\ op.scope \in Scopes
  BY RewindAssumption DEF TypeOK, DiskOK, MemoryOK, HistoryOK, BudgetOK, Ops

\* What was dropped stays the same as long as no marker is written.
LEMMA DroppedKept ==
  ASSUME UNCHANGED <<asked, marked>>
  PROVE  Dropped' = Dropped
  BY DEF Dropped

\* A restore that is asked for changes nothing of those before it.
LEMMA DroppedByOthers ==
  ASSUME TypeOK, marked \subseteq DOMAIN asked, UNCHANGED marked,
         NEW e, asked' = Append(asked, e)
  PROVE  /\ Dropped' = Dropped /\ DOMAIN asked' = 1..(Len(asked) + 1)
         /\ asked'[Len(asked) + 1] = e /\ Len(asked') = Len(asked) + 1
         /\ \A r \in DOMAIN asked : asked'[r] = asked[r]
<1>1. asked \in Seq([scope : Scopes, first : Turns, dropped : SUBSET Turns]) /\ Len(asked) \in Nat
      /\ DOMAIN asked = 1..Len(asked)
  BY DEF TypeOK, HistoryOK
<1>2. /\ DOMAIN asked' = 1..(Len(asked) + 1)
      /\ asked'[Len(asked) + 1] = e /\ Len(asked') = Len(asked) + 1
      /\ \A r \in DOMAIN asked : asked'[r] = asked[r]
  BY <1>1
<1>3. \A r \in marked : asked'[r].dropped = asked[r].dropped
  BY <1>2
<1>4. Dropped' = Dropped
  BY <1>3 DEF Dropped
<1> QED
  BY <1>2, <1>4

\* A marker drops the turns of its restore.
LEMMA DroppedMore ==
  ASSUME NEW r, UNCHANGED asked, marked' = marked \cup {r}
  PROVE  Dropped' = Dropped \cup asked[r].dropped
  BY DEF Dropped

\* The spent budget never shrinks: what is clean after a step was clean before it.
LEMMA StillClean ==
  ASSUME TypeOK, Clean', \/ UNCHANGED budget \/ \E p \in FaultPoints : Fault(p)
  PROVE  Clean /\ UNCHANGED budget
<1>1. ASSUME NEW p \in FaultPoints, Fault(p) PROVE FALSE
  BY <1>1, AllTypes DEF Clean, Fault
<1> QED
  BY <1>1 DEF Clean, budget

-------------------------------------------------------------------------------
LEMMA StoryBegins == Init => RInv
<1> SUFFICES ASSUME Init PROVE RInv
  OBVIOUS
<1>1. ToSet(<<>>) = {}
  BY DEF ToSet
<1>2. /\ op.pc = "idle" /\ op.scope = "code" /\ op.plan = <<>> /\ op.orig = <<>>
      /\ intent.state = "none" /\ intent.msgs = <<>> /\ gate.pending = FALSE
      /\ DOMAIN asked = {} /\ marked = {} /\ sub = "idle"
  BY DEF Init, Idle, NoIntent, Open
<1>3. Dropped = {} /\ cleared = {} /\ stored = {}
  BY <1>2 DEF Init, Dropped
<1>4. Transit
  BY <1>2 DEF Transit, Restoring, Committed
<1>5. Fresh
  BY <1>1, <1>2 DEF Init, Fresh
<1>6. Story
  BY <1>1, <1>2, <1>3 DEF Init, Story, Agrees
<1>7. CodeInv
  BY <1>2 DEF CodeInv, CodeGoesFirst
<1>8. OneHistory
  BY <1>2 DEF Init, OneHistory, Restoring, Committed
<1> QED
  BY <1>4, <1>5, <1>6, <1>7, <1>8 DEF RInv

-------------------------------------------------------------------------------
(***************************************************************************)
(* What the steps share.                                                   *)
(***************************************************************************)
LEMMA KnownGrows ==
  ASSUME TypeOK, sent' = sent, sub' # "begun" \/ sub = "begun"
  PROVE  Known \subseteq Known'
<1>1. sent \in Nat
  BY AllTypes
<1> QED
  BY <1>1 DEF Known

LEMMA KnownSame ==
  ASSUME sent' = sent, sub' = "begun" <=> sub = "begun"
  PROVE  Known' = Known
  BY DEF Known

\* A reconciliation leaves a transcript without rewound turns; a complete one, or one
\* of an intent that was not ready, leaves a transcript that tells the markers' story.
LEMMA ReconcileStory ==
  ASSUME IInv, RInv, NEW k \in 0..3, Reconcile(k), UNCHANGED <<asked, cleared>>
  PROVE  /\ marked' \subseteq DOMAIN asked
         /\ ToSet(transcript') \subseteq stored' /\ ToSet(transcript') \cap Dropped' = {}
         /\ intent' = IF k = 3 THEN NoIntent ELSE intent
         /\ k = 3 \/ intent.state # "ready" =>
              stored' \ (Dropped' \cup cleared) \subseteq ToSet(transcript')
         /\ intent.state # "none" =>
              /\ ToSet(intent.msgs) \cap (Dropped' \cup asked[intent.r].dropped) = {}
              /\ stored' \ (Dropped' \cup cleared \cup asked[intent.r].dropped)
                    \subseteq ToSet(intent.msgs)
         /\ \A r \in marked' : asked[r].scope = "both" => asked[r].first \notin order
         /\ ToSet(transcript') \subseteq Known /\ ToSet(shown') \subseteq Known
<1>1. /\ marked \subseteq DOMAIN asked /\ ToSet(transcript) \subseteq stored
      /\ ToSet(transcript) \cap Dropped = {}
      /\ intent.state # "ready" => stored \ (Dropped \cup cleared) \subseteq ToSet(transcript)
      /\ intent.state # "none" =>
              /\ ToSet(intent.msgs) \cap (Dropped \cup asked[intent.r].dropped) = {}
              /\ stored \ (Dropped \cup cleared \cup asked[intent.r].dropped)
                    \subseteq ToSet(intent.msgs)
              /\ intent.r \in DOMAIN asked
  <2>1. intent.state # "none" => intent.r \in DOMAIN asked
    BY AllTypes DEF IInv, Control
  <2> QED
    BY <2>1 DEF RInv, Transit, Story, Agrees, AgreesAfter
<1>2. /\ intent' = IF k = 3 THEN NoIntent ELSE intent
      /\ stored' = stored \cup ToSet(transcript')
      /\ transcript' = IF intent.state = "ready" /\ k >= 1 THEN intent.msgs ELSE transcript
      /\ IF intent.state = "ready" /\ k >= 2 /\ intent.r \notin marked
         THEN shown' = Take(shown, intent.keep) /\ marked' = marked \cup {intent.r}
         ELSE UNCHANGED <<shown, marked>>
  BY Zenon DEF Reconcile, log
<1>3. ToSet(transcript) \subseteq Known /\ ToSet(shown) \subseteq Known /\ ToSet(intent.msgs) \subseteq Known
  BY DEF RInv, Fresh
<1>4. ToSet(Take(shown, intent.keep)) \subseteq ToSet(shown)
  <2>1. shown \in Seq(Turns) /\ intent.keep \in Nat
    BY AllTypes DEF IInv
  <2> QED
    BY <2>1, SetsOfTurns
<1>5. \A r \in marked : asked[r].scope = "both" => asked[r].first \notin order
  BY DEF RInv, CodeInv, CodeGoesFirst
<1>6. CASE intent.state = "ready" /\ k >= 2
  <2>1. transcript' = intent.msgs
    BY <1>2, <1>6
  <2>2. intent.r \in marked'
    BY <1>2, <1>6
  <2>3. marked' = marked \cup {intent.r}
    BY <1>2, <1>6
  <2>4. Dropped' = Dropped \cup asked[intent.r].dropped
    BY <2>3, DroppedMore
  <2>5. ToSet(shown') \subseteq Known
    BY <1>2, <1>3, <1>4, <1>6
  <2>6. asked[intent.r].scope = "both" => asked[intent.r].first \notin order
    BY <1>6 DEF RInv, CodeInv
  <2>7. ToSet(transcript') = ToSet(intent.msgs)
    BY <2>1
  <2>8. stored' = stored \cup ToSet(intent.msgs)
    BY <1>2, <2>1
  <2> HIDE DEF Dropped
  <2>9. \A r \in marked' : asked[r].scope = "both" => asked[r].first \notin order
    BY <1>5, <2>3, <2>6
  <2> QED
    BY <1>1, <1>2, <1>3, <1>6, <2>3, <2>4, <2>5, <2>7, <2>8, <2>9
<1>7. CASE ~(intent.state = "ready" /\ k >= 2)
  <2>1. shown' = shown /\ marked' = marked
    BY <1>2, <1>7
  <2>2. Dropped' = Dropped
    BY <2>1, DroppedKept
  <2>3. CASE intent.state = "ready" /\ k = 1
    <3>1. ToSet(transcript') = ToSet(intent.msgs)
      BY <1>2, <2>3
    <3>2. stored' = stored \cup ToSet(intent.msgs)
      BY <1>2, <2>3
    <3> QED
      BY <1>1, <1>2, <1>3, <1>5, <2>1, <2>2, <2>3, <3>1, <3>2
  <2>4. CASE ~(intent.state = "ready" /\ k = 1)
    <3>1. ToSet(transcript') = ToSet(transcript)
      BY <1>2, <1>7, <2>4
    <3>2. stored' = stored
      BY <1>1, <1>2, <3>1
    <3>3. k = 3 => intent.state # "ready"
      BY <1>7
    <3> QED
      BY <1>1, <1>2, <1>3, <1>5, <2>1, <2>2, <3>1, <3>2, <3>3
  <2> QED
    BY <2>3, <2>4
<1> QED
  BY <1>6, <1>7


-------------------------------------------------------------------------------
(***************************************************************************)
(* Every step of a prompt keeps it.                                        *)
(***************************************************************************)
LEMMA SendKeeps == IInv /\ RInv /\ Send => RInv'
<1> SUFFICES ASSUME IInv, RInv, Send PROVE RInv'
  OBVIOUS
<1>1. /\ up /\ op.pc = "idle" /\ sub = "idle" /\ sub' \in {"retry", "admit"}
      /\ UNCHANGED <<transcript, shown, marked, intent, order, undo, up, ctx, ledger, base, saved,
                     gate, op, loaded, sent, asked, stored, cleared, faults, crashes, clears>>
  BY DEF Send, disk, log, ghost, budget
<1>2. Dropped' = Dropped
  BY <1>1, DroppedKept
<1>3. Known' = Known
  BY <1>1, KnownSame
<1>4. Transit'
  BY <1>1 DEF RInv, Transit, Committed, Restoring
<1>5. Fresh'
  BY <1>1, <1>3 DEF RInv, Fresh
<1>6. Story'
  BY <1>1, <1>2 DEF RInv, Story, Agrees, AgreesAfter, Committed
<1>7. CodeInv'
  BY <1>1 DEF RInv, CodeInv, CodeGoesFirst
<1>8. Clean' => OneHistory'
  BY <1>1 DEF RInv, Clean, OneHistory, Committed, Restoring
<1> QED
  BY <1>4, <1>5, <1>6, <1>7, <1>8 DEF RInv

\* The new turn is none that a restore was ever aimed at.
LEMMA BeginKeeps == IInv /\ RInv /\ Begin => RInv'
<1> SUFFICES ASSUME IInv, RInv, Begin PROVE RInv'
  OBVIOUS
<1>1. /\ up /\ op.pc = "idle" /\ sub = "admit" /\ sub' = "begun" /\ sent' = sent + 1
      /\ order' \subseteq order \cup {sent + 1}
      /\ UNCHANGED <<transcript, shown, marked, intent, undo, up, ctx, ledger, base, saved,
                     gate, op, loaded, asked, stored, cleared, faults, crashes, clears>>
  BY DEF Begin, log, budget
<1>2. Dropped' = Dropped
  BY <1>1, DroppedKept
<1>3. Known' = Known /\ sent + 1 \notin Known
  <2>1. sent \in Nat
    BY AllTypes DEF IInv
  <2>2. Known = 1..sent /\ Known' = 1..((sent + 1) - 1)
    BY <1>1 DEF Known
  <2> QED
    BY <2>1, <2>2
<1>4. Transit'
  BY <1>1 DEF RInv, Transit, Committed, Restoring
<1>5. Fresh'
  BY <1>1, <1>3 DEF RInv, Fresh
<1>6. Story'
  BY <1>1, <1>2 DEF RInv, Story, Agrees, AgreesAfter, Committed
<1>7. CodeInv'
  <2>1. \A r \in DOMAIN asked : asked[r].first # sent + 1
    BY <1>3 DEF RInv, Fresh
  <2>2. \A r \in marked : r \in DOMAIN asked
    BY DEF RInv, Transit
  <2>3. intent.state = "ready" => intent.r \in DOMAIN asked
    BY AllTypes DEF IInv, Control
  <2> QED
    BY <1>1, <2>1, <2>2, <2>3 DEF RInv, CodeInv, CodeGoesFirst
<1>8. Clean' => OneHistory'
  BY <1>1 DEF RInv, Clean, OneHistory, Committed, Restoring
<1> QED
  BY <1>4, <1>5, <1>6, <1>7, <1>8 DEF RInv

LEMMA PromptKeeps == IInv /\ RInv /\ Prompt => RInv'
<1> SUFFICES ASSUME IInv, RInv, Prompt PROVE RInv'
  OBVIOUS
<1>1. /\ up /\ sub = "begun" /\ sub' = "running" /\ op.pc = "idle" /\ sent \in Turns
      /\ shown' = Append(shown, sent) /\ ledger' = Append(ledger, sent) /\ ctx' = Append(ctx, sent)
      /\ UNCHANGED <<transcript, marked, intent, order, undo, up, base, saved,
                     gate, op, loaded, sent, asked, stored, cleared, faults, crashes, clears>>
  BY DEF Prompt, IInv, Control, ghost, budget
<1>2. Dropped' = Dropped
  BY <1>1, DroppedKept
<1>3. Known' = Known \cup {sent} /\ sent \notin Known
  <2>1. sent \in Nat /\ sent >= 1
    BY <1>1 DEF Turns
  <2>2. Known = 1..(sent - 1) /\ Known' = 1..sent
    BY <1>1 DEF Known
  <2> QED
    BY <2>1, <2>2
<1>4. /\ ToSet(shown') = ToSet(shown) \cup {sent} /\ ToSet(ledger') = ToSet(ledger) \cup {sent}
      /\ ToSet(ctx') = ToSet(ctx) \cup {sent}
  <2>1. shown \in Seq(Turns) /\ ledger \in Seq(Turns) /\ ctx \in Seq(Turns)
    BY AllTypes DEF IInv
  <2> QED
    BY <1>1, <2>1, SetsOfTurns
<1>5. Transit'
  BY <1>1 DEF RInv, Transit, Committed, Restoring
<1>6. Fresh'
  BY <1>1, <1>3, <1>4 DEF RInv, Fresh
<1>7. sent \notin Dropped
  <2>1. \A r \in DOMAIN asked : sent \notin asked[r].dropped
    BY <1>3 DEF RInv, Fresh
  <2> QED
    BY <2>1 DEF RInv, Transit, Dropped
<1>8. Story'
  <2>1. ~gate.pending /\ ~Committed => Agrees(ctx)'
    BY <1>1, <1>2, <1>4, <1>7 DEF RInv, Story, Agrees
  <2> QED
    BY <1>1, <1>2, <2>1 DEF RInv, Story, Agrees, AgreesAfter, Committed
<1>9. CodeInv'
  BY <1>1 DEF RInv, CodeInv, CodeGoesFirst
<1>10. Clean' => OneHistory'
  <2> SUFFICES ASSUME Clean' PROVE OneHistory'
    OBVIOUS
  <2>1. OneHistory
    BY <1>1 DEF RInv, Clean
  <2>2. /\ shown = ledger /\ ctx = ledger /\ saved = Len(ledger)
    BY <1>1, <2>1 DEF OneHistory, Committed
  <2>3. Len(ctx') = Len(ctx) + 1 /\ Len(ctx) \in Nat
    BY <1>1, AllTypes DEF IInv
  <2>4. saved < Len(ctx') /\ shown' = ctx' /\ ledger' = ctx'
    BY <1>1, <2>2, <2>3
  <2>5. up' /\ base' = 0 /\ (gate'.pending => gate'.diskDone)
    BY <1>1, <2>1 DEF OneHistory
  <2> QED
    BY <1>1, <2>4, <2>5 DEF OneHistory, Committed, Restoring
<1> QED
  BY <1>5, <1>6, <1>8, <1>9, <1>10 DEF RInv


\* The saves of a running turn: it runs on a context that tells the markers' story.
LEMMA TurnSaves ==
  ASSUME IInv, RInv, sub = "running", up,
         Save(FALSE) \/ UNCHANGED <<transcript, saved, stored>>,
         UNCHANGED <<shown, marked, intent, ctx, ledger, base, gate, op, loaded, sent, asked,
                     cleared, undo, order, up>>,
         sub' \in {"running", "idle"}
  PROVE  /\ Transit' /\ Fresh' /\ Story' /\ CodeInv'
         /\ OneHistory /\ Save(FALSE) => OneHistory'
<1>1. op.pc = "idle" /\ ~gate.pending /\ intent.state = "none" /\ ~Committed
  BY DEF IInv, Control, GateInv, Running, Restoring, Committed
<1>2. Dropped' = Dropped
  BY DroppedKept
<1>3. Known' = Known
  BY KnownSame
<1>4. ToSet(ctx) \cap Dropped = {} /\ stored \ (Dropped \cup cleared) \subseteq ToSet(ctx)
  BY <1>1 DEF RInv, Story, Agrees
<1>5. /\ ToSet(transcript) \subseteq stored /\ ToSet(transcript) \cap Dropped = {}
      /\ stored \ (Dropped \cup cleared) \subseteq ToSet(transcript)
  BY <1>1 DEF RInv, Story, Agrees
<1>6. \/ transcript' = ctx /\ saved' = Len(ctx) /\ stored' = stored \cup ToSet(ctx)
      \/ UNCHANGED <<transcript, saved, stored>>
  BY DEF Save
<1>7. /\ ToSet(transcript') \subseteq stored' /\ ToSet(transcript') \cap Dropped = {}
      /\ stored' \ (Dropped \cup cleared) \subseteq ToSet(transcript')
      /\ stored' \ (Dropped \cup cleared) \subseteq ToSet(ctx)
  <2>1. CASE transcript' = ctx /\ stored' = stored \cup ToSet(ctx)
    BY <1>4, <2>1
  <2>2. CASE UNCHANGED <<transcript, stored>>
    BY <1>4, <1>5, <2>2
  <2> QED
    BY <1>6, <2>1, <2>2
<1>8. Transit'
  BY <1>1 DEF RInv, Transit, Committed, Restoring
<1>9. Fresh'
  BY <1>3, <1>6 DEF RInv, Fresh
<1>10. Story'
  BY <1>1, <1>2, <1>4, <1>7 DEF Story, Agrees, AgreesAfter, Committed
<1>11. CodeInv'
  BY DEF RInv, CodeInv, CodeGoesFirst
<1>12. ASSUME OneHistory, Save(FALSE) PROVE OneHistory'
  <2>1. /\ shown = ctx /\ ledger = ctx /\ base = 0 /\ saved \in Nat /\ Len(ctx) \in Nat
        /\ (transcript = ctx /\ saved = Len(ctx)) \/ saved < Len(ctx)
    BY <1>12, AllTypes DEF OneHistory, IInv
  <2>2. transcript' = ctx /\ saved' = Len(ctx)
    BY <1>12, <2>1 DEF Save
  <2> QED
    BY <1>1, <2>1, <2>2 DEF OneHistory, Committed, Restoring
<1> QED
  BY <1>8, <1>9, <1>10, <1>11, <1>12

LEMMA WorkKeeps == IInv /\ RInv /\ Work => RInv'
<1> SUFFICES ASSUME IInv, RInv, Work PROVE RInv'
  OBVIOUS
<1>1. /\ up /\ sub = "running" /\ Save(FALSE) /\ sub' = sub
      /\ UNCHANGED <<shown, marked, intent, ctx, ledger, base, gate, op, loaded, sent, asked,
                     cleared, undo, order, up, faults, crashes, clears>>
  BY DEF Work, log, budget
<1>2. Transit' /\ Fresh' /\ Story' /\ CodeInv' /\ (OneHistory => OneHistory')
  BY <1>1, TurnSaves
<1>3. Clean' => Clean
  BY <1>1 DEF Clean
<1> QED
  BY <1>2, <1>3 DEF RInv

LEMMA EndTurnKeeps == IInv /\ RInv /\ EndTurn => RInv'
<1> SUFFICES ASSUME IInv, RInv, EndTurn PROVE RInv'
  OBVIOUS
<1>1. /\ up /\ sub = "running" /\ sub' = "idle"
      /\ Save(FALSE) \/ UNCHANGED <<transcript, saved, stored>>
      /\ UNCHANGED <<shown, marked, intent, ctx, ledger, base, gate, op, loaded, sent, asked,
                     cleared, undo, order, up>>
  BY DEF EndTurn, log
<1>2. Transit' /\ Fresh' /\ Story' /\ CodeInv' /\ (OneHistory /\ Save(FALSE) => OneHistory')
  BY <1>1, TurnSaves
<1>3. Clean' => Clean /\ Save(FALSE)
  <2>1. CASE Fault("save")
    BY <2>1, StillClean DEF IInv, FaultPoints, Clean, Fault
  <2>2. CASE Save(FALSE) /\ NoFault
    BY <2>2 DEF Clean, NoFault, budget
  <2> QED
    BY <2>1, <2>2 DEF EndTurn
<1> QED
  BY <1>2, <1>3 DEF RInv

-------------------------------------------------------------------------------
(***************************************************************************)
(* So do a request for a restore, its plan and its commit.                 *)
(***************************************************************************)
LEMMA AskKeeps == IInv /\ RInv /\ Ask => RInv'
<1> SUFFICES ASSUME IInv, RInv, Ask PROVE RInv'
  OBVIOUS
<1>1. /\ up /\ op.pc = "idle" /\ sub = "idle"
      /\ UNCHANGED <<transcript, shown, marked, intent, order, undo, up, ctx, ledger, base, saved,
                     gate, sub, loaded, sent, asked, stored, cleared, faults, crashes, clears>>
  BY DEF Ask, disk, log, ghost, budget
<1>2. op'.pc \in {"retry", "start"} /\ op'.plan = <<>> /\ op'.orig = <<>>
  BY DEF Ask, Idle
<1>3. Dropped' = Dropped /\ Known' = Known /\ ToSet(<<>>) = {}
  BY <1>1, DroppedKept, KnownSame, SetsOfTurns, AllTypes DEF IInv
<1>4. Transit'
  BY <1>1, <1>2 DEF RInv, Transit, Committed, Restoring
<1>5. Fresh'
  BY <1>1, <1>2, <1>3 DEF RInv, Fresh
<1>6. Story'
  BY <1>1, <1>2, <1>3 DEF RInv, Story, Agrees, AgreesAfter, Committed
<1>7. CodeInv'
  BY <1>1, <1>2 DEF RInv, CodeInv, CodeGoesFirst
<1>8. Clean' => OneHistory'
  BY <1>1, <1>2 DEF RInv, Clean, OneHistory, Committed, Restoring
<1> QED
  BY <1>4, <1>5, <1>6, <1>7, <1>8 DEF RInv


-------------------------------------------------------------------------------
(***************************************************************************)
(* So do the retries of a recovery.                                        *)
(***************************************************************************)
LEMMA RetryDiskStory ==
  ASSUME IInv, RInv, RetryDisk, UNCHANGED <<asked, cleared>>
  PROVE  /\ marked' \subseteq DOMAIN asked
         /\ ToSet(transcript') \subseteq stored' /\ ToSet(transcript') \cap Dropped' = {}
         /\ stored' \ (Dropped' \cup cleared) \subseteq ToSet(transcript')
         /\ \A r \in marked' : asked[r].scope = "both" => asked[r].first \notin order
         /\ ToSet(transcript') \subseteq Known /\ ToSet(shown') \subseteq Known
         /\ intent'.state = "none" /\ ToSet(intent'.msgs) \subseteq Known
         /\ loaded' = transcript' /\ gate'.pending = gate.pending
         /\ gate.diskDone => UNCHANGED <<transcript, shown, marked, stored, gate>>
         /\ UNCHANGED <<faults, crashes, clears>>
<1>1. CASE ~gate.diskDone /\ Reconcile(3) /\ loaded' = transcript' /\ NoFault
           /\ gate' = [gate EXCEPT !.diskDone = TRUE]
  <2>1. intent' = NoIntent
    BY <1>1, Zenon DEF Reconcile
  <2>2. intent'.state = "none" /\ ToSet(intent'.msgs) = {}
    BY <2>1, SetsOfTurns, AllTypes DEF NoIntent, IInv
  <2>3. gate'.pending = gate.pending
    BY <1>1 DEF IInv, TypeOK, MemoryOK
  <2>4. UNCHANGED <<faults, crashes, clears>>
    BY <1>1 DEF NoFault, budget
  <2> QED
    BY <1>1, <2>2, <2>3, <2>4, ReconcileStory
<1>2. CASE gate.diskDone /\ NoFault /\ loaded' = transcript
           /\ UNCHANGED <<transcript, stored, log, intent, gate>>
  <2>1. UNCHANGED <<faults, crashes, clears>> /\ UNCHANGED <<shown, marked>>
    BY <1>2 DEF NoFault, budget, log
  <2>2. intent.state = "none"
    BY <1>2 DEF IInv, GateInv
  <2>3. Dropped' = Dropped
    BY <2>1, DroppedKept
  <2>4. /\ ToSet(transcript) \subseteq stored /\ ToSet(transcript) \cap Dropped = {}
        /\ stored \ (Dropped \cup cleared) \subseteq ToSet(transcript)
    BY <2>2 DEF RInv, Story, Agrees
  <2>5. ToSet(transcript) \subseteq Known /\ ToSet(shown) \subseteq Known /\ ToSet(intent.msgs) \subseteq Known
    BY DEF RInv, Fresh
  <2>6. \A r \in marked : asked[r].scope = "both" => asked[r].first \notin order
    BY DEF RInv, CodeInv, CodeGoesFirst
  <2>7. marked \subseteq DOMAIN asked
    BY DEF RInv, Transit
  <2> QED
    BY <1>2, <2>1, <2>2, <2>3, <2>4, <2>5, <2>6, <2>7
<1> QED
  BY <1>1, <1>2, Zenon DEF RetryDisk

LEMMA RetryDiskFailsStory ==
  ASSUME IInv, RInv, RetryDiskFails, UNCHANGED <<asked, cleared>>
  PROVE  /\ ~gate.diskDone /\ UNCHANGED <<gate, loaded>>
         /\ marked' \subseteq DOMAIN asked
         /\ ToSet(transcript') \subseteq stored' /\ ToSet(transcript') \cap Dropped' = {}
         /\ intent' = intent
         /\ intent.state # "ready" =>
              stored' \ (Dropped' \cup cleared) \subseteq ToSet(transcript')
         /\ intent.state # "none" =>
              /\ ToSet(intent.msgs) \cap (Dropped' \cup asked[intent.r].dropped) = {}
              /\ stored' \ (Dropped' \cup cleared \cup asked[intent.r].dropped)
                    \subseteq ToSet(intent.msgs)
         /\ \A r \in marked' : asked[r].scope = "both" => asked[r].first \notin order
         /\ ToSet(transcript') \subseteq Known /\ ToSet(shown') \subseteq Known
<1>1. ~gate.diskDone /\ UNCHANGED <<gate, loaded>>
  BY DEF RetryDiskFails
<1>2. CASE intent.state = "none" /\ UNCHANGED <<transcript, stored, log, intent>>
  <2>1. UNCHANGED <<shown, marked>>
    BY <1>2 DEF log
  <2>2. Dropped' = Dropped
    BY <2>1, DroppedKept
  <2>3. /\ ToSet(transcript) \subseteq stored /\ ToSet(transcript) \cap Dropped = {}
        /\ stored \ (Dropped \cup cleared) \subseteq ToSet(transcript)
    BY <1>2 DEF RInv, Story, Agrees
  <2>4. ToSet(transcript) \subseteq Known /\ ToSet(shown) \subseteq Known
    BY DEF RInv, Fresh
  <2>5. \A r \in marked : asked[r].scope = "both" => asked[r].first \notin order
    BY DEF RInv, CodeInv, CodeGoesFirst
  <2>6. marked \subseteq DOMAIN asked
    BY DEF RInv, Transit
  <2> QED
    BY <1>1, <1>2, <2>1, <2>2, <2>3, <2>4, <2>5, <2>6
<1>3. ASSUME NEW k \in 0..2, Reconcile(k)
      PROVE  /\ marked' \subseteq DOMAIN asked
             /\ ToSet(transcript') \subseteq stored' /\ ToSet(transcript') \cap Dropped' = {}
             /\ intent' = intent
             /\ intent.state # "ready" =>
                  stored' \ (Dropped' \cup cleared) \subseteq ToSet(transcript')
             /\ intent.state # "none" =>
                  /\ ToSet(intent.msgs) \cap (Dropped' \cup asked[intent.r].dropped) = {}
                  /\ stored' \ (Dropped' \cup cleared \cup asked[intent.r].dropped)
                        \subseteq ToSet(intent.msgs)
             /\ \A r \in marked' : asked[r].scope = "both" => asked[r].first \notin order
             /\ ToSet(transcript') \subseteq Known /\ ToSet(shown') \subseteq Known
  <2>1. k \in 0..3 /\ k # 3
    OBVIOUS
  <2>2. intent' = intent
    BY <1>3, <2>1, Zenon DEF Reconcile
  <2> QED
    BY <1>3, <2>1, <2>2, ReconcileStory
<1>4. CASE \E k \in 0..2 : Reconcile(k)
  BY <1>1, <1>3, <1>4
<1> QED
  BY <1>2, <1>4 DEF RetryDiskFails


LEMMA RetryDiskKeeps ==
  ASSUME IInv, RInv, up, gate.pending, sub \in {"idle", "retry"}, op.pc \in {"idle", "retry"},
         RetryDisk \/ RetryDiskFails,
         sub' \in {"idle", "apply"}, op'.pc \in {"idle", "apply"},
         op'.plan = op.plan \/ op'.plan = <<>>, op'.orig = op.orig \/ op'.orig = <<>>,
         sub' = "apply" \/ op'.pc = "apply" => RetryDisk,
         UNCHANGED <<order, undo, up, ctx, ledger, base, saved, sent, asked, cleared>>
  PROVE  RInv'
<1>1. Known' = Known /\ ToSet(<<>>) = {}
  BY KnownSame, SetsOfTurns, AllTypes DEF IInv
<1>2. /\ marked' \subseteq DOMAIN asked
      /\ ToSet(transcript') \subseteq stored' /\ ToSet(transcript') \cap Dropped' = {}
      /\ intent'.state # "ready" => stored' \ (Dropped' \cup cleared) \subseteq ToSet(transcript')
      /\ intent'.state # "none" =>
              /\ ToSet(intent'.msgs) \cap (Dropped' \cup asked[intent'.r].dropped) = {}
              /\ stored' \ (Dropped' \cup cleared \cup asked[intent'.r].dropped)
                    \subseteq ToSet(intent'.msgs)
      /\ intent'.state = "ready" => intent' = intent
      /\ \A r \in marked' : asked[r].scope = "both" => asked[r].first \notin order
      /\ ToSet(transcript') \subseteq Known /\ ToSet(shown') \subseteq Known
      /\ gate'.pending /\ ToSet(intent'.msgs) \subseteq Known
      /\ RetryDisk => loaded' = transcript' /\ intent'.state = "none"
      /\ loaded' = loaded \/ loaded' = transcript'
  <2>1. CASE RetryDisk
    BY <2>1, RetryDiskStory
  <2>2. CASE ~RetryDisk /\ RetryDiskFails
    <3>1. ToSet(intent.msgs) \subseteq Known
      BY DEF RInv, Fresh
    <3>2. intent' = intent /\ gate' = gate /\ loaded' = loaded
      BY <2>2, RetryDiskFailsStory
    <3>3. /\ intent'.state # "ready" => stored' \ (Dropped' \cup cleared) \subseteq ToSet(transcript')
          /\ intent'.state # "none" =>
              /\ ToSet(intent'.msgs) \cap (Dropped' \cup asked[intent'.r].dropped) = {}
              /\ stored' \ (Dropped' \cup cleared \cup asked[intent'.r].dropped)
                    \subseteq ToSet(intent'.msgs)
      BY <2>2, <3>2, RetryDiskFailsStory
    <3>4. /\ marked' \subseteq DOMAIN asked
          /\ ToSet(transcript') \subseteq stored' /\ ToSet(transcript') \cap Dropped' = {}
          /\ \A r \in marked' : asked[r].scope = "both" => asked[r].first \notin order
          /\ ToSet(transcript') \subseteq Known /\ ToSet(shown') \subseteq Known
      BY <2>2, RetryDiskFailsStory
    <3> QED
      BY <2>2, <3>1, <3>2, <3>3, <3>4
  <2> QED
    BY <2>1, <2>2
<1>3. Transit'
  BY <1>2 DEF Transit, Committed, Restoring
<1>4. Fresh'
  BY <1>1, <1>2 DEF RInv, Fresh
<1>5. Story'
  <2>1. intent'.state # "ready" \/ op'.pc \in {"stage", "context"} => Agrees(transcript)'
    BY <1>2 DEF Agrees
  <2>2. intent'.state # "none" => AgreesAfter(intent.msgs, intent.r)'
    BY <1>2 DEF AgreesAfter
  <2>3. sub' = "apply" \/ op'.pc = "apply" => Agrees(loaded)'
    BY <1>2 DEF Agrees
  <2> QED
    BY <1>2, <2>1, <2>2, <2>3 DEF Story
<1>6. CodeInv'
  <2>1. CodeGoesFirst'
    BY <1>2 DEF CodeGoesFirst
  <2> QED
    BY <1>2, <2>1 DEF RInv, CodeInv
<1>7. Clean' => OneHistory'
  <2> SUFFICES ASSUME Clean' PROVE OneHistory'
    OBVIOUS
  <2>1. Clean
    <3>1. CASE RetryDisk
      <4>1. UNCHANGED <<faults, crashes, clears>>
        BY <3>1, RetryDiskStory
      <4> QED
        BY <4>1 DEF Clean
    <3>2. CASE RetryDiskFails
      <4>1. Fault("reconcile") \/ NoFault
        BY <3>2 DEF RetryDiskFails
      <4> QED
        BY <4>1, StillClean DEF IInv, FaultPoints, NoFault
    <3> QED
      BY <3>1, <3>2
  <2>2. OneHistory
    BY <2>1 DEF RInv
  <2>3. gate.diskDone
    BY <2>2 DEF OneHistory
  <2>4. RetryDisk
    BY <2>3 DEF RetryDiskFails
  <2>5. UNCHANGED <<transcript, shown, marked, stored, gate>> /\ loaded' = transcript
    BY <2>3, <2>4, RetryDiskStory
  <2>6. loaded' = ledger
    BY <2>2, <2>5 DEF OneHistory
  <2> QED
    BY <2>2, <2>5, <2>6 DEF OneHistory, Committed, Restoring
<1> QED
  BY <1>3, <1>4, <1>5, <1>6, <1>7 DEF RInv

LEMMA SubmitRetryDiskKeeps == IInv /\ RInv /\ SubmitRetryDisk => RInv'
<1> SUFFICES ASSUME IInv, RInv, SubmitRetryDisk PROVE RInv'
  OBVIOUS
<1>1. /\ up /\ sub = "retry" /\ op.pc = "idle" /\ gate.pending
      /\ \/ RetryDisk /\ sub' = "apply"
         \/ RetryDiskFails /\ sub' = "idle"
      /\ UNCHANGED <<order, undo, up, ctx, ledger, base, saved, op, sent, asked, cleared>>
  BY DEF SubmitRetryDisk, IInv, Control, GateInv
<1> QED
  BY <1>1, RetryDiskKeeps

LEMMA RestoreRetryDiskKeeps == IInv /\ RInv /\ RestoreRetryDisk => RInv'
<1> SUFFICES ASSUME IInv, RInv, RestoreRetryDisk PROVE RInv'
  OBVIOUS
<1>1. /\ up /\ sub = "idle" /\ op.pc = "retry" /\ gate.pending
      /\ \/ RetryDisk /\ op' = [op EXCEPT !.pc = "apply"]
         \/ RetryDiskFails /\ op' = Idle
      /\ UNCHANGED <<order, undo, up, ctx, ledger, base, saved, sub, sent, asked, cleared>>
  BY DEF RestoreRetryDisk, IInv, Control, GateInv
<1>2. \/ /\ RetryDisk
         /\ op'.pc = "apply" /\ op'.plan = op.plan /\ op'.orig = op.orig
      \/ /\ RetryDiskFails
         /\ op'.pc = "idle" /\ op'.plan = <<>> /\ op'.orig = <<>>
  <2>1. op \in Ops
    BY AllTypes DEF IInv
  <2>2. CASE RetryDisk /\ op' = [op EXCEPT !.pc = "apply"]
    BY <2>1, <2>2 DEF Ops
  <2>3. CASE RetryDiskFails /\ op' = Idle
    BY <2>3 DEF Idle
  <2> QED
    BY <1>1, <2>2, <2>3
<1> QED
  BY <1>1, <1>2, RetryDiskKeeps


LEMMA RetryApplyKeeps ==
  ASSUME IInv, RInv, up, gate.pending, sub = "apply" \/ op.pc = "apply",
         sub \in {"idle", "apply"}, op.pc \in {"idle", "apply"},
         RetryApply \/ RetryApplyFails,
         sub' \in {"idle", "admit"}, op'.pc \in {"idle", "start"},
         op'.plan = op.plan \/ op'.plan = <<>>, op'.orig = op.orig \/ op'.orig = <<>>,
         UNCHANGED <<transcript, shown, marked, intent, undo, up, ledger, base, loaded,
                     sent, asked, stored, cleared>>
  PROVE  RInv'
<1>1. Known' = Known /\ ToSet(<<>>) = {}
  BY KnownSame, SetsOfTurns, AllTypes DEF IInv
<1>2. Dropped' = Dropped
  BY DroppedKept
<1>3. intent.state = "none" /\ Agrees(loaded) /\ ~Committed
  BY DEF IInv, GateInv, RInv, Story, Committed
<1>4. order' \subseteq order
  BY FoldType DEF RetryApply, RetryApplyFails, IInv
<1>5. /\ ctx' = loaded \/ (ctx' = ctx /\ RetryApplyFails)
      /\ (ctx' = loaded /\ saved' = Len(loaded) /\ gate'.pending = FALSE)
         \/ (UNCHANGED <<saved, gate>> /\ RetryApplyFails)
  BY IdleType DEF RetryApply, RetryApplyFails
<1>6. Transit'
  BY <1>3 DEF RInv, Transit, Committed, Restoring
<1>7. Fresh'
  BY <1>1, <1>5 DEF RInv, Fresh
<1>8. Story'
  <2>1. gate'.pending \/ ctx' = loaded
    BY <1>5
  <2>2. ~gate'.pending => Agrees(ctx)'
    BY <1>2, <1>3, <2>1, <1>5 DEF Agrees
  <2>3. Agrees(transcript)' /\ ToSet(transcript) \subseteq stored /\ ToSet(transcript) \cap Dropped' = {}
    BY <1>2, <1>3 DEF RInv, Story, Agrees
  <2> QED
    BY <1>3, <2>2, <2>3 DEF Story
<1>9. CodeInv'
  BY <1>3, <1>4 DEF RInv, CodeInv, CodeGoesFirst
<1>10. Clean' => OneHistory'
  <2> SUFFICES ASSUME Clean' PROVE OneHistory'
    OBVIOUS
  <2>1. (\E p \in FaultPoints : Fault(p)) \/ UNCHANGED budget
    BY DEF RetryApply, RetryApplyFails, NoFault, FaultPoints
  <2>2. OneHistory
    BY <2>1, StillClean DEF IInv, RInv
  <2>3. /\ transcript = ledger /\ shown = ledger /\ saved = Len(ledger) /\ ctx = ledger
        /\ loaded = ledger /\ base = 0 /\ (gate.pending => gate.diskDone)
    BY <1>3, <2>2 DEF OneHistory
  <2>4. ctx' = ledger /\ saved' = Len(ledger)
    BY <1>5, <2>3
  <2>5. gate'.pending => gate'.diskDone
    BY <1>5, <2>3
  <2> QED
    BY <2>3, <2>4, <2>5 DEF OneHistory, Restoring
<1> QED
  BY <1>6, <1>7, <1>8, <1>9, <1>10 DEF RInv

LEMMA SubmitRetryApplyKeeps == IInv /\ RInv /\ SubmitRetryApply => RInv'
<1> SUFFICES ASSUME IInv, RInv, SubmitRetryApply PROVE RInv'
  OBVIOUS
<1>1. /\ up /\ sub = "apply" /\ op.pc = "idle" /\ gate.pending
      /\ RetryApply \/ RetryApplyFails
      /\ sub' \in {"idle", "admit"}
      /\ UNCHANGED <<transcript, shown, marked, intent, undo, up, ledger, base, op, loaded,
                     sent, asked, stored, cleared>>
  BY DEF SubmitRetryApply, IInv, Control, GateInv, log, ghost
<1> QED
  BY <1>1, RetryApplyKeeps

LEMMA RestoreRetryApplyKeeps == IInv /\ RInv /\ RestoreRetryApply => RInv'
<1> SUFFICES ASSUME IInv, RInv, RestoreRetryApply PROVE RInv'
  OBVIOUS
<1>1. /\ up /\ sub = "idle" /\ op.pc = "apply" /\ gate.pending
      /\ RetryApply \/ RetryApplyFails
      /\ op' = [op EXCEPT !.pc = "start"] \/ op' = Idle
      /\ UNCHANGED <<transcript, shown, marked, intent, undo, up, ledger, base, sub, loaded,
                     sent, asked, stored, cleared>>
  BY DEF RestoreRetryApply, IInv, Control, GateInv, log, ghost
<1>2. /\ op'.pc \in {"idle", "start"}
      /\ op'.plan = op.plan \/ op'.plan = <<>>
      /\ op'.orig = op.orig \/ op'.orig = <<>>
  <2>1. op \in Ops
    BY AllTypes DEF IInv
  <2>2. CASE op' = [op EXCEPT !.pc = "start"]
    BY <2>1, <2>2 DEF Ops
  <2>3. CASE op' = Idle
    BY <2>3 DEF Idle
  <2> QED
    BY <1>1, <2>2, <2>3
<1> QED
  BY <1>1, <1>2, RetryApplyKeeps


-------------------------------------------------------------------------------
(***************************************************************************)
(* The plan of a restore: its slice of the context will tell the story of  *)
(* its marker.                                                             *)
(***************************************************************************)
LEMMA PlanKeeps == IInv /\ RInv /\ Plan => RInv'
<1> SUFFICES ASSUME IInv, RInv, Plan PROVE RInv'
  OBVIOUS
<1> DEFINE kept == Take(ctx, base + op.i - 1)
           gone == IF op.scope = "code" THEN {} ELSE ToSet(ctx) \ ToSet(kept)
           e    == [scope |-> op.scope, first |-> ledger[op.i], dropped |-> gone]
           n    == Len(asked) + 1
<1>1. /\ up /\ op.pc = "start" /\ asked' = Append(asked, e)
      /\ UNCHANGED <<transcript, shown, marked, order, undo, up, ctx, ledger, base, saved,
                     gate, sub, loaded, sent, stored, cleared>>
  BY DEF Plan, PlanAs, log
<1>2. \/ /\ op.scope = "code" /\ NoFault /\ UNCHANGED intent
         /\ op' = [op EXCEPT !.pc = "code", !.r = Len(asked')]
      \/ /\ op.scope # "code" /\ NoFault
         /\ intent' = [state |-> IF op.scope = "both" THEN "unready" ELSE "ready",
                       r |-> Len(asked'), keep |-> op.i - 1, msgs |-> kept]
         /\ op' = [op EXCEPT !.pc = IF op.scope = "both" THEN "context" ELSE "stage",
                             !.r = Len(asked'), !.plan = kept, !.orig = ctx]
      \/ op.scope # "code" /\ Fault("begin") /\ op' = Idle /\ UNCHANGED intent
  BY DEF Plan, PlanAs
<1>3. intent.state = "none" /\ sub = "idle" /\ ~gate.pending /\ ~Committed /\ op.i \in 1..Len(ledger)
  BY <1>1 DEF IInv, Control, GateInv, Restoring, Committed
<1>4. marked \subseteq DOMAIN asked
  BY DEF RInv, Transit
<1>5. /\ Dropped' = Dropped /\ DOMAIN asked' = 1..n /\ asked'[n] = e /\ Len(asked') = n
      /\ \A r \in DOMAIN asked : asked'[r] = asked[r]
      /\ DOMAIN asked = 1..(n - 1) /\ n \in Nat
  <2>1. TypeOK /\ Len(asked) \in Nat /\ DOMAIN asked = 1..Len(asked) /\ n = Len(asked) + 1
    BY AllTypes DEF IInv
  <2> HIDE DEF e
  <2>2. /\ Dropped' = Dropped /\ DOMAIN asked' = 1..(Len(asked) + 1)
        /\ asked'[Len(asked) + 1] = e /\ Len(asked') = Len(asked) + 1
        /\ \A r \in DOMAIN asked : asked'[r] = asked[r]
    BY <1>1, <1>4, <2>1, DroppedByOthers
  <2> QED
    BY <2>1, <2>2
<1>6. Known' = Known /\ ToSet(<<>>) = {}
  BY <1>1, KnownSame, SetsOfTurns, AllTypes DEF IInv
<1>7. /\ ctx \in Seq(Turns) /\ ledger \in Seq(Turns) /\ base \in Nat /\ op.i \in Nat /\ op \in Ops
      /\ op.scope \in Scopes
  BY AllTypes DEF IInv
<1>8. ToSet(kept) \subseteq ToSet(ctx)
  <2>1. base + op.i - 1 \in Nat
    BY <1>3, <1>7
  <2> QED
    BY <1>7, <2>1, SetsOfTurns
<1>9. ledger[op.i] \in ToSet(ledger)
  BY <1>3, <1>7 DEF ToSet
<1>10. e.scope = op.scope /\ e.first = ledger[op.i] /\ e.dropped = gone
  OBVIOUS
<1>11. gone \subseteq ToSet(ctx) /\ (op.scope # "code" => gone = ToSet(ctx) \ ToSet(kept))
  OBVIOUS
<1>12. ToSet(ctx) \cap Dropped = {} /\ stored \ (Dropped \cup cleared) \subseteq ToSet(ctx)
  BY <1>1, <1>3 DEF RInv, Story, Agrees
<1>13. n \notin marked /\ marked \subseteq DOMAIN asked' /\ n \in DOMAIN asked'
  BY <1>4, <1>5
<1> HIDE DEF kept, gone, e, n
<1>14. \/ /\ op.scope = "code" /\ NoFault /\ intent' = intent
          /\ op'.pc = "code" /\ op'.scope = op.scope /\ op'.r = n /\ op'.i = op.i
          /\ op'.plan = op.plan /\ op'.orig = op.orig
       \/ /\ op.scope # "code" /\ NoFault
          /\ intent'.state = IF op.scope = "both" THEN "unready" ELSE "ready"
          /\ intent'.r = n /\ intent'.keep = op.i - 1 /\ intent'.msgs = kept
          /\ op'.pc = IF op.scope = "both" THEN "context" ELSE "stage"
          /\ op'.scope = op.scope /\ op'.r = n /\ op'.i = op.i
          /\ op'.plan = kept /\ op'.orig = ctx
       \/ /\ Fault("begin") /\ intent' = intent
          /\ op'.pc = "idle" /\ op'.plan = <<>> /\ op'.orig = <<>>
  <2>1. CASE op.scope = "code" /\ NoFault /\ UNCHANGED intent
             /\ op' = [op EXCEPT !.pc = "code", !.r = Len(asked')]
    BY <1>5, <1>7, <2>1 DEF Ops
  <2>2. CASE /\ op.scope # "code" /\ NoFault
             /\ intent' = [state |-> IF op.scope = "both" THEN "unready" ELSE "ready",
                           r |-> Len(asked'), keep |-> op.i - 1, msgs |-> kept]
             /\ op' = [op EXCEPT !.pc = IF op.scope = "both" THEN "context" ELSE "stage",
                                 !.r = Len(asked'), !.plan = kept, !.orig = ctx]
    <3>1. /\ intent'.state = IF op.scope = "both" THEN "unready" ELSE "ready"
          /\ intent'.r = n /\ intent'.keep = op.i - 1 /\ intent'.msgs = kept
      BY <1>5, <2>2
    <3>2. /\ op'.pc = IF op.scope = "both" THEN "context" ELSE "stage"
          /\ op'.scope = op.scope /\ op'.r = n /\ op'.i = op.i
          /\ op'.plan = kept /\ op'.orig = ctx
      BY <1>5, <1>7, <2>2 DEF Ops
    <3> QED
      BY <2>2, <3>1, <3>2
  <2>3. CASE op.scope # "code" /\ Fault("begin") /\ op' = Idle /\ UNCHANGED intent
    BY <2>3 DEF Idle
  <2> QED
    BY <1>2, <2>1, <2>2, <2>3 DEF kept
<1>15. Transit'
  BY <1>1, <1>3, <1>5, <1>10, <1>13, <1>14 DEF Transit, Committed, Restoring
<1>16. Fresh'
  <2>1. \A r \in DOMAIN asked' : r \in DOMAIN asked \/ r = n
    BY <1>5
  <2>2. ToSet(ctx) \subseteq Known /\ ToSet(ledger) \subseteq Known
    BY DEF RInv, Fresh
  <2>3. \A r \in DOMAIN asked' : asked'[r].dropped \subseteq Known /\ asked'[r].first \in Known
    BY <1>5, <1>9, <1>10, <1>11, <2>1, <2>2 DEF RInv, Fresh
  <2> QED
    BY <1>1, <1>6, <1>8, <1>14, <2>2, <2>3 DEF RInv, Fresh
<1>17. Story'
  <2>1. Agrees(transcript)' /\ Agrees(ctx)'
    BY <1>1, <1>3, <1>5, <1>12 DEF RInv, Story, Agrees
  <2>2. op.scope # "code" => /\ ToSet(kept) \cap (Dropped \cup gone) = {}
                             /\ stored \ (Dropped \cup cleared \cup gone) \subseteq ToSet(kept)
    BY <1>8, <1>11, <1>12
  <2>3. intent'.state # "none" => AgreesAfter(intent.msgs, intent.r)'
    BY <1>1, <1>3, <1>5, <1>10, <1>14, <2>2 DEF AgreesAfter
  <2>4. op'.pc \in {"context", "code", "undoing", "arm"} /\ op'.scope = "both" => Agrees(op.orig)'
    BY <1>1, <1>5, <1>12, <1>14 DEF Agrees
  <2>5. ToSet(transcript') \subseteq stored' /\ ToSet(transcript') \cap Dropped' = {}
    BY <1>1, <1>5 DEF RInv, Story
  <2>6. sub' # "apply" /\ op'.pc # "apply"
    BY <1>1, <1>3, <1>14
  <2> QED
    BY <2>1, <2>3, <2>4, <2>5, <2>6 DEF Story
<1>18. CodeInv'
  <2>1. CodeGoesFirst'
    BY <1>1, <1>4, <1>5 DEF RInv, CodeInv, CodeGoesFirst
  <2>2. op'.pc # "arm"
    BY <1>14
  <2>3. ~(intent'.state = "ready" /\ asked'[intent'.r].scope = "both")
    BY <1>3, <1>5, <1>10, <1>14
  <2> QED
    BY <2>1, <2>2, <2>3 DEF CodeInv
<1>19. Clean' => OneHistory'
  <2> SUFFICES ASSUME Clean' PROVE OneHistory'
    OBVIOUS
  <2>1. (\E p \in FaultPoints : Fault(p)) \/ UNCHANGED budget
    BY <1>14 DEF NoFault, FaultPoints
  <2>2. Clean /\ UNCHANGED budget
    BY <2>1, StillClean DEF IInv
  <2>3. OneHistory
    BY <2>2 DEF RInv
  <2>4. /\ transcript = ledger /\ shown = ledger /\ saved = Len(ledger) /\ ctx = ledger
        /\ base = 0 /\ (gate.pending => gate.diskDone)
    BY <1>1, <1>3, <2>3 DEF OneHistory
  <2>5. kept = Take(ledger, op.i - 1)
    BY <1>7, <2>4 DEF kept
  <2>6. ~Fault("begin")
    BY <2>2, AllTypes DEF Fault, budget, Clean, IInv
  <2> QED
    BY <1>1, <1>3, <1>14, <2>4, <2>5, <2>6 DEF OneHistory, Restoring, Committed
<1> QED
  BY <1>15, <1>16, <1>17, <1>18, <1>19 DEF RInv


LEMMA StageKeeps == IInv /\ RInv /\ Stage => RInv'
<1> SUFFICES ASSUME IInv, RInv, Stage PROVE RInv'
  OBVIOUS
<1>1. /\ up /\ op.pc = "stage" /\ op.scope = "conversation" /\ sub = "idle"
      /\ UNCHANGED <<transcript, shown, marked, order, undo, up, ctx, ledger, base, saved,
                     sub, loaded, sent, asked, stored, cleared>>
  BY DEF Stage, IInv, Control, log, ghost
<1>2. op \in Ops /\ gate \in [pending : BOOLEAN, diskDone : BOOLEAN, branchDue : BOOLEAN]
  BY AllTypes DEF IInv, TypeOK, MemoryOK
<1>3. \/ /\ NoFault /\ op' = [op EXCEPT !.pc = "context"]
         /\ gate' = [gate EXCEPT !.branchDue = TRUE] /\ UNCHANGED intent
      \/ Fault("stage") /\ op' = Idle /\ intent' = NoIntent /\ UNCHANGED gate
  BY <1>1 DEF Stage
<1>4. gate'.pending = gate.pending /\ gate'.diskDone = gate.diskDone
  BY <1>2, <1>3
<1>5. \/ /\ NoFault /\ op'.pc = "context" /\ op'.scope = op.scope /\ op'.i = op.i
         /\ op'.r = op.r /\ op'.plan = op.plan /\ op'.orig = op.orig /\ intent' = intent
      \/ /\ Fault("stage") /\ op'.pc = "idle" /\ op'.plan = <<>> /\ op'.orig = <<>>
         /\ intent'.state = "none" /\ intent'.msgs = <<>>
  BY <1>2, <1>3 DEF Ops, Idle, NoIntent
<1>6. /\ Dropped' = Dropped /\ Known' = Known /\ ToSet(<<>>) = {}
  BY <1>1, DroppedKept, KnownSame, SetsOfTurns, AllTypes DEF IInv
<1>7. Transit'
  BY <1>1, <1>5 DEF RInv, Transit, Committed, Restoring
<1>8. Fresh'
  BY <1>1, <1>5, <1>6 DEF RInv, Fresh
<1>9. Story'
  <2>1. Agrees(transcript)' /\ (~gate.pending => Agrees(ctx)')
    BY <1>1, <1>6 DEF RInv, Story, Agrees, Committed
  <2> QED
    BY <1>1, <1>4, <1>5, <1>6, <2>1 DEF RInv, Story, AgreesAfter
<1>10. CodeInv'
  BY <1>1, <1>5 DEF RInv, CodeInv, CodeGoesFirst
<1>11. Clean' => OneHistory'
  <2> SUFFICES ASSUME Clean' PROVE OneHistory'
    OBVIOUS
  <2>1. Clean /\ UNCHANGED budget
    BY <1>3, StillClean DEF IInv, NoFault, FaultPoints
  <2>2. OneHistory
    BY <2>1 DEF RInv
  <2> QED
    BY <1>1, <1>4, <1>5, <2>2 DEF OneHistory, Restoring, Committed
<1> QED
  BY <1>7, <1>8, <1>9, <1>10, <1>11 DEF RInv

LEMMA CommitKeeps == IInv /\ RInv /\ Commit => RInv'
<1> SUFFICES ASSUME IInv, RInv, Commit PROVE RInv'
  OBVIOUS
<1>1. /\ up /\ op.pc = "context" /\ op.scope # "code" /\ sub = "idle"
      /\ UNCHANGED <<transcript, shown, marked, order, undo, up, ledger, base, saved,
                     sub, loaded, sent, asked, stored, cleared>>
  BY DEF Commit, IInv, Control, log, ghost
<1>2. op \in Ops /\ gate \in [pending : BOOLEAN, diskDone : BOOLEAN, branchDue : BOOLEAN]
  BY AllTypes DEF IInv, TypeOK, MemoryOK
<1>3. \/ /\ NoFault /\ ctx' = op.plan
         /\ op' = [op EXCEPT !.pc = IF op.scope = "both" THEN "code" ELSE "save"]
         /\ UNCHANGED <<intent, gate>>
      \/ /\ Fault("reject") /\ op' = Idle /\ intent' = NoIntent /\ UNCHANGED ctx
         /\ gate' = [gate EXCEPT !.branchDue = @ /\ op.scope # "conversation"]
  BY DEF Commit
<1>4. gate'.pending = gate.pending /\ gate'.diskDone = gate.diskDone
  BY <1>2, <1>3
<1>5. \/ /\ NoFault /\ ctx' = op.plan
         /\ op'.pc = IF op.scope = "both" THEN "code" ELSE "save"
         /\ op'.scope = op.scope /\ op'.i = op.i
         /\ op'.r = op.r /\ op'.plan = op.plan /\ op'.orig = op.orig /\ intent' = intent
      \/ /\ Fault("reject") /\ op'.pc = "idle" /\ op'.plan = <<>> /\ op'.orig = <<>>
         /\ intent'.state = "none" /\ intent'.msgs = <<>> /\ ctx' = ctx
  BY <1>2, <1>3 DEF Ops, Idle, NoIntent
<1>6. /\ Dropped' = Dropped /\ Known' = Known /\ ToSet(<<>>) = {}
  BY <1>1, DroppedKept, KnownSame, SetsOfTurns, AllTypes DEF IInv
<1>7. op.scope \in {"both", "conversation"}
  BY <1>1, AllTypes DEF IInv, Scopes
<1>8. Transit'
  BY <1>1, <1>5, <1>7 DEF RInv, Transit, Committed, Restoring
<1>9. Fresh'
  BY <1>1, <1>5, <1>6 DEF RInv, Fresh
<1>10. Story'
  <2>1. Agrees(transcript)'
    BY <1>1, <1>6 DEF RInv, Story, Agrees
  <2>2. op'.pc = "idle" /\ ~gate.pending => Agrees(ctx)'
    BY <1>1, <1>5, <1>6 DEF RInv, Story, Agrees, Committed
  <2>3. op.scope = "both" => Agrees(op.orig)
    BY <1>1 DEF RInv, Story
  <2>4. op.scope = "both" /\ op'.pc # "idle" => Agrees(op.orig)'
    BY <1>1, <1>5, <1>6, <2>3 DEF Agrees
  <2>5. op'.pc # "idle" => Committed'
    BY <1>5, <1>7 DEF Committed
  <2> QED
    BY <1>1, <1>4, <1>5, <1>6, <2>1, <2>2, <2>4, <2>5 DEF RInv, Story, AgreesAfter
<1>11. CodeInv'
  BY <1>1, <1>5 DEF RInv, CodeInv, CodeGoesFirst
<1>12. Clean' => OneHistory'
  <2> SUFFICES ASSUME Clean' PROVE OneHistory'
    OBVIOUS
  <2>1. Clean /\ UNCHANGED budget
    BY <1>3, StillClean DEF IInv, NoFault, FaultPoints
  <2>2. OneHistory
    BY <2>1 DEF RInv
  <2> QED
    BY <1>1, <1>4, <1>5, <1>7, <2>2 DEF OneHistory, Restoring, Committed
<1> QED
  BY <1>8, <1>9, <1>10, <1>11, <1>12 DEF RInv


-------------------------------------------------------------------------------
(***************************************************************************)
(* The code half of a restore.  One that is given up leaves the context as *)
(* it was before it.                                                       *)
(***************************************************************************)
LEMMA GiveUpKeeps ==
  ASSUME IInv, RInv, GiveUp, op.pc \in {"code", "undoing", "arm"}, order' \subseteq order,
         UNCHANGED budget \/ \E p \in FaultPoints : Fault(p),
         UNCHANGED <<transcript, shown, marked, up, ledger, base, saved, gate, sub, loaded,
                     sent, asked, stored, cleared>>
  PROVE  RInv'
<1>1. up /\ sub = "idle" /\ ~gate.pending
  BY DEF IInv, Control, GateInv, Restoring
<1>2. op'.pc = "idle" /\ op'.plan = <<>> /\ op'.orig = <<>>
  BY DEF GiveUp, Idle
<1>3. \/ op.scope = "both" /\ ctx' = op.orig /\ intent'.state = "none" /\ intent'.msgs = <<>>
      \/ op.scope = "code" /\ ctx' = ctx /\ intent' = intent
  BY DEF GiveUp, NoIntent, IInv, Control
<1>4. op.scope = "both" => intent.state = "unready"
  BY DEF IInv, Control
<1>5. op.scope = "code" => intent.state = "none"
  <2>1. op.pc # "arm" \/ op.scope = "both"
    BY DEF IInv, Control
  <2> QED
    BY <2>1 DEF IInv, GateInv
<1>6. /\ Dropped' = Dropped /\ Known' = Known /\ ToSet(<<>>) = {}
  BY <1>1, DroppedKept, KnownSame, SetsOfTurns, AllTypes DEF IInv
<1>7. Transit'
  BY <1>2 DEF RInv, Transit, Committed, Restoring
<1>8. Fresh'
  BY <1>2, <1>3, <1>6 DEF RInv, Fresh
<1>9. Story'
  <2>1. Agrees(transcript)'
    BY <1>3, <1>4, <1>5, <1>6 DEF RInv, Story, Agrees
  <2>2. CASE op.scope = "both"
    <3>1. Agrees(op.orig) /\ ctx' = op.orig
      BY <1>3, <2>2 DEF RInv, Story
    <3>2. Agrees(ctx)'
      BY <1>6, <3>1 DEF Agrees
    <3> QED
      BY <1>1, <1>2, <1>3, <1>6, <2>1, <2>2, <3>2 DEF RInv, Story
  <2>3. CASE op.scope = "code"
    <3>1. ~Committed
      BY <2>3 DEF Committed
    <3>2. Agrees(ctx)'
      BY <1>1, <1>3, <1>6, <2>3, <3>1 DEF RInv, Story, Agrees
    <3> QED
      BY <1>1, <1>2, <1>3, <1>5, <1>6, <2>1, <2>3, <3>2 DEF RInv, Story
  <2> QED
    BY <1>3, <2>2, <2>3
<1>10. CodeInv'
  BY <1>2, <1>3, <1>5 DEF RInv, CodeInv, CodeGoesFirst
<1>11. Clean' => OneHistory'
  <2> SUFFICES ASSUME Clean' PROVE OneHistory'
    OBVIOUS
  <2>1. OneHistory
    BY StillClean DEF IInv, RInv
  <2>2. ctx' = ledger
    <3>1. CASE op.scope = "both"
      BY <1>3, <2>1, <3>1 DEF OneHistory
    <3>2. CASE op.scope = "code"
      BY <1>1, <1>3, <2>1, <3>2 DEF OneHistory, Committed
    <3> QED
      BY <1>3, <3>1, <3>2
  <2> QED
    BY <1>1, <1>2, <2>1, <2>2 DEF OneHistory, Restoring, Committed
<1> QED
  BY <1>7, <1>8, <1>9, <1>10, <1>11 DEF RInv

\* From one step of the code half to the next.
LEMMA CodeGoesOn ==
  ASSUME IInv, RInv, op.pc \in {"code", "undoing", "arm"}, order' \subseteq order,
         op'.pc \in {"undoing", "arm", "save"},
         op'.scope = op.scope, op'.i = op.i, op'.r = op.r, op'.plan = op.plan, op'.orig = op.orig,
         op'.pc # "undoing" => op.scope = "both",
         op'.pc = "undoing" => undo'.at = ledger[op.i] /\ (undo'.retain <=> op.scope = "code"),
         op'.pc = "arm" => ledger[op.i] \notin order',
         op'.pc = "save" <=> op.pc = "arm",
         intent' = IF op.pc = "arm" THEN [intent EXCEPT !.state = "ready"] ELSE intent,
         UNCHANGED budget,
         UNCHANGED <<transcript, shown, marked, up, ctx, ledger, base, saved, gate, sub, loaded,
                     sent, asked, stored, cleared>>
  PROVE  RInv'
<1>1. up /\ sub = "idle" /\ ~gate.pending
  BY DEF IInv, Control, GateInv, Restoring
<1>2. op.scope \in {"code", "both"} /\ (op.pc = "arm" => op.scope = "both")
  BY DEF IInv, Control
<1>3. /\ intent'.r = intent.r /\ intent'.msgs = intent.msgs /\ intent'.keep = intent.keep
      /\ intent'.state = IF op.pc = "arm" THEN "ready" ELSE intent.state
  BY DEF IInv, TypeOK, DiskOK
<1>4. /\ Dropped' = Dropped /\ Known' = Known
  BY DroppedKept, KnownSame
<1>5. Transit'
  BY <1>2, <1>3 DEF RInv, Transit, Committed, Restoring
<1>6. Fresh'
  BY <1>3, <1>4 DEF RInv, Fresh
<1>7. Committed' <=> Committed
  BY <1>2 DEF Committed
<1>8. op.scope = "both" => intent.state = "unready"
  BY DEF IInv, Control
<1>9. Story'
  <2>1. intent'.state # "ready" => Agrees(transcript)'
    BY <1>3, <1>4 DEF RInv, Story, Agrees
  <2>2. ~Committed => Agrees(ctx)'
    BY <1>1, <1>4 DEF RInv, Story, Agrees
  <2>3. op'.pc \in {"undoing", "arm"} /\ op.scope = "both" => Agrees(op.orig)'
    BY <1>4 DEF RInv, Story, Agrees
  <2>4. intent'.state # "none" => AgreesAfter(intent.msgs, intent.r)'
    BY <1>2, <1>3, <1>4, <1>8 DEF RInv, Story, AgreesAfter
  <2> QED
    BY <1>1, <1>4, <1>7, <2>1, <2>2, <2>3, <2>4 DEF RInv, Story
<1>10. CodeInv'
  <2>1. CodeGoesFirst'
    BY DEF RInv, CodeInv, CodeGoesFirst
  <2>2. CASE op.pc = "arm"
    <3>1. asked[intent.r].first = ledger[op.i] /\ ledger[op.i] \notin order
      BY <1>2, <2>2 DEF RInv, Transit, CodeInv, Restoring
    <3> QED
      BY <1>3, <2>1, <2>2, <3>1 DEF CodeInv
  <2>3. CASE op.pc # "arm"
    BY <1>3, <2>1, <2>3 DEF RInv, CodeInv
  <2> QED
    BY <2>2, <2>3
<1>11. Clean' => OneHistory'
  <2> SUFFICES ASSUME Clean' PROVE OneHistory'
    OBVIOUS
  <2>1. OneHistory
    BY StillClean DEF IInv, RInv
  <2> QED
    BY <1>1, <1>2, <1>3, <1>7, <2>1 DEF OneHistory, Restoring
<1> QED
  BY <1>5, <1>6, <1>9, <1>10, <1>11 DEF RInv

\* The end of a restore of the code alone.
LEMMA CodeEnds ==
  ASSUME IInv, RInv, op.pc \in {"code", "undoing"}, op.scope = "code", op' = Idle,
         order' \subseteq order, UNCHANGED budget,
         UNCHANGED <<transcript, shown, marked, intent, up, ctx, ledger, base, saved, gate, sub,
                     loaded, sent, asked, stored, cleared>>
  PROVE  RInv'
<1>1. GiveUp
  BY DEF GiveUp
<1> QED
  BY <1>1, GiveUpKeeps


LEMMA CodeKeeps == IInv /\ RInv /\ Code => RInv'
<1> SUFFICES ASSUME IInv, RInv, Code PROVE RInv'
  OBVIOUS
<1>1. /\ op.pc = "code" /\ op.scope \in {"code", "both"} /\ op \in Ops
      /\ order' \subseteq order /\ UNCHANGED budget
      /\ UNCHANGED <<transcript, shown, marked, order, up, ledger, base, saved, gate, sub,
                     loaded, sent, asked, stored, cleared>>
  BY AllTypes DEF Code, IInv, Control, log, ghost
<1>2. CASE /\ undo' = [at |-> ledger[op.i], retain |-> op.scope = "code"]
           /\ op' = [op EXCEPT !.pc = "undoing"] /\ UNCHANGED <<ctx, intent>>
  <2>1. undo'.at = ledger[op.i] /\ (undo'.retain <=> op.scope = "code")
    BY <1>2
  <2>2. /\ op'.pc = "undoing" /\ op'.scope = op.scope /\ op'.i = op.i /\ op'.r = op.r
        /\ op'.plan = op.plan /\ op'.orig = op.orig
    BY <1>1, <1>2 DEF Ops
  <2> QED
    BY <1>1, <1>2, <2>1, <2>2, CodeGoesOn
<1>3. CASE /\ ledger[op.i] \notin order /\ op.scope = "both" /\ op' = [op EXCEPT !.pc = "arm"]
           /\ UNCHANGED <<ctx, intent>>
  <2>1. /\ op'.pc = "arm" /\ op'.scope = op.scope /\ op'.i = op.i /\ op'.r = op.r
        /\ op'.plan = op.plan /\ op'.orig = op.orig
    BY <1>1, <1>3 DEF Ops
  <2> QED
    BY <1>1, <1>3, <2>1, CodeGoesOn
<1>4. CASE op.scope = "code" /\ op' = Idle /\ UNCHANGED <<ctx, intent>>
  BY <1>1, <1>4, CodeEnds
<1>5. CASE GiveUp
  BY <1>1, <1>5, GiveUpKeeps
<1> QED
  BY <1>1, <1>2, <1>3, <1>4, <1>5 DEF Code

\* The file restore that succeeds for a combined restore retires the checkpoint.
LEMMA UndoKeeps == IInv /\ RInv /\ Undo => RInv'
<1> SUFFICES ASSUME IInv, RInv, Undo PROVE RInv'
  OBVIOUS
<1>1. /\ op.pc = "undoing" /\ op.scope \in {"code", "both"} /\ op \in Ops
      /\ UNCHANGED <<transcript, shown, marked, up, ledger, base, saved, gate, sub,
                     loaded, sent, asked, stored, cleared>>
  BY AllTypes DEF Undo, IInv, Control, log, ghost
<1>2. undo.at = ledger[op.i] /\ (undo.retain <=> op.scope = "code")
  BY <1>1 DEF RInv, Transit
<1>3. CASE NoFault /\ Unwind(undo.at, undo.retain) /\ UNCHANGED <<ctx, intent>>
           /\ op' = IF op.scope = "both" THEN [op EXCEPT !.pc = "arm"] ELSE Idle
  <2>1. order' \subseteq order /\ UNCHANGED budget
    BY <1>3 DEF Unwind, NoFault
  <2>2. CASE op.scope = "both"
    <3>1. /\ op'.pc = "arm" /\ op'.scope = op.scope /\ op'.i = op.i /\ op'.r = op.r
          /\ op'.plan = op.plan /\ op'.orig = op.orig
      BY <1>1, <1>3, <2>2 DEF Ops
    <3>2. order' = order \ From(ledger[op.i])
      BY <1>2, <1>3, <2>2 DEF Unwind
    <3>3. \A t \in order : t >= t
      BY DEF IInv, TypeOK, DiskOK, Turns
    <3>4. ledger[op.i] \notin order'
      BY <3>2, <3>3 DEF From
    <3> QED
      BY <1>1, <1>3, <2>1, <2>2, <3>1, <3>4, CodeGoesOn
  <2>3. CASE op.scope = "code"
    BY <1>1, <1>3, <2>1, <2>3, CodeEnds
  <2> QED
    BY <1>1, <2>2, <2>3
<1>4. CASE Fault("code") /\ GiveUp /\ UNCHANGED order
  BY <1>1, <1>4, GiveUpKeeps DEF FaultPoints
<1> QED
  BY <1>3, <1>4 DEF Undo

LEMMA ArmKeeps == IInv /\ RInv /\ Arm => RInv'
<1> SUFFICES ASSUME IInv, RInv, Arm PROVE RInv'
  OBVIOUS
<1>1. /\ op.pc = "arm" /\ op.scope = "both" /\ op \in Ops /\ order' \subseteq order
      /\ UNCHANGED <<transcript, shown, marked, up, ledger, base, saved, gate, sub,
                     loaded, sent, asked, stored, cleared>>
  BY AllTypes DEF Arm, IInv, Control, log, ghost
<1>2. CASE NoFault /\ intent' = [intent EXCEPT !.state = "ready"]
           /\ op' = [op EXCEPT !.pc = "save"] /\ UNCHANGED ctx
  <2>1. /\ op'.pc = "save" /\ op'.scope = op.scope /\ op'.i = op.i /\ op'.r = op.r
        /\ op'.plan = op.plan /\ op'.orig = op.orig
    BY <1>1, <1>2 DEF Ops
  <2> QED
    BY <1>1, <1>2, <2>1, CodeGoesOn DEF NoFault
<1>3. CASE Fault("arm") /\ GiveUp
  BY <1>1, <1>3, GiveUpKeeps DEF FaultPoints
<1> QED
  BY <1>2, <1>3 DEF Arm

-------------------------------------------------------------------------------
(***************************************************************************)
(* The end of a restore: the transcript, the marker and the index.         *)
(***************************************************************************)
LEMMA ForceSaveKeeps == IInv /\ RInv /\ ForceSave => RInv'
<1> SUFFICES ASSUME IInv, RInv, ForceSave PROVE RInv'
  OBVIOUS
<1>1. /\ up /\ op.pc = "save" /\ op.scope # "code" /\ sub = "idle" /\ ~gate.pending
      /\ UNCHANGED <<shown, marked, intent, order, undo, up, ctx, ledger, base, gate,
                     sub, loaded, sent, asked, cleared>>
      /\ op \in Ops /\ op' = [op EXCEPT !.pc = "settle"]
  BY AllTypes DEF ForceSave, IInv, Control, GateInv, Restoring, log
<1>2. /\ op'.pc = "settle" /\ op'.scope = op.scope /\ op'.i = op.i /\ op'.r = op.r
      /\ op'.plan = op.plan /\ op'.orig = op.orig
  BY <1>1 DEF Ops
<1>3. \/ NoFault /\ transcript' = ctx /\ saved' = Len(ctx) /\ stored' = stored \cup ToSet(ctx)
      \/ Fault("save") /\ UNCHANGED <<transcript, saved, stored>>
  BY DEF ForceSave, Save
<1>4. intent.state = "ready" /\ ctx = op.plan /\ op.plan = intent.msgs
  <2>1. op.pc \in Restoring /\ Committed /\ op.scope # "code"
    BY <1>1 DEF Restoring, Committed
  <2>2. intent.state = "ready"
    BY <1>1 DEF RInv, Transit
  <2>3. op.r = intent.r /\ op.plan = intent.msgs /\ op.r \notin marked
    BY <2>1 DEF RInv, Transit
  <2>4. ctx = op.plan
    BY <2>1 DEF RInv, Transit
  <2> QED
    BY <2>2, <2>3, <2>4
<1>5. /\ Dropped' = Dropped /\ Known' = Known
  BY <1>1, DroppedKept, KnownSame
<1>6. Transit'
  BY <1>1, <1>2 DEF RInv, Transit, Committed, Restoring
<1>7. Fresh'
  BY <1>1, <1>2, <1>3, <1>5 DEF RInv, Fresh
<1>8. Story'
  <2>1. /\ ToSet(ctx) \cap (Dropped \cup asked[intent.r].dropped) = {}
        /\ stored \ (Dropped \cup cleared \cup asked[intent.r].dropped) \subseteq ToSet(ctx)
    BY <1>4 DEF RInv, Story, AgreesAfter
  <2>2. ToSet(transcript) \subseteq stored /\ ToSet(transcript) \cap Dropped = {}
    BY DEF RInv, Story
  <2>3. stored' = stored \/ stored' = stored \cup ToSet(ctx)
    BY <1>3
  <2>4. AgreesAfter(ctx, intent.r)'
    BY <1>1, <1>5, <2>1, <2>3 DEF AgreesAfter
  <2>5. ToSet(transcript') \subseteq stored' /\ ToSet(transcript') \cap Dropped' = {}
    <3>1. CASE transcript' = ctx /\ stored' = stored \cup ToSet(ctx)
      BY <1>5, <2>1, <3>1
    <3>2. CASE UNCHANGED <<transcript, stored>>
      BY <1>5, <2>2, <3>2
    <3> QED
      BY <1>3, <3>1, <3>2
  <2>6. Committed' /\ intent'.state = "ready" /\ intent'.msgs = ctx'
    BY <1>1, <1>2, <1>4 DEF Committed
  <2>7. AgreesAfter(intent.msgs, intent.r)'
    BY <1>1, <1>4, <2>4
  <2> QED
    BY <1>1, <1>2, <2>5, <2>6, <2>7 DEF Story
<1>9. CodeInv'
  BY <1>1, <1>2 DEF RInv, CodeInv, CodeGoesFirst
<1>10. Clean' => OneHistory'
  <2> SUFFICES ASSUME Clean' PROVE OneHistory'
    OBVIOUS
  <2>1. Clean /\ UNCHANGED budget
    BY <1>3, StillClean DEF IInv, NoFault, FaultPoints
  <2>2. OneHistory
    BY <2>1 DEF RInv
  <2>3. ~Fault("save")
    BY <2>1, AllTypes DEF Fault, budget, Clean, IInv
  <2>4. transcript' = op.plan
    BY <1>3, <1>4, <2>3
  <2> QED
    BY <1>1, <1>2, <2>2, <2>4 DEF OneHistory, Restoring, Committed
<1> QED
  BY <1>6, <1>7, <1>8, <1>9, <1>10 DEF RInv

LEMMA SettleKeeps == IInv /\ RInv /\ Settle => RInv'
<1> SUFFICES ASSUME IInv, RInv, Settle PROVE RInv'
  OBVIOUS
<1>1. /\ up /\ op.pc = "settle" /\ op.scope # "code" /\ sub = "idle" /\ ~gate.pending
      /\ UNCHANGED <<order, undo, up, ctx, ledger, base, sub, loaded, sent, asked, cleared>>
      /\ op \in Ops /\ gate \in [pending : BOOLEAN, diskDone : BOOLEAN, branchDue : BOOLEAN]
  BY AllTypes DEF Settle, IInv, Control, GateInv, Restoring, TypeOK, MemoryOK
<1>2. PICK k \in 0..3 :
         /\ Reconcile(k)
         /\ \/ /\ k = 3 /\ NoFault /\ saved' = Len(op.plan)
               /\ gate' = [gate EXCEPT !.pending = FALSE, !.diskDone = FALSE]
               /\ op' = [op EXCEPT !.pc = "fold", !.settled = TRUE]
            \/ /\ k # 3 /\ Fault("reconcile") /\ UNCHANGED saved
               /\ gate' = [gate EXCEPT !.pending = TRUE, !.diskDone = FALSE]
               /\ op' = [op EXCEPT !.pc = "fold", !.clean = FALSE]
  BY DEF Settle
<1>3. /\ op'.pc = "fold" /\ op'.scope = op.scope /\ op'.i = op.i /\ op'.r = op.r
      /\ op'.plan = op.plan /\ op'.orig = op.orig
  BY <1>1, <1>2 DEF Ops
<1>4. k # 3 => gate'.pending
  BY <1>1, <1>2
<1>5. /\ intent.state = "ready" /\ ctx = op.plan /\ op.plan = intent.msgs /\ op.r = intent.r
      /\ op.r \notin marked
  <2>1. op.pc \in Restoring /\ Committed /\ op.scope # "code"
    BY <1>1 DEF Restoring, Committed
  <2>2. intent.state = "ready"
    BY <1>1 DEF RInv, Transit
  <2>3. op.r = intent.r /\ op.plan = intent.msgs /\ op.r \notin marked
    BY <2>1 DEF RInv, Transit
  <2>4. ctx = op.plan
    BY <2>1 DEF RInv, Transit
  <2> QED
    BY <2>2, <2>3, <2>4
<1>6. /\ marked' \subseteq DOMAIN asked
      /\ ToSet(transcript') \subseteq stored' /\ ToSet(transcript') \cap Dropped' = {}
      /\ intent' = IF k = 3 THEN NoIntent ELSE intent
      /\ k = 3 => stored' \ (Dropped' \cup cleared) \subseteq ToSet(transcript')
      /\ ToSet(intent.msgs) \cap (Dropped' \cup asked[intent.r].dropped) = {}
      /\ stored' \ (Dropped' \cup cleared \cup asked[intent.r].dropped) \subseteq ToSet(intent.msgs)
      /\ \A r \in marked' : asked[r].scope = "both" => asked[r].first \notin order
      /\ ToSet(transcript') \subseteq Known /\ ToSet(shown') \subseteq Known
  BY <1>1, <1>2, <1>5, ReconcileStory
<1>7. k = 3 => transcript' = ctx
  BY <1>2, <1>5 DEF Reconcile
<1>8. intent'.state # "none" => intent' = intent
  BY <1>6 DEF NoIntent
<1>9. Known' = Known /\ ToSet(<<>>) = {} /\ ToSet(intent'.msgs) \subseteq Known
  <2>1. Known' = Known /\ ToSet(<<>>) = {}
    BY <1>1, KnownSame, SetsOfTurns, AllTypes DEF IInv
  <2>2. intent'.msgs = <<>> \/ intent' = intent
    BY <1>6 DEF NoIntent
  <2> QED
    BY <2>1, <2>2 DEF RInv, Fresh
<1>10. Transit'
  BY <1>1, <1>3, <1>6 DEF Transit, Committed, Restoring
<1>11. Fresh'
  BY <1>1, <1>3, <1>6, <1>9 DEF RInv, Fresh
<1>12. Story'
  <2>1. k = 3 => Agrees(transcript)' /\ Agrees(ctx)'
    BY <1>1, <1>6, <1>7 DEF Agrees
  <2>2. intent'.state # "none" => AgreesAfter(intent.msgs, intent.r)'
    BY <1>1, <1>6, <1>8 DEF AgreesAfter
  <2>3. k # 3 => intent' = intent
    BY <1>6
  <2> QED
    BY <1>1, <1>3, <1>4, <1>5, <1>6, <2>1, <2>2, <2>3 DEF Story
<1>13. CodeInv'
  <2>1. CodeGoesFirst'
    BY <1>1, <1>6 DEF CodeGoesFirst
  <2> QED
    BY <1>1, <1>3, <1>8, <2>1, IdleType DEF RInv, CodeInv
<1>14. Clean' => OneHistory'
  <2> SUFFICES ASSUME Clean' PROVE OneHistory'
    OBVIOUS
  <2>1. Clean /\ UNCHANGED budget
    BY <1>2, StillClean DEF IInv, NoFault, FaultPoints
  <2>2. OneHistory
    BY <2>1 DEF RInv
  <2>3. ~Fault("reconcile")
    BY <2>1, AllTypes DEF Fault, budget, Clean, IInv
  <2>4. k = 3
    BY <1>2, <2>3
  <2>5. shown' = Take(shown, intent.keep)
    BY <1>2, <1>5, <2>4 DEF Reconcile
  <2>6. /\ shown = ledger /\ intent.keep = op.i - 1 /\ op.plan = Take(ledger, op.i - 1)
        /\ base = 0
    BY <1>1, <2>2 DEF OneHistory, Restoring
  <2>7. /\ shown' = Take(ledger, op.i - 1) /\ transcript' = shown' /\ ctx' = shown'
        /\ saved' = Len(shown')
    BY <1>1, <1>2, <1>5, <1>7, <2>3, <2>4, <2>5, <2>6
  <2>8. gate'.pending => gate'.diskDone
    BY <1>1, <1>2, <2>4
  <2> QED
    BY <1>1, <1>3, <2>6, <2>7, <2>8 DEF OneHistory, Restoring
<1> QED
  BY <1>10, <1>11, <1>12, <1>13, <1>14 DEF RInv


LEMMA FinishKeeps == IInv /\ RInv /\ Finish => RInv'
<1> SUFFICES ASSUME IInv, RInv, Finish PROVE RInv'
  OBVIOUS
<1>1. /\ up /\ op.pc = "fold" /\ sub = "idle" /\ op' = Idle /\ ledger' = Take(ledger, op.i - 1)
      /\ UNCHANGED <<transcript, shown, marked, intent, undo, up, ctx, base, saved, sub, loaded,
                     sent, asked, stored, cleared>>
  BY DEF Finish, IInv, Control, log
<1>2. order' \subseteq order
  BY FoldType DEF Finish, IInv
<1>3. gate \in [pending : BOOLEAN, diskDone : BOOLEAN, branchDue : BOOLEAN]
  BY DEF IInv, TypeOK, MemoryOK
<1>4. \/ gate' = gate \/ gate' = [gate EXCEPT !.branchDue = FALSE]
      \/ gate' = [gate EXCEPT !.pending = TRUE, !.diskDone = TRUE]
  BY DEF Finish
<1>5. /\ ~gate'.pending => ~gate.pending
      /\ (gate.pending => gate.diskDone) => (gate'.pending => gate'.diskDone)
  BY <1>3, <1>4
<1>6. op'.pc = "idle" /\ op'.plan = <<>> /\ op'.orig = <<>>
  BY <1>1 DEF Idle
<1>7. /\ Dropped' = Dropped /\ Known' = Known /\ ToSet(<<>>) = {}
  BY <1>1, DroppedKept, KnownSame, SetsOfTurns, AllTypes DEF IInv
<1>8. ToSet(ledger') \subseteq ToSet(ledger)
  <2>1. op.i \in Nat /\ ledger \in Seq(Turns) /\ Len(ledger) \in Nat
    BY AllTypes DEF IInv
  <2>2. op.i \in 1..Len(ledger)
    BY <1>1 DEF IInv, Control
  <2>3. op.i - 1 \in Nat
    BY <2>1, <2>2
  <2> QED
    BY <1>1, <2>1, <2>3, SetsOfTurns
<1>9. Transit'
  BY <1>1, <1>6 DEF RInv, Transit, Committed, Restoring
<1>10. Fresh'
  BY <1>1, <1>6, <1>7, <1>8 DEF RInv, Fresh
<1>11. Story'
  <2>1. ~gate'.pending => Agrees(ctx)'
    BY <1>1, <1>5, <1>7 DEF RInv, Story, Agrees, Committed
  <2>2. intent'.state # "ready" => Agrees(transcript)'
    BY <1>1, <1>7 DEF RInv, Story, Agrees
  <2> QED
    BY <1>1, <1>6, <1>7, <2>1, <2>2 DEF RInv, Story, AgreesAfter
<1>12. CodeInv'
  BY <1>1, <1>2, <1>6 DEF RInv, CodeInv, CodeGoesFirst
<1>13. Clean' => OneHistory'
  <2> SUFFICES ASSUME Clean' PROVE OneHistory'
    OBVIOUS
  <2>1. (\E p \in FaultPoints : Fault(p)) \/ UNCHANGED budget
    BY DEF Finish, NoFault, FaultPoints
  <2>2. OneHistory
    BY <2>1, StillClean DEF IInv, RInv
  <2>3. /\ shown = ledger' /\ transcript = ledger' /\ ctx = ledger' /\ saved = Len(ledger')
        /\ base = 0
    BY <1>1, <2>2 DEF OneHistory
  <2> QED
    BY <1>1, <1>5, <1>6, <2>2, <2>3 DEF OneHistory, Restoring
<1> QED
  BY <1>9, <1>10, <1>11, <1>12, <1>13 DEF RInv

-------------------------------------------------------------------------------
(***************************************************************************)
(* So do /clear, the end of the process and its next start.                *)
(***************************************************************************)
LEMMA ClearKeeps == IInv /\ RInv /\ Clear => RInv'
<1> SUFFICES ASSUME IInv, RInv, Clear PROVE RInv'
  OBVIOUS
<1>1. /\ up /\ sub = "idle" /\ op.pc = "idle" /\ clears' = clears + 1
      /\ cleared' = cleared \cup ToSet(ctx) /\ ctx' = <<>> /\ ledger' = <<>>
      /\ UNCHANGED <<transcript, shown, marked, intent, order, undo, up, saved, gate, sub, op,
                     loaded, sent, asked, stored>>
  BY DEF Clear, disk, log
<1>2. /\ Dropped' = Dropped /\ Known' = Known /\ ToSet(<<>>) = {}
  BY <1>1, DroppedKept, KnownSame, SetsOfTurns, AllTypes DEF IInv
<1>3. Transit'
  BY <1>1 DEF RInv, Transit, Committed, Restoring
<1>4. Fresh'
  BY <1>1, <1>2 DEF RInv, Fresh
<1>5. Story'
  <2>1. intent.state # "ready" => Agrees(transcript)'
    BY <1>1, <1>2 DEF RInv, Story, Agrees
  <2>2. intent.state # "none" => AgreesAfter(intent.msgs, intent.r)'
    BY <1>1, <1>2 DEF RInv, Story, AgreesAfter
  <2>3. ~gate.pending => Agrees(ctx)'
    <3>1. ASSUME ~gate.pending PROVE stored \ (Dropped \cup cleared) \subseteq ToSet(ctx)
      BY <1>1, <3>1 DEF RInv, Story, Agrees, Committed
    <3>2. ToSet(ctx') = {}
      BY <1>1, <1>2
    <3>3. ~gate.pending => stored \ (Dropped \cup cleared') \subseteq {}
      BY <1>1, <3>1
    <3>4. ~gate.pending => stored' \ (Dropped' \cup cleared') \subseteq ToSet(ctx')
      BY <1>1, <1>2, <3>2, <3>3
    <3> QED
      BY <3>2, <3>4 DEF Agrees
  <2> QED
    BY <1>1, <1>2, <2>1, <2>2, <2>3 DEF RInv, Story
<1>6. CodeInv'
  BY <1>1 DEF RInv, CodeInv, CodeGoesFirst
<1>7. ~Clean'
  BY <1>1, AllTypes DEF Clean, IInv
<1> QED
  BY <1>3, <1>4, <1>5, <1>6, <1>7 DEF RInv

LEMMA CrashKeeps == IInv /\ RInv /\ Crash => RInv'
<1> SUFFICES ASSUME IInv, RInv, Crash PROVE RInv'
  OBVIOUS
<1>1. /\ up' = FALSE /\ crashes' = crashes + 1 /\ ctx' = <<>> /\ ledger' = <<>> /\ loaded' = <<>>
      /\ sub' = "idle" /\ op' = Idle
      /\ UNCHANGED <<transcript, shown, marked, intent, order, undo, sent, asked, stored, cleared>>
  BY DEF Crash, disk, log, ghost
<1>2. op'.pc = "idle" /\ op'.plan = <<>> /\ op'.orig = <<>>
  BY <1>1 DEF Idle
<1>3. Dropped' = Dropped /\ ToSet(<<>>) = {}
  BY <1>1, DroppedKept, SetsOfTurns, AllTypes DEF IInv
<1>4. Known \subseteq Known'
  BY <1>1, KnownGrows DEF IInv
<1>5. Transit'
  BY <1>1, <1>2 DEF RInv, Transit, Committed, Restoring
<1>6. Fresh'
  <2>1. /\ ToSet(transcript') \subseteq Known' /\ ToSet(shown') \subseteq Known'
        /\ ToSet(intent'.msgs) \subseteq Known'
    BY <1>1, <1>4 DEF RInv, Fresh
  <2>2. \A r \in DOMAIN asked : asked[r].dropped \subseteq Known' /\ asked[r].first \in Known'
    BY <1>4 DEF RInv, Fresh
  <2> QED
    BY <1>1, <1>2, <1>3, <2>1, <2>2 DEF Fresh
<1>7. Story'
  <2>1. intent'.state # "ready" => Agrees(transcript)'
    BY <1>1, <1>3 DEF RInv, Story, Agrees
  <2> QED
    BY <1>1, <1>2, <1>3, <2>1 DEF RInv, Story, AgreesAfter
<1>8. CodeInv'
  BY <1>1, <1>2 DEF RInv, CodeInv, CodeGoesFirst
<1>9. ~Clean'
  BY <1>1, AllTypes DEF Clean, IInv
<1> QED
  BY <1>5, <1>6, <1>7, <1>8, <1>9 DEF RInv

\* A start that goes on and one that is refused read the same disk.
LEMMA LoadKeeps ==
  ASSUME IInv, RInv, ~up, NEW k \in 0..3, Reconcile(k), order' \subseteq order,
         UNCHANGED budget \/ \E p \in FaultPoints : Fault(p),
         \/ up' = TRUE /\ ctx' = transcript' /\ (ledger' = shown' \/ ledger' = <<>>)
              /\ (k = 3 \/ gate'.pending)
         \/ up' = FALSE /\ UNCHANGED <<ctx, ledger>>,
         UNCHANGED <<sub, op, loaded, sent, asked, cleared>>
  PROVE  RInv'
<1>1. sub = "idle" /\ op.pc = "idle"
  BY DEF IInv, Control
<1>2. /\ marked' \subseteq DOMAIN asked
      /\ ToSet(transcript') \subseteq stored' /\ ToSet(transcript') \cap Dropped' = {}
      /\ intent' = IF k = 3 THEN NoIntent ELSE intent
      /\ k = 3 \/ intent.state # "ready" =>
              stored' \ (Dropped' \cup cleared) \subseteq ToSet(transcript')
      /\ intent.state # "none" =>
              /\ ToSet(intent.msgs) \cap (Dropped' \cup asked[intent.r].dropped) = {}
              /\ stored' \ (Dropped' \cup cleared \cup asked[intent.r].dropped)
                    \subseteq ToSet(intent.msgs)
      /\ \A r \in marked' : asked[r].scope = "both" => asked[r].first \notin order
      /\ ToSet(transcript') \subseteq Known /\ ToSet(shown') \subseteq Known
  BY ReconcileStory
<1>3. intent'.state # "none" => intent' = intent
  BY <1>2 DEF NoIntent
<1>4. Known' = Known /\ ToSet(<<>>) = {} /\ ToSet(intent'.msgs) \subseteq Known
  <2>1. Known' = Known /\ ToSet(<<>>) = {}
    BY <1>1, KnownSame, SetsOfTurns, AllTypes DEF IInv
  <2>2. intent'.msgs = <<>> \/ intent' = intent
    BY <1>2 DEF NoIntent
  <2> QED
    BY <2>1, <2>2 DEF RInv, Fresh
<1>5. Transit'
  BY <1>1, <1>2 DEF Transit, Committed, Restoring
<1>6. Fresh'
  BY <1>2, <1>4 DEF RInv, Fresh
<1>7. Story'
  <2>1. intent'.state # "ready" => Agrees(transcript)'
    BY <1>2, <1>3 DEF Agrees
  <2>2. up' /\ ~gate'.pending => Agrees(ctx)'
    BY <1>2 DEF Agrees
  <2>3. intent'.state # "none" => AgreesAfter(intent.msgs, intent.r)'
    BY <1>2, <1>3 DEF AgreesAfter
  <2> QED
    BY <1>1, <1>2, <2>1, <2>2, <2>3 DEF Story
<1>8. CodeInv'
  <2>1. CodeGoesFirst'
    BY <1>2 DEF CodeGoesFirst
  <2> QED
    BY <1>1, <1>3, <2>1 DEF RInv, CodeInv
<1>9. ~Clean'
  <2>1. ~Clean
    BY DEF RInv, OneHistory
  <2> QED
    BY <2>1, StillClean DEF IInv
<1> QED
  BY <1>5, <1>6, <1>7, <1>8, <1>9 DEF RInv

LEMMA BootKeeps == IInv /\ RInv /\ Boot => RInv'
<1> SUFFICES ASSUME IInv, RInv, Boot PROVE RInv'
  OBVIOUS
<1>1. PICK k \in 0..3 : /\ Reconcile(k) /\ (NoFault \/ Fault("reconcile"))
                        /\ k = 3 \/ gate'.pending
  BY DEF Boot, Load
<1>2. UNCHANGED budget \/ \E p \in FaultPoints : Fault(p)
  BY <1>1 DEF NoFault, FaultPoints
<1>3. /\ ~up /\ up' = TRUE /\ ctx' = transcript' /\ (ledger' = shown' \/ ledger' = <<>>)
      /\ UNCHANGED <<sub, op, loaded, sent, asked, cleared>>
  BY DEF Boot
<1>4. \/ Fold(branch.visible) \/ Unwind(undo.at, undo.retain) \/ UNCHANGED order
  BY DEF Boot
<1>5. order' \subseteq order
  <2>1. Fold(branch.visible) => order' \subseteq order
    BY FoldType DEF IInv
  <2>2. Unwind(undo.at, undo.retain) => order' \subseteq order
    BY DEF Unwind
  <2> QED
    BY <1>4, <2>1, <2>2
<1> QED
  BY <1>1, <1>2, <1>3, <1>5, LoadKeeps

LEMMA BootRefusedKeeps == IInv /\ RInv /\ BootRefused => RInv'
<1> SUFFICES ASSUME IInv, RInv, BootRefused PROVE RInv'
  OBVIOUS
<1>1. /\ ~up /\ Reconcile(3) /\ UNCHANGED budget /\ order' \subseteq order
      /\ UNCHANGED <<up, ctx, ledger, sub, op, loaded, sent, asked, cleared>>
  BY DEF BootRefused, NoFault, memory
<1>2. up' = FALSE
  BY <1>1 DEF IInv, TypeOK, MemoryOK
<1>3. \A k \in 0..3 : Reconcile(k) => RInv'
  BY <1>1, <1>2, LoadKeeps
<1>4. 3 \in 0..3
  OBVIOUS
<1> QED
  BY <1>1, <1>3, <1>4, Zenon

LEMMA StutterKeeps == RInv /\ UNCHANGED vars => RInv'
<1> SUFFICES ASSUME RInv, UNCHANGED vars PROVE RInv'
  OBVIOUS
<1>1. UNCHANGED <<transcript, shown, marked, intent, order, undo, up, ctx, ledger, base, saved,
                  gate, sub, op, loaded, sent, asked, stored, cleared, faults, crashes, clears>>
  BY DEF vars, disk, log, memory, ghost, budget
<1>2. Dropped' = Dropped
  BY <1>1, DroppedKept
<1>3. Known' = Known
  BY <1>1, KnownSame
<1>4. Transit'
  BY <1>1 DEF RInv, Transit, Committed, Restoring
<1>5. Fresh'
  BY <1>1, <1>3 DEF RInv, Fresh
<1>6. Story'
  BY <1>1, <1>2 DEF RInv, Story, Agrees, AgreesAfter, Committed
<1>7. CodeInv'
  BY <1>1 DEF RInv, CodeInv, CodeGoesFirst
<1>8. Clean' => OneHistory'
  BY <1>1 DEF RInv, Clean, OneHistory, Committed, Restoring
<1> QED
  BY <1>4, <1>5, <1>6, <1>7, <1>8 DEF RInv

-------------------------------------------------------------------------------
LEMMA StoryHolds == Spec => []RInv
<1>1. IInv /\ RInv /\ [Next]_vars => RInv'
  <2> SUFFICES ASSUME IInv, RInv, [Next]_vars PROVE RInv'
    OBVIOUS
  <2>1. CASE Submit
    BY <2>1, SendKeeps, SubmitRetryDiskKeeps, SubmitRetryApplyKeeps, BeginKeeps, PromptKeeps,
       WorkKeeps, EndTurnKeeps DEF Submit
  <2>2. CASE Restore
    BY <2>2, RestoreRetryDiskKeeps, RestoreRetryApplyKeeps, PlanKeeps, StageKeeps, CommitKeeps,
       CodeKeeps, UndoKeeps, ArmKeeps, ForceSaveKeeps, SettleKeeps, FinishKeeps DEF Restore
  <2>3. CASE Ask \/ Clear \/ Crash \/ Boot \/ BootRefused
    BY <2>3, AskKeeps, ClearKeeps, CrashKeeps, BootKeeps, BootRefusedKeeps
  <2>4. CASE UNCHANGED vars
    BY <2>4, StutterKeeps
  <2> QED
    BY <2>1, <2>2, <2>3, <2>4 DEF Next
<1> QED
  BY <1>1, StoryBegins, Invariance, PTL DEF Spec

\* Whatever was interrupted, failed and was retried, a rewind leaves every copy of the
\* session in agreement: no turn runs on a context that a finished rewind cut, the
\* stored transcript and the log's markers tell one story, a combined restore is marked
\* only after its code half, and without failures the log, the transcript, the ledger
\* and the context stay one history.
THEOREM RewindsTogether == Spec => []RewoundTogether
<1>1. IInv /\ RInv => RewoundTogether
  <2> SUFFICES ASSUME IInv, RInv PROVE RewoundTogether
    OBVIOUS
  <2>1. NoTurnOnRewoundContext
    <3> SUFFICES ASSUME Running PROVE ToSet(ctx) \cap Dropped = {}
      BY DEF NoTurnOnRewoundContext
    <3>1. up /\ ~gate.pending /\ ~Committed
      BY DEF IInv, Control, GateInv, Running, Committed
    <3> QED
      BY <3>1 DEF RInv, Story, Agrees
  <2>2. StoredTogether
    BY DEF StoredTogether, RInv, Story, Agrees
  <2>3. CodeGoesFirst
    BY DEF RInv, CodeInv
  <2>4. ResumeShowsTheSame
    <3> SUFFICES ASSUME sub = "idle", op.pc = "idle", Clean
                 PROVE  shown = transcript /\ ledger = transcript /\ ctx = transcript
      BY DEF ResumeShowsTheSame, Clean
    <3> QED
      BY DEF RInv, OneHistory, Committed
  <2> QED
    BY <2>1, <2>2, <2>3, <2>4 DEF RewoundTogether
<1> QED
  BY <1>1, Invariance, StoryHolds, PTL
===============================================================================
