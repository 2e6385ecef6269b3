------------------------------ MODULE FileLock ------------------------------
(***************************************************************************)
(* kernel/file_lock.py: the O_EXCL marker file that every durable writer   *)
(* of the kernel takes around its state file.  One step here is one system *)
(* call of locked(), so that two processes interleave between the stat     *)
(* that finds a stale marker and the unlink that breaks it.                *)
(*                                                                         *)
(* Time is abstracted to the two facts the code derives from it: the       *)
(* marker is older than stale_after (lock.old), and the caller's deadline  *)
(* has passed (p \in late).                                                *)
(***************************************************************************)
EXTENDS Naturals, FiniteSets

CONSTANTS
  Procs,       \* processes that each run one critical section
  NoProc,      \* "no process of this behaviour"
  Checked,     \* the callers that check the yielded boolean (AttentionStore)
  Impatient,   \* processes whose deadline may pass while they wait
  MaxCrashes,  \* bound: processes that die without running finally
  MaxStalls    \* bound: markers that grow stale while their owner still runs

ASSUME ProcsAssumption ==
  /\ NoProc \notin Procs /\ IsFiniteSet(Procs)
  /\ Checked \subseteq Procs /\ Impatient \subseteq Procs
  /\ MaxCrashes \in Nat /\ MaxStalls \in Nat

VARIABLES
  lock,      \* the marker file: absent, or its (unrecorded) owner and its age
  writable,  \* the directory accepts creates and unlinks
  pc,        \* where each process stands
  late,      \* processes whose deadline has passed
  acquired,  \* processes to which locked() yielded True
  crashes,   \* how many processes died
  stalls     \* how many markers grew stale under a running owner

lockVars == <<lock, writable, pc, late, acquired, crashes, stalls>>

Absent == [there |-> FALSE, owner |-> NoProc, old |-> FALSE]

Marker(p) == [there |-> TRUE, owner |-> p, old |-> FALSE]

Waiting == {"create", "stat", "unlink"}

Body == {"read", "append", "replace", "release"}

Ended == {"done", "failed", "crashed"}

LockTypeOK ==
  /\ lock \in [there : BOOLEAN, owner : Procs \cup {NoProc}, old : BOOLEAN]
  /\ writable \in BOOLEAN
  /\ pc \in [Procs -> Waiting \cup Body \cup Ended]
  /\ late \subseteq Procs
  /\ acquired \subseteq Procs
  /\ crashes \in 0 .. MaxCrashes
  /\ stalls \in 0 .. MaxStalls

\* A marker may be left over from a process that died before this behaviour.
LockInit ==
  /\ \/ lock = Absent /\ crashes = 0
     \/ lock = Marker(NoProc) /\ crashes = 1 /\ MaxCrashes > 0
  /\ writable \in BOOLEAN
  /\ pc = [p \in Procs |-> "create"]
  /\ late = {}
  /\ acquired = {}
  /\ stalls = 0

Goto(p, label) == pc' = [pc EXCEPT ![p] = label]

\* A caller that checks the boolean returns at once when it is False.
Enter(p, held) ==
  /\ Goto(p, IF held \/ p \notin Checked THEN "read" ELSE "done")
  /\ acquired' = IF held THEN acquired \cup {p} ELSE acquired

-----------------------------------------------------------------------------
\* os.open(O_CREAT | O_EXCL): FileExistsError, another OSError, or the lock.
Create(p) ==
  /\ pc[p] = "create"
  /\ \/ lock.there /\ Goto(p, "stat") /\ UNCHANGED <<lock, acquired>>
     \/ ~lock.there /\ ~writable /\ Enter(p, FALSE) /\ UNCHANGED lock
     \/ ~lock.there /\ writable /\ Enter(p, TRUE) /\ lock' = Marker(p)
  /\ UNCHANGED <<writable, late, crashes, stalls>>

\* Mutant: an expired deadline breaks the marker like staleness does.
StatBreaksWhenLate(p) ==
  /\ pc[p] = "stat"
  /\ Goto(p, IF lock.there /\ (lock.old \/ p \in late) THEN "unlink" ELSE "create")
  /\ UNCHANGED <<lock, writable, late, acquired, crashes, stalls>>

\* Mutant: the age of the marker is never looked at.
StatWithoutBreaking(p) ==
  /\ pc[p] = "stat"
  /\ IF lock.there /\ p \in late THEN Enter(p, FALSE)
                               ELSE Goto(p, "create") /\ UNCHANGED acquired
  /\ UNCHANGED <<lock, writable, late, crashes, stalls>>

\* stat: gone, stale, past the deadline (proceed without the lock), or retry.
Stat(p) ==
  /\ pc[p] = "stat"
  /\ \/ ~lock.there /\ Goto(p, "create") /\ UNCHANGED acquired
     \/ lock.there /\ lock.old /\ Goto(p, "unlink") /\ UNCHANGED acquired
     \/ lock.there /\ ~lock.old /\ p \in late /\ Enter(p, FALSE)
     \/ lock.there /\ ~lock.old /\ p \notin late /\ Goto(p, "create") /\ UNCHANGED acquired
  /\ UNCHANGED <<lock, writable, late, crashes, stalls>>

\* lock.unlink() removes whatever marker is there now; a failure is suppressed.
Removed == IF writable THEN Absent ELSE lock

Break(p) ==
  /\ pc[p] = "unlink"
  /\ lock' = Removed
  /\ Goto(p, "create")
  /\ UNCHANGED <<writable, late, acquired, crashes, stalls>>

\* Mutant: the finally clause unlinks for callers that never owned the marker.
UnlockAnyway(p) ==
  /\ pc[p] = "release"
  /\ lock' = Removed
  /\ Goto(p, "done")
  /\ UNCHANGED <<writable, late, acquired, crashes, stalls>>

\* The finally clause: an owner unlinks whatever marker is there now.
Unlock(p) ==
  /\ pc[p] = "release"
  /\ lock' = IF p \in acquired THEN Removed ELSE lock
  /\ Goto(p, "done")
  /\ UNCHANGED <<writable, late, acquired, crashes, stalls>>

-----------------------------------------------------------------------------
(* The environment.                                                         *)

\* The timeout of a waiting caller runs out.
Deadline(p) ==
  /\ p \in Impatient \ late /\ pc[p] \in Waiting
  /\ late' = late \cup {p}
  /\ UNCHANGED <<lock, writable, pc, acquired, crashes, stalls>>

OwnerRuns == lock.owner # NoProc /\ pc[lock.owner] \in Body

\* The marker outlives stale_after: its owner died, or is merely slow.
GrowOld ==
  /\ lock.there /\ ~lock.old
  /\ lock' = [lock EXCEPT !.old = TRUE]
  /\ IF OwnerRuns THEN stalls < MaxStalls /\ stalls' = stalls + 1
                  ELSE UNCHANGED stalls
  /\ UNCHANGED <<writable, pc, late, acquired, crashes>>

Crash(p) ==
  /\ pc[p] \notin Ended /\ crashes < MaxCrashes
  /\ Goto(p, "crashed")
  /\ crashes' = crashes + 1
  /\ UNCHANGED <<lock, writable, late, acquired, stalls>>
=============================================================================
