---------------------------- MODULE LockedUpdate ----------------------------
(***************************************************************************)
(* The read-modify-write transactions the kernel runs inside locked():     *)
(* SessionControl._transaction, TokenStore.issue / revoke and              *)
(* AttentionStore.record / acknowledge.  Each reads the whole state file,  *)
(* changes its copy and replaces the file atomically (tmp + os.replace);   *)
(* SessionControl appends its audit line in between, if the file lets it.  *)
(*                                                                         *)
(* A state file is abstracted to the set of transactions it reflects, and  *)
(* audit_seq to the number of audited transactions in the copy.            *)
(***************************************************************************)
EXTENDS FileLock, Sequences

VARIABLES
  file,    \* transactions the state file reflects
  copy,    \* what each process read
  audit,   \* control-audit.jsonl; a line that is not kept never reached the file
  overlap  \* history: who wrote the file between a caller's read and its own write

updateVars == <<lockVars, file, copy, audit, overlap>>

Audited == Procs \ Checked   \* AttentionStore keeps no trail

Entries == [seq : 1 .. Cardinality(Procs), by : Procs, kept : BOOLEAN]

UpdateTypeOK ==
  /\ LockTypeOK
  /\ file \subseteq Procs
  /\ copy \in [Procs -> SUBSET Procs]
  /\ audit \in Seq(Entries)
  /\ overlap \in [Procs -> SUBSET Procs]

UpdateInit ==
  /\ LockInit
  /\ file = {}
  /\ copy = [p \in Procs |-> {}]
  /\ audit = <<>>
  /\ overlap = [p \in Procs |-> {}]

-----------------------------------------------------------------------------
\* _read / load
Read(p) ==
  /\ pc[p] = "read"
  /\ copy' = [copy EXCEPT ![p] = file]
  /\ Goto(p, IF p \in Audited THEN "append" ELSE "replace")
  /\ UNCHANGED <<lock, writable, late, acquired, crashes, stalls, file, audit, overlap>>

\* _audit: audit_seq advances in the copy; the line is on disk at once, or its
\* append fails and the error is suppressed.
AppendEntry(p) ==
  /\ pc[p] = "append"
  /\ \E kept \in BOOLEAN :
       audit' = Append(audit, [seq |-> Cardinality(copy[p] \cap Audited) + 1,
                               by |-> p, kept |-> kept])
  /\ Goto(p, "replace")
  /\ UNCHANGED <<lock, writable, late, acquired, crashes, stalls, file, copy, overlap>>

\* Those that have read the file and not yet replaced it.
Between == {"append", "replace"}

\* _write: all or nothing; in a read-only directory, where no caller ever
\* owns the marker, it raises.
Replace(p) ==
  /\ pc[p] = "replace"
  /\ IF writable
     THEN /\ file' = copy[p] \cup {p}
          /\ overlap' = [q \in Procs |-> IF q # p /\ pc[q] \in Between
                                         THEN overlap[q] \cup {p} ELSE overlap[q]]
          /\ Goto(p, "release")
     ELSE UNCHANGED <<file, overlap>> /\ Goto(p, "failed")
  /\ UNCHANGED <<lock, writable, late, acquired, crashes, stalls, copy, audit>>

Locking(p) == Create(p) \/ Stat(p) \/ Break(p) \/ Unlock(p)

Step(p) ==
  \/ Locking(p) /\ UNCHANGED <<file, copy, audit, overlap>>
  \/ Read(p)
  \/ AppendEntry(p)
  \/ Replace(p)

Environment ==
  /\ \/ \E p \in Procs : Deadline(p) \/ Crash(p)
     \/ GrowOld
  /\ UNCHANGED <<file, copy, audit, overlap>>

AllEnded == (\A p \in Procs : pc[p] \in Ended) /\ UNCHANGED updateVars

UpdateNext == (\E p \in Procs : Step(p)) \/ Environment \/ AllEnded

UpdateSpec == UpdateInit /\ [][UpdateNext]_updateVars

\* Processes keep running, clocks keep counting, an abandoned marker ages.
UpdateFairness ==
  /\ \A p \in Procs : WF_updateVars(Step(p)) /\ WF_updateVars(Deadline(p) /\ UNCHANGED <<file, copy, audit, overlap>>)
  /\ WF_updateVars(GrowOld /\ UNCHANGED <<file, copy, audit, overlap>>)

FairUpdates == UpdateSpec /\ UpdateFairness

-----------------------------------------------------------------------------
(* Correctness.                                                             *)

Faultless == crashes = 0 /\ stalls = 0

\* Callers that went ahead without the marker.
RanUnlocked == {p \in Procs \ (Checked \cup acquired) : pc[p] \notin Waiting}

\* Calls that reported success (a checked caller without the lock returns None).
Returned == {p \in Procs : pc[p] = "done" /\ (p \in acquired \/ p \notin Checked)}

\* While no owner dies or stalls, two owners of the marker never overlap,
\* however the waiting, the retries and the timeouts interleave (and UpdateTypeOK).
OwnersExclude ==
  UpdateTypeOK /\ (Faultless => Cardinality({p \in acquired : pc[p] \in Body}) <= 1)

\* An update that was reported successful is lost only to a caller that had read
\* the file before it was written; and when no owner died or stalled, one of the
\* two had gone ahead without the marker, so owners never lose each other's
\* updates, however many others write beside them.
OnlyOverlapsLose ==
  \A p \in Returned \ file : \E q \in Procs :
     p \in overlap[q] /\ (Faultless => ~({p, q} \subseteq acquired))

\* Write-ahead: whatever crashes or races happen, a change that reached
\* control.json has its line in control-audit.jsonl, or the append of that line
\* failed; and as long as everybody waited for a living owner the number of a
\* line, kept or not, is used by no other, so that a reader sees the gap.
TrailIsWrittenAhead ==
  /\ \A p \in file \cap Audited : \E i \in DOMAIN audit : audit[i].by = p
  /\ Faultless /\ RanUnlocked = {} =>
       \A i, j \in DOMAIN audit : audit[i].seq = audit[j].seq => i = j

\* What an update leaves behind: both of the above.
UpdatesAreKept == OnlyOverlapsLose /\ TrailIsWrittenAhead

\* A process that waits behind the marker of a dead owner gets through,
\* with or without a deadline of its own.
EveryCallerGetsThrough ==
  \A p \in Procs : writable ~> pc[p] \in Ended

-----------------------------------------------------------------------------
(* Promises of the comments that the code does not keep.                    *)

\* "so a concurrent issue and revoke cannot lose each other" (session_authz.py:384),
\* for callers that go ahead without the marker when their time is up.
IssueAndRevokeSurvive == Returned \ Checked \subseteq file

\* "a stale writer must never overwrite a newer acknowledgement"
\* (attention_store.py:26), for the callers that check the boolean.
NoStaleOverwrite == Returned \cap Checked \subseteq file

\* "a caller that cannot acquire within timeout proceeds anyway rather than
\* hang" (file_lock.py:13).
NeverHangs == \A p \in Impatient : <>(pc[p] \in Ended)
=============================================================================
