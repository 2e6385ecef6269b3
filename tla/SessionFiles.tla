---------------------------- MODULE SessionFiles ----------------------------
(***************************************************************************)
(* The files of one stored session (kernel/persistence.py): transcript and *)
(* metadata, each with the backup of its previous version.  A live process *)
(* resumes the session, grows the conversation and saves it after tools    *)
(* and turns; the shell renames the session.  Either may end at any write, *)
(* a write may fail, and a file may be spoiled from outside.  No lock is   *)
(* taken: an update reads the metadata, merges, and writes it back.        *)
(*                                                                         *)
(* The session is a fork child (kernel/session_manager.py): it is primed   *)
(* with a directive that its first resume runs.                            *)
(***************************************************************************)
EXTENDS TranscriptRepair

CONSTANTS
  MaxLen,      \* messages of the conversation
  MaxNames,    \* renames
  MaxFaults    \* processes that end, writes that fail and files that are spoiled

ASSUME FilesAssumption ==
  /\ IsFiniteSet(Ids)
  /\ {MaxLen, MaxNames, MaxFaults} \subseteq Nat

VARIABLES
  tfile, tback,   \* transcript.jsonl and its .backup
  mfile, mback,   \* metadata.json and its .backup
  live,           \* the live process: down, booting, starting, idle, turn
  context,        \* its conversation
  mark,           \* _last_message_count
  directive,      \* it has a directive to run
  writing,        \* of each actor: the writes it has left, and what it writes
  names, faults, spoils,
  last,           \* history: the transcripts stored last and before it
  named,          \* history: the last name that was stored
  overlapped,     \* history: a metadata update was written over another's read
  refused,        \* history: the update that clears the directive was not written
  bare,           \* history: a file was spoiled that had no backup
  shrunk,         \* history: the conversation got shorter and was not saved since
  runs            \* history: turns started for the directive

files == <<tfile, tback, mfile, mback>>
counts == <<names, faults, spoils>>
history == <<last, named, overlapped, refused, bare, shrunk, runs>>
vars == <<files, live, context, mark, directive, writing, counts, history>>

Actors == {"live", "shell"}

\* A file is missing, cannot be parsed, or holds a content.
None == [is |-> "none"]
Bad == [is |-> "bad"]
Holding(c) == [is |-> "ok", content |-> c]
Readable(f) == f.is = "ok"

\* recovered marks what _load_metadata returns when neither copy parses.
Metadata == [name : 0 .. MaxNames, directive : BOOLEAN, recovered : BOOLEAN]
Shell == [name |-> 0, directive |-> FALSE, recovered |-> TRUE]

\* Mutant: the backup is not read.
LoadFileOnly(file, back, neither) == IF Readable(file) THEN file.content ELSE neither

\* _load_transcript, _load_metadata: the file, else its backup.
Load(file, back, neither) ==
  CASE Readable(file) -> file.content
    [] ~Readable(file) /\ Readable(back) -> back.content
    [] OTHER -> neither

metadata == Load(mfile, mback, Shell)
transcript == Load(tfile, tback, <<>>)

\* summary_for, resolve_for_resume: the metadata must parse; a transcript that
\* does not is announced, and the session resumes without it.
Resumable == ~metadata.recovered

Idle == [left |-> <<>>]
Plan(left, t, m, kind) == [left |-> left, t |-> t, m |-> m, kind |-> kind]
SaveAll == <<"tback", "tfile", "mback", "mfile">>
SaveMeta == <<"mback", "mfile">>

Free(a) == writing[a].left = <<>>

\* fork: save has written both files.  A call of the source may be running.
Init ==
  /\ \E t \in {<<>>, <<Calling(Ids)>>} : tfile = Holding(t) /\ last = <<t, t>>
  /\ mfile = Holding([name |-> 0, directive |-> TRUE, recovered |-> FALSE])
  /\ tback = None /\ mback = None
  /\ live = "down" /\ context = <<>> /\ mark = 0 /\ directive = FALSE
  /\ writing = [a \in Actors |-> Idle]
  /\ names = 0 /\ faults = 0 /\ spoils = 0
  /\ named = 0 /\ runs = 0
  /\ overlapped = FALSE /\ refused = FALSE /\ bare = FALSE /\ shrunk = FALSE

-----------------------------------------------------------------------------
(* Writing.  _write_with_backup replaces the backup by a copy of the bytes *)
(* of the file, readable or not, and then the file.                        *)

\* Another actor has read the metadata and not yet written it.
Contended(a) == \E b \in Actors \ {a} : ~Free(b)

Write(a) ==
  LET w == writing[a]
      step == Head(w.left)
      saved == step = "mfile" /\ w.kind = "save"
  IN  /\ ~Free(a)
      /\ tback' = IF step = "tback" THEN tfile ELSE tback
      /\ tfile' = IF step = "tfile" THEN Holding(w.t) ELSE tfile
      /\ mback' = IF step = "mback" THEN mfile ELSE mback
      /\ mfile' = IF step = "mfile" THEN Holding(w.m) ELSE mfile
      /\ writing' = [writing EXCEPT ![a] =
                       IF step = "mfile" THEN Idle ELSE [w EXCEPT !.left = Tail(@)]]
      /\ mark' = IF saved THEN Len(w.t) ELSE mark
      /\ shrunk' = (shrunk /\ ~saved)
      /\ last' = IF step = "tfile" THEN <<w.t, last[1]>> ELSE last
      /\ overlapped' = (overlapped \/ (step = "mfile" /\ Contended(a)))
      /\ named' = IF step = "mfile" /\ w.kind = "rename" THEN w.m.name ELSE named
      /\ UNCHANGED <<live, context, directive, counts, refused, bare, runs>>

\* An OSError.  A backup that cannot be written is done without; a file that
\* cannot be written ends the save, and every caller goes on.
WriteFails(a) ==
  LET w == writing[a]
      step == Head(w.left)
  IN  /\ ~Free(a) /\ faults + spoils < MaxFaults
      /\ faults' = faults + 1
      /\ writing' = [writing EXCEPT ![a] =
                       IF step \in {"tback", "mback"} THEN [w EXCEPT !.left = Tail(@)] ELSE Idle]
      /\ refused' = (refused \/ (step = "mfile" /\ w.kind = "take"))
      /\ UNCHANGED <<files, live, context, mark, directive, names, spoils,
                     last, named, overlapped, bare, shrunk, runs>>

-----------------------------------------------------------------------------
(* The live process.                                                        *)

\* What the process knows is lost with it.
Gone == live' = "down" /\ context' = <<>> /\ mark' = 0 /\ directive' = FALSE /\ shrunk' = FALSE

\* RealRuntime.start: load, repair, and store what was repaired.
Boot ==
  /\ live = "down" /\ Resumable
  /\ live' = "booting"
  /\ context' = Repaired(transcript)
  /\ writing' = [writing EXCEPT !["live"] =
       IF Damaged(transcript) THEN Plan(SaveAll, context', metadata, "repair") ELSE Idle]
  /\ UNCHANGED <<files, mark, directive, counts, history>>

\* Mutant: the directive stays in the store.
TakeAndKeep ==
  /\ live = "booting" /\ Free("live")
  /\ live' = "starting"
  /\ directive' = metadata.directive
  /\ UNCHANGED <<files, context, mark, writing, counts, history>>

\* take_pending_directive
Take ==
  /\ live = "booting" /\ Free("live")
  /\ live' = "starting"
  /\ directive' = metadata.directive
  /\ writing' = [writing EXCEPT !["live"] =
       IF metadata.directive
         THEN Plan(SaveMeta, <<>>, [metadata EXCEPT !.directive = FALSE], "take") ELSE Idle]
  /\ UNCHANGED <<files, context, mark, counts, history>>

\* The rest of start, which may fail: no bundle, no provider.
Start ==
  /\ live = "starting" /\ Free("live")
  /\ Gone \/ (live' = "idle" /\ UNCHANGED <<context, mark, directive, shrunk>>)
  /\ UNCHANGED <<files, writing, counts, last, named, overlapped, refused, bare, runs>>

Grow(m) == Len(context) < MaxLen /\ context' = Append(context, m)

\* submit; run_pending_directive comes before anything a user types.
Turn ==
  /\ live = "idle" /\ Free("live")
  /\ Grow(Says("user"))
  /\ live' = "turn"
  /\ directive' = FALSE
  /\ runs' = IF directive THEN runs + 1 ELSE runs
  /\ UNCHANGED <<files, mark, writing, counts, last, named, overlapped, refused, bare, shrunk>>

\* External: the model's calls, which the orchestrator adds.
Call ==
  /\ live = "turn" /\ Free("live")
  /\ \E X \in SUBSET (Ids \ Called(context)) : X # {} /\ Grow(Calling(X))
  /\ UNCHANGED <<files, live, mark, directive, writing, counts, history>>

\* IncrementalSaver._save: only when the conversation has grown.
Saved ==
  IF Len(context') > mark
    THEN writing' = [writing EXCEPT !["live"] = Plan(SaveAll, context', metadata, "save")]
    ELSE UNCHANGED writing

\* A result, which may come after its turn has gone on; tool:post saves.
Return ==
  /\ live = "turn" /\ Free("live")
  /\ \E x \in Called(context) \ Answered(context), role \in {"tool", "user"} :
       Grow(Result(role, x))
  /\ Saved
  /\ UNCHANGED <<files, live, mark, directive, counts, history>>

\* Mutant: the end of the turn is left to tool:post.
EndUnsaved ==
  /\ live = "turn" /\ Free("live")
  /\ Grow(Says("assistant"))
  /\ live' = "idle"
  /\ UNCHANGED <<files, mark, directive, writing, counts, history>>

\* The final answer, or the marker of an interrupted turn; then the save.
End ==
  /\ live = "turn" /\ Free("live")
  /\ Grow(Says("assistant"))
  /\ Saved
  /\ live' = "idle"
  /\ UNCHANGED <<files, mark, directive, counts, history>>

\* /clear; the saver is not told.
Clear ==
  /\ live = "idle" /\ Free("live") /\ context # <<>>
  /\ context' = <<>>
  /\ shrunk' = TRUE
  /\ UNCHANGED <<files, live, mark, directive, writing, counts, last, named, overlapped, refused, bare, runs>>

-----------------------------------------------------------------------------
(* /rename and the shell's session rename, and what goes wrong.             *)

Rename(a) ==
  /\ Free(a) /\ names < MaxNames
  /\ a = "live" => live \in {"idle", "turn"}
  /\ names' = names + 1
  /\ writing' = [writing EXCEPT ![a] =
       Plan(SaveMeta, <<>>, [metadata EXCEPT !.name = names + 1], "rename")]
  /\ UNCHANGED <<files, live, context, mark, directive, faults, spoils, history>>

\* A shell that is not writing has nothing to lose.
Crash(a) ==
  /\ faults + spoils < MaxFaults
  /\ faults' = faults + 1
  /\ writing' = [writing EXCEPT ![a] = Idle]
  /\ IF a = "live" THEN live # "down" /\ Gone
                   ELSE ~Free(a) /\ UNCHANGED <<live, context, mark, directive, shrunk>>
  /\ UNCHANGED <<files, names, spoils, last, named, overlapped, refused, bare, runs>>

\* External: something else damages a file.
Spoil ==
  /\ faults + spoils < MaxFaults
  /\ spoils' = spoils + 1
  /\ \/ /\ Readable(tfile) /\ tfile' = Bad
        /\ bare' = (bare \/ ~Readable(tback))
        /\ UNCHANGED <<tback, mfile, mback>>
     \/ /\ Readable(mfile) /\ mfile' = Bad
        /\ bare' = (bare \/ ~Readable(mback))
        /\ UNCHANGED <<tfile, tback, mback>>
  /\ UNCHANGED <<live, context, mark, directive, writing, names, faults,
                 last, named, overlapped, refused, shrunk, runs>>

Next ==
  \/ Boot \/ Take \/ Start
  \/ Turn \/ Call \/ Return \/ End \/ Clear
  \/ \E a \in Actors : Write(a) \/ WriteFails(a) \/ Rename(a) \/ Crash(a)
  \/ Spoil

Spec == Init /\ [][Next]_vars

-----------------------------------------------------------------------------
TypeOK ==
  /\ \A f \in {mfile, mback} : f \in {None, Bad} \/ (Readable(f) /\ f.content \in Metadata)
  /\ \A f \in {tfile, tback} :
       f \in {None, Bad} \/ (Readable(f) /\ f.content \in Seq(Messages))
  /\ live \in {"down", "booting", "starting", "idle", "turn"}
  /\ context \in Seq(Messages)
  /\ mark \in Nat /\ directive \in BOOLEAN
  /\ \A a \in Actors : Free(a) \/ writing[a].m \in Metadata
  /\ names \in 0 .. MaxNames /\ faults \in Nat /\ spoils \in Nat /\ faults + spoils <= MaxFaults

\* A resumed conversation is one a provider accepts, but for a result that came
\* late on a user's message, which the repair leaves where it is; and a second
\* resume of the repaired conversation changes nothing (repair_resumed_transcript).
RepairIsSound ==
  live \in {"booting", "starting"} =>
    /\ \A x \in Called(context) : Follows(context, x) \/ x \in RidesLate(context)
    /\ Repaired(context) = context

\* A fork's directive is run by at most one resume, and the last name given is
\* the session's name, unless two updates overlapped, the directive could not be
\* cleared or the metadata was spoiled (take_pending_directive, update_metadata;
\* and TypeOK).
UpdatesSurvive ==
  TypeOK /\ (~overlapped /\ ~refused /\ spoils = 0 => runs <= 1 /\ metadata.name = named)

\* One fault costs no more than the last save: whatever was spoiled or wherever
\* a process ended, the session can be resumed, with the conversation stored
\* last or, when that file was spoiled, the one before; two updates that overlap
\* are apart, one may read while the other has only a spoiled backup
\* (_write_with_backup, _load_transcript, _load_metadata).
OneFaultIsSurvived ==
  faults + spoils <= 1 /\ ~bare /\ ~overlapped /\ (\A a \in Actors : Free(a)) =>
    /\ Resumable
    /\ transcript = last[1] \/ (spoils = 1 /\ transcript = last[2])

\* When a turn has ended the whole conversation is stored, unless a write failed
\* or the conversation had shrunk; and the saver never takes for stored what is
\* not, so that a failed save is made up for (maybe_save, _last_message_count).
EndedTurnIsStored ==
  live = "idle" /\ Free("live") /\ spoils = 0 /\ ~shrunk =>
    /\ faults = 0 => transcript = context
    /\ mark <= Len(transcript) /\ SubSeq(context, 1, mark) = SubSeq(transcript, 1, mark)

-----------------------------------------------------------------------------
(* A promise of the comments that the code does not keep.                   *)

\* "clears it so a later resume of the same child does not replay the
\* instruction" (take_pending_directive, session_manager.py:643).
DirectiveIsTakenOnce == ~refused /\ spoils = 0 => runs <= 1
=============================================================================
