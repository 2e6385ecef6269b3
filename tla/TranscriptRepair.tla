-------------------------- MODULE TranscriptRepair --------------------------
(***************************************************************************)
(* repair_resumed_transcript (kernel/session_integrity.py): what a resume  *)
(* does to the stored conversation before it mounts it.                    *)
(*                                                                         *)
(* A message is reduced to who speaks, the tool calls it makes, the calls  *)
(* it answers and whether the answer is the tool's own.  A result may ride *)
(* on a message of the tool or of the user.  Which results are out of      *)
(* order is decided by amplifier_foundation; Misplaced is what the code    *)
(* relies on it to find.                                                   *)
(***************************************************************************)
EXTENDS Naturals, Sequences, FiniteSets, SequencesExt

CONSTANT Ids   \* tool call ids

Messages == [role : {"user", "assistant", "tool"}, calls : SUBSET Ids,
             results : SUBSET Ids, real : BOOLEAN]

Says(role) == [role |-> role, calls |-> {}, results |-> {}, real |-> TRUE]
Calling(X) == [Says("assistant") EXCEPT !.calls = X]
Result(role, x) == [Says(role) EXCEPT !.results = {x}]
Placeholder(x) == [Result("tool", x) EXCEPT !.real = FALSE]

Answered(t) == UNION {t[i].results : i \in DOMAIN t}

Called(t) == UNION {t[i].calls : i \in DOMAIN t}

\* t[i] answers calls of t[j], with nothing but results in between.
InPlace(t, j, i) ==
  j < i /\ \A k \in (j + 1) .. i : t[k].results # {}

\* Results that do not follow the message that made their call.
Misplaced(t) ==
  {x \in Ids : \E i, j \in DOMAIN t :
                 x \in t[i].results /\ x \in t[j].calls /\ ~InPlace(t, j, i)}

\* skip_indices: only a tool's own message is dropped.
Staged(t) ==
  LET dropped(m) == m.role = "tool" /\ m.results \cap Misplaced(t) # {}
  IN  FlattenSeq([i \in DOMAIN t |-> IF dropped(t[i]) THEN <<>> ELSE <<t[i]>>])

\* The calls of s[i] nobody has answered.
Missing(s, i) ==
  s[i].calls \ (Answered(s) \cup UNION {s[j].calls : j \in 1 .. i - 1})

Placeholders(X) == LET ids == SetToSeq(X) IN [k \in DOMAIN ids |-> Placeholder(ids[k])]

\* Mutant: the placeholders go to the end of the conversation.
FilledAtTheEnd(s) ==
  s \o FlattenSeq([i \in DOMAIN s |-> Placeholders(Missing(s, i))])

\* The orphan pass.
Filled(s) ==
  FlattenSeq([i \in DOMAIN s |-> <<s[i]>> \o Placeholders(Missing(s, i))])

Damaged(t) ==
  \/ Misplaced(t) # {}
  \/ \E i \in DOMAIN Staged(t) : Missing(Staged(t), i) # {}

Repaired(t) == IF Damaged(t) THEN Filled(Staged(t)) ELSE t

\* What a provider accepts: the call is answered once, right after it was made.
Follows(t, x) ==
  \E i, j \in DOMAIN t :
    /\ x \in t[j].calls /\ x \in t[i].results /\ InPlace(t, j, i)
    /\ \A k \in DOMAIN t \ {i} : x \notin t[k].results

\* Late results on a user's message.
RidesLate(t) ==
  {x \in Misplaced(t) : \E i \in DOMAIN t : t[i].role = "user" /\ x \in t[i].results}
=============================================================================
