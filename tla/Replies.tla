-------------------------------- MODULE Replies --------------------------------
(***************************************************************************)
(* A notification is answered from another device (kernel/ambient/reply.py, *)
(* kernel/attention_store.py, ui/app.py _notify_attention).                *)
(*                                                                         *)
(* The question tool parks a question in the session's queue; the          *)
(* interface records the event, binds its id to the decision, and          *)
(* publishes it.  A reply comes back as a signed envelope, any number of   *)
(* times, and each arrival is a thread of the loopback listener: it        *)
(* verifies, reserves the nonce, submits the text to the queue, records    *)
(* the outcome and acknowledges the event.  Meanwhile the person answers   *)
(* in the interface, the device is revoked, envelopes go stale, and the    *)
(* process ends and starts again on the same files.                        *)
(*                                                                         *)
(* The queue numbers its decisions from one in every process and the event *)
(* id is made of that number, so a decision and its event are one number   *)
(* here, and Questions tells apart what was really asked.  Files are       *)
(* replaced whole under a lock; the lock is module FileLock.               *)
(***************************************************************************)
EXTENDS Naturals, Sequences, FiniteSets, SequencesExt

CONSTANTS
    Handlers,      \* threads of the listener
    MaxAsks,       \* bound: questions asked
    MaxReplies,    \* bound: envelopes signed
    MaxNonces,     \* MAX_NONCES, 512 in the code
    MaxFaults      \* bound: ends of the process and writes that fail, together

ASSUME RepliesAssumption ==
    /\ IsFiniteSet(Handlers)
    /\ MaxAsks \in Nat /\ MaxReplies \in Nat /\ MaxNonces \in Nat \ {0}
    /\ MaxFaults \in Nat

Questions == 1..MaxAsks
Ids       == 1..MaxAsks
Nonces    == 1..MaxReplies
Human     == 0

VARIABLES
    \* On disk.
    row, current,   \* attention.json: each event's row, and the latest event (0: none)
    bound,          \* correlations: the event ids that lead to a decision
    ring,           \* deliveries: the nonces reserved, oldest first
    delivered,      \* deliveries: the outcomes
    enrolled,       \* the device has a secret
    \* In the process.
    running,
    queue,          \* NeedsYouQueue: decision d is the d-th item
    todo,           \* parked decisions the interface has not noted yet
    ui,             \* the interface's thread, between two writes
    h,              \* the handler threads
    \* Outside.
    heard,          \* the notifications the device shows
    mail,           \* the envelopes, by nonce: the event and the question replied to
    stale,          \* those signed too long ago
    \* History and budgets.
    asks, applied,  \* questions asked; which reply became the answer of which question
    fresh, seen,    \* events minted by this process; those the person was there to see
    said,           \* what each row was last set to
    overlapped,     \* rows that were set between the load and the save of a reply
    faults

attention  == <<row, current>>
deliveries == <<ring, delivered>>
files      == <<attention, bound, deliveries, enrolled>>
process    == <<running, queue, todo, ui, h>>
outside    == <<heard, mail, stale>>
tale       == <<said, overlapped>>
history    == <<asks, applied, fresh, seen, tale>>
vars == <<files, process, outside, history, faults>>

Rows   == {"none", "open", "acked"}
Items  == [q : Questions, status : {"pending", "answered", "dismissed"}, by : {Human} \cup Nonces]
UIs    == [pc : {"idle", "bind", "ack"}, d : 0..MaxAsks]
NoSnap == [row |-> [d \in Ids |-> "none"], current |-> 0]
Rest   == [pc |-> "idle", n |-> 0, ok |-> FALSE, snap |-> NoSnap]
Threads == [pc : {"idle", "reserve", "who", "submit", "record", "load", "save"},
            n : 0..MaxReplies, ok : BOOLEAN,
            snap : [row : [Ids -> Rows], current : 0..MaxAsks]]

TypeOK ==
    /\ row \in [Ids -> Rows] /\ current \in 0..MaxAsks /\ bound \subseteq Ids
    /\ ring \in Seq(Nonces) /\ Len(ring) <= MaxNonces
    /\ delivered \subseteq [n : Nonces, ok : BOOLEAN] /\ enrolled \in BOOLEAN
    /\ running \in BOOLEAN /\ queue \in Seq(Items) /\ todo \in Seq(Ids) /\ ui \in UIs
    /\ h \in [Handlers -> Threads]
    /\ heard \subseteq [d : Ids, q : Questions]
    /\ mail \in Seq([d : Ids, q : Questions]) /\ stale \subseteq Nonces
    /\ asks \in 0..MaxAsks /\ applied \subseteq Nonces \X Questions
    /\ fresh \subseteq Ids /\ seen \subseteq Ids
    /\ faults \in 0..MaxFaults

Init ==
    /\ row = [d \in Ids |-> "none"] /\ current = 0 /\ bound = {}
    /\ ring = <<>> /\ delivered = {} /\ enrolled = TRUE
    /\ running = TRUE /\ queue = <<>> /\ todo = <<>> /\ ui = [pc |-> "idle", d |-> 0]
    /\ h = [t \in Handlers |-> Rest]
    /\ heard = {} /\ mail = <<>> /\ stale = {}
    /\ asks = 0 /\ applied = {} /\ fresh = {} /\ seen = {} /\ faults = 0
    /\ said = row /\ overlapped = {}

Mishap   == faults < MaxFaults /\ faults' = faults + 1
NoMishap == UNCHANGED faults

\* A row is set, beside the replies of the other threads.
Says(d, value, others) ==
    /\ said' = [said EXCEPT ![d] = value]
    /\ overlapped' = overlapped \cup {x \in {d} : \E t \in others : h[t].pc = "save"}

-------------------------------------------------------------------------------
(***************************************************************************)
(* The session: its runtime parks, its interface records and answers.      *)
(***************************************************************************)
\* NeedsYouQueue.defer by the question tool, and the event to the interface.
Park ==
    /\ running /\ asks < MaxAsks
    /\ asks' = asks + 1
    /\ queue' = Append(queue, [q |-> asks + 1, status |-> "pending", by |-> Human])
    /\ todo' = Append(todo, Len(queue) + 1)
    /\ UNCHANGED <<files, running, ui, h, outside, applied, fresh, seen, tale, faults>>

\* NeedsYouQueue.dismiss, when the question that parked the item is given up.
Dismiss ==
    /\ running
    /\ \E d \in DOMAIN queue : /\ queue[d].status = "pending"
                               /\ queue' = [queue EXCEPT ![d].status = "dismissed"]
    /\ UNCHANGED <<files, running, todo, ui, h, outside, history, faults>>

\* AttentionCenter.note: the store decides under its lock whether the event is new;
\* an event that cannot be written is new in memory, and is published all the same.
Note ==
    LET d == Head(todo)
    IN /\ running /\ ui.pc = "idle" /\ todo # <<>> /\ todo' = Tail(todo)
       /\ \/ /\ row[d] = "none" /\ ui' = [pc |-> "bind", d |-> d] /\ fresh' = fresh \cup {d}
             /\ row' = [row EXCEPT ![d] = "open"] /\ current' = d
             /\ Says(d, "open", Handlers) /\ NoMishap
          \/ row[d] # "none" /\ UNCHANGED <<attention, ui, fresh, tale>> /\ NoMishap
          \/ /\ Mishap /\ ui' = [pc |-> "bind", d |-> d]
             /\ row[d] = "none" /\ UNCHANGED <<attention, fresh, tale>>
       /\ UNCHANGED <<bound, deliveries, enrolled, running, queue, h, outside, asks, applied, seen>>

\* The rest of _notify_attention: the correlation, which may fail to be written,
\* and the notification, which shows the question of this process.
Bind ==
    /\ running /\ ui.pc = "bind" /\ ui' = [pc |-> "idle", d |-> 0]
    /\ \/ NoMishap /\ bound' = bound \cup {ui.d}
       \/ Mishap /\ UNCHANGED bound
    /\ heard' = heard \cup {[d |-> ui.d, q |-> queue[ui.d].q]}
    /\ UNCHANGED <<attention, deliveries, enrolled, running, queue, todo, h, mail, stale, history>>

\* NeedsYouQueue.answer: whoever comes first; a settled item refuses.
Answered(d, by) ==
    /\ queue[d].status = "pending"
    /\ queue' = [queue EXCEPT ![d].status = "answered", ![d].by = by]

\* apply_decision: the answer, and then the acknowledgement.
Decide ==
    /\ running /\ ui.pc = "idle" /\ ui' = [pc |-> "ack", d |-> 0]
    /\ \E d \in DOMAIN queue : Answered(d, Human)
    /\ UNCHANGED <<files, running, todo, h, outside, history, faults>>

\* AttentionCenter.acknowledge, after an answer or when the window gets the focus:
\* the session's latest event, whichever question was answered.
Acknowledge ==
    /\ running /\ ui.pc \in {"idle", "ack"} /\ ui' = [pc |-> "idle", d |-> 0]
    /\ current # 0 /\ seen' = seen \cup {current}
    /\ \/ /\ row[current] = "open" /\ row' = [row EXCEPT ![current] = "acked"]
          /\ Says(current, "acked", Handlers) /\ NoMishap
       \/ row[current] # "open" /\ UNCHANGED <<row, tale>> /\ NoMishap
       \/ Mishap /\ UNCHANGED <<row, tale>>
    /\ UNCHANGED <<current, bound, deliveries, enrolled, running, queue, todo, h, outside, asks,
                   applied, fresh>>

NothingToAcknowledge ==
    /\ running /\ ui.pc = "ack" /\ current = 0 /\ ui' = [pc |-> "idle", d |-> 0]
    /\ UNCHANGED <<files, running, queue, todo, h, outside, history, faults>>

-------------------------------------------------------------------------------
(***************************************************************************)
(* The device                                                              *)
(***************************************************************************)
Sign ==
    /\ Len(mail) < MaxReplies /\ enrolled
    /\ \E note \in heard : mail' = Append(mail, note)
    /\ UNCHANGED <<files, process, heard, stale, history, faults>>

Expire ==
    /\ \E n \in 1..Len(mail) : stale' = stale \cup {n}
    /\ UNCHANGED <<files, process, heard, mail, history, faults>>

Revoke ==
    /\ enrolled /\ enrolled' = FALSE
    /\ UNCHANGED <<attention, bound, deliveries, process, outside, history, faults>>

-------------------------------------------------------------------------------
(***************************************************************************)
(* ReplyChannel.accept in one handler thread                               *)
(***************************************************************************)
Goes(t, pc) == h' = [h EXCEPT ![t].pc = pc]
Returns(t)  == h' = [h EXCEPT ![t] = Rest]

\* verify and the lookup of the correlation, both without a lock; what they
\* refuse changes nothing here.
Verify(t) ==
    /\ running /\ h[t].pc = "idle"
    /\ \E n \in 1..Len(mail) :
          /\ enrolled /\ n \notin stale /\ n \notin ToSet(ring) /\ mail[n].d \in bound
          /\ h' = [h EXCEPT ![t].pc = "reserve", ![t].n = n]
    /\ UNCHANGED <<files, running, queue, todo, ui, outside, history, faults>>

\* Mutant of Reserve: the nonce is not written down.
ReserveInVain(t) ==
    /\ running /\ h[t].pc = "reserve" /\ Goes(t, "who")
    /\ UNCHANGED <<files, running, queue, todo, ui, outside, history, faults>>

\* ReplyDeliveryStore.reserve: the locked test and the bounded ring.
Reserve(t) ==
    /\ running /\ h[t].pc = "reserve"
    /\ \/ h[t].n \in ToSet(ring) /\ Returns(t) /\ UNCHANGED ring
       \/ /\ h[t].n \notin ToSet(ring) /\ Goes(t, "who")
          /\ LET longer == Append(ring, h[t].n)
             IN ring' = IF Len(longer) > MaxNonces THEN Tail(longer) ELSE longer
    /\ UNCHANGED <<attention, bound, delivered, enrolled, running, queue, todo, ui, outside,
                   history, faults>>

\* principal_for: the device may have been revoked meanwhile.
Who(t) ==
    /\ running /\ h[t].pc = "who" /\ Goes(t, IF enrolled THEN "submit" ELSE "record")
    /\ UNCHANGED <<files, running, queue, todo, ui, outside, history, faults>>

\* NeedsYouReplySubmissionPort.submit_reply: the decision of that number in the
\* queue of this process.
Submit(t) ==
    LET n == h[t].n
        d == mail[n].d
    IN /\ running /\ h[t].pc = "submit"
       /\ \/ /\ d \in DOMAIN queue /\ Answered(d, n)
             /\ applied' = applied \cup {<<n, queue[d].q>>}
             /\ h' = [h EXCEPT ![t].pc = "record", ![t].ok = TRUE]
          \/ /\ d \in DOMAIN queue => queue[d].status # "pending"
             /\ Goes(t, "record") /\ UNCHANGED <<queue, applied>>
       /\ UNCHANGED <<files, running, todo, ui, outside, asks, fresh, seen, tale, faults>>

\* Mutant of Record: a refused reply acknowledges the event too.
RecordAndGoOn(t) ==
    /\ running /\ h[t].pc = "record" /\ Goes(t, "load") /\ NoMishap
    /\ delivered' = delivered \cup {[n |-> h[t].n, ok |-> h[t].ok]}
    /\ UNCHANGED <<attention, bound, ring, enrolled, running, queue, todo, ui, outside, history>>

\* note_ambient and _record_delivery; a write that fails ends the thread.
Record(t) ==
    /\ running /\ h[t].pc = "record"
    /\ \/ /\ NoMishap /\ delivered' = delivered \cup {[n |-> h[t].n, ok |-> h[t].ok]}
          /\ IF h[t].ok THEN Goes(t, "load") ELSE Returns(t)
       \/ Mishap /\ Returns(t) /\ UNCHANGED delivered
    /\ UNCHANGED <<attention, bound, ring, enrolled, running, queue, todo, ui, outside, history>>

\* _acknowledge_attention: the store is read without its lock ...
AckLoad(t) ==
    /\ running /\ h[t].pc = "load"
    /\ \/ /\ row[mail[h[t].n].d] = "open"
          /\ h' = [h EXCEPT ![t].pc = "save",
                            ![t].snap = [row |-> row, current |-> current]]
       \/ row[mail[h[t].n].d] # "open" /\ Returns(t)
    /\ UNCHANGED <<files, running, queue, todo, ui, outside, history, faults>>

\* ... and replaced by what was read then, with one row acknowledged.
AckSave(t) ==
    LET d == mail[h[t].n].d
        snap == h[t].snap
    IN /\ running /\ h[t].pc = "save" /\ Returns(t)
       /\ \/ /\ NoMishap /\ row' = [snap.row EXCEPT ![d] = "acked"]
             /\ current' = IF snap.current = 0 THEN d ELSE snap.current
             /\ Says(d, "acked", Handlers \ {t})
          \/ Mishap /\ UNCHANGED <<attention, tale>>
       /\ UNCHANGED <<bound, deliveries, enrolled, running, queue, todo, ui, outside, asks, applied,
                      fresh, seen>>

-------------------------------------------------------------------------------
\* The process ends; its queue, its threads and its decision numbers are gone.
Crash ==
    /\ running /\ running' = FALSE /\ Mishap
    /\ queue' = <<>> /\ todo' = <<>> /\ ui' = [pc |-> "idle", d |-> 0]
    /\ h' = [t \in Handlers |-> Rest] /\ fresh' = {} /\ seen' = {}
    /\ UNCHANGED <<files, outside, asks, applied, tale>>

Restart ==
    /\ ~running /\ running' = TRUE
    /\ UNCHANGED <<files, queue, todo, ui, h, outside, history, faults>>

Session == Park \/ Dismiss \/ Note \/ Bind \/ Decide \/ Acknowledge \/ NothingToAcknowledge
Device  == Sign \/ Expire \/ Revoke
Accept(t) == Verify(t) \/ Reserve(t) \/ Who(t) \/ Submit(t) \/ Record(t) \/ AckLoad(t) \/ AckSave(t)
Next == Session \/ Device \/ (\E t \in Handlers : Accept(t)) \/ Crash \/ Restart

Spec == Init /\ [][Next]_vars

\* The threads run the same code.
Symmetry == Permutations(Handlers)

-------------------------------------------------------------------------------
(***************************************************************************)
(* Properties                                                              *)
(***************************************************************************)
\* One envelope answers one question, however often it arrives and whatever process
\* it reaches; that is the answer the question keeps, though the person and other
\* replies race for it; and the outcomes on disk tell the truth: recorded as accepted
\* is what was submitted, and no envelope is recorded both ways (and TypeOK).
AppliedOnce == \A p, r \in applied : p[1] = r[1] => p = r

AnswerIsKept ==
    \A p \in applied : \A d \in DOMAIN queue : queue[d].q = p[2] => queue[d].by = p[1]

OutcomesAgree == \A o \in delivered : o.ok <=> \E p \in applied : p[1] = o.n

ReplyActsOnce == TypeOK /\ AppliedOnce /\ AnswerIsKept /\ OutcomesAgree

\* accept: a failure never makes an unanswered question disappear.  An event minted
\* for a question that still waits is acknowledged only if the person was there; and
\* a row goes missing, or an acknowledgement is taken back, only if the row was set
\* while a reply was between the load and the save of its own acknowledgement.
AcknowledgedInPerson ==
    \A d \in fresh : queue[d].status = "pending" /\ row[d] = "acked" => d \in seen

RowsAreKept ==
    /\ said \in [Ids -> Rows] /\ overlapped \subseteq Ids
    /\ \A d \in Ids \ overlapped : row[d] = said[d]

UnansweredStaysOpen == AcknowledgedInPerson /\ RowsAreKept

\* reply_listener.py: an event id is resolved to the exact session and decision
\* before the queue is touched.
ReplyAnswersItsQuestion == \A p \in applied : mail[p[1]].q = p[2]

\* "a stale writer must never overwrite a newer acknowledgement"
\* (attention_store.py:25).
AcknowledgementStays == [][\A d \in Ids : row[d] = "acked" => row'[d] = "acked"]_row
===============================================================================
