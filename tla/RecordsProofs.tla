--------------------------- MODULE RecordsProofs ---------------------------
(***************************************************************************)
(* What is on record.  Replies: what answering from another device         *)
(* guarantees for any number of handler threads, questions, envelopes and  *)
(* faults; an envelope acts once for as long as no more have been signed   *)
(* than the ring of nonces holds.  Checkpoints, in the second half: the    *)
(* recorded changes of the sessions of one workspace, for any sessions,    *)
(* paths and windows and any number of restores and faults.                *)
(***************************************************************************)
EXTENDS Replies, Checkpoints, FiniteSetTheorems, SequenceTheorems, WellFoundedInduction,
        NaturalsInduction, TLAPS

\* The queue numbers what was asked in this process, and the interface only
\* knows items of this queue.
Placed ==
  /\ Len(queue) <= asks
  /\ \A d \in DOMAIN queue : queue[d].q <= asks
  /\ \A d, e \in DOMAIN queue : queue[d].q = queue[e].q => d = e
  /\ \A i \in DOMAIN todo : todo[i] \in DOMAIN queue
  /\ fresh \subseteq DOMAIN queue
  /\ ui.pc = "bind" => ui.d \in DOMAIN queue
  /\ Len(mail) <= MaxReplies

\* A thread handles an envelope that was signed; one whose reply was accepted
\* has settled an item of this process.
Handling(t) ==
  /\ h[t].pc # "idle" => h[t].n \in 1..Len(mail)
  /\ h[t].pc \in {"idle", "reserve", "who", "submit"} => ~h[t].ok
  /\ h[t].pc \in {"load", "save"} => h[t].ok
  /\ h[t].pc # "idle" /\ h[t].ok =>
       mail[h[t].n].d \in DOMAIN queue /\ queue[mail[h[t].n].d].status # "pending"

\* What a thread has read and will write back: it holds no row of an event that
\* was minted since, and acknowledges no question that waits unseen.
Loaded(t) ==
  h[t].pc = "save" =>
    /\ h[t].snap.row[mail[h[t].n].d] = "open"
    /\ \A d \in Ids \ fresh : h[t].snap.row[d] = "none" <=> row[d] = "none"
    /\ \A d \in fresh : queue[d].status = "pending" /\ h[t].snap.row[d] = "acked" => d \in seen

Unconditional ==
  /\ TypeOK
  /\ Placed
  /\ \A t \in Handlers : Handling(t) /\ Loaded(t)
  /\ AcknowledgedInPerson

Past == {"who", "submit", "record", "load", "save"}

\* A nonce is reserved by one thread, once and for all.
Reserved ==
  /\ Len(ring) = Cardinality(ToSet(ring)) /\ ToSet(ring) \subseteq 1..Len(mail)
  /\ \A t \in Handlers : h[t].pc \in Past => h[t].n \in ToSet(ring)
  /\ \A t, u \in Handlers :
       h[t].pc \in Past /\ h[u].pc \in Past /\ h[t].n = h[u].n => t = u

\* What was submitted and what was recorded of a nonce, and by which thread the
\* rest is still to be done.
Told(n) == \E p \in applied : p[1] = n

ActsOn(t) ==
  /\ h[t].pc \in {"who", "submit"} => ~Told(h[t].n) /\ \A o \in delivered : o.n # h[t].n
  /\ h[t].pc = "record" => (h[t].ok <=> Told(h[t].n))

Acting ==
  /\ \A p \in applied :
       /\ p[1] \in ToSet(ring) /\ p[2] <= asks
       /\ \A d \in DOMAIN queue :
            queue[d].q = p[2] => queue[d].status = "answered" /\ queue[d].by = p[1]
  /\ \A o \in delivered : o.n \in ToSet(ring)
  /\ \A t \in Handlers : ActsOn(t)
  /\ AppliedOnce /\ OutcomesAgree

Roomy == Len(mail) <= MaxNonces

IInv ==
  /\ Unconditional
  /\ Roomy => Reserved /\ Acting

-------------------------------------------------------------------------------
(* The initial state.                                                        *)

LEMMA RestIsAThread ==
  /\ Rest \in Threads /\ Rest.pc = "idle" /\ ~Rest.ok
  /\ \A t \in Handlers : [u \in Handlers |-> Rest][t] = Rest
<1>1. NoSnap \in [row : [Ids -> Rows], current : 0..MaxAsks]
  BY RepliesAssumption DEF NoSnap, Rows
<1>2. 0 \in 0..MaxReplies
  BY RepliesAssumption
<1>. QED
  BY <1>1, <1>2 DEF Rest, Threads

LEMMA InitIInv == Init => IInv
<1>. SUFFICES ASSUME Init PROVE IInv
  OBVIOUS
<1>. USE RepliesAssumption DEF Init
<1>1. TypeOK
  <2>1. row \in [Ids -> Rows] /\ current \in 0..MaxAsks /\ asks \in 0..MaxAsks
        /\ faults \in 0..MaxFaults
    BY DEF Rows
  <2>2. ring \in Seq(Nonces) /\ Len(ring) <= MaxNonces /\ queue \in Seq(Items)
        /\ todo \in Seq(Ids) /\ mail \in Seq([d : Ids, q : Questions])
    OBVIOUS
  <2>3. ui \in UIs
    BY DEF UIs
  <2>4. h \in [Handlers -> Threads]
    BY RestIsAThread
  <2>. QED
    BY <2>1, <2>2, <2>3, <2>4 DEF TypeOK
<1>2. Placed
  BY DEF Placed
<1>3. \A t \in Handlers : h[t] = Rest
  BY RestIsAThread
<1>4. \A t \in Handlers : Handling(t) /\ Loaded(t)
  BY <1>3, RestIsAThread DEF Handling, Loaded
<1>5. AcknowledgedInPerson
  BY DEF AcknowledgedInPerson
<1>6. Reserved
  <2>1. ToSet(ring) = {}
    BY DEF ToSet
  <2>. QED
    BY <1>3, <2>1, RestIsAThread, FS_EmptySet DEF Reserved, Past
<1>7. Acting
  BY <1>3, RestIsAThread DEF Acting, ActsOn, AppliedOnce, OutcomesAgree
<1>. QED
  BY <1>1, <1>2, <1>4, <1>5, <1>6, <1>7 DEF IInv, Unconditional

-------------------------------------------------------------------------------
(* Moving a thread, settling an item.                                        *)

LEMMA Appended ==
  ASSUME NEW S, NEW s \in Seq(S), NEW x \in S
  PROVE  /\ Append(s, x) \in Seq(S) /\ Len(Append(s, x)) = Len(s) + 1
         /\ \A i \in DOMAIN s : i \in 1..Len(s) /\ Append(s, x)[i] = s[i]
         /\ \A i \in DOMAIN Append(s, x) : i \notin DOMAIN s => Append(s, x)[i] = x
OBVIOUS

PCs == {"idle", "reserve", "who", "submit", "record", "load", "save"}

LEMMA GoesMoves ==
  ASSUME TypeOK, NEW t \in Handlers, NEW pc \in PCs, Goes(t, pc)
  PROVE  /\ h' \in [Handlers -> Threads]
         /\ \A u \in Handlers \ {t} : h'[u] = h[u]
         /\ h'[t].pc = pc /\ h'[t].n = h[t].n /\ h'[t].ok = h[t].ok /\ h'[t].snap = h[t].snap
<1>1. h[t] \in Threads /\ h \in [Handlers -> Threads]
  BY DEF TypeOK
<1>2. h' = [h EXCEPT ![t] = [h[t] EXCEPT !.pc = pc]]
  BY DEF Goes
<1>3. [h[t] EXCEPT !.pc = pc] \in Threads
  BY <1>1 DEF Threads, PCs
<1>4. h'[t] = [h[t] EXCEPT !.pc = pc]
  BY <1>1, <1>2
<1>. QED
  BY <1>1, <1>2, <1>3, <1>4 DEF Threads

LEMMA ReturnsMoves ==
  ASSUME TypeOK, NEW t \in Handlers, Returns(t)
  PROVE  /\ h' \in [Handlers -> Threads]
         /\ \A u \in Handlers \ {t} : h'[u] = h[u]
         /\ h'[t] = Rest /\ h'[t].pc = "idle" /\ ~h'[t].ok
BY RestIsAThread DEF TypeOK, Returns

\* Items are settled once, and keep the question they were parked for.
Forward ==
  /\ queue' \in Seq(Items)
  /\ DOMAIN queue \subseteq DOMAIN queue'
  /\ \A d \in DOMAIN queue : /\ queue'[d].q = queue[d].q
                             /\ queue[d].status # "pending" => queue'[d] = queue[d]

LEMMA AnsweredMoves ==
  ASSUME TypeOK, NEW d \in DOMAIN queue, NEW w \in {Human} \cup Nonces, Answered(d, w)
  PROVE  /\ Forward /\ Len(queue') = Len(queue) /\ DOMAIN queue' = DOMAIN queue
         /\ queue[d].status = "pending"
         /\ queue'[d].status = "answered" /\ queue'[d].by = w
         /\ \A e \in DOMAIN queue \ {d} : queue'[e] = queue[e]
<1>1. queue \in Seq(Items) /\ queue[d] \in Items
  BY DEF TypeOK
<1>2. queue' = [queue EXCEPT ![d] = [queue[d] EXCEPT !.status = "answered", !.by = w]]
  BY DEF Answered
<1>3. [queue[d] EXCEPT !.status = "answered", !.by = w] \in Items
  BY <1>1 DEF Items
<1>4. queue'[d] = [queue[d] EXCEPT !.status = "answered", !.by = w]
      /\ queue' \in Seq(Items) /\ Len(queue') = Len(queue) /\ DOMAIN queue' = DOMAIN queue
      /\ \A e \in DOMAIN queue \ {d} : queue'[e] = queue[e]
  BY <1>1, <1>2, <1>3
<1>5. queue'[d].status = "answered" /\ queue'[d].by = w /\ queue'[d].q = queue[d].q
  BY <1>1, <1>4 DEF Items
<1>. QED
  BY <1>1, <1>4, <1>5 DEF Answered, Forward

LEMMA DismissMoves ==
  ASSUME TypeOK, Dismiss
  PROVE  /\ Forward /\ Len(queue') = Len(queue) /\ DOMAIN queue' = DOMAIN queue
         /\ \A d \in DOMAIN queue : queue'[d].status # "pending" \/ queue'[d] = queue[d]
<1>1. PICK d \in DOMAIN queue : /\ queue[d].status = "pending"
                                /\ queue' = [queue EXCEPT ![d].status = "dismissed"]
  BY DEF Dismiss
<1>2. queue \in Seq(Items) /\ queue[d] \in Items
  BY DEF TypeOK
<1>3. [queue[d] EXCEPT !.status = "dismissed"] \in Items
  BY <1>2 DEF Items
<1>4. queue'[d] = [queue[d] EXCEPT !.status = "dismissed"]
      /\ queue' \in Seq(Items) /\ Len(queue') = Len(queue) /\ DOMAIN queue' = DOMAIN queue
      /\ \A e \in DOMAIN queue \ {d} : queue'[e] = queue[e]
  BY <1>1, <1>2, <1>3
<1>5. queue'[d].status = "dismissed" /\ queue'[d].q = queue[d].q
  BY <1>2, <1>4 DEF Items
<1>. QED
  BY <1>1, <1>4, <1>5 DEF Forward

LEMMA ParkMoves ==
  ASSUME TypeOK, Placed, Park
  PROVE  /\ Forward /\ Len(queue') = Len(queue) + 1 /\ asks' = asks + 1
         /\ asks' \in 0..MaxAsks /\ Len(queue') \in Ids
         /\ queue'[Len(queue')].q = asks' /\ queue'[Len(queue')].status = "pending"
         /\ \A d \in DOMAIN queue : queue'[d] = queue[d]
         /\ DOMAIN queue' = DOMAIN queue \cup {Len(queue')}
         /\ todo' = Append(todo, Len(queue'))
<1>1. queue \in Seq(Items) /\ asks \in Nat /\ asks < MaxAsks /\ MaxAsks \in Nat
      /\ Len(queue) <= asks
  BY RepliesAssumption DEF TypeOK, Park, Placed
<1>. DEFINE item == [q |-> asks + 1, status |-> "pending", by |-> Human]
<1>2. item \in Items
  BY <1>1 DEF Items, Questions
<1>3. queue' = Append(queue, item) /\ asks' = asks + 1 /\ todo' = Append(todo, Len(queue) + 1)
  BY DEF Park
<1>4. item.q = asks + 1 /\ item.status = "pending"
  OBVIOUS
<1>. HIDE DEF item
<1>5. /\ queue' \in Seq(Items) /\ Len(queue') = Len(queue) + 1
      /\ queue'[Len(queue')] = item
      /\ \A d \in DOMAIN queue : queue'[d] = queue[d]
      /\ DOMAIN queue' = DOMAIN queue \cup {Len(queue')}
  BY <1>1, <1>2, <1>3
<1>. QED
  BY <1>1, <1>3, <1>4, <1>5 DEF Forward, Ids

LEMMA FaultTypes ==
  ASSUME TypeOK, NoMishap \/ Mishap
  PROVE  faults' \in 0..MaxFaults
<1>1. faults \in Nat /\ faults <= MaxFaults /\ MaxFaults \in Nat
  BY RepliesAssumption DEF TypeOK
<1>2. CASE NoMishap
  BY <1>1, <1>2 DEF NoMishap
<1>3. CASE Mishap
  BY <1>1, <1>3 DEF Mishap
<1>. QED
  BY <1>2, <1>3

LEMMA UITypes ==
  /\ \A d \in 0..MaxAsks : [pc |-> "bind", d |-> d] \in UIs
  /\ [pc |-> "idle", d |-> 0] \in UIs /\ [pc |-> "ack", d |-> 0] \in UIs
<1>1. 0 \in 0..MaxAsks
  BY RepliesAssumption
<1>. QED
  BY <1>1 DEF UIs

\* What the queue holds of an event that the interface knows.
LEMMA ItemTypes ==
  ASSUME TypeOK, Placed, NEW d \in DOMAIN queue
  PROVE  d \in Ids /\ queue[d] \in Items /\ queue[d].q \in Questions
<1>1. queue \in Seq(Items) /\ asks \in Nat /\ asks <= MaxAsks /\ MaxAsks \in Nat
      /\ Len(queue) <= asks
  BY RepliesAssumption DEF TypeOK, Placed
<1>2. d \in Ids /\ queue[d] \in Items
  BY <1>1 DEF Ids
<1>. QED
  BY <1>2 DEF Items

-------------------------------------------------------------------------------
(* What a thread that does not move keeps.                                   *)

MailKept == Len(mail) <= Len(mail') /\ \A n \in 1..Len(mail) : mail'[n] = mail[n]

\* Events that this process did not mint appear in the file no more than they leave it.
RowsKept == \A d \in Ids \ fresh : row'[d] = "none" <=> row[d] = "none"

LEMMA HandlingKept ==
  ASSUME Unconditional, Forward, MailKept, NEW t \in Handlers, h'[t] = h[t]
  PROVE  Handling(t)'
<1>1. Handling(t)
  BY DEF Unconditional
<1>2. h[t].pc # "idle" => h[t].n \in 1..Len(mail')
  BY <1>1 DEF Handling, MailKept, Unconditional, TypeOK
<1>3. h[t].pc # "idle" /\ h[t].ok =>
        mail'[h[t].n].d \in DOMAIN queue' /\ queue'[mail'[h[t].n].d].status # "pending"
  BY <1>1 DEF Handling, MailKept, Forward
<1>. QED
  BY <1>1, <1>2, <1>3 DEF Handling

LEMMA LoadedKept ==
  ASSUME Unconditional, Forward, MailKept, RowsKept, NEW t \in Handlers, h'[t] = h[t],
         fresh' = fresh, seen \subseteq seen'
  PROVE  Loaded(t)'
<1>. SUFFICES ASSUME h[t].pc = "save"
              PROVE  Loaded(t)'
  BY DEF Loaded
<1>1. Loaded(t) /\ h[t].n \in 1..Len(mail) /\ fresh \subseteq DOMAIN queue
  BY DEF Unconditional, Handling, Placed
<1>2. \A d \in fresh : queue'[d].status = "pending" => queue[d].status = "pending"
  BY <1>1 DEF Forward
<1>. QED
  BY <1>1, <1>2 DEF Loaded, MailKept, RowsKept

LEMMA UnansweredKept ==
  ASSUME Unconditional, Forward, UNCHANGED <<row, fresh>>, seen \subseteq seen'
  PROVE  AcknowledgedInPerson'
<1>1. fresh \subseteq DOMAIN queue
  BY DEF Unconditional, Placed
<1>2. \A d \in fresh : queue'[d].status = "pending" => queue[d].status = "pending"
  BY <1>1 DEF Forward
<1>. QED
  BY <1>2 DEF Unconditional, AcknowledgedInPerson

LEMMA StillForward ==
  ASSUME TypeOK, UNCHANGED queue
  PROVE  Forward
BY DEF Forward, TypeOK

LEMMA StillMail ==
  ASSUME TypeOK, UNCHANGED mail
  PROVE  MailKept
BY DEF MailKept, TypeOK

-------------------------------------------------------------------------------
(* The session and the device, without the envelopes' effects.               *)

LEMMA ParkStep ==
  ASSUME Unconditional, Park
  PROVE  Unconditional'
<1>1. TypeOK /\ Placed
  BY DEF Unconditional
<1>2. UNCHANGED <<row, current, bound, ring, delivered, enrolled, running, ui, h, heard, mail,
                  stale, applied, fresh, seen, faults>>
  BY DEF Park, files, attention, deliveries, outside
<1>3. TypeOK'
  <2>1. todo \in Seq(Ids) /\ Len(queue') \in Ids
    BY <1>1, ParkMoves DEF TypeOK
  <2>2. todo' \in Seq(Ids)
    BY <1>1, <2>1, ParkMoves
  <2>. QED
    BY <1>1, <1>2, <2>2, ParkMoves DEF TypeOK, Forward
<1>4. Placed'
  <2>1. /\ asks \in Nat /\ Len(queue) \in Nat /\ todo \in Seq(Ids)
        /\ \A d \in DOMAIN queue : queue[d].q \in Nat /\ queue[d].q <= asks
    BY <1>1, ItemTypes DEF TypeOK, Placed, Questions
  <2>2. PICK n \in Ids :
          /\ n = Len(queue') /\ n = Len(queue) + 1 /\ asks' = asks + 1
          /\ DOMAIN queue' = DOMAIN queue \cup {n} /\ queue'[n].q = asks + 1
          /\ \A d \in DOMAIN queue : queue'[d] = queue[d]
          /\ todo' = Append(todo, n)
    BY <1>1, ParkMoves
  <2>3. \A d \in DOMAIN queue' : queue'[d].q <= asks'
    BY <2>1, <2>2
  <2>4. ASSUME NEW d \in DOMAIN queue', NEW e \in DOMAIN queue', queue'[d].q = queue'[e].q
        PROVE  d = e
    <3>1. \A f \in DOMAIN queue : queue'[f].q # asks + 1
      BY <2>1, <2>2
    <3>2. CASE d \in DOMAIN queue /\ e \in DOMAIN queue
      BY <1>1, <2>2, <2>4, <3>2 DEF Placed
    <3>3. CASE d \notin DOMAIN queue \/ e \notin DOMAIN queue
      BY <2>2, <2>4, <3>1, <3>3
    <3>. QED
      BY <3>2, <3>3
  <2>5. \A i \in DOMAIN todo' : todo'[i] \in DOMAIN queue'
    <3>1. \A i \in DOMAIN todo : todo'[i] = todo[i] /\ todo[i] \in DOMAIN queue
      BY <1>1, <2>1, <2>2, Appended DEF Placed
    <3>2. \A i \in DOMAIN todo' : i \notin DOMAIN todo => todo'[i] = n
      BY <2>1, <2>2, Appended
    <3>. QED
      BY <2>2, <3>1, <3>2
  <2>6. Len(queue') <= asks' /\ fresh' \subseteq DOMAIN queue'
        /\ (ui'.pc = "bind" => ui'.d \in DOMAIN queue') /\ Len(mail') <= MaxReplies
    <3>1. Len(queue') <= asks'
      BY <1>1, <2>1, <2>2 DEF Placed
    <3>2. fresh' \subseteq DOMAIN queue' /\ (ui'.pc = "bind" => ui'.d \in DOMAIN queue')
      BY <1>1, <1>2, <2>2, ParkMoves DEF Placed
    <3>3. Len(mail') <= MaxReplies
      BY <1>1, <1>2 DEF Placed
    <3>. QED
      BY <3>1, <3>2, <3>3
  <2>. QED
    BY <2>3, <2>4, <2>5, <2>6 DEF Placed
<1>5. Forward /\ MailKept /\ RowsKept
  BY <1>1, <1>2, ParkMoves, StillMail DEF RowsKept
<1>. QED
  BY <1>2, <1>3, <1>4, <1>5, HandlingKept, LoadedKept, UnansweredKept DEF Unconditional

\* Dismissing and answering in the interface.
LEMMA SettleStep ==
  ASSUME Unconditional, Dismiss \/ Decide
  PROVE  Unconditional'
<1>1. TypeOK /\ Placed
  BY DEF Unconditional
<1>2. UNCHANGED <<row, current, bound, ring, delivered, enrolled, running, todo, h, heard, mail,
                  stale, asks, applied, fresh, seen, faults>>
  BY DEF Dismiss, Decide, files, attention, deliveries, outside, history
<1>3. Forward /\ Len(queue') = Len(queue) /\ DOMAIN queue' = DOMAIN queue
  BY <1>1, DismissMoves, AnsweredMoves DEF Dismiss, Decide
<1>4. ui' = ui \/ ui' = [pc |-> "ack", d |-> 0]
  BY DEF Dismiss, Decide
<1>5. TypeOK'
  <2>1. ui' \in UIs
    BY <1>1, <1>4, UITypes DEF TypeOK
  <2>. QED
    BY <1>1, <1>2, <1>3, <2>1 DEF TypeOK, Forward
<1>6. Placed'
  BY <1>1, <1>2, <1>3, <1>4 DEF Placed, Forward
<1>7. MailKept /\ RowsKept
  BY <1>1, <1>2, StillMail DEF RowsKept
<1>. QED
  BY <1>2, <1>3, <1>5, <1>6, <1>7, HandlingKept, LoadedKept, UnansweredKept DEF Unconditional

\* An event that is minted was not on record before, so no thread has read it.
LEMMA NoteStep ==
  ASSUME Unconditional, Note
  PROVE  Unconditional'
<1>1. TypeOK /\ Placed
  BY DEF Unconditional
<1>. DEFINE d == Head(todo)
<1>2. /\ todo # <<>> /\ todo' = Tail(todo)
      /\ UNCHANGED <<bound, ring, delivered, enrolled, running, queue, h, heard, mail, stale, asks,
                     applied, seen>>
  BY DEF Note, deliveries, outside
<1>7. faults' \in 0..MaxFaults
  BY <1>1, FaultTypes DEF Note
<1>3. d \in Ids /\ d \in DOMAIN queue /\ todo' \in Seq(Ids)
      /\ \A i \in DOMAIN todo' : todo'[i] \in DOMAIN queue
  <2>1. todo \in Seq(Ids) /\ d = todo[1] /\ 1 \in DOMAIN todo
    BY <1>1, <1>2 DEF TypeOK
  <2>2. \A i \in DOMAIN todo' : i + 1 \in DOMAIN todo /\ todo'[i] = todo[i + 1]
    BY <1>2, <2>1
  <2>. QED
    BY <1>1, <1>2, <2>1, <2>2 DEF Placed
<1>4. Forward /\ MailKept
  BY <1>1, <1>2, StillForward, StillMail
<1>5. CASE row[d] # "none" /\ UNCHANGED <<row, current, ui, fresh>>
  <2>1. TypeOK' /\ Placed'
    BY <1>1, <1>2, <1>3, <1>5, <1>7 DEF TypeOK, Placed
  <2>2. RowsKept
    BY <1>5 DEF RowsKept
  <2>. QED
    BY <1>2, <1>4, <1>5, <2>1, <2>2, HandlingKept, LoadedKept, UnansweredKept
    DEF Unconditional
<1>6. CASE /\ row[d] = "none" /\ ui' = [pc |-> "bind", d |-> d] /\ fresh' = fresh \cup {d}
           /\ row' = [row EXCEPT ![d] = "open"] /\ current' = d
  <2>1. TypeOK'
    <3>1. d \in 0..MaxAsks
      BY <1>3, RepliesAssumption DEF Ids
    <3>2. ui' \in UIs /\ current' \in 0..MaxAsks
      BY <1>6, <3>1, UITypes
    <3>3. row' \in [Ids -> Rows] /\ fresh' \subseteq Ids
      BY <1>1, <1>3, <1>6 DEF TypeOK, Rows
    <3>. QED
      BY <1>1, <1>2, <1>3, <1>7, <3>2, <3>3 DEF TypeOK
  <2>2. Placed'
    BY <1>1, <1>2, <1>3, <1>6 DEF Placed
  <2>3. row'[d] = "open" /\ \A e \in Ids \ {d} : row'[e] = row[e]
    BY <1>1, <1>3, <1>6 DEF TypeOK
  <2>4. ASSUME NEW t \in Handlers PROVE Loaded(t)'
    <3>. SUFFICES ASSUME h[t].pc = "save" PROVE Loaded(t)'
      BY <1>2 DEF Loaded
    <3>1. Loaded(t)
      BY DEF Unconditional
    <3>2. h[t].snap.row[d] # "acked" \/ d \in fresh
      BY <1>3, <1>6, <3>1 DEF Loaded
    <3>. QED
      BY <1>2, <1>6, <2>3, <3>1, <3>2 DEF Loaded
  <2>5. AcknowledgedInPerson'
    BY <1>1, <1>2, <1>6, <2>3 DEF Unconditional, AcknowledgedInPerson, TypeOK
  <2>. QED
    BY <1>2, <1>4, <2>1, <2>2, <2>4, <2>5, HandlingKept DEF Unconditional
<1>8. CASE /\ row[d] = "none" /\ ui' = [pc |-> "bind", d |-> d]
           /\ UNCHANGED <<row, current, fresh>>
  <2>1. ui' \in UIs
    <3>1. d \in 0..MaxAsks
      BY <1>3, RepliesAssumption DEF Ids
    <3>. QED
      BY <1>8, <3>1, UITypes
  <2>2. TypeOK'
    BY <1>1, <1>2, <1>3, <1>7, <1>8, <2>1 DEF TypeOK
  <2>3. Placed'
    BY <1>1, <1>2, <1>3, <1>8 DEF Placed
  <2>4. RowsKept
    BY <1>8 DEF RowsKept
  <2>. QED
    BY <1>2, <1>4, <1>8, <2>2, <2>3, <2>4, HandlingKept, LoadedKept, UnansweredKept
    DEF Unconditional
<1>. QED
  BY <1>5, <1>6, <1>8 DEF Note, attention

LEMMA AcknowledgeStep ==
  ASSUME Unconditional, Acknowledge
  PROVE  Unconditional'
<1>1. TypeOK /\ Placed
  BY DEF Unconditional
<1>2. /\ seen' = seen \cup {current} /\ ui' = [pc |-> "idle", d |-> 0] /\ current # 0
      /\ UNCHANGED <<current, bound, ring, delivered, enrolled, running, queue, todo, h, heard, mail,
                     stale, asks, applied, fresh>>
  BY DEF Acknowledge, deliveries, outside
<1>9. current \in Ids
  BY <1>1, <1>2, RepliesAssumption DEF TypeOK, Ids
<1>3. faults' \in 0..MaxFaults
  BY <1>1, FaultTypes DEF Acknowledge
<1>4. /\ row' \in [Ids -> Rows] /\ \A d \in Ids \ {current} : row'[d] = row[d]
      /\ row'[current] = "none" <=> row[current] = "none"
  <2>1. CASE UNCHANGED row
    BY <1>1, <2>1 DEF TypeOK
  <2>2. CASE row' = [row EXCEPT ![current] = IF @ = "open" THEN "acked" ELSE @]
    BY <1>1, <1>9, <2>2 DEF TypeOK, Rows
  <2>. QED
    BY <2>1, <2>2 DEF Acknowledge
<1>5. TypeOK'
  <2>1. ui' \in UIs
    BY <1>2, UITypes
  <2>. QED
    BY <1>1, <1>2, <1>3, <1>4, <1>9, <2>1 DEF TypeOK
<1>6. Placed'
  BY <1>1, <1>2 DEF Placed
<1>7. Forward /\ MailKept /\ RowsKept
  BY <1>1, <1>2, <1>4, StillForward, StillMail DEF RowsKept
<1>8. AcknowledgedInPerson'
  BY <1>1, <1>2, <1>4 DEF Unconditional, AcknowledgedInPerson, TypeOK
<1>. QED
  BY <1>2, <1>5, <1>6, <1>7, <1>8, HandlingKept, LoadedKept DEF Unconditional

\* The rest of the interface and the device: neither the queue, the rows nor the
\* threads change.
LEMMA OutsideStep ==
  ASSUME Unconditional,
         Bind \/ NothingToAcknowledge \/ Sign \/ Expire \/ Revoke \/ Restart
  PROVE  Unconditional'
<1>1. TypeOK /\ Placed
  BY DEF Unconditional
<1>2. UNCHANGED <<row, current, ring, delivered, queue, todo, h, asks, applied, fresh, seen>>
  BY DEF Bind, NothingToAcknowledge, Sign, Expire, Revoke, Restart, files, attention, deliveries,
         process, history
<1>3. ui' = ui \/ ui' = [pc |-> "idle", d |-> 0]
  BY DEF Bind, NothingToAcknowledge, Sign, Expire, Revoke, Restart, process
<1>4. ui' \in UIs
  BY <1>1, <1>3, UITypes DEF TypeOK
<1>5. running' \in BOOLEAN /\ enrolled' \in BOOLEAN
  BY <1>1 DEF Bind, NothingToAcknowledge, Sign, Expire, Revoke, Restart, files, process, TypeOK
<1>6. faults' \in 0..MaxFaults
  BY <1>1, FaultTypes DEF Bind, NothingToAcknowledge, Sign, Expire, Revoke, Restart, NoMishap
<1>7. mail' \in Seq([d : Ids, q : Questions]) /\ MailKept /\ Len(mail') <= MaxReplies
  <2>1. CASE Sign
    <3>1. PICK note \in heard : mail' = Append(mail, note)
      BY <2>1 DEF Sign
    <3>2. mail \in Seq([d : Ids, q : Questions]) /\ note \in [d : Ids, q : Questions]
      BY <1>1 DEF TypeOK
    <3>3. mail' \in Seq([d : Ids, q : Questions]) /\ Len(mail) <= Len(mail')
          /\ \A n \in 1..Len(mail) : mail'[n] = mail[n]
      BY <3>1, <3>2
    <3>4. Len(mail') <= MaxReplies
      BY <2>1, <3>1, <3>2, RepliesAssumption DEF Sign
    <3>. QED
      BY <3>3, <3>4 DEF MailKept
  <2>2. CASE ~Sign
    <3>1. UNCHANGED mail
      BY <2>2 DEF Bind, NothingToAcknowledge, Expire, Revoke, Restart, outside
    <3>. QED
      BY <1>1, <3>1, StillMail DEF TypeOK, Placed
  <2>. QED
    BY <2>1, <2>2
<1>8. heard' \subseteq [d : Ids, q : Questions]
  <2>1. CASE Bind
    <3>1. ui.d \in DOMAIN queue /\ ui.d \in Ids /\ queue[ui.d].q \in Questions
      BY <1>1, <2>1, ItemTypes DEF Bind, Placed
    <3>2. heard' = heard \cup {[d |-> ui.d, q |-> queue[ui.d].q]}
      BY <2>1 DEF Bind
    <3>. QED
      BY <1>1, <3>1, <3>2 DEF TypeOK
  <2>2. CASE ~Bind
    BY <1>1, <2>2 DEF NothingToAcknowledge, Sign, Expire, Revoke, Restart, outside, TypeOK
  <2>. QED
    BY <2>1, <2>2
<1>9. bound' \subseteq Ids
  <2>1. CASE Bind
    <3>2. ui.d \in Ids
      BY <1>1, <2>1, ItemTypes DEF Bind, Placed
    <3>. QED
      BY <1>1, <2>1, <3>2 DEF Bind, TypeOK
  <2>2. CASE ~Bind
    BY <1>1, <2>2 DEF NothingToAcknowledge, Sign, Expire, Revoke, Restart, files, TypeOK
  <2>. QED
    BY <2>1, <2>2
<1>10. stale' \subseteq Nonces
  <2>1. CASE Expire
    <3>1. Len(mail) \in Nat /\ Len(mail) <= MaxReplies /\ MaxReplies \in Nat
      BY <1>1, RepliesAssumption DEF TypeOK, Placed
    <3>. QED
      BY <1>1, <2>1, <3>1 DEF Expire, TypeOK, Nonces
  <2>2. CASE ~Expire
    BY <1>1, <2>2 DEF NothingToAcknowledge, Sign, Bind, Revoke, Restart, outside, TypeOK
  <2>. QED
    BY <2>1, <2>2
<1>11. TypeOK'
  BY <1>1, <1>2, <1>4, <1>5, <1>6, <1>7, <1>8, <1>9, <1>10 DEF TypeOK
<1>12. Placed'
  BY <1>1, <1>2, <1>3, <1>7 DEF Placed
<1>13. Forward /\ RowsKept
  BY <1>1, <1>2, StillForward DEF RowsKept
<1>. QED
  BY <1>2, <1>7, <1>11, <1>12, <1>13, HandlingKept, LoadedKept, UnansweredKept DEF Unconditional

-------------------------------------------------------------------------------
(* The threads, without the envelopes' effects.                              *)

\* A step of one thread that leaves the attention file alone.
LEMMA ThreadStep ==
  ASSUME Unconditional, NEW t \in Handlers,
         Forward, Len(queue') = Len(queue), DOMAIN queue' = DOMAIN queue,
         UNCHANGED <<row, current, bound, enrolled, running, todo, ui, heard, mail, stale, asks,
                     fresh, seen>>,
         ring' \in Seq(Nonces), Len(ring') <= MaxNonces,
         delivered' \subseteq [n : Nonces, ok : BOOLEAN],
         applied' \subseteq Nonces \X Questions, faults' \in 0..MaxFaults,
         h' \in [Handlers -> Threads], \A u \in Handlers \ {t} : h'[u] = h[u],
         Handling(t)', Loaded(t)'
  PROVE  Unconditional'
<1>1. TypeOK /\ Placed
  BY DEF Unconditional
<1>2. TypeOK'
  BY <1>1 DEF TypeOK, Forward
<1>3. Placed'
  BY <1>1 DEF Placed, Forward
<1>4. MailKept /\ RowsKept
  BY <1>1, StillMail DEF RowsKept
<1>5. \A u \in Handlers : Handling(u)' /\ Loaded(u)'
  <2>1. \A u \in Handlers \ {t} : Handling(u)' /\ Loaded(u)'
    BY <1>4, HandlingKept, LoadedKept
  <2>. QED
    BY <2>1
<1>6. AcknowledgedInPerson'
  BY UnansweredKept
<1>. QED
  BY <1>2, <1>3, <1>5, <1>6 DEF Unconditional

\* What a thread handles is an event with an id and a question.
LEMMA MailTypes ==
  ASSUME Unconditional, NEW n \in 1..Len(mail)
  PROVE  n \in Nonces /\ mail[n].d \in Ids /\ mail[n] \in [d : Ids, q : Questions]
<1>1. mail \in Seq([d : Ids, q : Questions]) /\ Len(mail) <= MaxReplies /\ MaxReplies \in Nat
  BY RepliesAssumption DEF Unconditional, TypeOK, Placed
<1>2. n \in Nonces
  BY <1>1 DEF Nonces
<1>3. \A S : mail \in Seq(S) => mail[n] \in S
  OBVIOUS
<1>4. mail[n] \in [d : Ids, q : Questions]
  BY <1>1, <1>3
<1>. QED
  BY <1>2, <1>4

LEMMA VerifyMoves ==
  ASSUME Unconditional, NEW t \in Handlers, Verify(t)
  PROVE  /\ h' \in [Handlers -> Threads]
         /\ \A u \in Handlers \ {t} : h'[u] = h[u]
         /\ h'[t].pc = "reserve" /\ h'[t].n \in 1..Len(mail) /\ ~h'[t].ok
<1>1. PICK n \in 1..Len(mail) : h' = [h EXCEPT ![t].pc = "reserve", ![t].n = n]
  BY DEF Verify
<1>2. h[t] \in Threads /\ h \in [Handlers -> Threads]
  BY DEF Unconditional, TypeOK
<1>3. h' = [h EXCEPT ![t] = [h[t] EXCEPT !.pc = "reserve", !.n = n]]
  BY <1>1
<1>4. n \in 0..MaxReplies
  BY MailTypes, RepliesAssumption DEF Nonces
<1>5. [h[t] EXCEPT !.pc = "reserve", !.n = n] \in Threads
  BY <1>2, <1>4 DEF Threads
<1>6. h'[t] = [h[t] EXCEPT !.pc = "reserve", !.n = n] /\ h' \in [Handlers -> Threads]
      /\ \A u \in Handlers \ {t} : h'[u] = h[u]
  BY <1>2, <1>3, <1>5
<1>7. h'[t].pc = "reserve" /\ h'[t].n = n /\ h'[t].ok = h[t].ok
  BY <1>2, <1>6 DEF Threads
<1>8. ~h[t].ok
  BY DEF Verify, Unconditional, Handling
<1>. QED
  BY <1>6, <1>7, <1>8

LEMMA VerifyStep ==
  ASSUME Unconditional, NEW t \in Handlers, Verify(t)
  PROVE  Unconditional'
<1>1. TypeOK
  BY DEF Unconditional
<1>2. UNCHANGED <<row, current, bound, ring, delivered, enrolled, running, queue, todo, ui, heard,
                  mail, stale, asks, applied, fresh, seen, faults>>
  BY DEF Verify, files, attention, deliveries, outside, history
<1>3. Handling(t)' /\ Loaded(t)'
  BY <1>2, VerifyMoves DEF Handling, Loaded
<1>4. Forward /\ Len(queue') = Len(queue) /\ DOMAIN queue' = DOMAIN queue
  BY <1>1, <1>2, StillForward
<1>5. /\ ring' \in Seq(Nonces) /\ Len(ring') <= MaxNonces
      /\ delivered' \subseteq [n : Nonces, ok : BOOLEAN]
      /\ applied' \subseteq Nonces \X Questions /\ faults' \in 0..MaxFaults
  BY <1>1, <1>2 DEF TypeOK
<1>. QED
  BY <1>2, <1>3, <1>4, <1>5, VerifyMoves, ThreadStep

\* A thread that gives up has nothing left to do.
LEMMA Returned ==
  ASSUME TypeOK, NEW t \in Handlers, Returns(t)
  PROVE  Handling(t)' /\ Loaded(t)'
BY ReturnsMoves DEF Handling, Loaded

LEMMA RingTypes ==
  ASSUME Unconditional, NEW n \in Nonces
  PROVE  LET longer == Append(ring, n)
             next   == IF Len(longer) > MaxNonces THEN Tail(longer) ELSE longer
         IN next \in Seq(Nonces) /\ Len(next) <= MaxNonces
<1>1. ring \in Seq(Nonces) /\ Len(ring) <= MaxNonces /\ MaxNonces \in Nat
  BY RepliesAssumption DEF Unconditional, TypeOK
<1>. DEFINE longer == Append(ring, n)
<1>2. longer \in Seq(Nonces) /\ Len(longer) = Len(ring) + 1 /\ longer # <<>>
  BY <1>1
<1>. HIDE DEF longer
<1>3. Tail(longer) \in Seq(Nonces) /\ Len(Tail(longer)) = Len(ring)
  BY <1>1, <1>2
<1>4. LET next == IF Len(longer) > MaxNonces THEN Tail(longer) ELSE longer
      IN next \in Seq(Nonces) /\ Len(next) <= MaxNonces
  BY <1>1, <1>2, <1>3
<1>. QED
  BY <1>4 DEF longer

LEMMA ReserveStep ==
  ASSUME Unconditional, NEW t \in Handlers, Reserve(t)
  PROVE  Unconditional'
<1>1. TypeOK /\ Handling(t) /\ h[t].pc = "reserve" /\ h[t].n \in 1..Len(mail)
  BY DEF Unconditional, Handling, Reserve
<1>2. UNCHANGED <<row, current, bound, delivered, enrolled, running, queue, todo, ui, heard,
                  mail, stale, asks, applied, fresh, seen, faults>>
  BY DEF Reserve, attention, outside, history
<1>3. h' \in [Handlers -> Threads] /\ (\A u \in Handlers \ {t} : h'[u] = h[u])
      /\ Handling(t)' /\ Loaded(t)'
  <2>1. CASE Returns(t)
    BY <1>1, <2>1, ReturnsMoves, Returned
  <2>2. CASE Goes(t, "who")
    <3>1. "who" \in PCs
      BY DEF PCs
    <3>. QED
      BY <1>1, <1>2, <2>2, <3>1, GoesMoves DEF Handling, Loaded
  <2>. QED
    BY <2>1, <2>2 DEF Reserve
<1>4. ring' \in Seq(Nonces) /\ Len(ring') <= MaxNonces
  <2>1. CASE UNCHANGED ring
    BY <1>1, <2>1 DEF TypeOK
  <2>2. CASE LET longer == Append(ring, h[t].n)
             IN ring' = IF Len(longer) > MaxNonces THEN Tail(longer) ELSE longer
    <3>1. h[t].n \in Nonces
      BY <1>1, MailTypes
    <3>. QED
      BY <2>2, <3>1, RingTypes
  <2>. QED
    BY <2>1, <2>2 DEF Reserve
<1>5. Forward /\ Len(queue') = Len(queue) /\ DOMAIN queue' = DOMAIN queue
  BY <1>1, <1>2, StillForward
<1>6. /\ delivered' \subseteq [n : Nonces, ok : BOOLEAN]
      /\ applied' \subseteq Nonces \X Questions /\ faults' \in 0..MaxFaults
  BY <1>1, <1>2 DEF TypeOK
<1>. QED
  BY <1>2, <1>3, <1>4, <1>5, <1>6, ThreadStep

LEMMA WhoStep ==
  ASSUME Unconditional, NEW t \in Handlers, Who(t)
  PROVE  Unconditional'
<1>1. TypeOK /\ Handling(t) /\ h[t].pc = "who" /\ h[t].n \in 1..Len(mail) /\ ~h[t].ok
  BY DEF Unconditional, Handling, Who
<1>2. UNCHANGED <<row, current, bound, ring, delivered, enrolled, running, queue, todo, ui, heard,
                  mail, stale, asks, applied, fresh, seen, faults>>
  BY DEF Who, files, attention, deliveries, outside, history
<1>3. PICK pc \in {"submit", "record"} : Goes(t, pc)
  BY DEF Who
<1>4. h' \in [Handlers -> Threads] /\ (\A u \in Handlers \ {t} : h'[u] = h[u])
      /\ h'[t].pc = pc /\ h'[t].n = h[t].n /\ h'[t].ok = h[t].ok
  BY <1>1, <1>3, GoesMoves DEF PCs
<1>5. Handling(t)' /\ Loaded(t)'
  BY <1>1, <1>2, <1>4 DEF Handling, Loaded
<1>6. Forward /\ Len(queue') = Len(queue) /\ DOMAIN queue' = DOMAIN queue
  BY <1>1, <1>2, StillForward
<1>7. /\ ring' \in Seq(Nonces) /\ Len(ring') <= MaxNonces
      /\ delivered' \subseteq [n : Nonces, ok : BOOLEAN]
      /\ applied' \subseteq Nonces \X Questions /\ faults' \in 0..MaxFaults
  <2>1. ring' \in Seq(Nonces) /\ Len(ring') <= MaxNonces
    BY <1>1, <1>2 DEF TypeOK
  <2>2. TypeOK /\ UNCHANGED <<delivered, applied, faults>>
    BY <1>1, <1>2
  <2>3. /\ delivered' \subseteq [n : Nonces, ok : BOOLEAN]
        /\ applied' \subseteq Nonces \X Questions /\ faults' \in 0..MaxFaults
    BY ONLY <2>2 DEF TypeOK
  <2>. QED
    BY <2>1, <2>3
<1>. QED
  BY <1>2, <1>4, <1>5, <1>6, <1>7, ThreadStep

\* Either the reply answers its item, and the thread knows, or nothing happens.
Submitted(t) ==
  LET n == h[t].n
      d == mail[n].d
  IN \/ /\ d \in DOMAIN queue /\ Answered(d, n)
        /\ applied' = applied \cup {<<n, queue[d].q>>} /\ h'[t].ok
     \/ UNCHANGED <<queue, applied>> /\ ~h'[t].ok

LEMMA SubmitMoves ==
  ASSUME Unconditional, NEW t \in Handlers, Submit(t)
  PROVE  LET n == h[t].n
         IN /\ h[t].pc = "submit" /\ n \in 1..Len(mail) /\ n \in Nonces /\ ~h[t].ok
            /\ h' \in [Handlers -> Threads] /\ (\A u \in Handlers \ {t} : h'[u] = h[u])
            /\ h'[t].pc = "record" /\ h'[t].n = n
            /\ Submitted(t)
<1>. DEFINE n == h[t].n
            d == mail[n].d
<1>1. TypeOK /\ h[t].pc = "submit" /\ n \in 1..Len(mail) /\ ~h[t].ok
  BY DEF Unconditional, Handling, Submit
<1>2. n \in Nonces /\ h[t] \in Threads /\ h \in [Handlers -> Threads]
  BY <1>1, MailTypes DEF TypeOK
<1>3. CASE /\ d \in DOMAIN queue /\ Answered(d, n)
           /\ applied' = applied \cup {<<n, queue[d].q>>}
           /\ h' = [h EXCEPT ![t].pc = "record", ![t].ok = TRUE]
  <2>. DEFINE moved == [h[t] EXCEPT !.pc = "record", !.ok = TRUE]
  <2>1. moved \in Threads
    BY <1>2, TRUE \in BOOLEAN DEF Threads
  <2>2. h'[t] = moved /\ h' \in [Handlers -> Threads] /\ \A u \in Handlers \ {t} : h'[u] = h[u]
    BY <1>2, <1>3, <2>1
  <2>3. moved.pc = "record" /\ moved.n = n /\ moved.ok
    BY <1>2 DEF Threads
  <2>4. Submitted(t)
    BY <1>3, <2>2, <2>3 DEF Submitted
  <2>. QED
    BY <1>1, <1>2, <2>2, <2>3, <2>4
<1>4. CASE Goes(t, "record") /\ UNCHANGED <<queue, applied>>
  <2>1. "record" \in PCs
    BY DEF PCs
  <2>2. h' \in [Handlers -> Threads] /\ (\A u \in Handlers \ {t} : h'[u] = h[u])
        /\ h'[t].pc = "record" /\ h'[t].n = n /\ ~h'[t].ok
    BY <1>1, <1>4, <2>1, GoesMoves
  <2>3. Submitted(t)
    BY <1>4, <2>2 DEF Submitted
  <2>. QED
    BY <1>1, <1>2, <2>2, <2>3
<1>5. \/ /\ d \in DOMAIN queue /\ Answered(d, n)
         /\ applied' = applied \cup {<<n, queue[d].q>>}
         /\ h' = [h EXCEPT ![t].pc = "record", ![t].ok = TRUE]
      \/ Goes(t, "record") /\ UNCHANGED <<queue, applied>>
  BY Zenon DEF Submit
<1>. QED
  BY <1>3, <1>4, <1>5, Zenon

LEMMA SubmitStep ==
  ASSUME Unconditional, NEW t \in Handlers, Submit(t)
  PROVE  Unconditional'
<1>. DEFINE n == h[t].n
            d == mail[n].d
<1>1. TypeOK /\ Placed /\ n \in 1..Len(mail) /\ n \in Nonces /\ ~h[t].ok
  BY SubmitMoves DEF Unconditional
<1>2. UNCHANGED <<row, current, bound, ring, delivered, enrolled, running, todo, ui, heard,
                  mail, stale, asks, fresh, seen, faults>>
  BY DEF Submit, files, attention, deliveries, outside
<1>3. h' \in [Handlers -> Threads] /\ (\A u \in Handlers \ {t} : h'[u] = h[u])
      /\ h'[t].pc = "record" /\ h'[t].n = n
  BY SubmitMoves
<1>4. /\ Forward /\ Len(queue') = Len(queue) /\ DOMAIN queue' = DOMAIN queue
      /\ applied' \subseteq Nonces \X Questions /\ Handling(t)'
  <2>1. CASE /\ d \in DOMAIN queue /\ Answered(d, n)
             /\ applied' = applied \cup {<<n, queue[d].q>>} /\ h'[t].ok
    <3>1. queue[d].q \in Questions
      BY <1>1, <2>1, ItemTypes
    <3>2. applied' \subseteq Nonces \X Questions
      BY <1>1, <2>1, <3>1 DEF TypeOK
    <3>3. /\ Forward /\ Len(queue') = Len(queue) /\ DOMAIN queue' = DOMAIN queue
          /\ queue'[d].status = "answered"
      BY <1>1, <2>1, AnsweredMoves
    <3>. QED
      BY <1>1, <1>2, <1>3, <2>1, <3>2, <3>3 DEF Handling
  <2>2. CASE UNCHANGED <<queue, applied>> /\ ~h'[t].ok
    BY <1>1, <1>2, <1>3, <2>2, StillForward DEF Handling, TypeOK
  <2>. QED
    BY <2>1, <2>2, SubmitMoves DEF Submitted
<1>5. Loaded(t)'
  BY <1>3 DEF Loaded
<1>6. /\ ring' \in Seq(Nonces) /\ Len(ring') <= MaxNonces
      /\ delivered' \subseteq [n : Nonces, ok : BOOLEAN] /\ faults' \in 0..MaxFaults
  BY <1>1, <1>2 DEF TypeOK
<1>. QED
  BY <1>2, <1>3, <1>4, <1>5, <1>6, ThreadStep

LEMMA RecordMoves ==
  ASSUME Unconditional, NEW t \in Handlers, Record(t)
  PROVE  /\ h[t].pc = "record" /\ h[t].n \in 1..Len(mail)
         /\ h' \in [Handlers -> Threads] /\ (\A u \in Handlers \ {t} : h'[u] = h[u])
         /\ \/ h'[t] = Rest
            \/ h'[t].pc = "load" /\ h'[t].n = h[t].n /\ h[t].ok /\ h'[t].ok
         /\ \/ delivered' = delivered \cup {[n |-> h[t].n, ok |-> h[t].ok]}
            \/ UNCHANGED delivered
<1>1. TypeOK /\ h[t].pc = "record" /\ h[t].n \in 1..Len(mail)
  BY DEF Unconditional, Handling, Record
<1>2. CASE Returns(t)
  BY <1>1, <1>2, ReturnsMoves DEF Record
<1>3. CASE Goes(t, "load") /\ h[t].ok
  <2>1. "load" \in PCs
    BY DEF PCs
  <2>2. h' \in [Handlers -> Threads] /\ (\A u \in Handlers \ {t} : h'[u] = h[u])
        /\ h'[t].pc = "load" /\ h'[t].n = h[t].n /\ h'[t].ok = h[t].ok
    BY <1>1, <1>3, <2>1, GoesMoves
  <2>. QED
    BY <1>1, <1>3, <2>2 DEF Record
<1>. QED
  BY <1>2, <1>3 DEF Record

LEMMA RecordStep ==
  ASSUME Unconditional, NEW t \in Handlers, Record(t)
  PROVE  Unconditional'
<1>1. TypeOK /\ Handling(t) /\ h[t].pc = "record" /\ h[t].n \in Nonces /\ h[t].ok \in BOOLEAN
  BY RecordMoves, MailTypes DEF Unconditional, TypeOK, Threads
<1>2. UNCHANGED <<row, current, bound, ring, enrolled, running, queue, todo, ui, heard,
                  mail, stale, asks, applied, fresh, seen>>
  BY DEF Record, attention, outside, history
<1>3. Handling(t)' /\ Loaded(t)'
  BY <1>1, <1>2, RecordMoves, RestIsAThread DEF Handling, Loaded
<1>4. Forward /\ Len(queue') = Len(queue) /\ DOMAIN queue' = DOMAIN queue
  BY <1>1, <1>2, StillForward
<1>5. delivered' \subseteq [n : Nonces, ok : BOOLEAN]
  <2>1. [n |-> h[t].n, ok |-> h[t].ok] \in [n : Nonces, ok : BOOLEAN]
    BY <1>1
  <2>. QED
    BY <1>1, <2>1, RecordMoves DEF TypeOK
<1>6. faults' \in 0..MaxFaults
  BY <1>1, FaultTypes DEF Record
<1>7. ring' \in Seq(Nonces) /\ Len(ring') <= MaxNonces /\ applied' \subseteq Nonces \X Questions
  BY <1>1, <1>2 DEF TypeOK
<1>. QED
  BY <1>2, <1>3, <1>4, <1>5, <1>6, <1>7, RecordMoves, ThreadStep

LEMMA AckLoadMoves ==
  ASSUME Unconditional, NEW t \in Handlers, AckLoad(t)
  PROVE  /\ h[t].pc = "load" /\ h[t].n \in 1..Len(mail) /\ h[t].ok
         /\ h' \in [Handlers -> Threads] /\ (\A u \in Handlers \ {t} : h'[u] = h[u])
         /\ \/ h'[t] = Rest
            \/ /\ h'[t].pc = "save" /\ h'[t].n = h[t].n /\ h'[t].ok
               /\ h'[t].snap.row = row /\ row[mail[h[t].n].d] = "open"
<1>1. TypeOK /\ h[t].pc = "load" /\ h[t].n \in 1..Len(mail) /\ h[t].ok
  BY DEF Unconditional, Handling, AckLoad
<1>2. CASE Returns(t)
  BY <1>1, <1>2, ReturnsMoves
<1>3. CASE /\ row[mail[h[t].n].d] = "open"
           /\ h' = [h EXCEPT ![t].pc = "save", ![t].snap = [row |-> row, current |-> current]]
  <2>. DEFINE snap == [row |-> row, current |-> current]
              moved == [h[t] EXCEPT !.pc = "save", !.snap = snap]
  <2>1. h[t] \in Threads /\ h \in [Handlers -> Threads]
    BY <1>1 DEF TypeOK
  <2>2. snap \in [row : [Ids -> Rows], current : 0..MaxAsks]
    BY <1>1 DEF TypeOK
  <2>3. snap.row = row
    OBVIOUS
  <2>. HIDE DEF snap
  <2>4. moved \in Threads
    BY <2>1, <2>2 DEF Threads
  <2>5. h' = [h EXCEPT ![t] = moved]
    BY <1>3 DEF snap
  <2>6. h'[t] = moved /\ h' \in [Handlers -> Threads] /\ \A u \in Handlers \ {t} : h'[u] = h[u]
    BY <2>1, <2>4, <2>5
  <2>7. moved.pc = "save" /\ moved.n = h[t].n /\ moved.ok = h[t].ok /\ moved.snap = snap
    BY <2>1 DEF Threads
  <2>. QED
    BY <1>1, <1>3, <2>3, <2>6, <2>7
<1>. QED
  BY <1>2, <1>3 DEF AckLoad

LEMMA AckLoadStep ==
  ASSUME Unconditional, NEW t \in Handlers, AckLoad(t)
  PROVE  Unconditional'
<1>1. TypeOK /\ Handling(t) /\ AcknowledgedInPerson
  BY DEF Unconditional
<1>2. UNCHANGED <<row, current, bound, ring, delivered, enrolled, running, queue, todo, ui, heard,
                  mail, stale, asks, applied, fresh, seen, faults>>
  BY DEF AckLoad, files, attention, deliveries, outside, history
<1>3. Handling(t)'
  BY <1>1, <1>2, AckLoadMoves, RestIsAThread DEF Handling
<1>4. Loaded(t)'
  BY <1>1, <1>2, AckLoadMoves, RestIsAThread DEF Loaded, AcknowledgedInPerson
<1>5. Forward /\ Len(queue') = Len(queue) /\ DOMAIN queue' = DOMAIN queue
  BY <1>1, <1>2, StillForward
<1>6. /\ ring' \in Seq(Nonces) /\ Len(ring') <= MaxNonces
      /\ delivered' \subseteq [n : Nonces, ok : BOOLEAN]
      /\ applied' \subseteq Nonces \X Questions /\ faults' \in 0..MaxFaults
  BY <1>1, <1>2 DEF TypeOK
<1>. QED
  BY <1>2, <1>3, <1>4, <1>5, <1>6, AckLoadMoves, ThreadStep

\* The file as it was read replaces the file as it is: what that takes back is
\* events minted since, and what it acknowledges is its own question, which is
\* settled, and what was acknowledged when it was read.
LEMMA AckSaveStep ==
  ASSUME Unconditional, NEW t \in Handlers, AckSave(t)
  PROVE  Unconditional'
<1>. DEFINE d == mail[h[t].n].d
            snap == h[t].snap
<1>1. TypeOK /\ Placed /\ AcknowledgedInPerson /\ Handling(t) /\ Loaded(t)
  BY DEF Unconditional
<1>2. UNCHANGED <<bound, ring, delivered, enrolled, running, queue, todo, ui, heard,
                  mail, stale, asks, applied, fresh, seen>>
  BY DEF AckSave, deliveries, outside, history
<1>3. /\ h' \in [Handlers -> Threads] /\ (\A u \in Handlers \ {t} : h'[u] = h[u])
      /\ Handling(t)' /\ Loaded(t)'
  BY <1>1, ReturnsMoves, Returned DEF AckSave
<1>4. /\ h[t].pc = "save" /\ h[t].n \in 1..Len(mail) /\ d \in Ids
      /\ queue[d].status # "pending" /\ snap.row[d] = "open"
  BY <1>1, MailTypes DEF AckSave, Handling, Loaded
<1>5. snap.row \in [Ids -> Rows] /\ snap.current \in 0..MaxAsks
  BY <1>1 DEF TypeOK, Threads
<1>6. faults' \in 0..MaxFaults
  BY <1>1, FaultTypes DEF AckSave
<1>7. \/ UNCHANGED <<row, current>>
      \/ /\ row' = [snap.row EXCEPT ![d] = "acked"]
         /\ current' = IF snap.current = 0 THEN d ELSE snap.current
  BY DEF AckSave, attention
<1>8. Forward /\ MailKept
  BY <1>1, <1>2, StillForward, StillMail
<1>9. CASE UNCHANGED <<row, current>>
  <2>1. TypeOK' /\ Placed' /\ AcknowledgedInPerson' /\ RowsKept
    BY <1>1, <1>2, <1>3, <1>6, <1>9 DEF TypeOK, Placed, AcknowledgedInPerson, RowsKept
  <2>. QED
    BY <1>2, <1>3, <1>8, <2>1, HandlingKept, LoadedKept DEF Unconditional
<1>10. CASE /\ row' = [snap.row EXCEPT ![d] = "acked"]
            /\ current' = IF snap.current = 0 THEN d ELSE snap.current
  <2>1. row' \in [Ids -> Rows] /\ row'[d] = "acked" /\ \A e \in Ids \ {d} : row'[e] = snap.row[e]
    BY <1>4, <1>5, <1>10 DEF Rows
  <2>2. current' \in 0..MaxAsks
    BY <1>4, <1>5, <1>10, RepliesAssumption DEF Ids
  <2>3. TypeOK' /\ Placed'
    BY <1>1, <1>2, <1>3, <1>6, <2>1, <2>2 DEF TypeOK, Placed
  <2>4. RowsKept
    BY <1>1, <1>4, <2>1 DEF RowsKept, Loaded
  <2>5. AcknowledgedInPerson'
    BY <1>1, <1>2, <1>4, <2>1 DEF AcknowledgedInPerson, Loaded, TypeOK
  <2>. QED
    BY <1>2, <1>3, <1>8, <2>3, <2>4, <2>5, HandlingKept, LoadedKept DEF Unconditional
<1>. QED
  BY <1>7, <1>9, <1>10

LEMMA CrashStep ==
  ASSUME Unconditional, Crash
  PROVE  Unconditional' /\ \A t \in Handlers : h'[t] = Rest
<1>1. TypeOK /\ Placed
  BY DEF Unconditional
<1>2. /\ running' = FALSE /\ queue' = <<>> /\ todo' = <<>> /\ ui' = [pc |-> "idle", d |-> 0]
      /\ h' = [t \in Handlers |-> Rest] /\ fresh' = {} /\ seen' = {}
      /\ UNCHANGED <<row, current, bound, ring, delivered, enrolled, heard, mail, stale,
                     asks, applied>>
  BY DEF Crash, files, attention, deliveries, outside
<1>3. faults' \in 0..MaxFaults
  BY <1>1, FaultTypes DEF Crash
<1>4. TypeOK'
  <2>1. queue' \in Seq(Items) /\ todo' \in Seq(Ids) /\ ui' \in UIs
    BY <1>2, UITypes
  <2>2. h' \in [Handlers -> Threads] /\ running' \in BOOLEAN
    BY <1>2, RestIsAThread
  <2>. QED
    BY <1>1, <1>2, <1>3, <2>1, <2>2 DEF TypeOK
<1>5. \A t \in Handlers : h'[t] = Rest
  BY <1>2, RestIsAThread
<1>6. Placed'
  BY <1>1, <1>2 DEF Placed, TypeOK
<1>7. \A t \in Handlers : Handling(t)' /\ Loaded(t)'
  BY <1>5, RestIsAThread DEF Handling, Loaded
<1>8. AcknowledgedInPerson'
  BY <1>2 DEF AcknowledgedInPerson
<1>. QED
  BY <1>4, <1>5, <1>6, <1>7, <1>8 DEF Unconditional

LEMMA UnconditionalStep ==
  ASSUME Unconditional, [Next]_vars
  PROVE  Unconditional'
<1>1. CASE Session
  BY <1>1, ParkStep, SettleStep, NoteStep, AcknowledgeStep, OutsideStep DEF Session
<1>2. CASE Device
  BY <1>2, OutsideStep DEF Device
<1>3. CASE \E t \in Handlers : Accept(t)
  BY <1>3, VerifyStep, ReserveStep, WhoStep, SubmitStep, RecordStep, AckLoadStep, AckSaveStep
  DEF Accept
<1>4. CASE Crash \/ Restart
  BY <1>4, CrashStep, OutsideStep
<1>5. CASE UNCHANGED vars
  BY <1>5 DEF vars, files, attention, deliveries, process, outside, history, Unconditional,
     TypeOK, Placed, Handling, Loaded, AcknowledgedInPerson
<1>. QED
  BY <1>1, <1>2, <1>3, <1>4, <1>5 DEF Next


-------------------------------------------------------------------------------
(* What envelopes do, while the ring holds every nonce that was signed.      *)

LEMMA SetTypes ==
  ASSUME TypeOK
  PROVE  Len(mail) \in Nat /\ asks \in Nat /\ ring \in Seq(Nonces)
         /\ \A d \in DOMAIN queue : queue[d].q \in Nat
<1>1. \A d \in DOMAIN queue : queue[d] \in Items
  BY DEF TypeOK
<1>. QED
  BY <1>1 DEF TypeOK, Items, Questions

\* Steps that do not touch the nonces, the answers and the outcomes: what is
\* parked is a question that no reply has answered yet.
LEMMA EnvelopesKept ==
  ASSUME TypeOK, Placed, Reserved, Acting, Forward, MailKept, asks' \in Nat, asks <= asks',
         \A d \in DOMAIN queue' \ DOMAIN queue : queue'[d].q > asks,
         Len(mail') \in Nat,
         UNCHANGED <<ring, applied, delivered>>,
         \A t \in Handlers : h'[t] = h[t] \/ h'[t] = Rest
  PROVE  Reserved' /\ Acting'
<1>1. asks \in Nat /\ Len(mail) \in Nat
  BY SetTypes
<1>2. \A t \in Handlers : h'[t] = h[t] \/ h'[t].pc = "idle"
  BY RestIsAThread
<1>3. Reserved'
  BY <1>1, <1>2 DEF Reserved, Past, MailKept
<1>4. \A p \in applied : p[2] \in Nat /\ p[2] <= asks
  BY DEF Acting, TypeOK, Questions
<1>5. ASSUME NEW p \in applied, NEW d \in DOMAIN queue', queue'[d].q = p[2]
      PROVE  queue'[d].status = "answered" /\ queue'[d].by = p[1]
  <2>1. d \in DOMAIN queue
    BY <1>1, <1>4, <1>5
  <2>2. queue[d].status = "answered" /\ queue[d].by = p[1]
    BY <1>5, <2>1 DEF Acting, Forward
  <2>. QED
    BY <2>1, <2>2 DEF Forward
<1>6. \A p \in applied : p[2] <= asks'
  BY <1>1, <1>4
<1>7. \A t \in Handlers : ActsOn(t)'
  BY <1>2 DEF Acting, ActsOn, Told
<1>. QED
  BY <1>3, <1>5, <1>6, <1>7 DEF Acting, Told, AppliedOnce, OutcomesAgree

\* A thread that goes on with the nonce it has, without any effect of the envelope.
LEMMA ThreadGoesOn ==
  ASSUME TypeOK, Reserved, Acting, NEW t \in Handlers,
         \A u \in Handlers \ {t} : h'[u] = h[u],
         h'[t].pc \in Past => h[t].pc \in Past /\ h'[t].n = h[t].n,
         h'[t].pc \in {"who", "submit"} => h[t].pc \in {"who", "submit"},
         h'[t].pc = "record" => h[t].pc \in {"who", "submit"} /\ ~h'[t].ok,
         UNCHANGED <<ring, applied, delivered, queue, mail, asks>>
  PROVE  Reserved' /\ Acting'
<1>1. Reserved'
  <2>1. \A u \in Handlers : h'[u].pc \in Past => h[u].pc \in Past /\ h'[u].n = h[u].n
    OBVIOUS
  <2>. QED
    BY <2>1 DEF Reserved
<1>2. \A u \in Handlers : ActsOn(u)'
  <2>1. ActsOn(t)'
    <3>1. ActsOn(t)
      BY DEF Acting
    <3>2. h'[t].pc \in {"who", "submit", "record"} => h'[t].n = h[t].n
      BY DEF Past
    <3>3. h'[t].pc \in {"who", "submit"} => ~Told(h[t].n) /\ \A o \in delivered : o.n # h'[t].n
      BY <3>1, <3>2 DEF ActsOn
    <3>4. h'[t].pc = "record" => ~h'[t].ok /\ ~Told(h[t].n)
      BY <3>1 DEF ActsOn
    <3>. QED
      BY <3>2, <3>3, <3>4 DEF ActsOn, Told
  <2>2. \A u \in Handlers \ {t} : ActsOn(u)'
    BY DEF Acting, ActsOn, Told
  <2>. QED
    BY <2>1, <2>2
<1>. QED
  BY <1>1, <1>2 DEF Acting, Told, AppliedOnce, OutcomesAgree

\* The ring has room for a nonce it does not hold.
LEMMA RingGrows ==
  ASSUME TypeOK, Reserved, Roomy, NEW n \in 1..Len(mail), n \notin ToSet(ring)
  PROVE  /\ Len(Append(ring, n)) <= MaxNonces
         /\ ToSet(Append(ring, n)) = ToSet(ring) \cup {n}
         /\ Len(Append(ring, n)) = Cardinality(ToSet(Append(ring, n)))
<1>1. Len(mail) \in Nat /\ ring \in Seq(Nonces) /\ MaxNonces \in Nat
  BY SetTypes, RepliesAssumption
<1>2. IsFiniteSet(1..Len(mail)) /\ Cardinality(1..Len(mail)) = Len(mail)
  <2>1. 1 \in Int /\ Len(mail) \in Int
    BY <1>1
  <2>2. IsFiniteSet(1..Len(mail))
        /\ Cardinality(1..Len(mail)) = IF 1 > Len(mail) THEN 0 ELSE Len(mail) - 1 + 1
    BY <2>1, FS_Interval
  <2>. QED
    BY <1>1, <2>2
<1>3. ToSet(ring) \cup {n} \subseteq 1..Len(mail)
  BY DEF Reserved
<1>4. IsFiniteSet(ToSet(ring)) /\ Cardinality(ToSet(ring) \cup {n}) <= Len(mail)
  BY <1>2, <1>3, FS_Subset
<1>5. Cardinality(ToSet(ring) \cup {n}) = Cardinality(ToSet(ring)) + 1
  BY <1>4, FS_AddElement
<1>6. Len(Append(ring, n)) = Len(ring) + 1
  BY <1>1
<1>7. ToSet(Append(ring, n)) = ToSet(ring) \cup {n}
  <2>1. /\ DOMAIN Append(ring, n) = DOMAIN ring \cup {Len(ring) + 1}
        /\ \A i \in DOMAIN ring : Append(ring, n)[i] = ring[i]
        /\ Append(ring, n)[Len(ring) + 1] = n
    BY <1>1
  <2>. QED
    BY <2>1 DEF ToSet
<1>. QED
  BY <1>1, <1>4, <1>5, <1>6, <1>7 DEF Reserved, Roomy

LEMMA ReserveActs ==
  ASSUME Unconditional, Reserved, Acting, Roomy, NEW t \in Handlers, Reserve(t)
  PROVE  Reserved' /\ Acting'
<1>. DEFINE n == h[t].n
<1>1. TypeOK /\ n \in 1..Len(mail)
  BY DEF Unconditional, Handling, Reserve
<1>2. UNCHANGED <<applied, delivered, queue, mail, asks>>
  BY DEF Reserve, outside, history
<1>3. CASE Returns(t) /\ UNCHANGED ring
  <2>1. (\A u \in Handlers \ {t} : h'[u] = h[u]) /\ h'[t].pc = "idle"
    BY <1>1, <1>3, ReturnsMoves
  <2>. QED
    BY <1>1, <1>2, <1>3, <2>1, ThreadGoesOn DEF Past
<1>4. CASE /\ n \notin ToSet(ring) /\ Goes(t, "who")
           /\ LET longer == Append(ring, n)
              IN ring' = IF Len(longer) > MaxNonces THEN Tail(longer) ELSE longer
  <2>1. (\A u \in Handlers \ {t} : h'[u] = h[u]) /\ h'[t].pc = "who" /\ h'[t].n = n
    BY <1>1, <1>4, GoesMoves DEF PCs
  <2>2. Len(Append(ring, n)) \in Nat /\ MaxNonces \in Nat
    BY <1>1, SetTypes, RepliesAssumption
  <2>3. ring' = Append(ring, n)
    BY <1>1, <1>4, <2>2, RingGrows
  <2>4. ToSet(ring') = ToSet(ring) \cup {n} /\ Len(ring') = Cardinality(ToSet(ring'))
    BY <1>1, <1>4, <2>3, RingGrows
  <2>5. \A u \in Handlers \ {t} : h'[u].pc \in Past => h'[u].n # n
    BY <1>4, <2>1 DEF Reserved
  <2>6. Reserved'
    BY <1>1, <1>2, <2>1, <2>4, <2>5 DEF Reserved
  <2>7. ~Told(n) /\ \A o \in delivered : o.n # n
    BY <1>4 DEF Acting, Told
  <2>8. \A u \in Handlers : ActsOn(u)'
    BY <1>2, <2>1, <2>7 DEF Acting, ActsOn, Told
  <2>. QED
    BY <1>2, <2>4, <2>6, <2>8 DEF Acting, Told, AppliedOnce, OutcomesAgree
<1>. QED
  BY <1>3, <1>4 DEF Reserve

\* A thread that was at "submit" or "record" keeps its nonce or gives it up.
LEMMA StaysReserved ==
  ASSUME Reserved, NEW t \in Handlers, \A u \in Handlers \ {t} : h'[u] = h[u],
         h[t].pc \in Past, h'[t].pc = "idle" \/ h'[t].n = h[t].n,
         UNCHANGED <<ring, mail>>
  PROVE  /\ Reserved' /\ h[t].n \in ToSet(ring)
         /\ \A u \in Handlers \ {t} : h[u].pc \in Past => h[u].n # h[t].n
<1>1. \A u \in Handlers : h'[u].pc \in Past => h[u].pc \in Past /\ h'[u].n = h[u].n
  <2>1. "idle" \notin Past
    BY DEF Past
  <2>2. ASSUME NEW u \in Handlers, h'[u].pc \in Past
        PROVE  h[u].pc \in Past /\ h'[u].n = h[u].n
    <3>1. CASE u = t
      BY <2>1, <2>2, <3>1, Zenon
    <3>2. CASE u # t
      BY <2>2, <3>2
    <3>. QED
      BY <3>1, <3>2
  <2>. QED
    BY <2>2
<1>. QED
  BY <1>1 DEF Reserved

\* An item that waits has no answer among the replies: neither this envelope nor
\* another one has answered its question.
LEMMA SubmitActs ==
  ASSUME Unconditional, Reserved, Acting, NEW t \in Handlers, Submit(t)
  PROVE  Reserved' /\ Acting'
<1>. DEFINE n == h[t].n
            d == mail[n].d
<1>1. TypeOK /\ Placed
  BY DEF Unconditional
<1>2. UNCHANGED <<ring, delivered, mail, asks>>
  BY DEF Submit, files, attention, deliveries, outside
<1>3. /\ h[t].pc = "submit" /\ (\A u \in Handlers \ {t} : h'[u] = h[u])
      /\ h'[t].pc = "record" /\ h'[t].n = n
      /\ \/ /\ d \in DOMAIN queue /\ Answered(d, n) /\ n \in Nonces
            /\ applied' = applied \cup {<<n, queue[d].q>>} /\ h'[t].ok
         \/ UNCHANGED <<queue, applied>> /\ ~h'[t].ok
  BY SubmitMoves DEF Submitted
<1>4. CASE UNCHANGED <<queue, applied>> /\ ~h'[t].ok
  BY <1>1, <1>2, <1>3, <1>4, ThreadGoesOn DEF Past
<1>5. CASE /\ d \in DOMAIN queue /\ Answered(d, n) /\ n \in Nonces
           /\ applied' = applied \cup {<<n, queue[d].q>>} /\ h'[t].ok
  <2>1. h[t].pc \in Past
    BY <1>3 DEF Past
  <2>2. /\ Reserved' /\ n \in ToSet(ring)
        /\ \A u \in Handlers \ {t} : h[u].pc \in Past => h[u].n # n
    BY <1>2, <1>3, <2>1, StaysReserved
  <2>3. ~Told(n) /\ \A o \in delivered : o.n # n
    BY <1>3 DEF Acting, ActsOn
  <2>4. /\ Forward /\ DOMAIN queue' = DOMAIN queue /\ queue[d].status = "pending"
        /\ queue'[d].status = "answered" /\ queue'[d].by = n
    BY <1>1, <1>5, AnsweredMoves
  <2>5. /\ <<n, queue[d].q>>[1] = n /\ <<n, queue[d].q>>[2] = queue[d].q
        /\ queue[d].q <= asks
    BY <1>1, <1>5 DEF Placed
  <2>6. \A m : Told(m)' <=> Told(m) \/ m = n
    BY <1>5, <2>5 DEF Told
  <2>7. ASSUME NEW p \in applied', NEW e \in DOMAIN queue', queue'[e].q = p[2]
        PROVE  queue'[e].status = "answered" /\ queue'[e].by = p[1]
    <3>1. e \in DOMAIN queue /\ queue[e].q = p[2]
      BY <2>4, <2>7 DEF Forward
    <3>2. CASE p \in applied
      <4>1. queue[e].status = "answered" /\ queue[e].by = p[1]
        BY <3>1, <3>2 DEF Acting
      <4>. QED
        BY <2>4, <3>1, <4>1 DEF Forward
    <3>3. CASE p = <<n, queue[d].q>>
      <4>1. e = d
        BY <1>1, <1>5, <2>5, <3>1, <3>3 DEF Placed
      <4>. QED
        BY <2>4, <2>5, <3>3, <4>1
    <3>. QED
      BY <1>5, <3>2, <3>3
  <2>8. \A p \in applied' : p[1] \in ToSet(ring) /\ p[2] <= asks
    BY <1>5, <2>2, <2>5 DEF Acting
  <2>9. \A u \in Handlers : ActsOn(u)'
    <3>1. ActsOn(t)'
      BY <1>3, <1>5, <2>6 DEF ActsOn
    <3>2. ASSUME NEW u \in Handlers \ {t} PROVE ActsOn(u)'
      <4>1. ActsOn(u) /\ h'[u] = h[u]
        BY <1>3 DEF Acting
      <4>2. h[u].pc \in {"who", "submit", "record"} => h[u].n # n
        BY <2>2 DEF Past
      <4>3. h[u].pc \in {"who", "submit", "record"} => (Told(h[u].n)' <=> Told(h[u].n))
        BY <1>5, <2>5, <4>1, <4>2 DEF Told
      <4>. QED
        BY <1>2, <4>1, <4>3 DEF ActsOn
    <3>. QED
      BY <3>1, <3>2
  <2>10. AppliedOnce'
    BY <1>5, <2>3, <2>5 DEF Acting, AppliedOnce, Told
  <2>11. OutcomesAgree'
    <3>1. \A o \in delivered : (o.ok <=> Told(o.n)) /\ o.n # n
      BY <2>3 DEF Acting, OutcomesAgree, Told
    <3>2. \A o \in delivered : o.ok <=> Told(o.n)'
      BY <2>6, <3>1
    <3>. QED
      BY <1>2, <3>2 DEF OutcomesAgree, Told
  <2>. QED
    BY <1>2, <2>2, <2>7, <2>8, <2>9, <2>10, <2>11 DEF Acting
<1>. QED
  BY <1>3, <1>4, <1>5

LEMMA RecordActs ==
  ASSUME Unconditional, Reserved, Acting, NEW t \in Handlers, Record(t)
  PROVE  Reserved' /\ Acting'
<1>. DEFINE n == h[t].n
            o == [n |-> n, ok |-> h[t].ok]
<1>1. UNCHANGED <<ring, queue, mail, asks, applied>>
  BY DEF Record, attention, outside, history
<1>2. /\ h[t].pc = "record" /\ (\A u \in Handlers \ {t} : h'[u] = h[u])
      /\ h'[t].pc = "idle" \/ (h'[t].pc = "load" /\ h'[t].n = n)
      /\ delivered' = delivered \cup {o} \/ UNCHANGED delivered
  BY RecordMoves, RestIsAThread
<1>3. h[t].pc \in Past
  BY <1>2 DEF Past
<1>4. /\ Reserved' /\ n \in ToSet(ring)
      /\ \A u \in Handlers \ {t} : h[u].pc \in Past => h[u].n # n
  BY <1>1, <1>2, <1>3, StaysReserved
<1>5. o.n = n /\ (o.ok <=> Told(n))
  BY <1>2 DEF Acting, ActsOn
<1>6. \A x \in delivered' : x \in delivered \/ x = o
  BY <1>2
<1>7. \A u \in Handlers : ActsOn(u)'
  <2>1. ActsOn(t)'
    BY <1>2 DEF ActsOn
  <2>2. ASSUME NEW u \in Handlers \ {t} PROVE ActsOn(u)'
    <3>1. ActsOn(u) /\ h'[u] = h[u]
      BY <1>2 DEF Acting
    <3>2. h[u].pc \in {"who", "submit"} => h[u].n # n
      BY <1>4 DEF Past
    <3>3. h[u].pc \in {"who", "submit"} => \A x \in delivered' : x.n # h[u].n
      BY <1>5, <1>6, <3>1, <3>2 DEF ActsOn
    <3>. QED
      BY <1>1, <3>1, <3>3 DEF ActsOn, Told
  <2>. QED
    BY <2>1, <2>2
<1>8. \A x \in delivered' : x.n \in ToSet(ring)
  BY <1>4, <1>5, <1>6 DEF Acting
<1>9. OutcomesAgree'
  <2>1. \A x \in delivered' : x.ok <=> Told(x.n)
    BY <1>5, <1>6 DEF Acting, OutcomesAgree, Told
  <2>. QED
    BY <1>1, <2>1 DEF OutcomesAgree, Told
<1>. QED
  BY <1>1, <1>4, <1>7, <1>8, <1>9 DEF Acting, AppliedOnce

\* Only the device writes to the mail.
LEMMA MailMoves ==
  ASSUME [Next]_vars
  PROVE  Sign \/ UNCHANGED mail
<1>1. CASE Session
  <2>1. CASE Park \/ Dismiss \/ Decide
    BY <2>1 DEF Park, Dismiss, Decide, outside
  <2>2. CASE Note \/ Bind
    BY <2>2 DEF Note, Bind, outside
  <2>3. CASE Acknowledge \/ NothingToAcknowledge
    BY <2>3 DEF Acknowledge, NothingToAcknowledge, outside
  <2>. QED
    BY <1>1, <2>1, <2>2, <2>3 DEF Session
<1>2. CASE Device
  <2>1. CASE Expire
    BY <2>1 DEF Expire
  <2>2. CASE Revoke
    BY <2>2, Zenon DEF Revoke, outside
  <2>. QED
    BY <1>2, <2>1, <2>2 DEF Device
<1>3. ASSUME NEW t \in Handlers, Accept(t) PROVE UNCHANGED mail
  BY <1>3 DEF Accept, Verify, Reserve, Who, Submit, Record, AckLoad, AckSave, outside
<1>4. CASE Crash \/ Restart \/ UNCHANGED vars
  BY <1>4 DEF Crash, Restart, vars, outside
<1>. QED
  BY <1>1, <1>2, <1>3, <1>4 DEF Next

LEMMA MailGrows ==
  ASSUME Unconditional, [Next]_vars
  PROVE  MailKept /\ Len(mail) \in Nat /\ Len(mail') \in Nat
<1>1. /\ TypeOK /\ mail \in Seq([d : Ids, q : Questions])
      /\ mail' \in Seq([d : Ids, q : Questions])
  <2>1. TypeOK /\ TypeOK'
    BY UnconditionalStep DEF Unconditional
  <2>. QED
    BY <2>1, Zenon DEF TypeOK
<1>2. CASE UNCHANGED mail
  BY <1>1, <1>2, StillMail
<1>3. CASE Sign
  <2>1. PICK note \in heard : mail' = Append(mail, note)
    BY <1>3 DEF Sign
  <2>2. mail \in Seq([d : Ids, q : Questions]) /\ note \in [d : Ids, q : Questions]
    BY <1>1, <2>1 DEF TypeOK
  <2>. QED
    BY <2>1, <2>2 DEF MailKept
<1>4. Sign \/ UNCHANGED mail
  BY MailMoves
<1>. QED
  BY <1>2, <1>3, <1>4

LEMMA EnvelopesStep ==
  ASSUME IInv, [Next]_vars, Roomy'
  PROVE  Reserved' /\ Acting'
<1>1. Unconditional /\ TypeOK /\ Placed
  BY DEF IInv, Unconditional
<1>2. MailKept /\ Len(mail) \in Nat /\ Len(mail') \in Nat
  BY <1>1, MailGrows
<1>3. Roomy /\ Reserved /\ Acting
  BY <1>2, RepliesAssumption DEF IInv, Roomy, MailKept
<1>4. CASE Park
  <2>1. UNCHANGED <<ring, applied, delivered, h>>
    BY <1>4 DEF Park, files, deliveries
  <2>2. /\ Forward /\ asks' = asks + 1 /\ asks \in Nat
        /\ \A d \in DOMAIN queue' \ DOMAIN queue : queue'[d].q = asks'
    BY <1>1, <1>4, ParkMoves, SetTypes
  <2>. QED
    BY <1>1, <1>2, <1>3, <2>1, <2>2, EnvelopesKept
<1>5. CASE Dismiss \/ Decide
  <2>1. UNCHANGED <<ring, applied, delivered, h, asks>>
    BY <1>5 DEF Dismiss, Decide, files, deliveries, history
  <2>2. Forward /\ DOMAIN queue' = DOMAIN queue
    BY <1>1, <1>5, DismissMoves, AnsweredMoves DEF Dismiss, Decide
  <2>. QED
    BY <1>1, <1>2, <1>3, <2>1, <2>2, SetTypes, EnvelopesKept
<1>6. CASE \/ Note \/ Bind \/ Acknowledge \/ NothingToAcknowledge
           \/ Sign \/ Expire \/ Revoke \/ Restart
  <2>1. UNCHANGED <<ring, applied, delivered, h, asks, queue>>
    BY <1>6 DEF Note, Bind, Acknowledge, NothingToAcknowledge, Sign, Expire, Revoke, Restart,
       files, deliveries, process, history
  <2>. QED
    BY <1>1, <1>2, <1>3, <2>1, StillForward, SetTypes, EnvelopesKept
<1>7. CASE Crash
  <2>1. UNCHANGED <<ring, applied, delivered, asks, mail>> /\ queue' = <<>>
        /\ \A t \in Handlers : h'[t] = Rest
    BY <1>1, <1>7, CrashStep DEF Crash, files, deliveries, outside
  <2>2. Reserved'
    BY <1>3, <2>1, RestIsAThread DEF Reserved, Past
  <2>3. \A t \in Handlers : ActsOn(t)'
    BY <2>1, RestIsAThread DEF ActsOn
  <2>. QED
    BY <1>3, <2>1, <2>2, <2>3 DEF Acting, AppliedOnce, OutcomesAgree
<1>8. ASSUME NEW t \in Handlers, Accept(t)
      PROVE  Reserved' /\ Acting'
  <2>1. CASE Verify(t)
    <3>1. UNCHANGED <<ring, applied, delivered, queue, mail, asks>>
      BY <2>1 DEF Verify, files, deliveries, outside, history
    <3>. QED
      BY <1>1, <1>3, <2>1, <3>1, VerifyMoves, ThreadGoesOn DEF Past
  <2>2. CASE Reserve(t)
    BY <1>1, <1>3, <2>2, ReserveActs
  <2>3. CASE Who(t)
    <3>1. UNCHANGED <<ring, applied, delivered, queue, mail, asks>>
      BY <2>3 DEF Who, files, deliveries, outside, history
    <3>2. PICK pc \in {"submit", "record"} : Goes(t, pc)
      BY <2>3 DEF Who
    <3>3. /\ (\A u \in Handlers \ {t} : h'[u] = h[u]) /\ h'[t].pc = pc
          /\ h'[t].n = h[t].n /\ h'[t].ok = h[t].ok
      BY <1>1, <3>2, GoesMoves DEF PCs
    <3>4. h[t].pc = "who" /\ ~h[t].ok
      BY <2>3, <1>1 DEF Who, Unconditional, Handling
    <3>. QED
      BY <1>1, <1>3, <3>1, <3>3, <3>4, ThreadGoesOn DEF Past
  <2>4. CASE Submit(t)
    BY <1>1, <1>3, <2>4, SubmitActs
  <2>5. CASE Record(t)
    BY <1>1, <1>3, <2>5, RecordActs
  <2>6. CASE AckLoad(t)
    <3>1. UNCHANGED <<ring, applied, delivered, queue, mail, asks>>
      BY <2>6 DEF AckLoad, files, deliveries, outside, history
    <3>. QED
      BY <1>1, <1>3, <2>6, <3>1, AckLoadMoves, RestIsAThread, ThreadGoesOn DEF Past
  <2>7. CASE AckSave(t)
    <3>1. UNCHANGED <<ring, applied, delivered, queue, mail, asks>>
      BY <2>7 DEF AckSave, deliveries, outside, history
    <3>2. (\A u \in Handlers \ {t} : h'[u] = h[u]) /\ h'[t].pc = "idle"
      BY <1>1, <2>7, ReturnsMoves DEF AckSave
    <3>. QED
      BY <1>1, <1>3, <3>1, <3>2, ThreadGoesOn DEF Past
  <2>. QED
    BY <1>8, <2>1, <2>2, <2>3, <2>4, <2>5, <2>6, <2>7 DEF Accept
<1>9. CASE UNCHANGED vars
  <2>1. UNCHANGED <<ring, applied, delivered, h, asks, queue>>
    BY <1>9 DEF vars, files, deliveries, process, history
  <2>. QED
    BY <1>1, <1>2, <1>3, <2>1, StillForward, SetTypes, EnvelopesKept
<1>. QED
  BY <1>4, <1>5, <1>6, <1>7, <1>8, <1>9 DEF Next, Session, Device

-------------------------------------------------------------------------------
(* What each row was last set to.                                            *)

\* A reply that is about to save has read the rows as they are, but for those that
\* were set since.
Kept ==
  /\ RowsAreKept
  /\ \A t \in Handlers : h[t].pc = "save" =>
       \A d \in Ids \ overlapped : h[t].snap.row[d] = row[d]

\* A row is set; the threads at the save are among its peers.
LEMMA RowIsSet ==
  ASSUME Kept, NEW d \in Ids, NEW value \in Rows, NEW peers \in SUBSET Handlers,
         Says(d, value, peers), row'[d] = value,
         \A e \in Ids \ overlapped : e # d => row'[e] = row[e],
         \A t \in Handlers : h'[t].pc = "save" => t \in peers /\ h'[t] = h[t]
  PROVE  Kept'
<1>1. said' \in [Ids -> Rows] /\ said'[d] = value /\ \A e \in Ids \ {d} : said'[e] = said[e]
  BY DEF Kept, RowsAreKept, Says
<1>2. /\ overlapped' \subseteq Ids /\ overlapped \subseteq overlapped'
      /\ \A t \in peers : h[t].pc = "save" => d \in overlapped'
  BY DEF Kept, RowsAreKept, Says
<1>3. RowsAreKept'
  BY <1>1, <1>2 DEF Kept, RowsAreKept
<1>. QED
  BY <1>2, <1>3 DEF Kept

\* No row is set; who comes to the save has just read.
LEMMA RowsStand ==
  ASSUME Kept, UNCHANGED <<row, said, overlapped>>,
         \A t \in Handlers : h'[t].pc = "save" => h'[t] = h[t] \/ h'[t].snap.row = row
  PROVE  Kept'
BY DEF Kept, RowsAreKept

LEMMA KeptAcknowledge ==
  ASSUME Unconditional, Kept, Acknowledge
  PROVE  Kept'
<1>1. TypeOK /\ current \in Ids /\ UNCHANGED h
  BY RepliesAssumption DEF Unconditional, TypeOK, Ids, Acknowledge
<1>2. CASE UNCHANGED <<row, tale>>
  BY <1>1, <1>2, RowsStand DEF tale
<1>3. CASE row' = [row EXCEPT ![current] = "acked"] /\ Says(current, "acked", Handlers)
  <2>1. row'[current] = "acked" /\ \A e \in Ids : e # current => row'[e] = row[e]
    BY <1>1, <1>3 DEF TypeOK
  <2>. QED
    BY <1>1, <1>3, <2>1, RowIsSet DEF Rows
<1>. QED
  BY <1>2, <1>3 DEF Acknowledge

LEMMA KeptNote ==
  ASSUME Unconditional, Kept, Note
  PROVE  Kept'
<1>. DEFINE d == Head(todo)
<1>1. TypeOK /\ d \in Ids /\ UNCHANGED h
  BY DEF Unconditional, TypeOK, Note
<1>2. CASE UNCHANGED <<row, tale>>
  BY <1>1, <1>2, RowsStand DEF tale
<1>3. CASE row' = [row EXCEPT ![d] = "open"] /\ Says(d, "open", Handlers)
  <2>1. row'[d] = "open" /\ \A e \in Ids : e # d => row'[e] = row[e]
    BY <1>1, <1>3 DEF TypeOK
  <2>. HIDE DEF d
  <2>. QED
    BY <1>1, <1>3, <2>1, RowIsSet DEF Rows
<1>. QED
  BY <1>2, <1>3 DEF Note, attention

\* The save: whoever else is at its own save is an overlap; otherwise what is
\* written is what was read, with the one row acknowledged.
LEMMA KeptSave ==
  ASSUME Unconditional, Kept, NEW t \in Handlers, AckSave(t)
  PROVE  Kept'
<1>. DEFINE d == mail[h[t].n].d
            snap == h[t].snap
<1>1. /\ TypeOK /\ h[t].pc = "save" /\ Returns(t) /\ d \in Ids
  BY MailTypes DEF Unconditional, Handling, AckSave
<1>2. /\ \A u \in Handlers \ {t} : h'[u] = h[u]
      /\ \A u \in Handlers : h'[u].pc = "save" => u \in Handlers \ {t} /\ h'[u] = h[u]
  BY <1>1, ReturnsMoves
<1>3. CASE UNCHANGED <<row, tale>>
  BY <1>2, <1>3, RowsStand DEF tale
<1>4. CASE row' = [snap.row EXCEPT ![d] = "acked"] /\ Says(d, "acked", Handlers \ {t})
  <2>1. snap.row \in [Ids -> Rows]
    BY <1>1 DEF TypeOK, Threads
  <2>2. row'[d] = "acked" /\ \A e \in Ids : e # d => row'[e] = snap.row[e]
    BY <1>1, <1>4, <2>1
  <2>3. \A e \in Ids \ overlapped : snap.row[e] = row[e]
    BY <1>1 DEF Kept
  <2>. HIDE DEF d, snap
  <2>. QED
    BY <1>1, <1>2, <1>4, <2>2, <2>3, RowIsSet DEF Rows
<1>. QED
  BY <1>3, <1>4 DEF AckSave, attention

\* The other steps of a thread.
LEMMA KeptThread ==
  ASSUME Unconditional, Kept, NEW t \in Handlers,
         Verify(t) \/ Reserve(t) \/ Who(t) \/ Submit(t) \/ Record(t) \/ AckLoad(t)
  PROVE  Kept'
<1>1. UNCHANGED <<row, said, overlapped>> /\ TypeOK
  BY DEF Verify, Reserve, Who, Submit, Record, AckLoad, files, attention, history, tale,
     Unconditional
<1>2. /\ \A u \in Handlers \ {t} : h'[u] = h[u]
      /\ h'[t].pc = "save" => h'[t].snap.row = row
  <2>1. CASE Verify(t)
    BY <2>1, VerifyMoves
  <2>2. CASE Reserve(t)
    <3>1. CASE Returns(t)
      BY <1>1, <3>1, ReturnsMoves
    <3>2. CASE Goes(t, "who")
      BY <1>1, <3>2, GoesMoves DEF PCs
    <3>. QED
      BY <2>2, <3>1, <3>2 DEF Reserve
  <2>3. CASE Who(t)
    <3>1. PICK pc \in {"submit", "record"} : Goes(t, pc)
      BY <2>3 DEF Who
    <3>. QED
      BY <1>1, <3>1, GoesMoves DEF PCs
  <2>4. CASE Submit(t)
    BY <2>4, SubmitMoves
  <2>5. CASE Record(t)
    <3>1. CASE Returns(t)
      BY <1>1, <3>1, ReturnsMoves
    <3>2. CASE Goes(t, "load")
      BY <1>1, <3>2, GoesMoves DEF PCs
    <3>. QED
      BY <2>5, <3>1, <3>2 DEF Record
  <2>6. CASE AckLoad(t)
    BY <2>6, AckLoadMoves, RestIsAThread
  <2>. QED
    BY <2>1, <2>2, <2>3, <2>4, <2>5, <2>6
<1>. QED
  BY <1>1, <1>2, RowsStand

LEMMA KeptStep ==
  ASSUME Unconditional, Kept, [Next]_vars
  PROVE  Kept'
<1>1. CASE \/ Park \/ Dismiss \/ Bind \/ Decide \/ NothingToAcknowledge
           \/ Device \/ Restart \/ UNCHANGED vars
  <2>1. UNCHANGED <<row, said, overlapped, h>>
    BY <1>1 DEF Park, Dismiss, Bind, Decide, NothingToAcknowledge, Device, Sign, Expire, Revoke,
       Restart, vars, files, attention, process, history, tale
  <2>. QED
    BY <2>1, RowsStand
<1>2. CASE Crash
  <2>1. UNCHANGED <<row, said, overlapped>> /\ \A t \in Handlers : h'[t] = Rest
    BY <1>2, CrashStep DEF Crash, files, attention, tale
  <2>. QED
    BY <2>1, RestIsAThread, RowsStand
<1>3. CASE \E t \in Handlers : Accept(t)
  BY <1>3, KeptSave, KeptThread DEF Accept
<1>4. CASE Note \/ Acknowledge
  BY <1>4, KeptNote, KeptAcknowledge
<1>. QED
  BY <1>1, <1>2, <1>3, <1>4 DEF Next, Session

LEMMA InitKept == Init => Kept
<1>. SUFFICES ASSUME Init PROVE Kept
  OBVIOUS
<1>1. \A t \in Handlers : h[t] = Rest
  BY RestIsAThread DEF Init
<1>. QED
  BY <1>1, RestIsAThread DEF Init, Kept, RowsAreKept, Rows

-------------------------------------------------------------------------------
(* The theorems.                                                             *)

LEMMA Inductive == Spec => []IInv
<1>1. IInv /\ [Next]_vars => IInv'
  BY UnconditionalStep, EnvelopesStep DEF IInv
<1>. QED
  BY InitIInv, <1>1, PTL DEF Spec

\* Every state the program reaches is of the declared types; among them, the ring
\* of nonces never grows past its bound (ReplyDeliveryStore.reserve).
THEOREM TypeCorrect == Spec => []TypeOK
<1>1. IInv => TypeOK
  BY DEF IInv, Unconditional
<1>. QED
  BY Inductive, <1>1, PTL

\* A question that still waits does not lose its event: whatever the threads of the
\* listener, the person and the faults do, and however many nonces the ring has
\* forgotten, an event of this process is acknowledged only if it was answered or
\* the person was there; and a row that was not set while a reply was between its
\* load and its save is what it was last set to (reply.py, accept).
THEOREM NothingDisappears == Spec => []UnansweredStaysOpen
<1>1. IInv /\ Kept /\ [Next]_vars => Kept'
  BY KeptStep DEF IInv
<1>2. IInv /\ Kept => UnansweredStaysOpen
  BY DEF IInv, Unconditional, Kept, UnansweredStaysOpen
<1>. QED
  BY Inductive, InitKept, <1>1, <1>2, PTL DEF Spec

\* For as long as no more envelopes were signed than the ring holds, one envelope
\* answers one question, for good, and is recorded as what it did (reply.py,
\* ReplyDeliveryStore and NeedsYouQueue.answer).
THEOREM EnvelopesActOnce == Spec => [](Len(mail) <= MaxNonces => ReplyActsOnce)
<1>1. IInv => (Len(mail) <= MaxNonces => ReplyActsOnce)
  <2>. SUFFICES ASSUME IInv, Len(mail) <= MaxNonces
                PROVE  ReplyActsOnce
    OBVIOUS
  <2>1. TypeOK /\ Acting
    BY DEF IInv, Unconditional, Roomy
  <2>2. AnswerIsKept
    BY <2>1 DEF Acting, AnswerIsKept
  <2>. QED
    BY <2>1, <2>2 DEF Acting, ReplyActsOnce
<1>. QED
  BY Inductive, <1>1, PTL

-----------------------------------------------------------------------------
(* Checkpoints: the types of what is stored and of the operation under way. *)

\* A set of numbers that is not empty has a least one.
LEMMA Least ==
  ASSUME NEW I \in SUBSET Nat, I # {}
  PROVE  \E i \in I : \A j \in I : i <= j
<1> DEFINE R == {p \in Nat \X Nat : p[1] < p[2]}
<1>1. IsWellFoundedOn(R, Nat)
  BY NatLessThanWellFounded, Zenon DEF OpToRel
<1>2. PICK i \in I : \A j \in I : ~ (<<j, i>> \in R)
  <2> HIDE DEF R
  <2> QED BY <1>1, WFMin
<1>3. \A j \in I : ~ (j < i)
  BY <1>2
<1> QED
  BY <1>3

\* The types of the variables.
Operations ==
  [pc : {"idle", "recover", "plan", "files", "apply", "close"},
   why : {"boot", "begin", "restore", "compact"}, target : 0..MaxCut, keep : BOOLEAN,
   id : 0..MaxCut, retain : BOOLEAN, recovering : BOOLEAN, todo : SUBSET Paths,
   wrote : UNION {[D -> States] : D \in SUBSET Paths},
   skipped : SUBSET (Paths \cup {Unknown}), failed : BOOLEAN]
OpenCalls == [id : CheckpointIds, path : Paths, before : States]
Journals == [id : CheckpointIds, retain : BOOLEAN, phase : {"open", "required"}]
WorkspaceTyped ==
  /\ file \in [Paths -> States] /\ ino \in Nat /\ lease \in Sessions \cup {Nobody}
  /\ by \in [Paths -> SUBSET Sessions] /\ manual \subseteq Contents
  /\ maker \in [1..MaxWrites -> [who : Sessions \cup {Nobody}, id : 0..MaxCut]]
DiskTyped ==
  /\ order \in [Sessions -> SUBSET CheckpointIds] /\ unended \in [Sessions -> SUBSET CheckpointIds]
  /\ log \in [Sessions -> [Paths -> Seq(Changes)]] /\ warn \in [Sessions -> SUBSET Warnings]
  /\ tx \in [Sessions -> [set : BOOLEAN, order : SUBSET CheckpointIds, log : [Paths -> Seq(Changes)],
                          warn : SUBSET Warnings]]
  /\ pend \in [Sessions -> SUBSET OpenCalls] /\ journals \in [Sessions -> SUBSET Journals]
MemoryTyped ==
  /\ up \in [Sessions -> BOOLEAN] /\ active \in [Sessions -> 0..MaxCut]
  /\ needs \in [Sessions -> SUBSET CheckpointIds] /\ op \in Operations
BudgetTyped ==
  /\ cut \in 0..MaxCut /\ writes \in 0..MaxWrites /\ others \in 0..MaxManual
  /\ restores \in 0..MaxRestores /\ storeFaults \in 0..MaxStoreFaults
Leased ==
  /\ op.pc = "idle" => op = NoOperation
  /\ op.pc # "idle" => lease \in Sessions
  /\ \A s \in Sessions : lease = s => up[s] = TRUE /\ (active[s] # 0 <=> op.pc = "idle")
  /\ \A s \in Sessions : active[s] # 0 => lease = s
\* Only a session that has a number left asks for a checkpoint; a restore has one.
Room == (op.why = "begin" => cut < MaxCut) /\ (op.pc = "plan" => op.id # 0)
StoreTyped == WorkspaceTyped /\ DiskTyped /\ MemoryTyped /\ BudgetTyped /\ Leased /\ Room

-----------------------------------------------------------------------------
(* Lists of changes.                                                        *)

Ascending(l) == \A i, k \in DOMAIN l : i <= k => l[i].id <= l[k].id
\* Where the changes of a checkpoint and the later ones begin.
StartsAt(l, id, k) == \A i \in DOMAIN l : k <= i <=> id <= l[i].id
Joined(l, k) == \A i \in DOMAIN l : k <= i /\ i < Len(l) => l[i].after = l[i + 1].before

LEMMA ChangeTypes ==
  ASSUME NEW l \in Seq(Changes)
  PROVE  /\ DOMAIN l = 1..Len(l) /\ Len(l) \in Nat
         /\ \A k \in DOMAIN l : l[k] \in Changes /\ l[k].id \in Nat /\ l[k].id \in CheckpointIds
<1>1. \A k \in DOMAIN l : l[k] \in Changes
  OBVIOUS
<1>2. QED
  BY <1>1, CheckpointsAssumption DEF Changes, CheckpointIds

LEMMA OlderIs ==
  ASSUME NEW l \in Seq(Changes), Ascending(l), NEW id \in Nat
  PROVE  Older(l, id) \in 0..Len(l) /\ \A k \in 1..Len(l) : Older(l, id) < k <=> id <= l[k].id
<1>1. Len(l) \in Nat /\ DOMAIN l = 1..Len(l) /\ \A k \in 1..Len(l) : l[k].id \in Nat
  BY ChangeTypes
<1>2. \E n \in 0..Len(l) : \A k \in 1..Len(l) : n < k <=> id <= l[k].id
  <2> DEFINE I == {k \in 1..Len(l) : id <= l[k].id}
  <2>1. CASE I = {}
    <3>1. \A k \in 1..Len(l) : Len(l) < k <=> id <= l[k].id
      BY <1>1, <2>1
    <3>2. Len(l) \in 0..Len(l)
      BY <1>1
    <3>3. QED
      BY <3>1, <3>2
  <2>2. CASE I # {}
    <3>1. I \in SUBSET Nat
      OBVIOUS
    <3>2. PICK i \in I : \A j \in I : i <= j
      BY <2>2, <3>1, Least
    <3>3. i \in 1..Len(l) /\ id <= l[i].id
      BY <3>2
    <3>4. ASSUME NEW k \in 1..Len(l) PROVE i - 1 < k <=> id <= l[k].id
      <4>1. ASSUME i <= k PROVE id <= l[k].id
        <5>1. l[i].id <= l[k].id
          BY <1>1, <3>3, <4>1 DEF Ascending
        <5>2. QED
          BY <1>1, <3>3, <5>1
      <4>2. id <= l[k].id => k \in I
        OBVIOUS
      <4>3. id <= l[k].id => i <= k
        BY <3>2, <4>2
      <4>4. i - 1 < k <=> i <= k
        BY <3>3
      <4>5. QED
        BY <4>1, <4>3, <4>4
    <3>5. i - 1 \in 0..Len(l)
      BY <1>1, <3>3
    <3>6. QED
      BY <3>4, <3>5
  <2>3. QED
    BY <2>1, <2>2
<1>3. QED
  <2> DEFINE Right(n) == \A k \in 1..Len(l) : n < k <=> id <= l[k].id
  <2>1. \E n \in 0..Len(l) : Right(n)
    BY <1>2
  <2>2. Older(l, id) = CHOOSE n \in 0..Len(l) : Right(n)
    BY DEF Older
  <2> HIDE DEF Right
  <2>3. Older(l, id) \in 0..Len(l) /\ Right(Older(l, id))
    BY <2>1, <2>2
  <2>4. QED
    BY <2>3 DEF Right

\* The changes before a checkpoint, and the ones from it on.
Precedes(l, id, n, b) ==
  /\ n \in 0..Len(l) /\ b \in Seq(Changes) /\ Len(b) = n /\ DOMAIN b = 1..n
  /\ \A k \in 1..n : b[k] = l[k] /\ l[k].id < id
LEMMA OlderOnes ==
  ASSUME NEW l \in Seq(Changes), Ascending(l), NEW id \in Nat, NEW n, NEW b
  PROVE  n = Older(l, id) /\ b = SubSeq(l, 1, n) => Precedes(l, id, n, b)
<1> SUFFICES ASSUME n = Older(l, id), b = SubSeq(l, 1, n) PROVE Precedes(l, id, n, b)
  OBVIOUS
<1>1. n \in 0..Len(l) /\ \A k \in 1..Len(l) : n < k <=> id <= l[k].id
  BY OlderIs
<1>2. Len(l) \in Nat /\ \A k \in 1..Len(l) : l[k] \in Changes /\ l[k].id \in Nat
  BY ChangeTypes
<1>3. 1 \in Int /\ n \in Int /\ \A k \in 1..n : l[k] \in Changes
  BY <1>1, <1>2
<1>4. /\ SubSeq(l, 1, n) \in Seq(Changes)
      /\ Len(SubSeq(l, 1, n)) = IF 1 <= n THEN n - 1 + 1 ELSE 0
      /\ \A k \in 1 .. n - 1 + 1 : SubSeq(l, 1, n)[k] = l[1 + k - 1]
  BY <1>3, SubSeqProperties
<1>5. n - 1 + 1 = n /\ \A k \in 1..n : 1 + k - 1 = k
  BY <1>1, <1>2
<1>6. Len(SubSeq(l, 1, n)) = n
  BY <1>1, <1>2, <1>4, <1>5
<1>7. DOMAIN SubSeq(l, 1, n) = 1..n
  BY <1>4, <1>6
<1>8. \A k \in 1..n : SubSeq(l, 1, n)[k] = l[k]
  BY <1>4, <1>5
<1>9. \A k \in 1..n : l[k].id < id
  BY <1>1, <1>2
<1>10. QED
  BY <1>1, <1>4, <1>6, <1>7, <1>8, <1>9 DEF Precedes

Splits(l, id, n, c) ==
  /\ n \in 0..Len(l)
  /\ c \in Seq(Changes) /\ Len(c) = Len(l) - n /\ DOMAIN c = 1..(Len(l) - n)
  /\ \A k \in 1..(Len(l) - n) : c[k] = l[n + k] /\ id <= l[n + k].id
  /\ \A k \in 1..Len(l) : n < k <=> id <= l[k].id
LEMMA NewerOnes ==
  ASSUME NEW l \in Seq(Changes), Ascending(l), NEW id \in Nat, NEW n, NEW c
  PROVE  n = Older(l, id) /\ c = Newer(l, id) => Splits(l, id, n, c)
<1> SUFFICES ASSUME n = Older(l, id), c = Newer(l, id) PROVE Splits(l, id, n, c)
  OBVIOUS
<1>1. n \in 0..Len(l) /\ \A k \in 1..Len(l) : n < k <=> id <= l[k].id
  BY OlderIs
<1>2. Len(l) \in Nat /\ \A k \in 1..Len(l) : l[k] \in Changes
  BY ChangeTypes
<1>3. n + 1 \in Int /\ Len(l) \in Int /\ \A k \in (n + 1)..Len(l) : l[k] \in Changes
  BY <1>1, <1>2
<1>4. c = SubSeq(l, n + 1, Len(l))
  BY DEF Newer
<1>5. /\ c \in Seq(Changes)
      /\ Len(c) = IF n + 1 <= Len(l) THEN Len(l) - (n + 1) + 1 ELSE 0
      /\ \A k \in 1 .. Len(l) - (n + 1) + 1 : c[k] = l[n + 1 + k - 1]
  BY <1>3, <1>4, SubSeqProperties
<1>6. Len(l) - (n + 1) + 1 = Len(l) - n /\ \A k \in 1..(Len(l) - n) : n + 1 + k - 1 = n + k
  BY <1>1, <1>2
<1>7. Len(c) = Len(l) - n
  BY <1>1, <1>2, <1>5, <1>6
<1>8. DOMAIN c = 1..(Len(l) - n)
  BY <1>5, <1>7
<1>9. \A k \in 1..(Len(l) - n) : c[k] = l[n + k]
  BY <1>5, <1>6
<1>10. \A k \in 1..(Len(l) - n) : id <= l[n + k].id
  <2>1. \A k \in 1..(Len(l) - n) : n + k \in 1..Len(l) /\ n < n + k
    BY <1>1, <1>2
  <2>2. QED
    BY <1>1, <2>1
<1>11. QED
  BY <1>1, <1>5, <1>7, <1>8, <1>9, <1>10 DEF Splits

\* The same, by the place where they begin.
Tails(l, id, c) ==
  /\ c # <<>> <=> \E k \in DOMAIN l : StartsAt(l, id, k)
  /\ c # <<>> <=> \E k \in DOMAIN l : id <= l[k].id
  /\ \A k \in DOMAIN l : StartsAt(l, id, k) =>
       /\ Desired(c) = l[k].before /\ Expected(c) = l[Len(l)].after
       /\ Continuous(c) <=> Joined(l, k)
LEMMA Begins ==
  ASSUME NEW l \in Seq(Changes), Ascending(l), NEW id \in Nat, NEW c
  PROVE  c = Newer(l, id) => c \in Seq(Changes) /\ Tails(l, id, c)
<1> SUFFICES ASSUME c = Newer(l, id) PROVE c \in Seq(Changes) /\ Tails(l, id, c)
  OBVIOUS
<1>1. PICK n : n = Older(l, id)
  OBVIOUS
<1>3. /\ n \in 0..Len(l)
      /\ c \in Seq(Changes) /\ Len(c) = Len(l) - n /\ DOMAIN c = 1..(Len(l) - n)
      /\ \A k \in 1..(Len(l) - n) : c[k] = l[n + k] /\ id <= l[n + k].id
  <2>1. Splits(l, id, n, c)
    BY <1>1, NewerOnes
  <2>2. QED
    BY <2>1 DEF Splits
<1>4. DOMAIN l = 1..Len(l) /\ Len(l) \in Nat /\ \A k \in 1..Len(l) : l[k].id \in Nat
  BY ChangeTypes
<1>5. \A k \in 1..Len(l) : n < k <=> id <= l[k].id
  BY <1>1, OlderIs
<1>6. c # <<>> <=> n < Len(l)
  <2>0. Len(<<>>) = 0 /\ \A x \in Seq(Changes) : x # <<>> => Len(x) \in Nat \ {0}
    BY EmptySeq
  <2>1. c # <<>> <=> Len(c) # 0
    <3>1. c = <<>> => Len(c) = 0
      BY <2>0
    <3>2. c # <<>> => Len(c) \in Nat \ {0}
      BY <1>3, <2>0
    <3>3. QED
      BY <3>1, <3>2
  <2>2. QED
    BY <1>3, <1>4, <2>1
<1>7. c # <<>> <=> \E k \in DOMAIN l : id <= l[k].id
  BY <1>3, <1>4, <1>5, <1>6
<1>8. \A k \in DOMAIN l : StartsAt(l, id, k) <=> k = n + 1
  <2>1. TAKE k \in DOMAIN l
  <2>2. ASSUME StartsAt(l, id, k) PROVE k = n + 1
    <3>1. n < k
      BY <1>4, <1>5, <2>1, <2>2 DEF StartsAt
    <3>2. n + 1 \in DOMAIN l /\ id <= l[n + 1].id
      BY <1>3, <1>4, <1>5, <2>1, <3>1
    <3>3. k <= n + 1
      BY <2>2, <3>2 DEF StartsAt
    <3>4. QED
      BY <1>3, <1>4, <2>1, <3>1, <3>3
  <2>3. ASSUME k = n + 1 PROVE StartsAt(l, id, k)
    BY <1>3, <1>4, <1>5, <2>3 DEF StartsAt
  <2>4. QED
    BY <2>2, <2>3
<1>9. c # <<>> <=> \E k \in DOMAIN l : StartsAt(l, id, k)
  <2>1. n < Len(l) <=> n + 1 \in DOMAIN l
    BY <1>3, <1>4
  <2>2. QED
    BY <1>6, <1>8, <2>1
<1>10. ASSUME NEW k \in DOMAIN l, StartsAt(l, id, k)
       PROVE  /\ k = n + 1 /\ Desired(c) = l[k].before /\ Expected(c) = l[Len(l)].after
              /\ Continuous(c) <=> Joined(l, k)
  <2>1. k = n + 1 /\ n < Len(l)
    BY <1>3, <1>4, <1>8, <1>10
  <2>2. c[1] = l[k] /\ c[Len(c)] = l[Len(l)]
    <3>1. 1 \in 1..(Len(l) - n) /\ Len(l) - n \in 1..(Len(l) - n) /\ n + (Len(l) - n) = Len(l)
      BY <1>3, <1>4, <2>1
    <3>2. QED
      BY <1>3, <2>1, <3>1
  <2>3. ASSUME Continuous(c) PROVE Joined(l, k)
    <3>1. ASSUME NEW i \in DOMAIN l, k <= i, i < Len(l) PROVE l[i].after = l[i + 1].before
      <4>1. i - n \in 1..(Len(c) - 1) /\ i - n \in 1..(Len(l) - n) /\ (i - n) + 1 \in 1..(Len(l) - n)
            /\ n + (i - n) = i /\ n + ((i - n) + 1) = i + 1
        BY <1>3, <1>4, <2>1, <3>1
      <4>2. c[i - n].after = c[(i - n) + 1].before
        BY <2>3, <4>1 DEF Continuous
      <4>3. c[i - n] = l[i] /\ c[(i - n) + 1] = l[i + 1]
        BY <1>3, <4>1
      <4>4. QED
        BY <4>2, <4>3
    <3>2. QED
      BY <3>1 DEF Joined
  <2>4. ASSUME Joined(l, k) PROVE Continuous(c)
    <3>1. ASSUME NEW i \in 1..(Len(c) - 1) PROVE c[i].after = c[i + 1].before
      <4>1. i \in 1..(Len(l) - n) /\ i + 1 \in 1..(Len(l) - n) /\ n + i \in DOMAIN l
            /\ k <= n + i /\ n + i < Len(l) /\ n + (i + 1) = (n + i) + 1
        BY <1>3, <1>4, <2>1, <3>1
      <4>2. l[n + i].after = l[(n + i) + 1].before
        BY <2>4, <4>1 DEF Joined
      <4>3. c[i] = l[n + i] /\ c[i + 1] = l[(n + i) + 1]
        BY <1>3, <4>1
      <4>4. QED
        BY <4>2, <4>3
    <3>2. QED
      BY <3>1 DEF Continuous
  <2>5. QED
    BY <2>1, <2>2, <2>3, <2>4 DEF Desired, Expected
<1>11. QED
  BY <1>3, <1>7, <1>9, <1>10 DEF Tails

-----------------------------------------------------------------------------
(* Types.                                                                   *)

\* The values an operation may have, and what each session may hold.
Journal(id, retain, phase) == [id |-> id, retain |-> retain, phase |-> phase]
Transactions == [set : BOOLEAN, order : SUBSET CheckpointIds, log : [Paths -> Seq(Changes)],
                 warn : SUBSET Warnings]

LEMMA EmptyTyped == NoTx \in Transactions /\ NoOperation \in Operations
<1>1. [p \in Paths |-> <<>>] \in [Paths -> Seq(Changes)]
  OBVIOUS
<1>2. NoTx \in Transactions
  BY <1>1 DEF NoTx, Transactions
<1>3. <<>> \in [{} -> States]
  OBVIOUS
<1>4. <<>> \in UNION {[D -> States] : D \in SUBSET Paths}
  BY <1>3
<1>5. NoOperation \in Operations
  BY <1>4, CheckpointsAssumption DEF NoOperation, Operations
<1>6. QED
  BY <1>2, <1>5

LEMMA FaultTyped ==
  ASSUME StoreTyped, Fault \/ NoFault
  PROVE  BudgetTyped' /\ cut' = cut
BY CheckpointsAssumption DEF Fault, NoFault, budget, StoreTyped, BudgetTyped

LEMMA PreTyped ==
  ASSUME StoreTyped, NEW s \in Sessions, Pre(s)
  PROVE  StoreTyped'
<1>1. active[s] \in CheckpointIds
  BY CheckpointsAssumption DEF Pre, StoreTyped, MemoryTyped, CheckpointIds
<1>2. /\ UNCHANGED <<file, ino, lease, order, log, unended, journals, tx, up, active, needs, op>>
      /\ UNCHANGED <<by, maker, manual>>
  BY DEF Pre, memory, ghost
<1>3. CASE NoFault /\ UNCHANGED warn /\ \E p \in Paths :
             pend' = [pend EXCEPT ![s] = @ \cup {[id |-> active[s], path |-> p, before |-> file[p]]}]
  <2>1. PICK p \in Paths :
          pend' = [pend EXCEPT ![s] = @ \cup {[id |-> active[s], path |-> p, before |-> file[p]]}]
    BY <1>3
  <2>2. [id |-> active[s], path |-> p, before |-> file[p]] \in OpenCalls
    BY <1>1 DEF StoreTyped, WorkspaceTyped, OpenCalls
  <2>3. pend' \in [Sessions -> SUBSET OpenCalls]
    BY <2>1, <2>2 DEF StoreTyped, DiskTyped
  <2>4. UNCHANGED budget
    BY <1>3 DEF NoFault
  <2>5. QED
    BY <1>2, <1>3, <2>3, <2>4
       DEF StoreTyped, WorkspaceTyped, DiskTyped, MemoryTyped, BudgetTyped, Leased, Room, budget
<1>4. CASE /\ Fault /\ UNCHANGED pend
           /\ warn' = [warn EXCEPT ![s] = @ \cup {[id |-> active[s], path |-> Unknown]}]
  <2>1. [id |-> active[s], path |-> Unknown] \in Warnings
    BY <1>1 DEF Warnings
  <2>2. warn' \in [Sessions -> SUBSET Warnings]
    BY <1>4, <2>1 DEF StoreTyped, DiskTyped
  <2>3. BudgetTyped' /\ cut' = cut
    BY <1>4, FaultTyped
  <2>4. QED
    BY <1>2, <1>4, <2>2, <2>3
       DEF StoreTyped, WorkspaceTyped, DiskTyped, MemoryTyped, Leased, Room
<1>5. QED
  BY <1>3, <1>4 DEF Pre

LEMMA EndCallsTyped ==
  ASSUME StoreTyped, NEW s \in Sessions, NEW ids, EndCalls(s, ids)
  PROVE  /\ unended' \in [Sessions -> SUBSET CheckpointIds] /\ warn' \in [Sessions -> SUBSET Warnings]
         /\ pend' \in [Sessions -> SUBSET OpenCalls]
<1> DEFINE calls == {r \in pend[s] : r.id \in ids \cap unended[s]}
           late  == {[id |-> r.id, path |-> r.path] : r \in calls}
<1>1. /\ unended' = [unended EXCEPT ![s] = @ \ ids] /\ pend' = [pend EXCEPT ![s] = @ \ calls]
      /\ warn' = [warn EXCEPT ![s] = @ \cup late]
  BY DEF EndCalls
<1>2. calls \subseteq OpenCalls
  BY DEF StoreTyped, DiskTyped
<1>3. late \subseteq Warnings
  BY <1>2 DEF OpenCalls, Warnings
<1> HIDE DEF calls, late
<1>4. QED
  BY <1>1, <1>3 DEF StoreTyped, DiskTyped

LEMMA ToolWritesTyped ==
  ASSUME StoreTyped, NEW s \in Sessions, ToolWrites(s)
  PROVE  StoreTyped'
<1>1. /\ UNCHANGED <<lease, order, log, warn, unended, pend, journals, tx, up, active, needs, op>>
      /\ UNCHANGED <<manual, cut, others, restores, storeFaults>>
  BY DEF ToolWrites, disk, memory
<1>2. PICK p \in Paths : /\ file' = [file EXCEPT ![p] = [data |-> writes + 1, ino |-> ino + 1]]
                         /\ by' = [by EXCEPT ![p] = {}]
  BY DEF ToolWrites
<1>3. /\ writes < MaxWrites /\ ino' = ino + 1 /\ writes' = writes + 1
      /\ maker' = [maker EXCEPT ![writes + 1] = [who |-> s, id |-> active[s]]]
  BY DEF ToolWrites
<1>4. writes \in Nat /\ ino \in Nat /\ active[s] \in 0..MaxCut
  BY DEF StoreTyped, WorkspaceTyped, MemoryTyped, BudgetTyped
<1>5. [data |-> writes + 1, ino |-> ino + 1] \in States
  BY <1>3, <1>4, CheckpointsAssumption DEF States, Contents
<1>6. writes' \in 0..MaxWrites /\ ino' \in Nat
  BY <1>3, <1>4, CheckpointsAssumption
<1>7. maker' \in [1..MaxWrites -> [who : Sessions \cup {Nobody}, id : 0..MaxCut]]
  BY <1>3, <1>4 DEF StoreTyped, WorkspaceTyped
<1>8. QED
  BY <1>1, <1>2, <1>5, <1>6, <1>7
     DEF StoreTyped, WorkspaceTyped, DiskTyped, MemoryTyped, BudgetTyped, Leased, Room

LEMMA PostTyped ==
  ASSUME StoreTyped, NEW s \in Sessions, Post(s)
  PROVE  StoreTyped'
<1>1. UNCHANGED <<file, ino, lease, order, unended, journals, tx, up, active, needs, op, maker, manual>>
  BY DEF Post, memory
<1>2. PICK r \in pend[s] :
        /\ r.id = active[s]
        /\ \/ /\ NoFault /\ pend' = [pend EXCEPT ![s] = @ \ {r}] /\ UNCHANGED warn
              /\ IF r.before.data # file[r.path].data
                 THEN /\ log' = [log EXCEPT ![s][r.path] =
                            Append(@, [id |-> r.id, before |-> r.before, after |-> file[r.path]])]
                      /\ by' = [by EXCEPT ![r.path] = @ \cup {s}]
                 ELSE UNCHANGED <<log, by>>
           \/ /\ Fault /\ UNCHANGED <<pend, log, by>>
              /\ warn' = [warn EXCEPT ![s] = @ \cup {[id |-> r.id, path |-> Unknown]}]
  BY DEF Post
<1>3. r.id \in CheckpointIds /\ r.path \in Paths /\ r.before \in States
  BY <1>2 DEF StoreTyped, DiskTyped, OpenCalls
<1>4. BudgetTyped' /\ cut' = cut
  BY <1>2, FaultTyped
<1>5. pend' \in [Sessions -> SUBSET OpenCalls]
  BY <1>2 DEF StoreTyped, DiskTyped
<1>6. [id |-> r.id, path |-> Unknown] \in Warnings
  BY <1>3 DEF Warnings
<1>7. warn' \in [Sessions -> SUBSET Warnings]
  <2>1. warn \in [Sessions -> SUBSET Warnings]
    BY DEF StoreTyped, DiskTyped
  <2>2. [warn EXCEPT ![s] = @ \cup {[id |-> r.id, path |-> Unknown]}] \in [Sessions -> SUBSET Warnings]
    BY <1>6, <2>1
  <2>3. UNCHANGED warn \/ warn' = [warn EXCEPT ![s] = @ \cup {[id |-> r.id, path |-> Unknown]}]
    BY <1>2
  <2>4. QED
    BY <2>1, <2>2, <2>3
<1>8. by' \in [Paths -> SUBSET Sessions]
  <2>1. by \in [Paths -> SUBSET Sessions]
    BY DEF StoreTyped, WorkspaceTyped
  <2>2. [by EXCEPT ![r.path] = @ \cup {s}] \in [Paths -> SUBSET Sessions]
    BY <1>3, <2>1
  <2>3. UNCHANGED by \/ by' = [by EXCEPT ![r.path] = @ \cup {s}]
    BY <1>2
  <2>4. QED
    BY <2>1, <2>2, <2>3
<1>9. log' \in [Sessions -> [Paths -> Seq(Changes)]]
  <2> DEFINE c == [id |-> r.id, before |-> r.before, after |-> file[r.path]]
  <2>1. c \in Changes
    BY <1>3 DEF Changes, StoreTyped, WorkspaceTyped
  <2>2. UNCHANGED log \/ log' = [log EXCEPT ![s][r.path] = Append(@, c)]
    BY <1>2
  <2>3. log \in [Sessions -> [Paths -> Seq(Changes)]]
    BY DEF StoreTyped, DiskTyped
  <2> HIDE DEF c
  <2>4. log[s][r.path] \in Seq(Changes)
    BY <1>3, <2>3
  <2>5. Append(log[s][r.path], c) \in Seq(Changes)
    BY <2>1, <2>4
  <2>6. [log EXCEPT ![s][r.path] = Append(@, c)] \in [Sessions -> [Paths -> Seq(Changes)]]
    BY <1>3, <2>3, <2>5
  <2>7. QED
    BY <2>2, <2>3, <2>6
<1>10. QED
  BY <1>1, <1>4, <1>5, <1>7, <1>8, <1>9
     DEF StoreTyped, WorkspaceTyped, DiskTyped, MemoryTyped, Leased, Room

LEMMA FinishTyped ==
  ASSUME StoreTyped, NEW s \in Sessions, Finish(s)
  PROVE  StoreTyped'
<1>1. /\ UNCHANGED <<file, ino, order, log, journals, tx, up, needs, op, by, maker, manual>>
      /\ active[s] # 0 /\ active' = [active EXCEPT ![s] = 0] /\ lease' = Nobody
  BY DEF Finish, ghost
<1>2. BudgetTyped' /\ cut' = cut
  BY FaultTyped DEF Finish
<1>3. /\ unended' \in [Sessions -> SUBSET CheckpointIds] /\ warn' \in [Sessions -> SUBSET Warnings]
      /\ pend' \in [Sessions -> SUBSET OpenCalls]
  <2>1. CASE EndCalls(s, {active[s]})
    BY <2>1, EndCallsTyped
  <2>2. CASE UNCHANGED <<unended, warn, pend>>
    BY <2>2 DEF StoreTyped, DiskTyped
  <2>3. QED
    BY <2>1, <2>2 DEF Finish
<1>4. 0 \in 0..MaxCut /\ Nobody \notin Sessions
  BY CheckpointsAssumption
<1>5. QED
  BY <1>1, <1>2, <1>3, <1>4 DEF StoreTyped, WorkspaceTyped, DiskTyped, MemoryTyped, Leased, Room

LEMMA ManualTyped ==
  ASSUME StoreTyped, Manual
  PROVE  StoreTyped'
<1>1. /\ UNCHANGED <<lease, order, log, warn, unended, pend, journals, tx, up, active, needs, op>>
      /\ UNCHANGED <<maker, cut, writes, restores, storeFaults>>
      /\ others < MaxManual /\ others' = others + 1 /\ ino' = ino + 1
  BY DEF Manual, disk, memory
<1> DEFINE d == MaxWrites + others + 1
<1>2. PICK p \in Paths : /\ file' = [file EXCEPT ![p] = [data |-> d, ino |-> ino + 1]]
                         /\ by' = [by EXCEPT ![p] = {}] /\ manual' \in {manual, manual \cup {d}}
  BY DEF Manual
<1>3. others \in Nat /\ ino \in Nat /\ manual \subseteq Contents
  BY DEF StoreTyped, WorkspaceTyped, BudgetTyped
<1>4. d \in Contents
  BY <1>1, <1>3, CheckpointsAssumption DEF Contents
<1>5. others' \in 0..MaxManual /\ ino' \in Nat /\ ino + 1 \in Nat
  BY <1>1, <1>3, CheckpointsAssumption
<1> HIDE DEF d
<1>6. [data |-> d, ino |-> ino + 1] \in States
  BY <1>4, <1>5 DEF States
<1>7. manual' \subseteq Contents
  BY <1>2, <1>3, <1>4
<1>8. QED
  BY <1>1, <1>2, <1>5, <1>6, <1>7
     DEF StoreTyped, WorkspaceTyped, DiskTyped, MemoryTyped, BudgetTyped, Leased, Room

\* Whoever takes the lease applies a transaction that was left over.
LEMMA AcquireTyped ==
  ASSUME StoreTyped, NEW s \in Sessions, NEW request \in Operations, request.pc = "recover",
         Acquire(s, request), UNCHANGED <<unended, pend, active>>,
         up' \in [Sessions -> BOOLEAN], up'[s] = TRUE
  PROVE  /\ lease' \in Sessions \cup {Nobody} /\ op' \in Operations
         /\ needs' \in [Sessions -> SUBSET CheckpointIds] /\ DiskTyped' /\ Leased'
<1>1. tx[s] \in Transactions /\ order[s] \subseteq CheckpointIds /\ journals[s] \subseteq Journals
  BY DEF StoreTyped, DiskTyped, Transactions
<1> DEFINE now    == IF tx[s].set THEN tx[s].order ELSE order[s]
           asking == {j \in journals[s] : j.phase = "required"}
           moot   == {j \in asking : j.id \notin now}
<1>2. /\ lease = Nobody /\ lease' = s /\ op' = request
      /\ order' = [order EXCEPT ![s] = now]
      /\ log' = [log EXCEPT ![s] = IF tx[s].set THEN tx[s].log ELSE @]
      /\ warn' = [warn EXCEPT ![s] = IF tx[s].set THEN tx[s].warn ELSE @]
      /\ tx' = [tx EXCEPT ![s] = NoTx]
      /\ journals' = [journals EXCEPT ![s] = @ \ moot]
      /\ needs' = [needs EXCEPT ![s] = (@ \ {j.id : j \in moot}) \cup {j.id : j \in asking \ moot}]
  BY DEF Acquire
<1>3. now \subseteq CheckpointIds
  BY <1>1 DEF Transactions
<1>4. {j.id : j \in asking \ moot} \subseteq CheckpointIds
  BY <1>1 DEF Journals
<1> HIDE DEF now, asking, moot
<1>5. order' \in [Sessions -> SUBSET CheckpointIds] /\ needs' \in [Sessions -> SUBSET CheckpointIds]
  BY <1>2, <1>3, <1>4 DEF StoreTyped, DiskTyped, MemoryTyped
<1>6. log' \in [Sessions -> [Paths -> Seq(Changes)]]
  BY <1>1, <1>2 DEF Transactions, StoreTyped, DiskTyped
<1>7. warn' \in [Sessions -> SUBSET Warnings] /\ journals' \in [Sessions -> SUBSET Journals]
  BY <1>1, <1>2 DEF Transactions, StoreTyped, DiskTyped
<1>8. tx' \in [Sessions -> Transactions]
  BY <1>2, EmptyTyped DEF Transactions, StoreTyped, DiskTyped
<1>9. DiskTyped'
  BY <1>5, <1>6, <1>7, <1>8 DEF Transactions, StoreTyped, DiskTyped
<1>10. Leased'
  <2>1. \A t \in Sessions : active[t] = 0
    BY <1>2, CheckpointsAssumption DEF StoreTyped, Leased
  <2>2. lease' = s /\ op'.pc = "recover" /\ \A t \in Sessions : active'[t] = 0
    BY <1>2, <2>1
  <2>3. QED
    BY <2>2 DEF Leased
<1>11. QED
  BY <1>2, <1>5, <1>9, <1>10

LEMMA AskBeginTyped ==
  ASSUME StoreTyped, NEW s \in Sessions, AskBegin(s)
  PROVE  StoreTyped'
<1> DEFINE request == [NoOperation EXCEPT !.pc = "recover", !.why = "begin"]
<1>1. /\ UNCHANGED <<file, ino, unended, pend, up, active, by, maker, manual>> /\ UNCHANGED budget
      /\ up[s] /\ Acquire(s, request)
  BY DEF AskBegin, ghost
<1>2. request \in Operations /\ request.pc = "recover"
  BY EmptyTyped DEF Operations, NoOperation
<1> HIDE DEF request
<1>3. up' \in [Sessions -> BOOLEAN] /\ up'[s] = TRUE
  BY <1>1 DEF StoreTyped, MemoryTyped
<1>4. /\ lease' \in Sessions \cup {Nobody} /\ op' \in Operations
      /\ needs' \in [Sessions -> SUBSET CheckpointIds] /\ DiskTyped' /\ Leased'
  BY <1>1, <1>2, <1>3, AcquireTyped
<1>5. Room'
  BY <1>1, <1>2 DEF AskBegin, Acquire, Room, budget
<1>6. QED
  BY <1>1, <1>3, <1>4, <1>5 DEF StoreTyped, WorkspaceTyped, MemoryTyped, BudgetTyped, budget

LEMMA AskRestoreTyped ==
  ASSUME StoreTyped, NEW s \in Sessions, AskRestore(s)
  PROVE  StoreTyped'
<1>1. /\ UNCHANGED <<file, ino, unended, pend, up, active, by, maker, manual>>
      /\ up[s] /\ restores < MaxRestores /\ restores' = restores + 1
      /\ UNCHANGED <<cut, writes, others, storeFaults>>
  BY DEF AskRestore, ghost
<1>2. PICK id \in order[s], keep \in BOOLEAN :
        Acquire(s, [NoOperation EXCEPT !.pc = "recover", !.why = "restore",
                                       !.target = id, !.keep = keep])
  BY DEF AskRestore
<1> DEFINE request == [NoOperation EXCEPT !.pc = "recover", !.why = "restore",
                                          !.target = id, !.keep = keep]
<1>3. id \in 0..MaxCut
  BY CheckpointsAssumption DEF StoreTyped, DiskTyped, CheckpointIds
<1>4. request \in Operations /\ request.pc = "recover"
  BY <1>3, EmptyTyped DEF Operations, NoOperation
<1>5. Acquire(s, request)
  BY <1>2
<1> HIDE DEF request
<1>6. up' \in [Sessions -> BOOLEAN] /\ up'[s] = TRUE
  BY <1>1 DEF StoreTyped, MemoryTyped
<1>7. /\ lease' \in Sessions \cup {Nobody} /\ op' \in Operations
      /\ needs' \in [Sessions -> SUBSET CheckpointIds] /\ DiskTyped' /\ Leased'
  BY <1>1, <1>4, <1>5, <1>6, AcquireTyped
<1>8. BudgetTyped'
  BY <1>1, CheckpointsAssumption DEF StoreTyped, BudgetTyped
<1>9. Room'
  BY <1>2 DEF Acquire, Room, NoOperation
<1>10. QED
  BY <1>1, <1>6, <1>7, <1>8, <1>9 DEF StoreTyped, WorkspaceTyped, MemoryTyped

LEMMA AskCompactTyped ==
  ASSUME StoreTyped, NEW s \in Sessions, AskCompact(s)
  PROVE  StoreTyped'
<1>1. /\ UNCHANGED <<file, ino, unended, pend, up, active, by, maker, manual>>
      /\ up[s] /\ restores < MaxRestores /\ restores' = restores + 1
      /\ UNCHANGED <<cut, writes, others, storeFaults>>
  BY DEF AskCompact, ghost
<1>2. PICK id \in order[s] :
        Acquire(s, [NoOperation EXCEPT !.pc = "recover", !.why = "compact", !.target = id])
  BY DEF AskCompact
<1> DEFINE request == [NoOperation EXCEPT !.pc = "recover", !.why = "compact", !.target = id]
<1>3. id \in 0..MaxCut
  BY CheckpointsAssumption DEF StoreTyped, DiskTyped, CheckpointIds
<1>4. request \in Operations /\ request.pc = "recover"
  BY <1>3, EmptyTyped DEF Operations, NoOperation
<1>5. Acquire(s, request)
  BY <1>2
<1> HIDE DEF request
<1>6. up' \in [Sessions -> BOOLEAN] /\ up'[s] = TRUE
  BY <1>1 DEF StoreTyped, MemoryTyped
<1>7. /\ lease' \in Sessions \cup {Nobody} /\ op' \in Operations
      /\ needs' \in [Sessions -> SUBSET CheckpointIds] /\ DiskTyped' /\ Leased'
  BY <1>1, <1>4, <1>5, <1>6, AcquireTyped
<1>8. BudgetTyped'
  BY <1>1, CheckpointsAssumption DEF StoreTyped, BudgetTyped
<1>9. Room'
  BY <1>2 DEF Acquire, Room, NoOperation
<1>10. QED
  BY <1>1, <1>6, <1>7, <1>8, <1>9 DEF StoreTyped, WorkspaceTyped, MemoryTyped

LEMMA OpenStoreTyped ==
  ASSUME StoreTyped, NEW s \in Sessions, OpenStore(s)
  PROVE  StoreTyped'
<1> DEFINE request == [NoOperation EXCEPT !.pc = "recover"]
<1>1. /\ UNCHANGED <<file, ino, unended, pend, active, by, maker, manual>> /\ UNCHANGED budget
      /\ up' = [up EXCEPT ![s] = TRUE]
      /\ \/ Acquire(s, request)
         \/ UNCHANGED <<lease, order, log, warn, tx, journals, needs, op>>
  BY DEF OpenStore, ghost
<1>2. request \in Operations /\ request.pc = "recover"
  BY EmptyTyped DEF Operations, NoOperation
<1> HIDE DEF request
<1>3. /\ up' \in [Sessions -> BOOLEAN] /\ up'[s] = TRUE
      /\ \A t \in Sessions : up[t] = TRUE => up'[t] = TRUE
  BY <1>1 DEF StoreTyped, MemoryTyped
<1>4. /\ lease' \in Sessions \cup {Nobody} /\ op' \in Operations
      /\ needs' \in [Sessions -> SUBSET CheckpointIds] /\ DiskTyped' /\ Leased'
  <2>1. CASE Acquire(s, request)
    BY <1>1, <1>2, <1>3, <2>1, AcquireTyped
  <2>2. CASE UNCHANGED <<lease, order, log, warn, tx, journals, needs, op>>
    <3>1. /\ lease' \in Sessions \cup {Nobody} /\ op' \in Operations
          /\ needs' \in [Sessions -> SUBSET CheckpointIds] /\ DiskTyped'
      BY <1>1, <2>2 DEF StoreTyped, WorkspaceTyped, DiskTyped, MemoryTyped
    <3>2. op' = op /\ lease' = lease /\ active' = active
      BY <1>1, <2>2
    <3>3. Leased'
      BY <1>3, <3>2 DEF StoreTyped, Leased
    <3>4. QED
      BY <3>1, <3>3
  <2>3. QED
    BY <1>1, <2>1, <2>2
<1>5. Room'
  <2>1. op' = op \/ (op'.why = "boot" /\ op'.pc = "recover")
    BY <1>1 DEF Acquire, request, NoOperation
  <2>2. QED
    BY <1>1, <2>1 DEF StoreTyped, Room, budget
<1>6. QED
  BY <1>1, <1>3, <1>4, <1>5 DEF StoreTyped, WorkspaceTyped, MemoryTyped, BudgetTyped, budget

\* Steps of whoever holds the lease.
LEMMA HolderIs ==
  ASSUME StoreTyped, op.pc # "idle"
  PROVE  /\ lease \in Sessions /\ active[lease] = 0 /\ up[lease] = TRUE /\ op \in Operations
         /\ \A t \in Sessions : active[t] = 0
         /\ order[lease] \subseteq CheckpointIds /\ unended[lease] \subseteq CheckpointIds
         /\ log[lease] \in [Paths -> Seq(Changes)] /\ warn[lease] \subseteq Warnings
         /\ tx[lease] \in Transactions /\ pend[lease] \subseteq OpenCalls
         /\ journals[lease] \subseteq Journals
<1>1. lease \in Sessions /\ op \in Operations
  BY DEF StoreTyped, Leased, MemoryTyped
<1>2. up[lease] = TRUE /\ active[lease] = 0
  BY <1>1 DEF StoreTyped, Leased
<1>3. \A t \in Sessions : active[t] = 0
  BY <1>2 DEF StoreTyped, Leased
<1>4. QED
  BY <1>1, <1>2, <1>3 DEF StoreTyped, DiskTyped, Transactions

\* A step that moves the operation on, or ends it.
OpMoves ==
  /\ lease' = lease /\ op'.pc # "idle" /\ op'.why = op.why /\ (op'.pc = "plan" => op'.id # 0)
  /\ UNCHANGED <<up, active>>
Ends  == Release /\ UNCHANGED <<up, active>>
LEMMA MovesLeased ==
  ASSUME StoreTyped, op.pc # "idle", OpMoves \/ Ends, cut' = cut
  PROVE  Leased' /\ Room' /\ lease' \in Sessions \cup {Nobody}
<1>1. /\ lease \in Sessions /\ active[lease] = 0 /\ up[lease] = TRUE
      /\ \A t \in Sessions : active[t] = 0
  BY HolderIs
<1>2. CASE OpMoves
  BY <1>1, <1>2 DEF OpMoves, Leased, StoreTyped, Room
<1>3. CASE Ends
  <2>1. /\ lease' = Nobody /\ op' = NoOperation /\ op'.pc = "idle"
        /\ \A t \in Sessions : active'[t] = 0
    BY <1>1, <1>3 DEF Ends, Release, NoOperation
  <2>2. QED
    BY <1>3, <2>1, CheckpointsAssumption DEF Ends, Release, NoOperation, Leased, Room
<1>4. QED
  BY <1>2, <1>3

LEMMA RecoverTyped ==
  ASSUME StoreTyped, Recover
  PROVE  StoreTyped'
<1>1. /\ UNCHANGED <<file, ino, lease, order, log, warn, unended, pend, tx, up, active, needs>>
      /\ UNCHANGED <<by, maker, manual>> /\ UNCHANGED budget /\ op.pc = "recover"
  BY DEF Recover, ghost
<1>2. PICK j \in journals[lease] :
        \/ /\ op' = [op EXCEPT !.pc = "plan", !.id = j.id, !.retain = j.retain, !.recovering = TRUE]
           /\ UNCHANGED journals
        \/ journals' = [journals EXCEPT ![lease] = @ \ {j}] /\ UNCHANGED op
  BY DEF Recover
<1>3. j \in Journals /\ lease \in Sessions /\ op \in Operations
  BY <1>1, HolderIs
<1>4. op' \in Operations /\ op'.pc # "idle" /\ op'.why = op.why /\ (op'.pc = "plan" => op'.id # 0)
  <2>1. j.id \in 0..MaxCut /\ j.id # 0 /\ j.retain \in BOOLEAN
    BY <1>3, CheckpointsAssumption DEF Journals, CheckpointIds
  <2>2. [op EXCEPT !.pc = "plan", !.id = j.id, !.retain = j.retain, !.recovering = TRUE] \in Operations
    BY <1>3, <2>1 DEF Operations
  <2>3. op' = op \/ op' = [op EXCEPT !.pc = "plan", !.id = j.id, !.retain = j.retain, !.recovering = TRUE]
    BY <1>2
  <2>4. CASE op' = op
    BY <1>1, <1>3, <2>4
  <2>5. CASE op' = [op EXCEPT !.pc = "plan", !.id = j.id, !.retain = j.retain, !.recovering = TRUE]
    BY <1>3, <2>1, <2>2, <2>5 DEF Operations
  <2>6. QED
    BY <2>3, <2>4, <2>5
<1>5. journals' \in [Sessions -> SUBSET Journals]
  BY <1>2, <1>3 DEF StoreTyped, DiskTyped
<1>6. Leased' /\ Room'
  BY <1>1, <1>4, MovesLeased DEF OpMoves, budget
<1>7. QED
  BY <1>1, <1>4, <1>5, <1>6 DEF StoreTyped, WorkspaceTyped, DiskTyped, MemoryTyped, BudgetTyped, budget

\* The checkpoints a new one leaves in the index: the latest ones.
Latest(all, new, kept, first) ==
  /\ kept \subseteq all /\ new \in kept /\ first \in kept /\ first \in Nat
  /\ \A i \in all : i \in kept <=> first <= i
LEMMA KeptOnes ==
  ASSUME NEW old \in SUBSET CheckpointIds, NEW new \in Nat, \A i \in old : i < new,
         NEW all, all = old \cup {new}, NEW kept, NEW first
  PROVE  /\ kept = {i \in all : Cardinality({j \in all : j >= i}) <= MaxKept}
         /\ first = (CHOOSE i \in kept : \A j \in kept : i <= j)
         => Latest(all, new, kept, first)
<1> SUFFICES ASSUME kept = {i \in all : Cardinality({j \in all : j >= i}) <= MaxKept},
                    first = (CHOOSE i \in kept : \A j \in kept : i <= j)
             PROVE  Latest(all, new, kept, first)
  OBVIOUS
<1>1. IsFiniteSet(old) /\ IsFiniteSet(all)
  <2>1. IsFiniteSet(CheckpointIds)
    BY CheckpointsAssumption, FS_Interval DEF CheckpointIds
  <2>2. IsFiniteSet(old)
    BY <2>1, FS_Subset
  <2>3. QED
    BY <2>2, FS_AddElement
<1>2. all \subseteq Nat /\ \A j \in all : j = new \/ j < new
  BY CheckpointsAssumption DEF CheckpointIds
<1>3. new \in kept
  <2>1. {j \in all : j >= new} = {new}
    <3>1. new \in all /\ new >= new
      OBVIOUS
    <3>2. ASSUME NEW j \in all, j >= new PROVE j = new
      BY <1>2, <3>2
    <3>3. QED
      BY <3>1, <3>2, Zenon
  <2>2. Cardinality({new}) = 1
    BY FS_Singleton
  <2>3. QED
    BY <2>1, <2>2, CheckpointsAssumption
<1>4. kept \in SUBSET Nat /\ kept # {}
  BY <1>2, <1>3
<1>5. \E i \in kept : \A j \in kept : i <= j
  BY <1>4, Least
<1>6. first \in kept /\ \A j \in kept : first <= j
  BY <1>5
<1>7. ASSUME NEW i \in all, first <= i PROVE i \in kept
  <2> DEFINE Up(k) == {j \in all : j >= k}
  <2>1. Up(i) \subseteq Up(first)
    <3>1. i \in Nat /\ first \in Nat
      BY <1>2, <1>4, <1>6
    <3>2. ASSUME NEW j \in all, j >= i PROVE j >= first
      BY <1>2, <1>7, <3>1, <3>2
    <3>3. QED
      BY <3>2
  <2>2. IsFiniteSet(Up(first)) /\ IsFiniteSet(Up(i))
    BY <1>1, FS_Subset
  <2>3. Cardinality(Up(i)) <= Cardinality(Up(first))
    BY <2>1, <2>2, FS_Subset
  <2>4. Cardinality(Up(first)) <= MaxKept
    BY <1>6
  <2>5. Cardinality(Up(i)) \in Nat /\ Cardinality(Up(first)) \in Nat
    BY <2>2, FS_CardinalityType
  <2>6. Cardinality(Up(i)) <= MaxKept
    <3> HIDE DEF Up
    <3> QED BY <2>3, <2>4, <2>5, CheckpointsAssumption
  <2>7. QED
    BY <2>6
<1>8. QED
  BY <1>3, <1>4, <1>6, <1>7 DEF Latest

LEMMA BeginTyped ==
  ASSUME StoreTyped, Begin, \A p \in Paths : Ascending(log[lease][p]), \A i \in order[lease] : i <= cut
  PROVE  StoreTyped'
<1> DEFINE s     == lease
           new   == cut + 1
           all   == order[s] \cup {new}
           kept  == {i \in all : Cardinality({j \in all : j >= i}) <= MaxKept}
           first == CHOOSE i \in kept : \A j \in kept : i <= j
<1>1. /\ op.pc = "recover" /\ op.why = "begin"
      /\ cut' = new /\ active' = [active EXCEPT ![s] = new] /\ op' = NoOperation
      /\ order' = [order EXCEPT ![s] = kept]
      /\ unended' = [unended EXCEPT ![s] = (@ \cup {new}) \cap kept]
      /\ log' = [log EXCEPT ![s] = [p \in Paths |-> Newer(@[p], first)]]
      /\ warn' = [warn EXCEPT ![s] = {w \in @ : w.id \in kept}]
      /\ pend' = [pend EXCEPT ![s] = {r \in @ : r.id \in kept}]
      /\ UNCHANGED <<file, ino, lease, journals, tx, up, needs, by, maker, manual>>
      /\ UNCHANGED <<writes, others, restores, storeFaults>>
  BY DEF Begin, Recovered, ghost
<1>2. cut \in Nat /\ cut < MaxCut
  BY <1>1 DEF StoreTyped, BudgetTyped, Room
<1>3. new \in CheckpointIds /\ new \in 0..MaxCut /\ new \in Nat /\ new # 0
  BY <1>2, CheckpointsAssumption DEF CheckpointIds
<1>4. s \in Sessions /\ order[s] \in SUBSET CheckpointIds /\ log[s] \in [Paths -> Seq(Changes)]
  BY <1>1, HolderIs
<1>5. \A i \in order[s] : i < new
  BY <1>2, <1>4 DEF CheckpointIds
<1>6. first \in Nat
  <2>1. Latest(all, new, kept, first)
    <3> HIDE DEF new
    <3> QED BY <1>3, <1>4, <1>5, KeptOnes
  <2>2. QED
    BY <2>1 DEF Latest
<1>7. kept \subseteq CheckpointIds
  BY <1>3, <1>4
<1> HIDE DEF new, all, kept, first
<1>8. \A p \in Paths : Newer(log[s][p], first) \in Seq(Changes)
  BY <1>4, <1>6, NewerOnes DEF Splits
<1>9. [p \in Paths |-> Newer(log[s][p], first)] \in [Paths -> Seq(Changes)]
  BY <1>8
<1>10. log' \in [Sessions -> [Paths -> Seq(Changes)]]
  BY <1>1, <1>9 DEF StoreTyped, DiskTyped
<1>11. /\ order' \in [Sessions -> SUBSET CheckpointIds] /\ unended' \in [Sessions -> SUBSET CheckpointIds]
  BY <1>1, <1>7 DEF StoreTyped, DiskTyped
<1>12. warn' \in [Sessions -> SUBSET Warnings] /\ pend' \in [Sessions -> SUBSET OpenCalls]
  BY <1>1 DEF StoreTyped, DiskTyped
<1>13. cut' \in 0..MaxCut /\ active' \in [Sessions -> 0..MaxCut] /\ op' \in Operations
  BY <1>1, <1>3, EmptyTyped DEF StoreTyped, MemoryTyped
<1>14. Leased' /\ Room'
  <2>1. lease' = s /\ up'[s] = TRUE /\ active'[s] # 0 /\ \A t \in Sessions \ {s} : active'[t] = 0
    BY <1>1, <1>3, <1>4, HolderIs DEF StoreTyped, MemoryTyped
  <2>2. op' = NoOperation /\ op'.pc = "idle" /\ op'.why = "boot"
    BY <1>1 DEF NoOperation
  <2>3. QED
    BY <1>4, <2>1, <2>2 DEF Leased, Room
<1>15. QED
  BY <1>1, <1>10, <1>11, <1>12, <1>13, <1>14
     DEF StoreTyped, WorkspaceTyped, DiskTyped, MemoryTyped, BudgetTyped

LEMMA DeclineTyped ==
  ASSUME StoreTyped, Decline
  PROVE  StoreTyped'
<1>1. /\ UNCHANGED <<file, ino, order, log, warn, unended, pend, journals, tx, up, active, needs>>
      /\ UNCHANGED <<by, maker, manual>> /\ UNCHANGED budget /\ op.pc = "recover" /\ Release
  BY DEF Decline, Recovered, disk, ghost
<1>2. Leased' /\ Room' /\ lease' \in Sessions \cup {Nobody}
  BY <1>1, MovesLeased DEF Ends, budget
<1>3. op' \in Operations
  BY <1>1, EmptyTyped DEF Release
<1>4. QED
  BY <1>1, <1>2, <1>3 DEF StoreTyped, WorkspaceTyped, DiskTyped, MemoryTyped, BudgetTyped, budget

LEMMA GoTyped ==
  ASSUME StoreTyped, Go
  PROVE  StoreTyped'
<1>1. /\ UNCHANGED <<file, ino, lease, order, log, warn, unended, pend, journals, tx, up, active, needs>>
      /\ UNCHANGED <<by, maker, manual>> /\ UNCHANGED budget /\ op.pc = "recover"
      /\ op' = [op EXCEPT !.pc = "plan", !.id = op.target, !.retain = op.keep, !.recovering = FALSE]
  BY DEF Go, Recovered, disk, ghost
<1>2. op' \in Operations /\ op'.pc # "idle" /\ op'.why = op.why /\ op'.id # 0
  <2>1. op \in Operations /\ order[lease] \subseteq CheckpointIds
    BY <1>1, HolderIs
  <2>2. op.target # 0
    BY <2>1 DEF Go, CheckpointIds
  <2>3. QED
    BY <1>1, <2>1, <2>2 DEF Operations
<1>3. Leased' /\ Room'
  BY <1>1, <1>2, MovesLeased DEF OpMoves, budget
<1>4. QED
  BY <1>1, <1>2, <1>3 DEF StoreTyped, WorkspaceTyped, DiskTyped, MemoryTyped, BudgetTyped, budget

\* What a compaction makes of the records: those of the hidden checkpoints become
\* the last kept one's.
Folded(c, hidden, newest) == IF c.id \in hidden THEN [c EXCEPT !.id = newest] ELSE c

LEMMA CompactTyped ==
  ASSUME StoreTyped, Compact
  PROVE  StoreTyped'
<1> DEFINE s      == lease
           kept   == {i \in order[s] : i < op.target}
           hidden == order[s] \ kept
           newest   == CHOOSE i \in kept : \A j \in kept : j <= i
           new(p) == IF kept = {} THEN <<>> ELSE [k \in 1..Len(log[s][p]) |-> Folded(log[s][p][k], hidden, newest)]
           lists  == [p \in Paths |-> new(p)]
           warned == IF kept = {} THEN {} ELSE {Folded(w, hidden, newest) : w \in warn'[s]}
           folded == [set |-> TRUE, order |-> kept, log |-> lists, warn |-> warned]
<1>1. /\ UNCHANGED <<file, ino, lease, order, log, journals, up, active, needs, by, maker, manual>>
      /\ op.pc = "recover"
      /\ IF kept = {} THEN UNCHANGED <<unended, warn, pend>> ELSE EndCalls(s, {newest} \cup hidden)
  BY DEF Compact, Recovered, ghost
<1>2. \/ NoFault /\ op' = [op EXCEPT !.pc = "apply"] /\ tx' = [tx EXCEPT ![s] = folded]
      \/ Fault /\ op' = [op EXCEPT !.pc = "close"] /\ UNCHANGED tx
  BY DEF Compact, Folded
<1>3. s \in Sessions /\ order[s] \subseteq CheckpointIds /\ log[s] \in [Paths -> Seq(Changes)] /\ op \in Operations
  BY <1>1, HolderIs
<1>4. kept \subseteq CheckpointIds
  BY <1>3
<1>5. kept # {} => newest \in CheckpointIds
  <2>1. SUFFICES ASSUME kept # {} PROVE newest \in kept
    BY <1>4
  <2>2. \E i \in kept : \A j \in kept : j <= i
    <3>1. IsFiniteSet(CheckpointIds)
      BY CheckpointsAssumption, FS_Interval DEF CheckpointIds
    <3> DEFINE Under == {i \in Nat : \E j \in kept : i = MaxCut - j}
    <3>2. Under \in SUBSET Nat /\ Under # {}
      <4>1. PICK j \in kept : TRUE
        BY <2>1
      <4>2. MaxCut - j \in Nat
        BY <1>4, <4>1, CheckpointsAssumption DEF CheckpointIds
      <4>3. QED
        BY <4>1, <4>2
    <3>3. PICK u \in Under : \A v \in Under : u <= v
      BY <3>2, Least
    <3>4. PICK i \in kept : u = MaxCut - i
      BY <3>3
    <3>5. ASSUME NEW j \in kept PROVE j <= i
      <4>1. i \in 1..MaxCut /\ j \in 1..MaxCut
        BY <1>4, <3>4 DEF CheckpointIds
      <4>2. MaxCut - j \in Under
        BY <4>1, CheckpointsAssumption
      <4>3. u <= MaxCut - j
        BY <3>3, <4>2
      <4>4. QED
        BY <3>4, <4>1, <4>3, CheckpointsAssumption
    <3>6. QED
      BY <3>5
  <2>3. QED
    BY <2>2
<1>6. /\ unended' \in [Sessions -> SUBSET CheckpointIds] /\ warn' \in [Sessions -> SUBSET Warnings]
      /\ pend' \in [Sessions -> SUBSET OpenCalls]
  <2>1. CASE UNCHANGED <<unended, warn, pend>>
    BY <2>1 DEF StoreTyped, DiskTyped
  <2>2. CASE EndCalls(s, {newest} \cup hidden)
    BY <1>3, <2>2, EndCallsTyped
  <2>3. QED
    BY <1>1, <2>1, <2>2
<1> HIDE DEF kept, hidden, newest
<1>7. lists \in [Paths -> Seq(Changes)]
  <2>1. ASSUME NEW p \in Paths PROVE new(p) \in Seq(Changes)
    <3>1. CASE kept = {}
      BY <3>1
    <3>2. CASE kept # {}
      <4>1. log[s][p] \in Seq(Changes)
        BY <1>3
      <4>2. PICK l : l = log[s][p]
        OBVIOUS
      <4>3. Len(l) \in Nat /\ \A k \in 1..Len(l) : l[k] \in Changes
        BY <4>1, <4>2, ChangeTypes
      <4>4. \A k \in 1..Len(l) : Folded(l[k], hidden, newest) \in Changes
        BY <1>5, <3>2, <4>3 DEF Folded, Changes
      <4>5. [k \in 1..Len(l) |-> Folded(l[k], hidden, newest)] \in [1..Len(l) -> Changes]
        BY <4>4
      <4>6. [k \in 1..Len(l) |-> Folded(l[k], hidden, newest)] \in Seq(Changes)
        BY <4>3, <4>5, SeqDef
      <4>7. QED
        BY <3>2, <4>2, <4>6
    <3>3. QED
      BY <3>1, <3>2
  <2> HIDE DEF new
  <2>2. QED
    BY <2>1
<1>8. warned \subseteq Warnings
  <2>1. CASE kept = {}
    BY <2>1
  <2>2. CASE kept # {}
    <3>1. warn'[s] \subseteq Warnings
      BY <1>3, <1>6
    <3>2. ASSUME NEW w \in warn'[s] PROVE Folded(w, hidden, newest) \in Warnings
      BY <1>5, <2>2, <3>1 DEF Folded, Warnings
    <3>3. QED
      BY <2>2, <3>2
  <2>3. QED
    BY <2>1, <2>2
<1> HIDE DEF lists, warned
<1>9. folded \in Transactions
  BY <1>4, <1>7, <1>8 DEF Transactions
<1> HIDE DEF folded
<1>10. tx' \in [Sessions -> Transactions]
  BY <1>2, <1>9 DEF StoreTyped, DiskTyped, Transactions
<1>11. op' \in Operations /\ op'.pc \notin {"idle", "plan"} /\ op'.why = op.why
  BY <1>2, <1>3 DEF Operations
<1>12. BudgetTyped' /\ cut' = cut
  BY <1>2, FaultTyped
<1>13. Leased' /\ Room'
  BY <1>1, <1>11, <1>12, MovesLeased DEF OpMoves
<1>14. QED
  BY <1>1, <1>6, <1>10, <1>11, <1>12, <1>13
     DEF StoreTyped, WorkspaceTyped, DiskTyped, MemoryTyped, Transactions

LEMMA PlanRestoreTyped ==
  ASSUME StoreTyped, PlanRestore
  PROVE  StoreTyped'
<1> DEFINE s       == lease
           here    == {i \in order[s] : i >= op.id}
           warned  == {w.path : w \in {x \in warn'[s] : x.id \in here}}
           touched == {p \in Paths : Since(s, op.id, p) # <<>>}
           sound   == IF Unknown \in warned THEN {}
                      ELSE {p \in touched \ warned : Continuous(Since(s, op.id, p))}
           done    == {p \in sound : file[p].data = Desired(Since(s, op.id, p)).data}
           jobs    == {p \in sound \ done : file[p] = Expected(Since(s, op.id, p))}
           skipped == warned \cup (touched \ (done \cup jobs))
           mine    == [id |-> op.id, retain |-> op.retain, phase |-> "open"]
<1>1. /\ UNCHANGED <<file, ino, order, log, tx, up, active, needs, by, maker, manual>>
      /\ op.pc = "plan" /\ EndCalls(s, here)
  BY DEF PlanRestore, ghost
<1>2. \/ /\ NoFault /\ journals' = [journals EXCEPT ![s] = @ \cup {mine}]
         /\ op' = [op EXCEPT !.pc = "files", !.todo = jobs,
                             !.wrote = [p \in done |-> file[p]], !.skipped = skipped]
         /\ UNCHANGED lease
      \/ /\ Fault /\ UNCHANGED journals
         /\ \/ op' = [op EXCEPT !.pc = "close", !.failed = TRUE] /\ UNCHANGED lease
            \/ Release
  BY DEF PlanRestore
<1>3. s \in Sessions /\ op \in Operations
  BY <1>1, HolderIs
<1>4. /\ unended' \in [Sessions -> SUBSET CheckpointIds] /\ warn' \in [Sessions -> SUBSET Warnings]
      /\ pend' \in [Sessions -> SUBSET OpenCalls]
  BY <1>1, <1>3, EndCallsTyped
<1>5. warned \subseteq Paths \cup {Unknown}
  <2>1. warn'[s] \subseteq Warnings
    BY <1>3, <1>4
  <2>2. QED
    BY <2>1 DEF Warnings
<1>6. done \subseteq Paths /\ jobs \subseteq Paths /\ skipped \subseteq Paths \cup {Unknown}
  BY <1>5
<1> HIDE DEF done, jobs, skipped
<1>7. [p \in done |-> file[p]] \in UNION {[D -> States] : D \in SUBSET Paths}
  <2>1. [p \in done |-> file[p]] \in [done -> States]
    BY <1>6 DEF StoreTyped, WorkspaceTyped
  <2>2. QED
    BY <1>6, <2>1
<1> DEFINE w == [p \in done |-> file[p]]
<1>8. PICK written : written = w
  OBVIOUS
<1>9. op' \in Operations
  <2>1. CASE op' = [op EXCEPT !.pc = "files", !.todo = jobs, !.wrote = w, !.skipped = skipped]
    BY <1>3, <1>6, <1>7, <1>8, <2>1 DEF Operations
  <2>2. CASE op' = [op EXCEPT !.pc = "close", !.failed = TRUE]
    BY <1>3, <2>2 DEF Operations
  <2>3. CASE op' = NoOperation
    BY <2>3, EmptyTyped
  <2>4. QED
    BY <1>2, <2>1, <2>2, <2>3 DEF Release
<1>10. BudgetTyped' /\ cut' = cut
  BY <1>2, FaultTyped
<1>11. Leased' /\ Room' /\ lease' \in Sessions \cup {Nobody}
  <2>1. OpMoves \/ Ends
    BY <1>1, <1>2, <1>3 DEF OpMoves, Ends, Operations
  <2>2. QED
    BY <1>1, <1>10, <2>1, MovesLeased
<1>12. journals' \in [Sessions -> SUBSET Journals]
  <2>1. op.id \in CheckpointIds
    BY <1>1, <1>3, CheckpointsAssumption DEF StoreTyped, Room, Operations, CheckpointIds
  <2>2. mine \in Journals
    BY <1>3, <2>1 DEF Operations, Journals
  <2>3. QED
    <3> HIDE DEF mine
    <3>1. journals' = journals \/ journals' = [journals EXCEPT ![s] = @ \cup {mine}]
      BY <1>2
    <3>2. journals \in [Sessions -> SUBSET Journals] /\ s \in Sessions
      BY <1>3 DEF StoreTyped, DiskTyped
    <3>3. [journals EXCEPT ![s] = @ \cup {mine}] \in [Sessions -> SUBSET Journals]
      BY <2>2, <3>2
    <3>4. QED
      BY <3>1, <3>2, <3>3
<1>13. QED
  BY <1>1, <1>4, <1>9, <1>10, <1>11, <1>12
     DEF StoreTyped, WorkspaceTyped, DiskTyped, MemoryTyped

Puts(w, p, x, v) ==
  /\ v \in UNION {[D -> States] : D \in SUBSET Paths}
  /\ DOMAIN v = {p} \cup DOMAIN w /\ v[p] = x
  /\ \A q \in DOMAIN w : q # p => v[q] = w[q]
LEMMA WrittenTyped ==
  ASSUME NEW w \in UNION {[D -> States] : D \in SUBSET Paths}, NEW p \in Paths, NEW x \in States,
         NEW v
  PROVE  v = Wrote(w, p, x) => Puts(w, p, x, v)
<1> SUFFICES ASSUME v = Wrote(w, p, x) PROVE Puts(w, p, x, v)
  OBVIOUS
<1>1. PICK D \in SUBSET Paths : w \in [D -> States]
  OBVIOUS
<1>2. v = [q \in {p} \cup D |-> IF q = p THEN x ELSE w[q]]
  BY <1>1 DEF Wrote
<1>3. v \in [{p} \cup D -> States] /\ {p} \cup D \in SUBSET Paths
  BY <1>1, <1>2
<1>4. QED
  BY <1>1, <1>2, <1>3 DEF Puts

LEMMA RestoreFileTyped ==
  ASSUME StoreTyped, RestoreFile,
         \A p \in op.todo : \E c \in Seq(Changes) : c # <<>> /\ c = Since(lease, op.id, p)
  PROVE  StoreTyped'
<1>1. /\ UNCHANGED <<lease, order, log, warn, unended, pend, journals, tx, up, active, needs>>
      /\ UNCHANGED <<maker, manual>> /\ op.pc = "files"
  BY DEF RestoreFile, disk
<1>2. PICK p \in op.todo :
        LET c   == Since(lease, op.id, p)
            new == [data |-> Desired(c).data, ino |-> ino + 1]
        IN \/ /\ file[p] = Expected(c) /\ NoFault
              /\ file' = [file EXCEPT ![p] = new] /\ ino' = ino + 1
              /\ by' = [by EXCEPT ![p] = {lease}]
              /\ op' = [op EXCEPT !.todo = @ \ {p}, !.wrote = Wrote(@, p, new)]
           \/ /\ (file[p] # Expected(c) /\ NoFault) \/ Fault
              /\ op' = [op EXCEPT !.todo = @ \ {p}, !.skipped = @ \cup {p}]
              /\ UNCHANGED <<file, ino, by>>
  BY DEF RestoreFile
<1>3. PICK c \in Seq(Changes) : c # <<>> /\ c = Since(lease, op.id, p)
  OBVIOUS
<1> DEFINE new == [data |-> Desired(c).data, ino |-> ino + 1]
<1>4. op \in Operations /\ lease \in Sessions /\ p \in Paths
  BY <1>1, HolderIs DEF Operations
<1>5. new \in States
  <2>1. Len(c) \in Nat \ {0}
    BY <1>3, EmptySeq
  <2>2. 1 \in 1..Len(c)
    BY <2>1
  <2>3. c[1] \in Changes
    BY <2>2, ElementOfSeq
  <2>4. QED
    BY <2>3 DEF Desired, Changes, States, StoreTyped, WorkspaceTyped
<1>6. \/ /\ file' = [file EXCEPT ![p] = new] /\ ino' = ino + 1 /\ by' = [by EXCEPT ![p] = {lease}]
         /\ op' = [op EXCEPT !.todo = @ \ {p}, !.wrote = Wrote(@, p, new)]
      \/ /\ op' = [op EXCEPT !.todo = @ \ {p}, !.skipped = @ \cup {p}] /\ UNCHANGED <<file, ino, by>>
  BY <1>2, <1>3
<1>7. NoFault \/ Fault
  BY <1>2
<1> HIDE DEF new
<1>8. PICK w, v : w = op.wrote /\ v = Wrote(w, p, new)
  OBVIOUS
<1>9. v \in UNION {[D -> States] : D \in SUBSET Paths}
  <2>1. w \in UNION {[D -> States] : D \in SUBSET Paths}
    BY <1>4, <1>8 DEF Operations
  <2>2. Puts(w, p, new, v)
    BY <1>4, <1>5, <1>8, <2>1, WrittenTyped
  <2>3. QED
    BY <2>2 DEF Puts
<1>10. op' \in Operations /\ op'.pc = "files" /\ op'.why = op.why
  <2>1. CASE op' = [op EXCEPT !.todo = @ \ {p}, !.wrote = Wrote(@, p, new)]
    <3>1. op' = [op EXCEPT !.todo = op.todo \ {p}, !.wrote = v]
      BY <1>8, <2>1
    <3>2. QED
      BY <1>1, <1>4, <1>9, <3>1 DEF Operations
  <2>2. CASE op' = [op EXCEPT !.todo = @ \ {p}, !.skipped = @ \cup {p}]
    BY <1>1, <1>4, <2>2 DEF Operations
  <2>3. QED
    BY <1>6, <2>1, <2>2
<1>11. BudgetTyped' /\ cut' = cut
  BY <1>7, FaultTyped
<1>12. Leased' /\ Room'
  BY <1>1, <1>10, <1>11, MovesLeased DEF OpMoves
<1>13. file' \in [Paths -> States] /\ ino' \in Nat /\ by' \in [Paths -> SUBSET Sessions]
  BY <1>4, <1>5, <1>6 DEF StoreTyped, WorkspaceTyped
<1>14. QED
  BY <1>1, <1>10, <1>11, <1>12, <1>13 DEF StoreTyped, WorkspaceTyped, DiskTyped, MemoryTyped

\* A record whose last after-state is the restored one.
LEMMA RebasedOnes ==
  ASSUME NEW c \in Seq(Changes), NEW x \in States, NEW d
  PROVE  d = Rebased(c, x) =>
           /\ d \in Seq(Changes) /\ Len(d) = Len(c) /\ DOMAIN d = DOMAIN c
           /\ \A k \in DOMAIN c : d[k].id = c[k].id /\ d[k].before = c[k].before
           /\ \A k \in DOMAIN c : d[k].after = IF k = Len(c) THEN x ELSE c[k].after
<1> SUFFICES ASSUME d = Rebased(c, x)
             PROVE  /\ d \in Seq(Changes) /\ Len(d) = Len(c) /\ DOMAIN d = DOMAIN c
                    /\ \A k \in DOMAIN c : d[k].id = c[k].id /\ d[k].before = c[k].before
                    /\ \A k \in DOMAIN c : d[k].after = IF k = Len(c) THEN x ELSE c[k].after
  OBVIOUS
<1>1. DOMAIN c = 1..Len(c) /\ Len(c) \in Nat /\ \A k \in DOMAIN c : c[k] \in Changes
  BY ChangeTypes
<1>2. CASE c = <<>>
  <2>1. d = c /\ Len(c) = 0
    BY <1>2 DEF Rebased
  <2>2. QED
    BY <1>1, <2>1
<1>3. CASE c # <<>>
  <2>1. d = [c EXCEPT ![Len(c)] = [c[Len(c)] EXCEPT !.after = x]]
    BY <1>3 DEF Rebased
  <2>2. Len(c) \in Nat \ {0}
    BY <1>3, EmptySeq
  <2>3. Len(c) \in DOMAIN c
    BY <1>1, <2>2
  <2>4. [c[Len(c)] EXCEPT !.after = x] \in Changes
    BY <1>1, <2>3 DEF Changes
  <2>5. d \in Seq(Changes) /\ Len(d) = Len(c) /\ DOMAIN d = DOMAIN c
    BY <1>1, <2>1, <2>3, <2>4
  <2>6. \A k \in DOMAIN c : d[k] = IF k = Len(c) THEN [c[k] EXCEPT !.after = x] ELSE c[k]
    BY <2>1
  <2>7. QED
    BY <1>1, <2>5, <2>6 DEF Changes
<1>4. QED
  BY <1>2, <1>3

LEMMA CommitTyped ==
  ASSUME StoreTyped, Commit, \A p \in Paths : Ascending(log[lease][p])
  PROVE  StoreTyped'
<1> DEFINE s    == lease
           kept == {p \in DOMAIN op.wrote : file[p] = op.wrote[p]}
           skip == op.skipped \cup (DOMAIN op.wrote \ kept)
           left == IF skip = {} /\ ~op.retain THEN {i \in order[s] : i < op.id} ELSE order[s]
           new(p) == IF p \in skip THEN log[s][p]
                     ELSE IF p \in kept THEN Rebased(Before(s, op.id, p), op.wrote[p])
                     ELSE Before(s, op.id, p)
           lists  == [p \in Paths |-> new(p)]
           saved  == [set |-> TRUE, order |-> left, log |-> lists, warn |-> warn[s]]
<1>1. /\ UNCHANGED <<file, ino, lease, order, log, warn, unended, pend, journals, up, active, needs>>
      /\ UNCHANGED <<maker, manual>> /\ op.pc = "files"
  BY DEF Commit
<1>2. \/ /\ NoFault /\ op' = [op EXCEPT !.pc = "apply", !.skipped = skip]
         /\ tx' = [tx EXCEPT ![s] = saved]
         /\ by' = [p \in Paths |-> IF p \in kept THEN by[p] \cup {s} ELSE by[p]]
      \/ /\ Fault /\ UNCHANGED <<tx, by>>
         /\ op' = [op EXCEPT !.pc = "close", !.skipped = skip, !.failed = TRUE]
  BY DEF Commit
<1>3. /\ s \in Sessions /\ order[s] \subseteq CheckpointIds /\ log[s] \in [Paths -> Seq(Changes)]
      /\ warn[s] \subseteq Warnings /\ op \in Operations
  BY <1>1, HolderIs
<1>4. /\ op.id \in Nat /\ DOMAIN op.wrote \subseteq Paths /\ op.skipped \subseteq Paths \cup {Unknown}
      /\ \A p \in DOMAIN op.wrote : op.wrote[p] \in States
  BY <1>3, CheckpointsAssumption DEF Operations
<1>5. skip \subseteq Paths \cup {Unknown} /\ kept \subseteq DOMAIN op.wrote
  BY <1>4
<1> HIDE DEF kept, skip
<1>6. ASSUME NEW p \in Paths PROVE new(p) \in Seq(Changes)
  <2>1. log[s][p] \in Seq(Changes) /\ Ascending(log[s][p])
    BY <1>3
  <2>2. PICK b : b = Before(s, op.id, p)
    OBVIOUS
  <2>3. b \in Seq(Changes)
    <3>1. Precedes(log[s][p], op.id, Older(log[s][p], op.id), b)
      BY <1>4, <2>1, <2>2, OlderOnes DEF Before
    <3>2. QED
      BY <3>1 DEF Precedes
  <2>4. p \in kept => Rebased(b, op.wrote[p]) \in Seq(Changes)
    BY <1>4, <1>5, <2>3, RebasedOnes
  <2>5. QED
    BY <2>1, <2>2, <2>3, <2>4
<1> HIDE DEF new
<1>7. lists \in [Paths -> Seq(Changes)] /\ left \subseteq CheckpointIds
  BY <1>3, <1>6
<1> HIDE DEF lists, left
<1>8. saved \in Transactions
  BY <1>3, <1>7 DEF Transactions
<1> HIDE DEF saved
<1>9. tx' \in [Sessions -> Transactions]
  BY <1>2, <1>8 DEF StoreTyped, DiskTyped, Transactions
<1>10. by' \in [Paths -> SUBSET Sessions]
  <2>1. by \in [Paths -> SUBSET Sessions]
    BY DEF StoreTyped, WorkspaceTyped
  <2>2. [p \in Paths |-> IF p \in kept THEN by[p] \cup {s} ELSE by[p]] \in [Paths -> SUBSET Sessions]
    BY <1>3, <2>1
  <2>3. UNCHANGED by \/ by' = [p \in Paths |-> IF p \in kept THEN by[p] \cup {s} ELSE by[p]]
    BY <1>2
  <2>4. QED
    BY <2>1, <2>2, <2>3
<1>11. op' \in Operations /\ op'.pc \notin {"idle", "plan"} /\ op'.why = op.why
  BY <1>2, <1>3, <1>5 DEF Operations
<1>12. BudgetTyped' /\ cut' = cut
  BY <1>2, FaultTyped
<1>13. Leased' /\ Room'
  BY <1>1, <1>11, <1>12, MovesLeased DEF OpMoves
<1>14. QED
  BY <1>1, <1>9, <1>10, <1>11, <1>12, <1>13
     DEF StoreTyped, WorkspaceTyped, DiskTyped, MemoryTyped, Transactions

LEMMA ApplyTyped ==
  ASSUME StoreTyped, Apply
  PROVE  StoreTyped'
<1> DEFINE s == lease
<1>1. /\ UNCHANGED <<file, ino, lease, unended, pend, journals, up, active, needs, by, maker, manual>>
      /\ op.pc = "apply"
  BY DEF Apply, ghost
<1>2. \/ /\ NoFault /\ op' = [op EXCEPT !.pc = "close"]
         /\ order' = [order EXCEPT ![s] = tx[s].order]
         /\ log' = [log EXCEPT ![s] = tx[s].log] /\ warn' = [warn EXCEPT ![s] = tx[s].warn]
         /\ tx' = [tx EXCEPT ![s] = NoTx]
      \/ /\ Fault /\ op' = [op EXCEPT !.pc = "close", !.failed = TRUE]
         /\ UNCHANGED <<order, log, warn, tx>>
  BY DEF Apply
<1>3. s \in Sessions /\ tx[s] \in Transactions /\ op \in Operations
  BY <1>1, HolderIs
<1>4. order' \in [Sessions -> SUBSET CheckpointIds] /\ warn' \in [Sessions -> SUBSET Warnings]
  BY <1>2, <1>3 DEF StoreTyped, DiskTyped, Transactions
<1>5. log' \in [Sessions -> [Paths -> Seq(Changes)]]
  BY <1>2, <1>3 DEF StoreTyped, DiskTyped, Transactions
<1>6. tx' \in [Sessions -> Transactions]
  BY <1>2, <1>3, EmptyTyped DEF StoreTyped, DiskTyped, Transactions
<1>7. op' \in Operations /\ op'.pc \notin {"idle", "plan"} /\ op'.why = op.why
  BY <1>2, <1>3 DEF Operations
<1>8. BudgetTyped' /\ cut' = cut
  BY <1>2, FaultTyped
<1>9. Leased' /\ Room'
  BY <1>1, <1>7, <1>8, MovesLeased DEF OpMoves
<1>10. QED
  BY <1>1, <1>4, <1>5, <1>6, <1>7, <1>8, <1>9
     DEF StoreTyped, WorkspaceTyped, DiskTyped, MemoryTyped, Transactions

LEMMA CloseTyped ==
  ASSUME StoreTyped, Close
  PROVE  StoreTyped'
<1> DEFINE s    == lease
           mine == [id |-> op.id, retain |-> op.retain, phase |-> "open"]
           hint == [mine EXCEPT !.phase = "required"]
           met  == {j \in journals[s] : j.id = op.id /\ j.phase = "required"}
           less == {mine} \cup IF Clean /\ ~op.recovering THEN met ELSE {}
           more == IF Asks THEN {hint} ELSE {}
           next == [NoOperation EXCEPT !.pc = "recover", !.why = op.why,
                                       !.target = op.target, !.keep = op.keep]
<1>1. /\ UNCHANGED <<file, ino, order, log, warn, unended, pend, tx, up, active, by, maker, manual>>
      /\ op.pc = "close"
  BY DEF Close, ghost
<1>2. /\ \/ UNCHANGED journals
         \/ op.id # 0 /\ journals' = [journals EXCEPT ![s] = (@ \ less) \cup more]
      /\ \/ UNCHANGED needs
         \/ op.id # 0 /\ needs' = [needs EXCEPT ![s] = @ \cup {op.id}]
         \/ needs' = [needs EXCEPT ![s] = @ \ {op.id}]
      /\ \/ op' = next /\ UNCHANGED lease
         \/ Release
      /\ NoFault \/ Fault
  <2>1. CASE op.id = 0 /\ Release /\ UNCHANGED <<journals, needs>> /\ NoFault
    BY <2>1
  <2>2. CASE /\ op.id # 0 /\ NoFault
             /\ journals' = [journals EXCEPT ![s] = (@ \ less) \cup more]
             /\ needs' = [needs EXCEPT ![s] =
                    IF Asks THEN @ \cup {op.id} ELSE IF op.recovering \/ ~Clean THEN @ ELSE @ \ {op.id}]
             /\ IF op.recovering THEN op' = next /\ UNCHANGED lease ELSE Release
    <3>1. \/ UNCHANGED needs
          \/ needs' = [needs EXCEPT ![s] = @ \cup {op.id}]
          \/ needs' = [needs EXCEPT ![s] = @ \ {op.id}]
      <4>1. needs = [needs EXCEPT ![s] = @]
        BY DEF StoreTyped, MemoryTyped
      <4>2. CASE Asks
        BY <2>2, <4>2
      <4>3. CASE ~Asks /\ (op.recovering \/ ~Clean)
        BY <2>2, <4>1, <4>3
      <4>4. CASE ~Asks /\ ~(op.recovering \/ ~Clean)
        BY <2>2, <4>4
      <4>5. QED
        BY <4>2, <4>3, <4>4
    <3>2. QED
      BY <2>2, <3>1
  <2>3. CASE /\ op.id # 0 /\ Fault /\ Release /\ UNCHANGED journals
             /\ needs' = [needs EXCEPT ![s] = IF Asks THEN @ \cup {op.id} ELSE @]
    <3>1. needs = [needs EXCEPT ![s] = @]
      BY DEF StoreTyped, MemoryTyped
    <3>2. QED
      BY <2>3, <3>1
  <2>4. QED
    BY <2>1, <2>2, <2>3 DEF Close
<1>3. s \in Sessions /\ op \in Operations /\ journals[s] \subseteq Journals /\ needs[s] \subseteq CheckpointIds
  BY <1>1, HolderIs DEF StoreTyped, MemoryTyped
<1>4. op.id # 0 => op.id \in CheckpointIds
  BY <1>3, CheckpointsAssumption DEF Operations, CheckpointIds
<1>5. op.id # 0 => more \subseteq Journals
  BY <1>3, <1>4 DEF Operations, Journals
<1> HIDE DEF less, more
<1>6. journals' \in [Sessions -> SUBSET Journals]
  <2>1. journals \in [Sessions -> SUBSET Journals]
    BY DEF StoreTyped, DiskTyped
  <2>2. QED
    BY <1>2, <1>3, <1>5, <2>1
<1>7. needs' \in [Sessions -> SUBSET CheckpointIds]
  <2>1. needs \in [Sessions -> SUBSET CheckpointIds]
    BY DEF StoreTyped, MemoryTyped
  <2>2. QED
    BY <1>2, <1>3, <1>4, <2>1
<1>8. next \in Operations /\ next.pc = "recover" /\ next.why = op.why
  BY <1>3, EmptyTyped DEF Operations, NoOperation
<1> HIDE DEF next
<1>9. op' \in Operations
  BY <1>2, <1>8, EmptyTyped DEF Release
<1>10. BudgetTyped' /\ cut' = cut
  BY <1>2, FaultTyped
<1>11. Leased' /\ Room' /\ lease' \in Sessions \cup {Nobody}
  <2>1. OpMoves \/ Ends
    BY <1>1, <1>2, <1>8 DEF OpMoves, Ends
  <2>2. QED
    BY <1>1, <1>10, <2>1, MovesLeased
<1>12. QED
  BY <1>1, <1>6, <1>7, <1>9, <1>10, <1>11 DEF StoreTyped, WorkspaceTyped, DiskTyped, MemoryTyped

LEMMA ProcessEndsTyped ==
  ASSUME StoreTyped, NEW s \in Sessions, ProcessEnds(s)
  PROVE  StoreTyped'
<1>1. /\ UNCHANGED <<file, ino, order, log, warn, unended, pend, journals, tx, by, maker, manual>>
      /\ Fault /\ up' = [up EXCEPT ![s] = FALSE] /\ active' = [active EXCEPT ![s] = 0]
      /\ needs' = [needs EXCEPT ![s] = {}]
      /\ IF lease = s THEN op' = NoOperation /\ lease' = Nobody ELSE UNCHANGED <<op, lease>>
  BY DEF ProcessEnds, disk, ghost
<1>2. BudgetTyped' /\ cut' = cut
  BY <1>1, FaultTyped
<1>3. up' \in [Sessions -> BOOLEAN] /\ needs' \in [Sessions -> SUBSET CheckpointIds]
  BY <1>1 DEF StoreTyped, MemoryTyped
<1>4. active' \in [Sessions -> 0..MaxCut]
  BY <1>1, CheckpointsAssumption DEF StoreTyped, MemoryTyped
<1>5. op' \in Operations /\ lease' \in Sessions \cup {Nobody}
  BY <1>1, EmptyTyped DEF StoreTyped, WorkspaceTyped, MemoryTyped
<1>6. Leased' /\ Room'
  <2>1. CASE lease = s
    <3>1. op' = NoOperation /\ lease' = Nobody /\ \A t \in Sessions : active'[t] = 0
      BY <1>1, <2>1 DEF StoreTyped, MemoryTyped, Leased
    <3>2. QED
      BY <3>1, CheckpointsAssumption DEF Leased, Room, NoOperation
  <2>2. CASE lease # s
    <3>1. op' = op /\ lease' = lease /\ active[s] = 0
      BY <1>1, <2>2 DEF StoreTyped, Leased
    <3>2. \A t \in Sessions : active'[t] = active[t] /\ (t # s => up'[t] = up[t])
      BY <1>1, <3>1 DEF StoreTyped, MemoryTyped
    <3>3. QED
      BY <1>2, <2>2, <3>1, <3>2 DEF StoreTyped, Leased, Room
  <2>3. QED
    BY <2>1, <2>2
<1>7. QED
  BY <1>1, <1>2, <1>3, <1>4, <1>5, <1>6 DEF StoreTyped, WorkspaceTyped, DiskTyped, MemoryTyped

-----------------------------------------------------------------------------
(* Who may do what, and what a restore has planned.                         *)

\* A list of checkpoints, the changes recorded under them and the warnings.
Listed(o, l, w) ==
  /\ \A p \in Paths : Ascending(l[p]) /\ \A k \in DOMAIN l[p] : l[p][k].id \in o
  /\ \A x \in w : x.id \in o
Lists(s) ==
  /\ order[s] \subseteq 1..cut
  /\ Listed(order[s], log[s], warn[s])
  /\ tx[s].set = TRUE => Listed(tx[s].order, tx[s].log, tx[s].warn) /\ tx[s].order \subseteq order[s]
InTurn(s) ==
  active[s] # 0 =>
    active[s] = cut /\ active[s] \in order[s] /\ journals[s] = {} /\ tx[s].set = FALSE
Required(s) ==
  lease = s =>
    /\ \A j \in journals[s] : j.phase = "required" => j.id \in needs[s]
    /\ tx[s].set = TRUE /\ op.pc \in {"recover", "plan", "files"} => needs[s] # {}
Stages ==
  /\ op.pc = "recover" => op.id = 0 /\ op.failed = FALSE
  /\ op.pc \in {"plan", "files", "apply"} => op.failed = FALSE
  /\ op.pc \in {"plan", "files"} => op.id \in order[lease]
  /\ op.pc = "apply" => tx[lease].set = TRUE
  /\ op.pc = "close" /\ op.id # 0 /\ tx[lease].set = TRUE => op.failed = TRUE
\* The changes of a path from a checkpoint on begin at k, fit together, and carry no warning.
Warned(w, p, id) == \E x \in w : id <= x.id /\ x.path \in {p, Unknown}
SoundFrom(l, w, p, id, k) == StartsAt(l[p], id, k) /\ Joined(l[p], k) /\ ~Warned(w, p, id)
PlanSound ==
  op.pc = "files" =>
    LET l == log[lease]
        w == warn[lease]
    IN /\ \A x \in w : op.id <= x.id => x.path \in op.skipped
       /\ \A p \in Paths : \A k \in DOMAIN l[p] :
            op.id <= l[p][k].id => p \in op.todo \cup DOMAIN op.wrote \cup op.skipped
       /\ \A p \in op.todo : \E k \in DOMAIN l[p] : SoundFrom(l, w, p, op.id, k)
       /\ \A p \in DOMAIN op.wrote :
            \E k \in DOMAIN l[p] : SoundFrom(l, w, p, op.id, k) /\ op.wrote[p].data = l[p][k].before.data
Ordered ==
  Stages /\ PlanSound /\ \A s \in Sessions : Lists(s) /\ InTurn(s) /\ Required(s)

\* A step of one session leaves what the others have on their disks.
OnlyOf(s) ==
  \A t \in Sessions \ {s} :
    /\ order'[t] = order[t] /\ log'[t] = log[t] /\ warn'[t] = warn[t] /\ unended'[t] = unended[t]
    /\ pend'[t] = pend[t] /\ journals'[t] = journals[t] /\ tx'[t] = tx[t]

LEMMA OthersOrdered ==
  ASSUME StoreTyped, Ordered, NEW s \in Sessions, OnlyOf(s), cut' \in {cut, cut + 1},
         lease \in {s, Nobody}, lease' \in {s, Nobody}, NEW t \in Sessions \ {s},
         active'[t] = active[t]
  PROVE  Lists(t)' /\ InTurn(t)' /\ Required(t)'
<1>1. /\ order'[t] = order[t] /\ log'[t] = log[t] /\ warn'[t] = warn[t] /\ tx'[t] = tx[t]
      /\ lease # t /\ lease' # t
  BY CheckpointsAssumption DEF OnlyOf
<1>2. active'[t] = 0
  BY <1>1 DEF StoreTyped, Leased
<1>3. cut \in Nat /\ cut' \in Nat /\ cut <= cut'
  BY DEF StoreTyped, BudgetTyped
<1>4. Lists(t)
  BY DEF Ordered
<1>5. Lists(t)'
  <2>1. order'[t] \subseteq 1..cut'
    BY <1>1, <1>3, <1>4 DEF Lists
  <2>2. QED
    BY <1>1, <1>4, <2>1 DEF Lists
<1>6. QED
  BY <1>1, <1>2, <1>5 DEF InTurn, Required

\* A step that leaves the index, the manifests, the journals and the operation alone.
LEMMA QuietOrdered ==
  ASSUME StoreTyped, Ordered, UNCHANGED <<lease, op, order, log, warn, journals, tx, cut>>,
         \A t \in Sessions : active'[t] \in {0, active[t]},
         lease \in Sessions => needs'[lease] = needs[lease]
  PROVE  Ordered'
<1>1. Stages' /\ PlanSound'
  BY DEF Ordered, Stages, PlanSound
<1>2. ASSUME NEW t \in Sessions PROVE Lists(t)' /\ InTurn(t)' /\ Required(t)'
  <2>1. Lists(t) /\ InTurn(t) /\ Required(t)
    BY DEF Ordered
  <2>2. Lists(t)'
    BY <2>1 DEF Lists
  <2>3. InTurn(t)'
    BY <2>1 DEF InTurn
  <2>4. Required(t)'
    BY <2>1 DEF Required
  <2>5. QED
    BY <2>2, <2>3, <2>4
<1>3. QED
  BY <1>1, <1>2 DEF Ordered

\* No operation is under way.
LEMMA IdleOrdered ==
  ASSUME op' = NoOperation
  PROVE  Stages' /\ PlanSound'
BY DEF NoOperation, Stages, PlanSound

\* During a turn.
LEMMA TurnHolds ==
  ASSUME StoreTyped, Ordered, NEW s \in Sessions, active[s] # 0
  PROVE  /\ lease = s /\ op = NoOperation /\ active[s] = cut /\ active[s] \in order[s]
         /\ journals[s] = {} /\ tx[s].set = FALSE /\ cut \in CheckpointIds /\ up[s] = TRUE
<1>1. lease = s /\ op = NoOperation /\ up[s] = TRUE
  BY DEF StoreTyped, Leased
<1>2. active[s] = cut /\ active[s] \in order[s] /\ journals[s] = {} /\ tx[s].set = FALSE
  BY DEF Ordered, InTurn
<1>3. QED
  BY <1>1, <1>2 DEF StoreTyped, DiskTyped

LEMMA MoreWarned ==
  ASSUME NEW o, NEW l, NEW w, NEW v, Listed(o, l, w), \A x \in v : x \in w \/ x.id \in o
  PROVE  Listed(o, l, v)
BY DEF Listed

LEMMA PreOrdered ==
  ASSUME StoreTyped, Ordered, NEW s \in Sessions, Pre(s)
  PROVE  Ordered'
<1>1. /\ active[s] # 0
      /\ UNCHANGED <<lease, order, log, unended, journals, tx, up, active, needs, op>>
      /\ UNCHANGED cut
  BY DEF Pre, memory, Fault, NoFault, budget
<1>2. /\ lease = s /\ op = NoOperation /\ active[s] = cut /\ active[s] \in order[s]
      /\ journals[s] = {} /\ tx[s].set = FALSE
  BY <1>1, TurnHolds
<1>3. /\ warn \in [Sessions -> SUBSET Warnings] /\ pend \in [Sessions -> SUBSET OpenCalls]
  BY DEF StoreTyped, DiskTyped
<1>4. \/ UNCHANGED warn
      \/ warn' = [warn EXCEPT ![s] = @ \cup {[id |-> active[s], path |-> Unknown]}]
  BY DEF Pre
<1>5. \/ UNCHANGED pend
      \/ \E p \in Paths : pend' = [pend EXCEPT ![s] =
                            @ \cup {[id |-> active[s], path |-> p, before |-> file[p]]}]
  BY DEF Pre
<1>6. OnlyOf(s)
  BY <1>1, <1>3, <1>4, <1>5 DEF OnlyOf
<1>7. \A x \in warn'[s] : x \in warn[s] \/ x.id \in order[s]
  BY <1>2, <1>3, <1>4
<1>8. Lists(s) /\ InTurn(s) /\ Required(s)
  BY DEF Ordered
<1>9. Lists(s)'
  <2>1. Listed(order[s], log[s], warn'[s])
    BY <1>7, <1>8, MoreWarned DEF Lists
  <2>2. QED
    BY <1>1, <1>2, <1>8, <2>1 DEF Lists
<1>10. InTurn(s)' /\ Required(s)'
  BY <1>1, <1>2, <1>8 DEF InTurn, Required
<1>11. Stages' /\ PlanSound'
  BY <1>1, <1>2, IdleOrdered
<1>12. ASSUME NEW t \in Sessions \ {s} PROVE Lists(t)' /\ InTurn(t)' /\ Required(t)'
  BY <1>1, <1>2, <1>6, OthersOrdered
<1>13. QED
  BY <1>9, <1>10, <1>11, <1>12 DEF Ordered

LEMMA ToolWritesOrdered ==
  ASSUME StoreTyped, Ordered, NEW s \in Sessions, ToolWrites(s)
  PROVE  Ordered'
<1>1. UNCHANGED <<lease, op, order, log, warn, journals, tx, cut, active, needs>>
  BY DEF ToolWrites, disk, memory
<1>2. QED
  BY <1>1, QuietOrdered

LEMMA ManualOrdered ==
  ASSUME StoreTyped, Ordered, Manual
  PROVE  Ordered'
<1>1. UNCHANGED <<lease, op, order, log, warn, journals, tx, cut, active, needs>>
  BY DEF Manual, disk, memory
<1>2. QED
  BY <1>1, QuietOrdered

\* A change recorded last.
Prolongs(m, l, c) ==
  /\ m \in Seq(Changes) /\ Len(m) = Len(l) + 1 /\ DOMAIN m = 1..(Len(l) + 1)
  /\ (\A k \in DOMAIN l : m[k] = l[k]) /\ m[Len(l) + 1] = c /\ Ascending(m)
LEMMA Longer ==
  ASSUME NEW l \in Seq(Changes), NEW c \in Changes, NEW m
  PROVE  /\ m = Append(l, c) /\ Ascending(l) /\ \A k \in DOMAIN l : l[k].id <= c.id
         => Prolongs(m, l, c)
<1> SUFFICES ASSUME m = Append(l, c), Ascending(l), \A k \in DOMAIN l : l[k].id <= c.id
             PROVE  Prolongs(m, l, c)
  OBVIOUS
<1>1. DOMAIN l = 1..Len(l) /\ Len(l) \in Nat /\ \A k \in DOMAIN l : l[k] \in Changes /\ l[k].id \in Nat
  BY ChangeTypes
<1>2. /\ m \in Seq(Changes) /\ Len(m) = Len(l) + 1 /\ DOMAIN m = 1..(Len(l) + 1)
      /\ \A k \in 1..Len(l) : m[k] = l[k]
      /\ m[Len(l) + 1] = c
  BY <1>1
<1>3. Ascending(m)
  <2>1. ASSUME NEW i \in DOMAIN m, NEW k \in DOMAIN m, i <= k PROVE m[i].id <= m[k].id
    <3>1. CASE k = Len(l) + 1 /\ i = k
      BY <1>2, <3>1, CheckpointsAssumption DEF Changes, CheckpointIds
    <3>2. CASE k = Len(l) + 1 /\ i # k
      BY <1>1, <1>2, <2>1, <3>2
    <3>3. CASE k # Len(l) + 1
      <4>1. i \in DOMAIN l /\ k \in DOMAIN l
        BY <1>1, <1>2, <2>1, <3>3
      <4>2. QED
        BY <1>1, <1>2, <2>1, <4>1 DEF Ascending
    <3>4. QED
      BY <3>1, <3>2, <3>3
  <2>2. QED
    BY <2>1 DEF Ascending
<1>4. QED
  BY <1>1, <1>2, <1>3 DEF Prolongs

LEMMA PostOrdered ==
  ASSUME StoreTyped, Ordered, NEW s \in Sessions, Post(s)
  PROVE  Ordered'
<1>1. /\ active[s] # 0
      /\ UNCHANGED <<lease, order, unended, journals, tx, up, active, needs, op>>
      /\ UNCHANGED cut
  BY DEF Post, memory, Fault, NoFault, budget
<1>2. /\ lease = s /\ op = NoOperation /\ active[s] = cut /\ active[s] \in order[s]
      /\ journals[s] = {} /\ tx[s].set = FALSE /\ cut \in CheckpointIds
  BY <1>1, TurnHolds
<1>3. PICK r \in pend[s] :
        /\ r.id = active[s]
        /\ \/ pend' = [pend EXCEPT ![s] = @ \ {r}] /\ UNCHANGED warn
           \/ UNCHANGED <<pend, log>>
              /\ warn' = [warn EXCEPT ![s] = @ \cup {[id |-> r.id, path |-> Unknown]}]
        /\ \/ log' = [log EXCEPT ![s][r.path] =
                  Append(@, [id |-> r.id, before |-> r.before, after |-> file[r.path]])]
           \/ UNCHANGED log
  BY DEF Post
<1>4. /\ warn \in [Sessions -> SUBSET Warnings] /\ pend \in [Sessions -> SUBSET OpenCalls]
      /\ log \in [Sessions -> [Paths -> Seq(Changes)]]
  BY DEF StoreTyped, DiskTyped
<1>5. r.id = cut /\ r.path \in Paths /\ r.before \in States
  BY <1>2, <1>3, <1>4 DEF OpenCalls
<1>6. OnlyOf(s)
  BY <1>1, <1>3, <1>4 DEF OnlyOf
<1>7. Lists(s) /\ InTurn(s) /\ Required(s)
  BY DEF Ordered
<1>8. \A x \in warn'[s] : x \in warn[s] \/ x.id \in order[s]
  BY <1>2, <1>3, <1>4
<1>9. ASSUME NEW p \in Paths
      PROVE  Ascending(log'[s][p]) /\ \A k \in DOMAIN log'[s][p] : log'[s][p][k].id \in order[s]
  <2>1. log[s][p] \in Seq(Changes) /\ Ascending(log[s][p])
        /\ \A k \in DOMAIN log[s][p] : log[s][p][k].id \in order[s]
    BY <1>4, <1>7 DEF Lists, Listed
  <2>2. CASE log'[s][p] = log[s][p]
    BY <2>1, <2>2
  <2>3. CASE log'[s][p] # log[s][p]
    <3> DEFINE c == [id |-> r.id, before |-> r.before, after |-> file[r.path]]
    <3>1. log'[s][p] = Append(log[s][p], c)
      BY <1>3, <1>4, <2>3
    <3>2. c \in Changes /\ c.id = cut
      BY <1>2, <1>5 DEF Changes, StoreTyped, WorkspaceTyped
    <3>3. \A k \in DOMAIN log[s][p] : log[s][p][k].id <= cut
      BY <1>7, <2>1 DEF Lists
    <3> HIDE DEF c
    <3>4. PICK l, m : l = log[s][p] /\ m = log'[s][p]
      OBVIOUS
    <3>5. l \in Seq(Changes) /\ Ascending(l) /\ (\A k \in DOMAIN l : l[k].id <= c.id) /\ m = Append(l, c)
      BY <2>1, <3>1, <3>2, <3>3, <3>4
    <3>6. /\ Ascending(m) /\ DOMAIN m = 1..(Len(l) + 1)
          /\ (\A k \in DOMAIN l : m[k] = l[k]) /\ m[Len(l) + 1] = c
      <4>1. Prolongs(m, l, c)
        BY <3>2, <3>5, Longer
      <4>2. QED
        BY <4>1 DEF Prolongs
    <3>7. Len(l) \in Nat /\ DOMAIN l = 1..Len(l)
      BY <3>5
    <3>8. \A k \in DOMAIN m : m[k].id \in order[s]
      BY <1>2, <2>1, <3>2, <3>4, <3>6, <3>7
    <3>9. QED
      BY <3>4, <3>6, <3>8
  <2>4. QED
    BY <2>2, <2>3
<1>10. Lists(s)'
  <2>1. Listed(order[s], log'[s], warn'[s])
    BY <1>7, <1>8, <1>9 DEF Lists, Listed
  <2>2. QED
    BY <1>1, <1>2, <1>7, <2>1 DEF Lists
<1>11. InTurn(s)' /\ Required(s)'
  BY <1>1, <1>2, <1>7 DEF InTurn, Required
<1>12. Stages' /\ PlanSound'
  BY <1>1, <1>2, IdleOrdered
<1>13. ASSUME NEW t \in Sessions \ {s} PROVE Lists(t)' /\ InTurn(t)' /\ Required(t)'
  BY <1>1, <1>2, <1>6, OthersOrdered
<1>14. QED
  BY <1>10, <1>11, <1>12, <1>13 DEF Ordered

\* The warnings of calls that never ended are about listed checkpoints.
LEMMA EndCallsOrdered ==
  ASSUME StoreTyped, NEW s \in Sessions, NEW ids \in SUBSET order[s], EndCalls(s, ids),
         Listed(order[s], log[s], warn[s])
  PROVE  /\ Listed(order[s], log[s], warn'[s]) /\ warn[s] \subseteq warn'[s]
         /\ \A t \in Sessions \ {s} :
              warn'[t] = warn[t] /\ unended'[t] = unended[t] /\ pend'[t] = pend[t]
<1> DEFINE calls == {r \in pend[s] : r.id \in ids \cap unended[s]}
           late  == {[id |-> r.id, path |-> r.path] : r \in calls}
<1>1. /\ unended' = [unended EXCEPT ![s] = @ \ ids] /\ pend' = [pend EXCEPT ![s] = @ \ calls]
      /\ warn' = [warn EXCEPT ![s] = @ \cup late]
  BY DEF EndCalls
<1>2. \A x \in late : x.id \in order[s]
  OBVIOUS
<1>3. /\ warn \in [Sessions -> SUBSET Warnings] /\ pend \in [Sessions -> SUBSET OpenCalls]
      /\ unended \in [Sessions -> SUBSET CheckpointIds]
  BY DEF StoreTyped, DiskTyped
<1> HIDE DEF calls, late
<1>4. warn'[s] = warn[s] \cup late
  BY <1>1, <1>3
<1>5. Listed(order[s], log[s], warn'[s])
  BY <1>2, <1>4, MoreWarned
<1>6. QED
  BY <1>1, <1>3, <1>4, <1>5

LEMMA FinishOrdered ==
  ASSUME StoreTyped, Ordered, NEW s \in Sessions, Finish(s)
  PROVE  Ordered'
<1>1. /\ active[s] # 0 /\ active' = [active EXCEPT ![s] = 0] /\ lease' = Nobody
      /\ UNCHANGED <<order, log, journals, tx, needs, op>> /\ UNCHANGED cut
  BY DEF Finish, Fault, NoFault, budget
<1>2. lease = s /\ op = NoOperation /\ active[s] \in order[s] /\ tx[s].set = FALSE
  BY <1>1, TurnHolds
<1>3. Lists(s) /\ InTurn(s) /\ Required(s)
  BY DEF Ordered
<1>4. /\ Listed(order[s], log[s], warn'[s])
      /\ \A t \in Sessions \ {s} :
              warn'[t] = warn[t] /\ unended'[t] = unended[t] /\ pend'[t] = pend[t]
  <2>1. CASE EndCalls(s, {active[s]})
    BY <1>2, <1>3, <2>1, EndCallsOrdered DEF Lists
  <2>2. CASE UNCHANGED <<unended, warn, pend>>
    BY <1>3, <2>2 DEF Lists
  <2>3. QED
    BY <2>1, <2>2 DEF Finish
<1>5. OnlyOf(s)
  BY <1>1, <1>4 DEF OnlyOf
<1>6. active \in [Sessions -> 0..MaxCut]
  BY DEF StoreTyped, MemoryTyped
<1>7. Lists(s)'
  BY <1>1, <1>2, <1>3, <1>4 DEF Lists
<1>8. InTurn(s)' /\ Required(s)'
  BY <1>1, <1>6, CheckpointsAssumption DEF InTurn, Required
<1>9. Stages' /\ PlanSound'
  BY <1>1, <1>2, IdleOrdered
<1>10. ASSUME NEW t \in Sessions \ {s} PROVE Lists(t)' /\ InTurn(t)' /\ Required(t)'
  BY <1>1, <1>2, <1>5, <1>6, OthersOrdered
<1>11. QED
  BY <1>7, <1>8, <1>9, <1>10 DEF Ordered

LEMMA ProcessEndsOrdered ==
  ASSUME StoreTyped, Ordered, NEW s \in Sessions, ProcessEnds(s)
  PROVE  Ordered'
<1>1. /\ UNCHANGED <<order, log, warn, unended, pend, journals, tx>> /\ UNCHANGED cut
      /\ active' = [active EXCEPT ![s] = 0] /\ needs' = [needs EXCEPT ![s] = {}]
      /\ IF lease = s THEN op' = NoOperation /\ lease' = Nobody ELSE UNCHANGED <<op, lease>>
  BY DEF ProcessEnds, disk, Fault
<1>2. active \in [Sessions -> 0..MaxCut] /\ needs \in [Sessions -> SUBSET CheckpointIds]
  BY DEF StoreTyped, MemoryTyped
<1>3. CASE lease # s
  <2>1. UNCHANGED <<lease, op>>
    BY <1>1, <1>3
  <2>2. (\A t \in Sessions : active'[t] \in {0, active[t]}) /\ (lease \in Sessions => needs'[lease] = needs[lease])
    BY <1>1, <1>2, <1>3
  <2>3. QED
    BY <1>1, <2>1, <2>2, QuietOrdered
<1>4. CASE lease = s
  <2>1. op' = NoOperation /\ lease' = Nobody
    BY <1>1, <1>4
  <2>2. Stages' /\ PlanSound'
    BY <2>1, IdleOrdered
  <2>3. ASSUME NEW t \in Sessions PROVE Lists(t)' /\ InTurn(t)' /\ Required(t)'
    <3>1. Lists(t) /\ InTurn(t)
      BY DEF Ordered
    <3>2. Lists(t)'
      BY <1>1, <3>1 DEF Lists
    <3>3. active'[t] \in {0, active[t]}
      BY <1>1, <1>2
    <3>4. InTurn(t)' /\ Required(t)'
      BY <1>1, <2>1, <3>1, <3>3, CheckpointsAssumption DEF InTurn, Required
    <3>5. QED
      BY <3>2, <3>4
  <2>4. QED
    BY <2>2, <2>3 DEF Ordered
<1>5. QED
  BY <1>3, <1>4

\* Taking the lease: a transaction that was left over is applied, and the journals that ask
\* for recovery are remembered.
LEMMA AcquireOrdered ==
  ASSUME StoreTyped, Ordered, NEW s \in Sessions, NEW request, request \in Operations,
         request.pc = "recover", request.id = 0, request.failed = FALSE,
         Acquire(s, request), UNCHANGED <<unended, pend, active, cut>>
  PROVE  Ordered'
<1> DEFINE now    == IF tx[s].set THEN tx[s].order ELSE order[s]
           asking == {j \in journals[s] : j.phase = "required"}
           moot   == {j \in asking : j.id \notin now}
<1>1. /\ lease = Nobody /\ lease' = s /\ op' = request
      /\ order' = [order EXCEPT ![s] = now]
      /\ log' = [log EXCEPT ![s] = IF tx[s].set THEN tx[s].log ELSE @]
      /\ warn' = [warn EXCEPT ![s] = IF tx[s].set THEN tx[s].warn ELSE @]
      /\ tx' = [tx EXCEPT ![s] = NoTx]
      /\ journals' = [journals EXCEPT ![s] = @ \ moot]
      /\ needs' = [needs EXCEPT ![s] = (@ \ {j.id : j \in moot}) \cup {j.id : j \in asking \ moot}]
  BY DEF Acquire
<1>2. /\ tx \in [Sessions -> Transactions] /\ order \in [Sessions -> SUBSET CheckpointIds]
      /\ log \in [Sessions -> [Paths -> Seq(Changes)]] /\ warn \in [Sessions -> SUBSET Warnings]
      /\ journals \in [Sessions -> SUBSET Journals]
      /\ needs \in [Sessions -> SUBSET CheckpointIds]
  BY DEF StoreTyped, DiskTyped, MemoryTyped, Transactions
<1>3. OnlyOf(s)
  BY <1>1, <1>2 DEF OnlyOf
<1>4. Lists(s)
  BY DEF Ordered
<1>5. \/ tx[s].set = TRUE /\ order'[s] = tx[s].order /\ log'[s] = tx[s].log /\ warn'[s] = tx[s].warn
      \/ tx[s].set = FALSE /\ order'[s] = order[s] /\ log'[s] = log[s] /\ warn'[s] = warn[s]
  <2>1. tx[s].set \in BOOLEAN
    BY <1>2 DEF Transactions
  <2>2. CASE tx[s].set = TRUE
    BY <1>1, <1>2, <2>2
  <2>3. CASE tx[s].set = FALSE
    BY <1>1, <1>2, <2>3
  <2>4. QED
    BY <2>1, <2>2, <2>3
<1>6. tx'[s].set = FALSE
  BY <1>1, <1>2 DEF NoTx
<1>7. Lists(s)'
  <2>1. order'[s] \subseteq 1..cut /\ Listed(order'[s], log'[s], warn'[s])
    BY <1>4, <1>5 DEF Lists
  <2>2. QED
    BY <1>6, <2>1 DEF Lists
<1>8. active'[s] = 0
  BY <1>1, CheckpointsAssumption DEF StoreTyped, Leased
<1>9. \A j \in journals'[s] : j.phase = "required" => j.id \in needs'[s]
  BY <1>1, <1>2
<1>10. InTurn(s)' /\ Required(s)'
  BY <1>6, <1>8, <1>9 DEF InTurn, Required
<1>11. Stages' /\ PlanSound'
  BY <1>1 DEF Stages, PlanSound
<1>12. ASSUME NEW t \in Sessions \ {s} PROVE Lists(t)' /\ InTurn(t)' /\ Required(t)'
  BY <1>1, <1>3, OthersOrdered
<1>13. QED
  BY <1>7, <1>10, <1>11, <1>12 DEF Ordered

LEMMA AskBeginOrdered ==
  ASSUME StoreTyped, Ordered, NEW s \in Sessions, AskBegin(s)
  PROVE  Ordered'
<1> DEFINE request == [NoOperation EXCEPT !.pc = "recover", !.why = "begin"]
<1>1. UNCHANGED <<unended, pend, active, cut>> /\ Acquire(s, request)
  BY DEF AskBegin, budget
<1>2. request \in Operations /\ request.pc = "recover" /\ request.id = 0 /\ request.failed = FALSE
  BY EmptyTyped DEF Operations, NoOperation
<1> HIDE DEF request
<1>3. QED
  BY <1>1, <1>2, AcquireOrdered

LEMMA AskRestoreOrdered ==
  ASSUME StoreTyped, Ordered, NEW s \in Sessions, AskRestore(s)
  PROVE  Ordered'
<1>1. PICK id \in order[s], keep \in BOOLEAN :
        Acquire(s, [NoOperation EXCEPT !.pc = "recover", !.why = "restore",
                                       !.target = id, !.keep = keep])
  BY DEF AskRestore
<1> DEFINE request == [NoOperation EXCEPT !.pc = "recover", !.why = "restore",
                                          !.target = id, !.keep = keep]
<1>2. id \in 0..MaxCut
  BY CheckpointsAssumption DEF StoreTyped, DiskTyped, CheckpointIds
<1>3. request \in Operations /\ request.pc = "recover" /\ request.id = 0 /\ request.failed = FALSE
  BY <1>2, EmptyTyped DEF Operations, NoOperation
<1>4. UNCHANGED <<unended, pend, active, cut>> /\ Acquire(s, request)
  BY <1>1 DEF AskRestore
<1> HIDE DEF request
<1>5. QED
  BY <1>3, <1>4, AcquireOrdered

LEMMA AskCompactOrdered ==
  ASSUME StoreTyped, Ordered, NEW s \in Sessions, AskCompact(s)
  PROVE  Ordered'
<1>1. PICK id \in order[s] :
        Acquire(s, [NoOperation EXCEPT !.pc = "recover", !.why = "compact", !.target = id])
  BY DEF AskCompact
<1> DEFINE request == [NoOperation EXCEPT !.pc = "recover", !.why = "compact", !.target = id]
<1>2. id \in 0..MaxCut
  BY CheckpointsAssumption DEF StoreTyped, DiskTyped, CheckpointIds
<1>3. request \in Operations /\ request.pc = "recover" /\ request.id = 0 /\ request.failed = FALSE
  BY <1>2, EmptyTyped DEF Operations, NoOperation
<1>4. UNCHANGED <<unended, pend, active, cut>> /\ Acquire(s, request)
  BY <1>1 DEF AskCompact
<1> HIDE DEF request
<1>5. QED
  BY <1>3, <1>4, AcquireOrdered

LEMMA OpenStoreOrdered ==
  ASSUME StoreTyped, Ordered, NEW s \in Sessions, OpenStore(s)
  PROVE  Ordered'
<1> DEFINE request == [NoOperation EXCEPT !.pc = "recover"]
<1>1. /\ UNCHANGED <<unended, pend, active, cut>>
      /\ \/ Acquire(s, request)
         \/ UNCHANGED <<lease, order, log, warn, tx, journals, needs, op>>
  BY DEF OpenStore, budget
<1>2. request \in Operations /\ request.pc = "recover" /\ request.id = 0 /\ request.failed = FALSE
  BY EmptyTyped DEF Operations, NoOperation
<1> HIDE DEF request
<1>3. CASE Acquire(s, request)
  BY <1>1, <1>2, <1>3, AcquireOrdered
<1>4. CASE UNCHANGED <<lease, order, log, warn, tx, journals, needs, op>>
  BY <1>1, <1>4, QuietOrdered
<1>5. QED
  BY <1>1, <1>3, <1>4

-----------------------------------------------------------------------------
(* What the steps of a restore, a compaction and a new checkpoint do.       *)

\* The steps of the holder of the lease are its own.
LEMMA HolderOrdered ==
  ASSUME StoreTyped, Ordered, NEW s \in Sessions, lease = s, OnlyOf(s), cut' \in {cut, cut + 1},
         lease' \in {s, Nobody}, \A t \in Sessions \ {s} : active'[t] = active[t],
         Lists(s)', active'[s] # 0 => InTurn(s)', Required(s)', Stages', PlanSound'
  PROVE  Ordered'
<1>1. ASSUME NEW t \in Sessions \ {s} PROVE Lists(t)' /\ InTurn(t)' /\ Required(t)'
  BY OthersOrdered
<1>2. InTurn(s)'
  BY DEF InTurn
<1>3. QED
  BY <1>1, <1>2 DEF Ordered

LEMMA RecoverOrdered ==
  ASSUME StoreTyped, Ordered, Recover
  PROVE  Ordered'
<1>1. /\ UNCHANGED <<lease, order, log, warn, unended, pend, tx, active, needs>> /\ UNCHANGED cut
      /\ op.pc = "recover"
  BY DEF Recover, budget
<1>2. PICK s \in Sessions : lease = s /\ active[s] = 0 /\ op \in Operations
  BY <1>1, HolderIs
<1>3. PICK j \in journals[s] :
        IF j.id \in order[s]
        THEN /\ op' = [op EXCEPT !.pc = "plan", !.id = j.id, !.retain = j.retain, !.recovering = TRUE]
             /\ UNCHANGED journals
        ELSE journals' = [journals EXCEPT ![s] = @ \ {j}] /\ UNCHANGED op
  BY <1>2 DEF Recover
<1>4. /\ journals \in [Sessions -> SUBSET Journals]
      /\ journals' = journals \/ journals' = [journals EXCEPT ![s] = @ \ {j}]
  BY <1>3 DEF StoreTyped, DiskTyped
<1>5. OnlyOf(s) /\ journals'[s] \subseteq journals[s]
  BY <1>1, <1>4 DEF OnlyOf
<1>6. Lists(s) /\ Required(s) /\ Stages
  BY DEF Ordered
<1>7. Lists(s)'
  BY <1>1, <1>6 DEF Lists
<1>8. op' = op \/ (op'.pc = "plan" /\ op'.id = j.id /\ j.id \in order[s] /\ op'.failed = op.failed)
  BY <1>2, <1>3 DEF Operations
<1>9. Required(s)'
  BY <1>1, <1>5, <1>6, <1>8 DEF Required
<1>10. Stages' /\ PlanSound'
  BY <1>1, <1>2, <1>6, <1>8 DEF Stages, PlanSound
<1>11. QED
  BY <1>1, <1>2, <1>5, <1>7, <1>9, <1>10, HolderOrdered

LEMMA DeclineOrdered ==
  ASSUME StoreTyped, Ordered, Decline
  PROVE  Ordered'
<1>1. /\ UNCHANGED <<order, log, warn, unended, pend, journals, tx, active, needs>> /\ UNCHANGED cut
      /\ op.pc = "recover" /\ lease' = Nobody /\ op' = NoOperation
  BY DEF Decline, Recovered, Release, disk, budget
<1>2. PICK s \in Sessions : lease = s /\ active[s] = 0
  BY <1>1, HolderIs
<1>3. Lists(s)
  BY DEF Ordered
<1>4. Lists(s)' /\ Required(s)' /\ OnlyOf(s)
  BY <1>1, <1>3, CheckpointsAssumption DEF Lists, Required, OnlyOf
<1>5. Stages' /\ PlanSound'
  BY <1>1, IdleOrdered
<1>6. QED
  BY <1>1, <1>2, <1>4, <1>5, HolderOrdered

LEMMA GoOrdered ==
  ASSUME StoreTyped, Ordered, Go
  PROVE  Ordered'
<1>1. /\ UNCHANGED <<lease, order, log, warn, unended, pend, journals, tx, active, needs>> /\ UNCHANGED cut
      /\ op.pc = "recover" /\ op.target \in order[lease]
      /\ op' = [op EXCEPT !.pc = "plan", !.id = op.target, !.retain = op.keep, !.recovering = FALSE]
  BY DEF Go, Recovered, disk, budget
<1>2. PICK s \in Sessions : lease = s /\ active[s] = 0 /\ op \in Operations
  BY <1>1, HolderIs
<1>3. Lists(s) /\ Required(s) /\ Stages
  BY DEF Ordered
<1>4. op'.pc = "plan" /\ op'.id \in order[s] /\ op'.failed = op.failed
  BY <1>1, <1>2 DEF Operations
<1>5. Lists(s)' /\ OnlyOf(s)
  BY <1>1, <1>3 DEF Lists, OnlyOf
<1>6. Required(s)'
  BY <1>1, <1>3, <1>4 DEF Required
<1>7. Stages' /\ PlanSound'
  BY <1>1, <1>2, <1>3, <1>4 DEF Stages, PlanSound
<1>8. QED
  BY <1>1, <1>2, <1>5, <1>6, <1>7, HolderOrdered

LEMMA ApplyOrdered ==
  ASSUME StoreTyped, Ordered, Apply
  PROVE  Ordered'
<1>1. /\ UNCHANGED <<lease, unended, pend, journals, active, needs>> /\ UNCHANGED cut
      /\ op.pc = "apply"
  BY DEF Apply, Fault, NoFault, budget
<1>2. PICK s \in Sessions : lease = s /\ active[s] = 0 /\ op \in Operations /\ tx[s] \in Transactions
  BY <1>1, HolderIs
<1>3. \/ /\ op' = [op EXCEPT !.pc = "close"]
         /\ order' = [order EXCEPT ![s] = tx[s].order] /\ log' = [log EXCEPT ![s] = tx[s].log]
         /\ warn' = [warn EXCEPT ![s] = tx[s].warn] /\ tx' = [tx EXCEPT ![s] = NoTx]
      \/ /\ op' = [op EXCEPT !.pc = "close", !.failed = TRUE]
         /\ UNCHANGED <<order, log, warn, tx>>
  BY <1>2 DEF Apply
<1>4. /\ order \in [Sessions -> SUBSET CheckpointIds] /\ log \in [Sessions -> [Paths -> Seq(Changes)]]
      /\ warn \in [Sessions -> SUBSET Warnings] /\ tx \in [Sessions -> Transactions]
  BY DEF StoreTyped, DiskTyped, Transactions
<1>5. Lists(s) /\ Required(s) /\ Stages
  BY DEF Ordered
<1>6. CASE /\ op' = [op EXCEPT !.pc = "close"]
           /\ order' = [order EXCEPT ![s] = tx[s].order] /\ log' = [log EXCEPT ![s] = tx[s].log]
           /\ warn' = [warn EXCEPT ![s] = tx[s].warn] /\ tx' = [tx EXCEPT ![s] = NoTx]
           /\ tx[s].set = TRUE
  <2>1. /\ order'[s] = tx[s].order /\ log'[s] = tx[s].log /\ warn'[s] = tx[s].warn
        /\ tx'[s].set = FALSE /\ op'.pc = "close"
    BY <1>2, <1>4, <1>6 DEF NoTx, Operations
  <2>2. OnlyOf(s)
    BY <1>1, <1>4, <1>6 DEF OnlyOf
  <2>3. order'[s] \subseteq 1..cut /\ Listed(order'[s], log'[s], warn'[s])
    BY <1>5, <1>6, <2>1 DEF Lists
  <2>4. Lists(s)'
    BY <1>1, <2>1, <2>3 DEF Lists
  <2>5. Required(s)'
    BY <1>1, <1>5, <2>1 DEF Required
  <2>6. Stages' /\ PlanSound'
    BY <1>1, <1>2, <2>1 DEF Stages, PlanSound
  <2>7. QED
    BY <1>1, <1>2, <2>2, <2>4, <2>5, <2>6, HolderOrdered
<1>7. CASE op' = [op EXCEPT !.pc = "close", !.failed = TRUE] /\ UNCHANGED <<order, log, warn, tx>>
  <2>1. op'.pc = "close" /\ op'.failed = TRUE
    BY <1>2, <1>7 DEF Operations
  <2>2. OnlyOf(s) /\ Lists(s)'
    BY <1>1, <1>5, <1>7 DEF OnlyOf, Lists
  <2>3. Required(s)'
    BY <1>1, <1>5, <1>7, <2>1 DEF Required
  <2>4. Stages' /\ PlanSound'
    BY <1>1, <1>2, <2>1 DEF Stages, PlanSound
  <2>5. QED
    BY <1>1, <1>2, <2>2, <2>3, <2>4, HolderOrdered
<1>8. QED
  BY <1>1, <1>2, <1>3, <1>5, <1>6, <1>7 DEF Stages

\* A new checkpoint: the oldest ones may leave the index, with what is recorded under them.
Renewed(s, kept, first) ==
  /\ Latest(order[s] \cup {cut + 1}, cut + 1, kept, first)
  /\ order'[s] = kept /\ unended'[s] = (unended[s] \cup {cut + 1}) \cap kept
  /\ warn'[s] = {w \in warn[s] : w.id \in kept} /\ pend'[s] = {r \in pend[s] : r.id \in kept}
  /\ \A p \in Paths : \E n \in Nat : Splits(log[s][p], first, n, log'[s][p])

LEMMA BeginIs ==
  ASSUME StoreTyped, Begin, NEW s \in Sessions, lease = s, \A p \in Paths : Ascending(log[s][p]),
         \A i \in order[s] : i <= cut
  PROVE  /\ (\E kept, first : Renewed(s, kept, first)) /\ OnlyOf(s)
         /\ op.pc = "recover" /\ op' = NoOperation /\ cut' = cut + 1 /\ needs[s] = {}
         /\ (\A j \in journals[s] : j.phase # "open") /\ active'[s] = cut + 1
         /\ (\A t \in Sessions \ {s} : active'[t] = active[t])
         /\ UNCHANGED <<file, ino, lease, journals, tx, up, needs, by, maker, manual>>
         /\ UNCHANGED <<writes, others, restores, storeFaults>>
<1> DEFINE new   == cut + 1
           all   == order[s] \cup {new}
           kept  == {i \in all : Cardinality({j \in all : j >= i}) <= MaxKept}
           first == CHOOSE i \in kept : \A j \in kept : i <= j
<1>1. /\ op.pc = "recover" /\ op.why = "begin" /\ needs[s] = {}
      /\ (\A j \in journals[s] : j.phase # "open")
      /\ cut' = new /\ active' = [active EXCEPT ![s] = new] /\ op' = NoOperation
      /\ order' = [order EXCEPT ![s] = kept]
      /\ unended' = [unended EXCEPT ![s] = (@ \cup {new}) \cap kept]
      /\ log' = [log EXCEPT ![s] = [p \in Paths |-> Newer(@[p], first)]]
      /\ warn' = [warn EXCEPT ![s] = {w \in @ : w.id \in kept}]
      /\ pend' = [pend EXCEPT ![s] = {r \in @ : r.id \in kept}]
      /\ UNCHANGED <<file, ino, lease, journals, tx, up, needs, by, maker, manual>>
      /\ UNCHANGED <<writes, others, restores, storeFaults>>
  BY DEF Begin, Recovered, ghost
<1>2. cut \in Nat /\ cut < MaxCut
  BY <1>1 DEF StoreTyped, BudgetTyped, Room
<1>3. new \in Nat /\ new \in CheckpointIds
  BY <1>2, CheckpointsAssumption DEF CheckpointIds
<1>4. order[s] \in SUBSET CheckpointIds /\ log[s] \in [Paths -> Seq(Changes)]
  BY DEF StoreTyped, DiskTyped
<1>5. \A i \in order[s] : i < new
  BY <1>2, <1>4 DEF CheckpointIds
<1>6. Latest(all, new, kept, first)
  <2> HIDE DEF new
  <2> QED BY <1>3, <1>4, <1>5, KeptOnes
<1>7. first \in Nat
  BY <1>6 DEF Latest
<1> HIDE DEF kept, first
<1>8. ASSUME NEW p \in Paths PROVE \E n \in Nat : Splits(log[s][p], first, n, Newer(log[s][p], first))
  <2>1. PICK l : l = log[s][p]
    OBVIOUS
  <2>2. l \in Seq(Changes) /\ Ascending(l)
    BY <1>4, <2>1
  <2>3. PICK n, c : n = Older(l, first) /\ c = Newer(l, first)
    OBVIOUS
  <2>4. Splits(l, first, n, c)
    BY <1>7, <2>2, <2>3, NewerOnes
  <2>5. n \in Nat
    BY <2>2, <2>4, ChangeTypes DEF Splits
  <2>6. QED
    BY <2>1, <2>3, <2>4, <2>5
<1>9. /\ order \in [Sessions -> SUBSET CheckpointIds] /\ log \in [Sessions -> [Paths -> Seq(Changes)]]
      /\ warn \in [Sessions -> SUBSET Warnings] /\ pend \in [Sessions -> SUBSET OpenCalls]
      /\ unended \in [Sessions -> SUBSET CheckpointIds] /\ active \in [Sessions -> 0..MaxCut]
  BY DEF StoreTyped, DiskTyped, MemoryTyped
<1>10. \A p \in Paths : log'[s][p] = Newer(log[s][p], first)
  BY <1>1, <1>9
<1>11. OnlyOf(s)
  BY <1>1, <1>9 DEF OnlyOf
<1>12. /\ order'[s] = kept /\ unended'[s] = (unended[s] \cup {new}) \cap kept
       /\ warn'[s] = {w \in warn[s] : w.id \in kept} /\ pend'[s] = {r \in pend[s] : r.id \in kept}
       /\ active'[s] = new /\ \A t \in Sessions \ {s} : active'[t] = active[t]
  BY <1>1, <1>9
<1>13. Renewed(s, kept, first)
  BY <1>6, <1>8, <1>10, <1>12 DEF Renewed
<1>14. QED
  BY <1>1, <1>11, <1>12, <1>13

LEMMA SplitsAscending ==
  ASSUME NEW l \in Seq(Changes), Ascending(l), NEW id \in Nat, NEW n \in Nat, NEW c
  PROVE  Splits(l, id, n, c) => Ascending(c)
<1> SUFFICES ASSUME Splits(l, id, n, c) PROVE Ascending(c)
  OBVIOUS
<1>1. /\ n \in 0..Len(l) /\ DOMAIN c = 1..(Len(l) - n)
      /\ \A k \in 1..(Len(l) - n) : c[k] = l[n + k]
  BY DEF Splits
<1>2. DOMAIN l = 1..Len(l) /\ Len(l) \in Nat
  BY ChangeTypes
<1>3. ASSUME NEW i \in DOMAIN c, NEW k \in DOMAIN c, i <= k PROVE c[i].id <= c[k].id
  <2>1. n + i \in DOMAIN l /\ n + k \in DOMAIN l /\ n + i <= n + k /\ c[i] = l[n + i] /\ c[k] = l[n + k]
    BY <1>1, <1>2, <1>3
  <2>2. QED
    BY <2>1 DEF Ascending
<1>4. QED
  BY <1>3 DEF Ascending

LEMMA BeginOrdered ==
  ASSUME StoreTyped, Ordered, Begin
  PROVE  Ordered'
<1>1. op.pc = "recover"
  BY DEF Begin, Recovered
<1>2. PICK s \in Sessions : lease = s
  BY <1>1, HolderIs
<1>3. Lists(s) /\ Required(s)
  BY DEF Ordered
<1>4. cut \in Nat /\ order[s] \subseteq CheckpointIds /\ log[s] \in [Paths -> Seq(Changes)]
      /\ journals[s] \subseteq Journals /\ tx[s] \in Transactions
  BY DEF StoreTyped, BudgetTyped, DiskTyped, Transactions
<1>5. (\A p \in Paths : Ascending(log[s][p])) /\ \A i \in order[s] : i <= cut
  BY <1>3, <1>4 DEF Lists, Listed
<1>6. /\ (\E kept, first : Renewed(s, kept, first)) /\ OnlyOf(s)
      /\ op' = NoOperation /\ cut' = cut + 1 /\ needs[s] = {}
      /\ (\A j \in journals[s] : j.phase # "open") /\ active'[s] = cut + 1
      /\ (\A t \in Sessions \ {s} : active'[t] = active[t])
      /\ UNCHANGED <<lease, journals, tx>>
  BY <1>2, <1>5, BeginIs
<1>7. PICK kept, first : Renewed(s, kept, first)
  BY <1>6
<1>8. /\ kept \subseteq order[s] \cup {cut + 1} /\ cut + 1 \in kept /\ first \in Nat
      /\ \A i \in order[s] \cup {cut + 1} : i \in kept <=> first <= i
      /\ order'[s] = kept /\ warn'[s] = {w \in warn[s] : w.id \in kept}
      /\ \A p \in Paths : \E n \in Nat : Splits(log[s][p], first, n, log'[s][p])
  BY <1>7 DEF Renewed, Latest
<1>9. journals[s] = {} /\ tx[s].set = FALSE
  <2>1. journals[s] = {}
    BY <1>2, <1>3, <1>4, <1>6 DEF Required, Journals
  <2>2. tx[s].set # TRUE
    BY <1>1, <1>2, <1>3, <1>6 DEF Required
  <2>3. QED
    BY <1>4, <2>1, <2>2 DEF Transactions
<1>10. ASSUME NEW p \in Paths
       PROVE  Ascending(log'[s][p]) /\ \A k \in DOMAIN log'[s][p] : log'[s][p][k].id \in kept
  <2>1. PICK l, c : l = log[s][p] /\ c = log'[s][p]
    OBVIOUS
  <2>2. l \in Seq(Changes) /\ Ascending(l) /\ \A k \in DOMAIN l : l[k].id \in order[s]
    BY <1>3, <1>4, <2>1 DEF Lists, Listed
  <2>3. PICK n \in Nat : Splits(l, first, n, c)
    BY <1>8, <2>1
  <2>4. Ascending(c)
    BY <1>8, <2>2, <2>3, SplitsAscending
  <2>5. \A k \in DOMAIN c : c[k].id \in kept
    <3>1. /\ n \in 0..Len(l) /\ DOMAIN c = 1..(Len(l) - n)
          /\ \A k \in 1..(Len(l) - n) : c[k] = l[n + k] /\ first <= l[n + k].id
      BY <2>3 DEF Splits
    <3>2. DOMAIN l = 1..Len(l) /\ Len(l) \in Nat
      BY <2>2, ChangeTypes
    <3>3. \A k \in DOMAIN c : n + k \in DOMAIN l
      BY <3>1, <3>2
    <3>4. QED
      BY <1>8, <2>2, <3>1, <3>3
  <2>6. QED
    BY <2>1, <2>4, <2>5
<1>11. Lists(s)'
  <2>1. order'[s] \subseteq 1..cut'
    BY <1>3, <1>4, <1>6, <1>8 DEF Lists
  <2>2. Listed(order'[s], log'[s], warn'[s])
    BY <1>8, <1>10 DEF Listed
  <2>3. QED
    BY <1>6, <1>9, <2>1, <2>2 DEF Lists
<1>12. InTurn(s)' /\ Required(s)'
  BY <1>6, <1>8, <1>9 DEF InTurn, Required
<1>13. Stages' /\ PlanSound'
  BY <1>6, IdleOrdered
<1>14. QED
  BY <1>2, <1>6, <1>11, <1>12, <1>13, HolderOrdered

\* A compaction: what is recorded under the hidden checkpoints goes to the last kept one.
FoldsTo(l, m, hidden, newest) ==
  /\ Len(m) = Len(l) /\ DOMAIN m = DOMAIN l
  /\ \A k \in DOMAIN l :
       /\ m[k].id = (IF l[k].id \in hidden THEN newest ELSE l[k].id)
       /\ m[k].before = l[k].before /\ m[k].after = l[k].after
Compacted(s, kept, newest) ==
  /\ tx'[s].set = TRUE /\ tx'[s].order = kept
  /\ kept = {} => tx'[s].warn = {} /\ \A p \in Paths : tx'[s].log[p] = <<>>
  /\ kept # {} =>
       /\ tx'[s].warn = {Folded(w, order[s] \ kept, newest) : w \in warn'[s]}
       /\ \A p \in Paths : FoldsTo(log[s][p], tx'[s].log[p], order[s] \ kept, newest)
Hides(s, kept, newest) ==
  /\ kept = {i \in order[s] : i < op.target} /\ kept # order[s]
  /\ kept = {} => UNCHANGED <<unended, warn, pend>>
  /\ kept # {} =>
       newest \in kept /\ (\A j \in kept : j <= newest) /\ EndCalls(s, {newest} \cup (order[s] \ kept))

LEMMA Greatest ==
  ASSUME NEW kept \in SUBSET CheckpointIds, kept # {}
  PROVE  \E i \in kept : \A j \in kept : j <= i
<1>1. kept \subseteq 1..MaxCut /\ MaxCut \in Nat
  BY CheckpointsAssumption DEF CheckpointIds
<1> DEFINE Under == {i \in Nat : \E j \in kept : i = MaxCut - j}
<1>2. Under \in SUBSET Nat /\ Under # {}
  <2>1. PICK j \in kept : TRUE
    OBVIOUS
  <2>2. MaxCut - j \in Nat
    BY <1>1, <2>1
  <2>3. QED
    BY <2>1, <2>2
<1>3. PICK u \in Under : \A v \in Under : u <= v
  BY <1>2, Least
<1>4. PICK i \in kept : u = MaxCut - i
  BY <1>3
<1>5. ASSUME NEW j \in kept PROVE j <= i
  <2>1. i \in 1..MaxCut /\ j \in 1..MaxCut
    BY <1>1, <1>4
  <2>2. MaxCut - j \in Under
    BY <1>1, <2>1
  <2>3. u <= MaxCut - j
    BY <1>3, <2>2
  <2>4. QED
    BY <1>1, <1>4, <2>1, <2>3
<1>6. QED
  BY <1>5

LEMMA CompactIs ==
  ASSUME StoreTyped, Compact, NEW s \in Sessions, lease = s
  PROVE  /\ \E kept, newest :
              /\ Hides(s, kept, newest)
              /\ \/ NoFault /\ op' = [op EXCEPT !.pc = "apply"] /\ Compacted(s, kept, newest)
                 \/ Fault /\ op' = [op EXCEPT !.pc = "close"] /\ UNCHANGED tx
         /\ op.pc = "recover" /\ (\A t \in Sessions \ {s} : tx'[t] = tx[t])
         /\ (\A j \in journals[s] : j.phase # "open")
         /\ UNCHANGED <<file, ino, lease, order, log, journals, up, active, needs, by, maker, manual>>
<1> DEFINE kept   == {i \in order[s] : i < op.target}
           hidden == order[s] \ kept
           newest   == CHOOSE i \in kept : \A j \in kept : j <= i
           new(p) == IF kept = {} THEN <<>> ELSE [k \in 1..Len(log[s][p]) |-> Folded(log[s][p][k], hidden, newest)]
           lists  == [p \in Paths |-> new(p)]
           warned == IF kept = {} THEN {} ELSE {Folded(w, hidden, newest) : w \in warn'[s]}
           folded == [set |-> TRUE, order |-> kept, log |-> lists, warn |-> warned]
<1>1. /\ UNCHANGED <<file, ino, lease, order, log, journals, up, active, needs, by, maker, manual>>
      /\ op.pc = "recover" /\ hidden # {} /\ (\A j \in journals[s] : j.phase # "open")
      /\ IF kept = {} THEN UNCHANGED <<unended, warn, pend>> ELSE EndCalls(s, {newest} \cup hidden)
  BY DEF Compact, Recovered, ghost
<1>2. \/ NoFault /\ op' = [op EXCEPT !.pc = "apply"] /\ tx' = [tx EXCEPT ![s] = folded]
      \/ Fault /\ op' = [op EXCEPT !.pc = "close"] /\ UNCHANGED tx
  BY DEF Compact, Folded
<1>3. /\ kept \subseteq CheckpointIds /\ log[s] \in [Paths -> Seq(Changes)]
      /\ tx \in [Sessions -> Transactions]
  BY DEF StoreTyped, DiskTyped, Transactions
<1>4. kept # {} => newest \in kept /\ \A j \in kept : j <= newest
  BY <1>3, Greatest
<1>5. Hides(s, kept, newest)
  <2>1. kept # order[s] /\ hidden = order[s] \ kept
    BY <1>1
  <2> HIDE DEF hidden, newest
  <2>2. QED
    BY <1>1, <1>4, <2>1 DEF Hides
<1> HIDE DEF kept, newest
<1>6. ASSUME NEW p \in Paths, kept # {} PROVE FoldsTo(log[s][p], new(p), hidden, newest)
  <2>1. PICK l : l = log[s][p]
    OBVIOUS
  <2>2. l \in Seq(Changes) /\ DOMAIN l = 1..Len(l) /\ Len(l) \in Nat /\ \A k \in 1..Len(l) : l[k] \in Changes
    BY <1>3, <2>1, ChangeTypes
  <2>3. PICK m : m = [k \in 1..Len(l) |-> Folded(l[k], hidden, newest)]
    OBVIOUS
  <2>4. DOMAIN m = 1..Len(l) /\ \A k \in 1..Len(l) : m[k] = Folded(l[k], hidden, newest)
    BY <2>3
  <2>5. Len(m) = Len(l)
    <3> DEFINE S == {m[k] : k \in 1..Len(l)}
    <3>1. m \in [1..Len(l) -> S]
      BY <2>3
    <3>2. m \in Seq(S)
      BY <2>2, <3>1, SeqDef
    <3>3. DOMAIN m = 1..Len(m) /\ Len(m) \in Nat
      BY <3>2, LenProperties
    <3>4. QED
      BY <2>2, <2>4, <3>3
  <2>6. \A k \in 1..Len(l) : /\ m[k].id = (IF l[k].id \in hidden THEN newest ELSE l[k].id)
                             /\ m[k].before = l[k].before /\ m[k].after = l[k].after
    BY <2>2, <2>4 DEF Folded, Changes
  <2>7. FoldsTo(l, m, hidden, newest)
    BY <2>2, <2>4, <2>5, <2>6 DEF FoldsTo
  <2>8. new(p) = m
    BY <1>6, <2>1, <2>3
  <2>9. QED
    BY <2>1, <2>7, <2>8
<1> HIDE DEF new
<1>7. ASSUME tx' = [tx EXCEPT ![s] = folded] PROVE Compacted(s, kept, newest)
  <2>1. tx'[s] = folded
    BY <1>3, <1>7
  <2>2. tx'[s].set = TRUE /\ tx'[s].order = kept /\ tx'[s].warn = warned /\ \A p \in Paths : tx'[s].log[p] = new(p)
    BY <2>1
  <2>3. kept = {} => \A p \in Paths : new(p) = <<>>
    BY DEF new
  <2>4. QED
    BY <1>6, <2>2, <2>3 DEF Compacted
<1>8. \A t \in Sessions \ {s} : tx'[t] = tx[t]
  BY <1>2, <1>3
<1> HIDE DEF folded
<1>9. QED
  BY <1>1, <1>2, <1>5, <1>7, <1>8

LEMMA CompactOrdered ==
  ASSUME StoreTyped, Ordered, Compact
  PROVE  Ordered'
<1>1. PICK s \in Sessions : lease = s /\ active[s] = 0 /\ op \in Operations
  <2>1. op.pc = "recover"
    BY DEF Compact, Recovered
  <2>2. QED
    BY <2>1, HolderIs
<1>2. /\ \E kept, newest :
              /\ Hides(s, kept, newest)
              /\ \/ NoFault /\ op' = [op EXCEPT !.pc = "apply"] /\ Compacted(s, kept, newest)
                 \/ Fault /\ op' = [op EXCEPT !.pc = "close"] /\ UNCHANGED tx
      /\ op.pc = "recover" /\ (\A t \in Sessions \ {s} : tx'[t] = tx[t])
      /\ UNCHANGED <<lease, order, log, journals, active, needs>>
  BY <1>1, CompactIs
<1>3. PICK kept, newest :
        /\ Hides(s, kept, newest)
        /\ \/ NoFault /\ op' = [op EXCEPT !.pc = "apply"] /\ Compacted(s, kept, newest)
           \/ Fault /\ op' = [op EXCEPT !.pc = "close"] /\ UNCHANGED tx
  BY <1>2
<1>4. Lists(s) /\ Required(s) /\ Stages
  BY DEF Ordered
<1>5. cut' = cut
  BY <1>3 DEF NoFault, Fault, budget
<1>6. kept = {i \in order[s] : i < op.target}
  BY <1>3 DEF Hides
<1>7. /\ Listed(order[s], log[s], warn'[s])
      /\ \A t \in Sessions \ {s} : warn'[t] = warn[t] /\ unended'[t] = unended[t] /\ pend'[t] = pend[t]
  <2>1. CASE kept = {}
    BY <1>3, <1>4, <2>1 DEF Hides, Lists
  <2>2. CASE kept # {}
    <3>1. PICK ids \in SUBSET order[s] : EndCalls(s, ids)
      <4>1. {newest} \cup (order[s] \ kept) \in SUBSET order[s]
        BY <1>3, <1>6, <2>2 DEF Hides
      <4>2. QED
        BY <1>3, <2>2, <4>1 DEF Hides
    <3>2. QED
      BY <1>4, <3>1, EndCallsOrdered DEF Lists
  <2>3. QED
    BY <2>1, <2>2
<1>8. OnlyOf(s)
  BY <1>2, <1>7 DEF OnlyOf
<1>9. ASSUME Compacted(s, kept, newest) PROVE Listed(tx'[s].order, tx'[s].log, tx'[s].warn)
  <2>1. CASE kept = {}
    <3>1. tx'[s].warn = {} /\ \A p \in Paths : tx'[s].log[p] = <<>>
      BY <1>9, <2>1 DEF Compacted
    <3>2. DOMAIN <<>> = {}
      OBVIOUS
    <3>3. QED
      BY <3>1, <3>2 DEF Listed, Ascending
  <2>2. CASE kept # {}
    <3>1. /\ newest \in kept /\ (\A j \in kept : j <= newest) /\ tx'[s].order = kept
          /\ tx'[s].warn = {Folded(w, order[s] \ kept, newest) : w \in warn'[s]}
          /\ \A p \in Paths : FoldsTo(log[s][p], tx'[s].log[p], order[s] \ kept, newest)
      BY <1>3, <1>9, <2>2 DEF Hides, Compacted
    <3>2. order[s] \subseteq CheckpointIds /\ kept \subseteq order[s] /\ op.target \in Nat
          /\ warn' \in [Sessions -> SUBSET Warnings]
      <4>1. warn' \in [Sessions -> SUBSET Warnings]
        BY <1>3, <2>2, EndCallsTyped DEF Hides
      <4>2. QED
        BY <1>1, <1>6, <4>1, CheckpointsAssumption DEF StoreTyped, DiskTyped, Operations
    <3>3. \A i \in order[s] : i \in Nat
      BY <3>2, CheckpointsAssumption DEF CheckpointIds
    <3>4. \A w \in warn'[s] : Folded(w, order[s] \ kept, newest).id \in kept
      BY <1>7, <3>1, <3>2 DEF Listed, Folded, Warnings
    <3>5. ASSUME NEW p \in Paths
          PROVE  Ascending(tx'[s].log[p]) /\ \A k \in DOMAIN tx'[s].log[p] : tx'[s].log[p][k].id \in kept
      <4>1. PICK l, m : l = log[s][p] /\ m = tx'[s].log[p]
        OBVIOUS
      <4>2. Ascending(l) /\ \A k \in DOMAIN l : l[k].id \in order[s]
        BY <1>7, <4>1 DEF Listed
      <4>3. DOMAIN m = DOMAIN l /\ \A k \in DOMAIN l : m[k].id = (IF l[k].id \in order[s] \ kept THEN newest ELSE l[k].id)
        BY <3>1, <4>1 DEF FoldsTo
      <4>4. \A k \in DOMAIN m : m[k].id \in kept
        BY <3>1, <4>2, <4>3
      <4>5. ASSUME NEW i \in DOMAIN m, NEW k \in DOMAIN m, i <= k PROVE m[i].id <= m[k].id
        <5>1. l[i].id <= l[k].id /\ l[i].id \in order[s] /\ l[k].id \in order[s]
          BY <4>2, <4>3, <4>5 DEF Ascending
        <5>2. l[k].id \in kept => l[i].id \in kept
          BY <1>6, <3>2, <3>3, <5>1
        <5>3. CASE l[k].id \in kept
          BY <4>3, <5>1, <5>2, <5>3
        <5>4. CASE l[k].id \notin kept
          BY <3>1, <4>3, <4>4, <5>1, <5>4
        <5>5. QED
          BY <5>3, <5>4
      <4>6. QED
        BY <4>1, <4>4, <4>5 DEF Ascending
    <3>6. QED
      BY <3>1, <3>4, <3>5 DEF Listed
  <2>3. QED
    BY <2>1, <2>2
<1>10. op'.pc \in {"apply", "close"} /\ op'.id = 0 /\ op'.failed = FALSE
       /\ (op'.pc = "apply" => Compacted(s, kept, newest))
  BY <1>1, <1>2, <1>3, <1>4 DEF Stages, Operations
<1>11. Lists(s)'
  <2>1. CASE Compacted(s, kept, newest)
    <3>1. tx'[s].order \subseteq order[s]
      BY <1>6, <2>1 DEF Compacted
    <3>2. QED
      BY <1>2, <1>4, <1>5, <1>7, <1>9, <2>1, <3>1 DEF Lists
  <2>2. CASE UNCHANGED tx
    BY <1>2, <1>4, <1>5, <1>7, <2>2 DEF Lists
  <2>3. QED
    BY <1>3, <2>1, <2>2
<1>12. Required(s)'
  BY <1>2, <1>4, <1>10 DEF Required
<1>13. Stages' /\ PlanSound'
  BY <1>1, <1>2, <1>10 DEF Stages, PlanSound, Compacted
<1>14. QED
  BY <1>1, <1>2, <1>5, <1>8, <1>11, <1>12, <1>13, HolderOrdered

\* A path that can be restored, and one that already is what it should be.
Restorable(l, w, p, id) ==
  \E k \in DOMAIN l[p] : SoundFrom(l, w, p, id, k) /\ file[p] = l[p][Len(l[p])].after
Undone(l, w, p, id, state) ==
  \E k \in DOMAIN l[p] : SoundFrom(l, w, p, id, k) /\ state.data = l[p][k].before.data
PlanMade(s, l, w, id) ==
  /\ \A x \in w : id <= x.id => x.path \in op'.skipped
  /\ \A p \in Paths : \A k \in DOMAIN l[p] :
       id <= l[p][k].id => p \in op'.todo \cup DOMAIN op'.wrote \cup op'.skipped
  /\ \A p \in op'.todo : p \in Paths /\ Restorable(l, w, p, id) /\ ~Undone(l, w, p, id, file[p])
  /\ \A p \in DOMAIN op'.wrote :
       p \in Paths /\ op'.wrote[p] = file[p] /\ Undone(l, w, p, id, file[p])
  /\ \A p \in Paths : Undone(l, w, p, id, file[p]) => p \in DOMAIN op'.wrote
  /\ \A p \in op'.skipped : p \notin op'.todo \cup DOMAIN op'.wrote

LEMMA PlanRestoreIs ==
  ASSUME StoreTyped, PlanRestore, NEW s \in Sessions, lease = s, NEW id \in Nat, op.id = id,
         NEW l, log[s] = l, \A p \in Paths : Ascending(l[p]), NEW w, w = warn'[s],
         \A x \in w : x.id \in order[s]
  PROVE  /\ op.pc = "plan" /\ EndCalls(s, {i \in order[s] : i >= id})
         /\ \/ /\ NoFault /\ PlanMade(s, l, w, id) /\ UNCHANGED lease
               /\ journals' = [journals EXCEPT ![s] = @ \cup {Journal(id, op.retain, "open")}]
               /\ op' = [op EXCEPT !.pc = "files", !.todo = op'.todo, !.wrote = op'.wrote,
                                   !.skipped = op'.skipped]
            \/ /\ Fault /\ UNCHANGED journals
               /\ \/ op' = [op EXCEPT !.pc = "close", !.failed = TRUE] /\ UNCHANGED lease
                  \/ Release /\ op.recovering = FALSE
         /\ UNCHANGED <<file, ino, order, log, tx, up, active, needs, by, maker, manual>>
<1> DEFINE here    == {i \in order[s] : i >= id}
           warned  == {x.path : x \in {x \in warn'[s] : x.id \in here}}
           touched == {p \in Paths : Since(s, id, p) # <<>>}
           sound   == IF Unknown \in warned THEN {}
                      ELSE {p \in touched \ warned : Continuous(Since(s, id, p))}
           done    == {p \in sound : file[p].data = Desired(Since(s, id, p)).data}
           jobs    == {p \in sound \ done : file[p] = Expected(Since(s, id, p))}
           skipped == warned \cup (touched \ (done \cup jobs))
           written == [p \in done |-> file[p]]
<1>1. /\ UNCHANGED <<file, ino, order, log, tx, up, active, needs, by, maker, manual>>
      /\ op.pc = "plan" /\ EndCalls(s, here)
  BY DEF PlanRestore, ghost
<1>2. \/ /\ NoFault /\ journals' = [journals EXCEPT ![s] = @ \cup {Journal(id, op.retain, "open")}]
         /\ op' = [op EXCEPT !.pc = "files", !.todo = jobs, !.wrote = written, !.skipped = skipped]
         /\ UNCHANGED lease
      \/ /\ Fault /\ UNCHANGED journals
         /\ \/ op' = [op EXCEPT !.pc = "close", !.failed = TRUE] /\ UNCHANGED lease
            \/ Release /\ op.recovering = FALSE
  <2>1. op.recovering \in BOOLEAN
    BY DEF StoreTyped, MemoryTyped, Operations
  <2>2. QED
    BY <2>1 DEF PlanRestore, Journal
<1>3. log[s] \in [Paths -> Seq(Changes)] /\ op \in Operations /\ Unknown \notin Paths
      /\ order[s] \subseteq CheckpointIds
  BY CheckpointsAssumption DEF StoreTyped, DiskTyped, MemoryTyped
<1>4. \A x \in w : id <= x.id <=> x.id \in here
  <2>1. \A x \in w : x.id \in order[s] /\ x.id \in Nat
    BY <1>3 DEF CheckpointIds
  <2>2. QED
    BY <2>1
<1>5. ASSUME NEW p \in Paths PROVE Warned(w, p, id) <=> (p \in warned \/ Unknown \in warned)
  BY <1>4 DEF Warned
<1>6. \A x \in w : id <= x.id => x.path \in warned
  BY <1>4
<1> HIDE DEF warned
<1>7. ASSUME NEW p \in Paths
      PROVE  /\ p \in touched <=> \E k \in DOMAIN l[p] : id <= l[p][k].id
             /\ p \in sound <=> \E k \in DOMAIN l[p] : SoundFrom(l, w, p, id, k)
             /\ p \in done <=> Undone(l, w, p, id, file[p])
             /\ p \in jobs => Restorable(l, w, p, id)
  <2>1. PICK q, c : q = l[p] /\ c = Newer(q, id)
    OBVIOUS
  <2>2. q \in Seq(Changes) /\ Ascending(q) /\ c = Since(s, id, p)
    BY <1>3, <2>1 DEF Since
  <2>3. /\ c # <<>> <=> \E k \in DOMAIN q : StartsAt(q, id, k)
        /\ c # <<>> <=> \E k \in DOMAIN q : id <= q[k].id
        /\ \A k \in DOMAIN q : StartsAt(q, id, k) =>
             /\ Desired(c) = q[k].before /\ Expected(c) = q[Len(q)].after
             /\ Continuous(c) <=> Joined(q, k)
    <3>1. Tails(q, id, c)
      BY <2>1, <2>2, Begins
    <3>2. QED
      BY <3>1 DEF Tails
  <2>4. p \in touched <=> \E k \in DOMAIN q : id <= q[k].id
    BY <2>2, <2>3
  <2>5. p \in sound <=> \E k \in DOMAIN q : SoundFrom(l, w, p, id, k)
    <3>1. p \in sound <=> /\ Unknown \notin warned /\ p \notin warned /\ c # <<>> /\ Continuous(c)
      BY <2>2
    <3>2. \A k \in DOMAIN q : SoundFrom(l, w, p, id, k) <=>
            /\ StartsAt(q, id, k) /\ Joined(q, k) /\ p \notin warned /\ Unknown \notin warned
      BY <1>5, <2>1 DEF SoundFrom
    <3>3. QED
      BY <2>3, <3>1, <3>2
  <2>6. \A k \in DOMAIN q : SoundFrom(l, w, p, id, k) =>
             Desired(c) = q[k].before /\ Expected(c) = q[Len(q)].after
    BY <2>1, <2>3 DEF SoundFrom
  <2> HIDE DEF sound
  <2>7. p \in done <=> Undone(l, w, p, id, file[p])
    BY <2>1, <2>2, <2>5, <2>6 DEF Undone
  <2>8. p \in jobs => Restorable(l, w, p, id)
    BY <2>1, <2>2, <2>5, <2>6 DEF Restorable
  <2>9. QED
    BY <2>1, <2>4, <2>5, <2>7, <2>8
<1>8. /\ done \subseteq sound /\ jobs \subseteq sound \ done /\ sound \subseteq touched \ warned
      /\ touched \subseteq Paths
  OBVIOUS
<1> HIDE DEF done, jobs, sound, touched
<1>9. ASSUME op' = [op EXCEPT !.pc = "files", !.todo = jobs, !.wrote = written, !.skipped = skipped]
      PROVE  PlanMade(s, l, w, id)
  <2>1. op'.todo = jobs /\ op'.wrote = written /\ op'.skipped = skipped
    BY <1>3, <1>9 DEF Operations
  <2>2. DOMAIN written = done /\ \A p \in done : written[p] = file[p]
    OBVIOUS
  <2> HIDE DEF written
  <2>3. \A x \in w : id <= x.id => x.path \in skipped
    BY <1>6
  <2>4. \A p \in Paths : \A k \in DOMAIN l[p] : id <= l[p][k].id => p \in jobs \cup done \cup skipped
    BY <1>7
  <2>5. \A p \in jobs : p \in Paths /\ Restorable(l, w, p, id) /\ ~Undone(l, w, p, id, file[p])
    BY <1>7, <1>8
  <2>6. \A p \in done : p \in Paths /\ Undone(l, w, p, id, file[p])
    BY <1>7, <1>8
  <2>7. \A p \in skipped : p \notin jobs \cup done
    BY <1>8
  <2>8. \A p \in Paths : Undone(l, w, p, id, file[p]) => p \in done
    BY <1>7
  <2>9. QED
    BY <2>1, <2>2, <2>3, <2>4, <2>5, <2>6, <2>7, <2>8 DEF PlanMade
<1>10. ASSUME op' = [op EXCEPT !.pc = "files", !.todo = jobs, !.wrote = written, !.skipped = skipped]
       PROVE  op' = [op EXCEPT !.pc = "files", !.todo = op'.todo, !.wrote = op'.wrote,
                               !.skipped = op'.skipped]
  <2> HIDE DEF written, skipped
  <2>1. op'.todo = jobs /\ op'.wrote = written /\ op'.skipped = skipped
    BY <1>3, <1>10 DEF Operations
  <2>2. QED
    BY <1>10, <2>1
<1> HIDE DEF written, skipped
<1>11. QED
  BY <1>1, <1>2, <1>9, <1>10

LEMMA PlanRestoreOrdered ==
  ASSUME StoreTyped, Ordered, PlanRestore
  PROVE  Ordered'
<1>1. op.pc = "plan"
  BY DEF PlanRestore
<1>2. PICK s \in Sessions, id \in Nat : lease = s /\ id = op.id /\ active[s] = 0 /\ op \in Operations
  <2>1. lease \in Sessions /\ active[lease] = 0 /\ op \in Operations
    BY <1>1, HolderIs
  <2>2. op.id \in Nat
    BY <2>1, CheckpointsAssumption DEF Operations
  <2>3. QED
    BY <2>1, <2>2
<1>3. Lists(s) /\ Required(s) /\ Stages
  BY DEF Ordered
<1>4. EndCalls(s, {i \in order[s] : i >= id})
  BY <1>2 DEF PlanRestore
<1>5. /\ Listed(order[s], log[s], warn'[s])
      /\ \A t \in Sessions \ {s} : warn'[t] = warn[t] /\ unended'[t] = unended[t] /\ pend'[t] = pend[t]
  <2>1. {i \in order[s] : i >= id} \in SUBSET order[s]
    OBVIOUS
  <2>2. QED
    BY <1>3, <1>4, <2>1, EndCallsOrdered DEF Lists
<1>6. PICK l, w : l = log[s] /\ w = warn'[s]
  OBVIOUS
<1>7. (\A p \in Paths : Ascending(l[p])) /\ \A x \in w : x.id \in order[s]
  BY <1>5, <1>6 DEF Listed
<1>8. /\ \/ /\ NoFault /\ PlanMade(s, l, w, id) /\ UNCHANGED lease
            /\ journals' = [journals EXCEPT ![s] = @ \cup {Journal(id, op.retain, "open")}]
            /\ op' = [op EXCEPT !.pc = "files", !.todo = op'.todo, !.wrote = op'.wrote,
                                !.skipped = op'.skipped]
         \/ /\ Fault /\ UNCHANGED journals
            /\ \/ op' = [op EXCEPT !.pc = "close", !.failed = TRUE] /\ UNCHANGED lease
               \/ Release
      /\ UNCHANGED <<order, log, tx, active, needs>>
  BY <1>2, <1>6, <1>7, PlanRestoreIs
<1>9. cut' = cut
  BY <1>8 DEF NoFault, Fault, budget
<1>10. journals \in [Sessions -> SUBSET Journals]
  BY DEF StoreTyped, DiskTyped
<1>11. /\ \A t \in Sessions \ {s} : journals'[t] = journals[t]
       /\ \A j \in journals'[s] : j \in journals[s] \/ j.phase = "open"
  BY <1>8, <1>10 DEF Journal
<1>12. OnlyOf(s)
  BY <1>5, <1>8, <1>11 DEF OnlyOf
<1>13. Lists(s)'
  BY <1>3, <1>5, <1>8, <1>9 DEF Lists
<1>14. lease' \in {s, Nobody} /\ op'.pc \in {"files", "close", "idle"}
       /\ (op'.pc = "files" => op'.id = id /\ op'.failed = op.failed /\ PlanMade(s, l, w, id) /\ lease' = s)
       /\ (op'.pc = "close" => op'.failed = TRUE)
  <2>1. CASE /\ PlanMade(s, l, w, id) /\ UNCHANGED lease
             /\ op' = [op EXCEPT !.pc = "files", !.todo = op'.todo, !.wrote = op'.wrote,
                                 !.skipped = op'.skipped]
    <3>1. PICK jobs, wrote, skipped :
            op' = [op EXCEPT !.pc = "files", !.todo = jobs, !.wrote = wrote, !.skipped = skipped]
      BY <2>1
    <3>2. op'.pc = "files" /\ op'.id = op.id /\ op'.failed = op.failed
      BY <1>2, <3>1 DEF Operations
    <3>3. QED
      BY <1>2, <2>1, <3>2
  <2>2. CASE op' = [op EXCEPT !.pc = "close", !.failed = TRUE] /\ UNCHANGED lease
    <3>1. op'.pc = "close" /\ op'.failed = TRUE
      BY <1>2, <2>2 DEF Operations
    <3>2. QED
      BY <1>2, <2>2, <3>1
  <2>3. CASE Release
    BY <2>3 DEF Release, NoOperation
  <2>4. QED
    BY <1>8, <2>1, <2>2, <2>3
<1>15. Required(s)'
  <2>1. \A j \in journals'[s] : j.phase = "required" => j \in journals[s]
    BY <1>11
  <2>2. lease = s /\ op.pc = "plan" /\ (tx[s].set = TRUE => needs[s] # {})
        /\ \A j \in journals[s] : j.phase = "required" => j.id \in needs[s]
    BY <1>1, <1>2, <1>3 DEF Required
  <2>3. QED
    BY <1>8, <2>1, <2>2 DEF Required
<1>16. Stages'
  BY <1>1, <1>2, <1>3, <1>8, <1>14 DEF Stages
<1>17. PlanSound'
  <2>1. SUFFICES ASSUME op'.pc = "files" PROVE PlanSound'
    BY DEF PlanSound
  <2>2. lease' = s /\ log'[s] = l /\ warn'[s] = w /\ op'.id = id /\ PlanMade(s, l, w, id)
    BY <1>6, <1>8, <1>14, <2>1
  <2>3. QED
    BY <2>2 DEF PlanMade, PlanSound, Restorable, Undone
<1>18. QED
  BY <1>2, <1>8, <1>9, <1>12, <1>13, <1>14, <1>15, <1>16, <1>17, HolderOrdered

FileStep(s, l, w, id) ==
  \E p \in op.todo, x \in States : \E k \in DOMAIN l[p] :
    /\ p \in Paths /\ SoundFrom(l, w, p, id, k)
    /\ x.data = l[p][k].before.data /\ x.ino = ino + 1
    /\ \/ /\ NoFault /\ file[p] = l[p][Len(l[p])].after
          /\ file' = [file EXCEPT ![p] = x] /\ ino' = ino + 1
          /\ by' = [by EXCEPT ![p] = {s}]
          /\ op' = [op EXCEPT !.todo = @ \ {p}, !.wrote = Wrote(@, p, x)]
       \/ /\ NoFault \/ Fault
          /\ op' = [op EXCEPT !.todo = @ \ {p}, !.skipped = @ \cup {p}]
          /\ UNCHANGED <<file, ino, by>>
LEMMA RestoreFileIs ==
  ASSUME StoreTyped, Ordered, RestoreFile, NEW s \in Sessions, lease = s, NEW id \in Nat, op.id = id,
         NEW l, log[s] = l, NEW w, w = warn[s]
  PROVE  /\ op.pc = "files" /\ FileStep(s, l, w, id)
         /\ UNCHANGED <<lease, order, log, warn, unended, pend, journals, tx, up, active, needs>>
         /\ UNCHANGED <<maker, manual>>
<1>1. /\ UNCHANGED <<lease, order, log, warn, unended, pend, journals, tx, up, active, needs>>
      /\ UNCHANGED <<maker, manual>> /\ op.pc = "files"
  BY DEF RestoreFile, disk
<1>2. PICK p \in op.todo :
        LET c   == Since(s, id, p)
            new == [data |-> Desired(c).data, ino |-> ino + 1]
        IN \/ /\ file[p] = Expected(c) /\ NoFault
              /\ file' = [file EXCEPT ![p] = new] /\ ino' = ino + 1
              /\ by' = [by EXCEPT ![p] = {s}]
              /\ op' = [op EXCEPT !.todo = @ \ {p}, !.wrote = Wrote(@, p, new)]
           \/ /\ (file[p] # Expected(c) /\ NoFault) \/ Fault
              /\ op' = [op EXCEPT !.todo = @ \ {p}, !.skipped = @ \cup {p}]
              /\ UNCHANGED <<file, ino, by>>
  BY DEF RestoreFile
<1>3. p \in Paths /\ l \in [Paths -> Seq(Changes)] /\ ino \in Nat
  BY DEF StoreTyped, MemoryTyped, DiskTyped, WorkspaceTyped, Operations
<1>4. PICK k \in DOMAIN l[p] : SoundFrom(l, w, p, id, k)
  BY <1>1, <1>2 DEF Ordered, PlanSound
<1>5. PICK q, c : q = l[p] /\ c = Newer(q, id)
  OBVIOUS
<1>6. q \in Seq(Changes) /\ Ascending(q) /\ c = Since(s, id, p)
  BY <1>3, <1>5 DEF Since, Ordered, Lists, Listed
<1>7. Desired(c) = q[k].before /\ Expected(c) = q[Len(q)].after
  <2>1. Tails(q, id, c)
    BY <1>5, <1>6, Begins
  <2>2. StartsAt(q, id, k)
    BY <1>4, <1>5 DEF SoundFrom
  <2>3. QED
    BY <1>4, <1>5, <2>1, <2>2 DEF Tails
<1>8. PICK x : x = [data |-> q[k].before.data, ino |-> ino + 1]
  OBVIOUS
<1>9. x \in States
  <2>1. q[k] \in Changes
    BY <1>4, <1>5, <1>6, ChangeTypes
  <2>2. QED
    BY <1>3, <1>8, <2>1 DEF Changes, States
<1>10. \/ /\ NoFault /\ file[p] = q[Len(q)].after
          /\ file' = [file EXCEPT ![p] = x] /\ ino' = ino + 1 /\ by' = [by EXCEPT ![p] = {s}]
          /\ op' = [op EXCEPT !.todo = @ \ {p}, !.wrote = Wrote(@, p, x)]
       \/ /\ NoFault \/ Fault
          /\ op' = [op EXCEPT !.todo = @ \ {p}, !.skipped = @ \cup {p}]
          /\ UNCHANGED <<file, ino, by>>
  BY <1>2, <1>6, <1>7, <1>8
<1>11. x.data = q[k].before.data /\ x.ino = ino + 1
  BY <1>8
<1>12. QED
  BY <1>1, <1>3, <1>4, <1>5, <1>9, <1>10, <1>11 DEF FileStep

LEMMA WroteIs ==
  ASSUME op \in Operations, NEW p \in Paths, NEW x \in States,
         op' = [op EXCEPT !.todo = @ \ {p}, !.wrote = Wrote(@, p, x)]
  PROVE  /\ op'.pc = op.pc /\ op'.id = op.id /\ op'.failed = op.failed /\ op'.retain = op.retain
         /\ op'.recovering = op.recovering /\ op'.todo = op.todo \ {p} /\ op'.skipped = op.skipped
         /\ DOMAIN op'.wrote = {p} \cup DOMAIN op.wrote /\ op'.wrote[p] = x
         /\ \A q \in DOMAIN op.wrote : q # p => op'.wrote[q] = op.wrote[q]
<1>1. PICK w, v : w = op.wrote /\ v = Wrote(w, p, x)
  OBVIOUS
<1>2. w \in UNION {[D -> States] : D \in SUBSET Paths}
  BY <1>1 DEF Operations
<1>3. Puts(w, p, x, v)
  BY <1>1, <1>2, WrittenTyped
<1>4. op' = [op EXCEPT !.todo = op.todo \ {p}, !.wrote = v]
  BY <1>1
<1>5. /\ op'.pc = op.pc /\ op'.id = op.id /\ op'.failed = op.failed /\ op'.retain = op.retain
      /\ op'.recovering = op.recovering /\ op'.todo = op.todo \ {p} /\ op'.skipped = op.skipped
      /\ op'.wrote = v
  BY <1>4 DEF Operations
<1>6. QED
  BY <1>1, <1>3, <1>5 DEF Puts

LEMMA RestoreFileOrdered ==
  ASSUME StoreTyped, Ordered, RestoreFile
  PROVE  Ordered'
<1>1. op.pc = "files"
  BY DEF RestoreFile
<1>2. PICK s \in Sessions, id \in Nat : lease = s /\ op.id = id /\ active[s] = 0 /\ op \in Operations
  <2>1. lease \in Sessions /\ active[lease] = 0 /\ op \in Operations
    BY <1>1, HolderIs
  <2>2. op.id \in Nat
    BY <2>1, CheckpointsAssumption DEF Operations
  <2>3. QED
    BY <2>1, <2>2
<1>3. PICK l, w : log[s] = l /\ w = warn[s]
  OBVIOUS
<1>4. /\ FileStep(s, l, w, id)
      /\ UNCHANGED <<lease, order, log, warn, unended, pend, journals, tx, up, active, needs>>
  BY <1>2, <1>3, RestoreFileIs
<1>5. PICK p \in op.todo, x \in States : \E k \in DOMAIN l[p] :
              /\ p \in Paths /\ SoundFrom(l, w, p, id, k)
              /\ x.data = l[p][k].before.data
              /\ \/ /\ NoFault
                    /\ op' = [op EXCEPT !.todo = @ \ {p}, !.wrote = Wrote(@, p, x)]
                 \/ /\ NoFault \/ Fault
                    /\ op' = [op EXCEPT !.todo = @ \ {p}, !.skipped = @ \cup {p}]
  BY <1>4 DEF FileStep
<1>5k. PICK k \in DOMAIN l[p] :
              /\ p \in Paths /\ SoundFrom(l, w, p, id, k)
              /\ x.data = l[p][k].before.data
              /\ \/ /\ NoFault
                    /\ op' = [op EXCEPT !.todo = @ \ {p}, !.wrote = Wrote(@, p, x)]
                 \/ /\ NoFault \/ Fault
                    /\ op' = [op EXCEPT !.todo = @ \ {p}, !.skipped = @ \cup {p}]
  BY <1>5
<1>6. cut' = cut
  BY <1>5k DEF NoFault, Fault, budget
<1>7. Lists(s) /\ Required(s) /\ Stages /\ PlanSound
  BY DEF Ordered
<1>8. OnlyOf(s) /\ Lists(s)'
  BY <1>4, <1>6, <1>7 DEF OnlyOf, Lists
<1>9. /\ op'.pc = "files" /\ op'.id = id /\ op'.failed = op.failed
      /\ \/ /\ op'.todo = op.todo \ {p} /\ op'.skipped = op.skipped
            /\ DOMAIN op'.wrote = {p} \cup DOMAIN op.wrote /\ op'.wrote[p] = x
            /\ \A q \in DOMAIN op.wrote : q # p => op'.wrote[q] = op.wrote[q]
         \/ /\ op'.todo = op.todo \ {p} /\ op'.skipped = op.skipped \cup {p} /\ op'.wrote = op.wrote
  <2>1. CASE op' = [op EXCEPT !.todo = @ \ {p}, !.wrote = Wrote(@, p, x)]
    BY <1>1, <1>2, <1>5k, <2>1, WroteIs
  <2>2. CASE op' = [op EXCEPT !.todo = @ \ {p}, !.skipped = @ \cup {p}]
    BY <1>1, <1>2, <2>2 DEF Operations
  <2>3. QED
    BY <1>5k, <2>1, <2>2
<1>10. Required(s)'
  BY <1>1, <1>4, <1>7, <1>9 DEF Required
<1>11. Stages'
  BY <1>1, <1>2, <1>4, <1>7, <1>9 DEF Stages
<1>12. PlanSound'
  <2>1. /\ \A y \in w : id <= y.id => y.path \in op.skipped
        /\ \A q \in Paths : \A i \in DOMAIN l[q] :
             id <= l[q][i].id => q \in op.todo \cup DOMAIN op.wrote \cup op.skipped
        /\ \A q \in op.todo : \E i \in DOMAIN l[q] : SoundFrom(l, w, q, id, i)
        /\ \A q \in DOMAIN op.wrote :
             \E i \in DOMAIN l[q] : SoundFrom(l, w, q, id, i) /\ op.wrote[q].data = l[q][i].before.data
    BY <1>1, <1>2, <1>3, <1>7 DEF PlanSound
  <2>2. /\ \A y \in w : id <= y.id => y.path \in op'.skipped
        /\ \A q \in Paths : \A i \in DOMAIN l[q] :
             id <= l[q][i].id => q \in op'.todo \cup DOMAIN op'.wrote \cup op'.skipped
        /\ \A q \in op'.todo : \E i \in DOMAIN l[q] : SoundFrom(l, w, q, id, i)
    BY <1>9, <2>1
  <2>3. ASSUME NEW q \in DOMAIN op'.wrote
        PROVE  \E i \in DOMAIN l[q] : SoundFrom(l, w, q, id, i) /\ op'.wrote[q].data = l[q][i].before.data
    <3>1. CASE q \in DOMAIN op.wrote /\ op'.wrote[q] = op.wrote[q]
      BY <2>1, <3>1
    <3>2. CASE q = p /\ op'.wrote[p] = x
      BY <1>5k, <3>2
    <3>3. QED
      BY <1>9, <2>3, <3>1, <3>2
  <2>4. log'[lease'] = l /\ warn'[lease'] = w /\ op'.id = id
    BY <1>2, <1>3, <1>4, <1>9
  <2>5. QED
    BY <2>2, <2>3, <2>4 DEF PlanSound
<1>13. QED
  BY <1>2, <1>4, <1>6, <1>8, <1>10, <1>11, <1>12, HolderOrdered

\* What a restore leaves of the records of a path: all of them, or the ones before its
\* checkpoint, the last of which may end in what the restore wrote.
Shortened(l, id, d) ==
  /\ d \in Seq(Changes) /\ Len(d) \in 0..Len(l) /\ DOMAIN d = 1..Len(d)
  /\ \A k \in 1..Len(l) : Len(d) < k <=> id <= l[k].id
  /\ \A k \in DOMAIN d : d[k].id = l[k].id /\ d[k].before = l[k].before
  /\ \A k \in DOMAIN d : k # Len(d) => d[k].after = l[k].after
Committed(s, l, id, m) ==
  \A p \in Paths :
    /\ p \in op'.skipped => m[p] = l[p]
    /\ p \notin op'.skipped => Shortened(l[p], id, m[p])
    /\ p \notin op'.skipped /\ p \in DOMAIN op.wrote =>
         file[p] = op.wrote[p] /\ (m[p] # <<>> => m[p][Len(m[p])].after = file[p])
    /\ p \notin op'.skipped /\ p \notin DOMAIN op.wrote =>
         \A k \in DOMAIN m[p] : m[p][k].after = l[p][k].after

LEMMA CommitIs ==
  ASSUME StoreTyped, Commit, NEW s \in Sessions, lease = s, NEW id \in Nat, op.id = id,
         NEW l, log[s] = l, \A p \in Paths : Ascending(l[p])
  PROVE  /\ op.pc = "files" /\ op.todo = {}
         /\ op'.skipped = op.skipped \cup {p \in DOMAIN op.wrote : file[p] # op.wrote[p]}
         /\ \/ /\ NoFault /\ op' = [op EXCEPT !.pc = "apply", !.skipped = op'.skipped]
               /\ tx'[s].set = TRUE /\ tx'[s].warn = warn[s]
               /\ tx'[s].order = (IF op'.skipped = {} /\ op.retain = FALSE
                                  THEN {i \in order[s] : i < id} ELSE order[s])
               /\ Committed(s, l, id, tx'[s].log)
               /\ by' = [p \in Paths |-> IF p \in DOMAIN op.wrote /\ file[p] = op.wrote[p]
                                         THEN by[p] \cup {s} ELSE by[p]]
            \/ /\ Fault /\ UNCHANGED <<tx, by>>
               /\ op' = [op EXCEPT !.pc = "close", !.skipped = op'.skipped, !.failed = TRUE]
         /\ (\A t \in Sessions \ {s} : tx'[t] = tx[t])
         /\ UNCHANGED <<file, ino, lease, order, log, warn, unended, pend, journals, up, active, needs>>
         /\ UNCHANGED <<maker, manual>>
<1> DEFINE kept == {p \in DOMAIN op.wrote : file[p] = op.wrote[p]}
           skip == op.skipped \cup (DOMAIN op.wrote \ kept)
           left == IF skip = {} /\ ~op.retain THEN {i \in order[s] : i < op.id} ELSE order[s]
           new(p) == IF p \in skip THEN log[s][p]
                     ELSE IF p \in kept THEN Rebased(Before(s, op.id, p), op.wrote[p])
                     ELSE Before(s, op.id, p)
           lists  == [p \in Paths |-> new(p)]
           saved  == [set |-> TRUE, order |-> left, log |-> lists, warn |-> warn[s]]
<1>1. /\ UNCHANGED <<file, ino, lease, order, log, warn, unended, pend, journals, up, active, needs>>
      /\ UNCHANGED <<maker, manual>> /\ op.pc = "files" /\ op.todo = {}
  BY DEF Commit
<1>2. \/ /\ NoFault /\ op' = [op EXCEPT !.pc = "apply", !.skipped = skip]
         /\ tx' = [tx EXCEPT ![s] = saved]
         /\ by' = [p \in Paths |-> IF p \in kept THEN by[p] \cup {s} ELSE by[p]]
      \/ /\ Fault /\ UNCHANGED <<tx, by>>
         /\ op' = [op EXCEPT !.pc = "close", !.skipped = skip, !.failed = TRUE]
  BY DEF Commit
<1>3. /\ l \in [Paths -> Seq(Changes)] /\ op \in Operations /\ tx \in [Sessions -> Transactions]
      /\ op.retain \in BOOLEAN
  BY DEF StoreTyped, DiskTyped, MemoryTyped, Operations, Transactions
<1>4. /\ DOMAIN op.wrote \subseteq Paths /\ \A p \in DOMAIN op.wrote : op.wrote[p] \in States
  BY <1>3 DEF Operations
<1>5. /\ skip = op.skipped \cup {p \in DOMAIN op.wrote : file[p] # op.wrote[p]}
      /\ \A p : p \in kept <=> p \in DOMAIN op.wrote /\ file[p] = op.wrote[p]
      /\ \A p : p \notin skip /\ p \in DOMAIN op.wrote => p \in kept
  OBVIOUS
<1>6. op'.skipped = skip
  <2> HIDE DEF skip
  <2>1. QED
    BY <1>2, <1>3 DEF Operations
<1>7. left = (IF skip = {} /\ op.retain = FALSE THEN {i \in order[s] : i < id} ELSE order[s])
  BY <1>3
<1> HIDE DEF kept, skip
<1>8. ASSUME NEW p \in Paths, p \notin skip
      PROVE  /\ Shortened(l[p], id, new(p))
             /\ p \in kept /\ new(p) # <<>> => new(p)[Len(new(p))].after = op.wrote[p]
             /\ p \notin kept => \A k \in DOMAIN new(p) : new(p)[k].after = l[p][k].after
  <2>1. PICK q, n, b : q = l[p] /\ n = Older(q, id) /\ b = SubSeq(q, 1, n)
    OBVIOUS
  <2>2. q \in Seq(Changes) /\ Ascending(q) /\ b = Before(s, op.id, p)
    BY <1>3, <2>1 DEF Before
  <2>3. n \in 0..Len(q) /\ \A k \in 1..Len(q) : n < k <=> id <= q[k].id
    BY <2>1, <2>2, OlderIs
  <2>4. b \in Seq(Changes) /\ Len(b) = n /\ DOMAIN b = 1..n /\ \A k \in 1..n : b[k] = q[k]
    <3>1. Precedes(q, id, n, b)
      BY <2>1, <2>2, OlderOnes
    <3>2. QED
      BY <3>1 DEF Precedes
  <2>5. Shortened(q, id, b)
    BY <2>3, <2>4 DEF Shortened
  <2>6. CASE p \notin kept
    <3>1. new(p) = b
      BY <1>8, <2>2, <2>6
    <3> HIDE DEF new
    <3>2. QED
      BY <2>1, <2>4, <2>5, <2>6, <3>1
  <2>7. CASE p \in kept
    <3>1. op.wrote[p] \in States
      BY <1>4, <1>5, <2>7
    <3>2. PICK d, x : x = op.wrote[p] /\ d = Rebased(b, x)
      OBVIOUS
    <3>3. /\ d \in Seq(Changes) /\ Len(d) = Len(b) /\ DOMAIN d = DOMAIN b
          /\ \A k \in DOMAIN b : d[k].id = b[k].id /\ d[k].before = b[k].before
          /\ \A k \in DOMAIN b : d[k].after = IF k = Len(b) THEN x ELSE b[k].after
      BY <2>4, <3>1, <3>2, RebasedOnes
    <3>4. Shortened(q, id, d)
      BY <2>3, <2>4, <3>3 DEF Shortened
    <3>5. d # <<>> => d[Len(d)].after = x
      <4>1. d # <<>> => Len(d) \in Nat \ {0}
        BY <3>3, EmptySeq
      <4>2. QED
        BY <2>4, <3>3, <4>1
    <3>6. new(p) = d
      BY <1>8, <2>2, <2>7, <3>2
    <3> HIDE DEF new
    <3>7. QED
      BY <2>1, <2>7, <3>2, <3>4, <3>5, <3>6
  <2>8. QED
    BY <2>6, <2>7
<1>9. \A p \in Paths : p \in skip => new(p) = l[p]
  OBVIOUS
<1> HIDE DEF new, left
<1>10. ASSUME tx' = [tx EXCEPT ![s] = saved]
       PROVE  /\ tx'[s].set = TRUE /\ tx'[s].warn = warn[s] /\ tx'[s].order = left
              /\ Committed(s, l, id, tx'[s].log)
  <2>1. tx'[s] = saved
    BY <1>3, <1>10
  <2>2. /\ tx'[s].set = TRUE /\ tx'[s].warn = warn[s] /\ tx'[s].order = left
        /\ \A p \in Paths : tx'[s].log[p] = new(p)
    BY <2>1
  <2>3. Committed(s, l, id, tx'[s].log)
    <3>1. PICK m : m = tx'[s].log
      OBVIOUS
    <3>2. \A p \in Paths : m[p] = new(p)
      BY <2>2, <3>1
    <3> HIDE DEF saved
    <3>3. Committed(s, l, id, m)
      BY <1>5, <1>6, <1>8, <1>9, <3>2 DEF Committed
    <3>4. QED
      BY <3>1, <3>3
  <2>4. QED
    BY <2>2, <2>3
<1> HIDE DEF saved
<1>11. \A t \in Sessions \ {s} : tx'[t] = tx[t]
  BY <1>2, <1>3
<1>12. kept = {p \in DOMAIN op.wrote : file[p] = op.wrote[p]}
  BY DEF kept
<1>13. [p \in Paths |-> IF p \in kept THEN by[p] \cup {s} ELSE by[p]]
       = [p \in Paths |-> IF p \in DOMAIN op.wrote /\ file[p] = op.wrote[p]
                          THEN by[p] \cup {s} ELSE by[p]]
  BY <1>12
<1>14. QED
  BY <1>1, <1>2, <1>5, <1>6, <1>7, <1>10, <1>11, <1>13

LEMMA CommitOrdered ==
  ASSUME StoreTyped, Ordered, Commit
  PROVE  Ordered'
<1>1. op.pc = "files"
  BY DEF Commit
<1>2. PICK s \in Sessions, id \in Nat : lease = s /\ op.id = id /\ active[s] = 0 /\ op \in Operations
  <2>1. lease \in Sessions /\ active[lease] = 0 /\ op \in Operations
    BY <1>1, HolderIs
  <2>2. op.id \in Nat
    BY <2>1, CheckpointsAssumption DEF Operations
  <2>3. QED
    BY <2>1, <2>2
<1>3. Lists(s) /\ Required(s) /\ Stages /\ PlanSound
  BY DEF Ordered
<1>4. PICK l : log[s] = l
  OBVIOUS
<1>5. l \in [Paths -> Seq(Changes)] /\ order[s] \subseteq CheckpointIds /\ warn[s] \subseteq Warnings
  BY <1>4 DEF StoreTyped, DiskTyped
<1>6. \A p \in Paths : Ascending(l[p]) /\ \A k \in DOMAIN l[p] : l[p][k].id \in order[s]
  BY <1>3, <1>4 DEF Lists, Listed
<1>7. /\ op'.skipped = op.skipped \cup {p \in DOMAIN op.wrote : file[p] # op.wrote[p]}
      /\ \/ /\ NoFault /\ op' = [op EXCEPT !.pc = "apply", !.skipped = op'.skipped]
            /\ tx'[s].set = TRUE /\ tx'[s].warn = warn[s]
            /\ tx'[s].order = (IF op'.skipped = {} /\ op.retain = FALSE
                               THEN {i \in order[s] : i < id} ELSE order[s])
            /\ Committed(s, l, id, tx'[s].log)
         \/ /\ Fault /\ UNCHANGED <<tx, by>>
            /\ op' = [op EXCEPT !.pc = "close", !.skipped = op'.skipped, !.failed = TRUE]
      /\ (\A t \in Sessions \ {s} : tx'[t] = tx[t])
      /\ UNCHANGED <<lease, order, log, warn, unended, pend, journals, active, needs>>
  BY <1>2, <1>4, <1>6, CommitIs
<1>8. cut' = cut
  BY <1>7 DEF NoFault, Fault, budget
<1>9. OnlyOf(s)
  BY <1>7 DEF OnlyOf
<1>10. \/ /\ op'.pc = "apply" /\ op'.failed = op.failed /\ tx'[s].set = TRUE
          /\ Committed(s, l, id, tx'[s].log) /\ tx'[s].warn = warn[s]
          /\ tx'[s].order = (IF op'.skipped = {} /\ op.retain = FALSE
                             THEN {i \in order[s] : i < id} ELSE order[s])
       \/ op'.pc = "close" /\ op'.failed = TRUE /\ tx' = tx
  <2>1. PICK skip : skip = op'.skipped
    OBVIOUS
  <2>2. ASSUME op' = [op EXCEPT !.pc = "apply", !.skipped = skip]
        PROVE  op'.pc = "apply" /\ op'.failed = op.failed
    BY <1>2, <2>2 DEF Operations
  <2>3. ASSUME op' = [op EXCEPT !.pc = "close", !.skipped = skip, !.failed = TRUE]
        PROVE  op'.pc = "close" /\ op'.failed = TRUE
    BY <1>2, <2>3 DEF Operations
  <2>4. QED
    BY <1>7, <2>1, <2>2, <2>3
<1>11. ASSUME Committed(s, l, id, tx'[s].log), tx'[s].warn = warn[s],
              tx'[s].order = (IF op'.skipped = {} /\ op.retain = FALSE
                              THEN {i \in order[s] : i < id} ELSE order[s])
       PROVE  Listed(tx'[s].order, tx'[s].log, tx'[s].warn) /\ tx'[s].order \subseteq order[s]
  <2>1. PICK m, left : m = tx'[s].log /\ left = tx'[s].order
    OBVIOUS
  <2>2. left \subseteq order[s]
    BY <1>11, <2>1
  <2>3. \A x \in warn[s] : x.id \in left
    <3>1. CASE left = order[s]
      BY <1>3, <3>1 DEF Lists, Listed
    <3>2. CASE op'.skipped = {} /\ left = {i \in order[s] : i < id}
      <4>1. \A x \in warn[s] : id <= x.id => x.path \in op.skipped
        BY <1>1, <1>2, <1>3 DEF PlanSound
      <4>2. op.skipped = {}
        BY <1>7, <3>2
      <4>3. \A x \in warn[s] : x.id \in order[s] /\ x.id \in Nat
        BY <1>3, <1>5, CheckpointsAssumption DEF Lists, Listed, CheckpointIds
      <4>4. QED
        BY <3>2, <4>1, <4>2, <4>3
    <3>3. QED
      BY <1>11, <2>1, <3>1, <3>2
  <2>4. ASSUME NEW p \in Paths PROVE Ascending(m[p]) /\ \A k \in DOMAIN m[p] : m[p][k].id \in left
    <3>1. PICK q, d : q = l[p] /\ d = m[p]
      OBVIOUS
    <3>2. q \in Seq(Changes) /\ Ascending(q) /\ (\A k \in DOMAIN q : q[k].id \in order[s] /\ q[k].id \in Nat)
          /\ DOMAIN q = 1..Len(q) /\ Len(q) \in Nat
      BY <1>5, <1>6, <3>1, ChangeTypes
    <3>3. CASE p \in op'.skipped
      <4>1. d = q /\ left = order[s]
        BY <1>11, <2>1, <3>1, <3>3 DEF Committed
      <4>2. QED
        BY <3>1, <3>2, <4>1
    <3>4. CASE p \notin op'.skipped
      <4>1. Shortened(q, id, d)
        BY <1>11, <2>1, <3>1, <3>4 DEF Committed
      <4>2. /\ Len(d) \in 0..Len(q) /\ DOMAIN d = 1..Len(d)
            /\ \A k \in 1..Len(q) : Len(d) < k <=> id <= q[k].id
            /\ \A k \in DOMAIN d : d[k].id = q[k].id
        BY <4>1 DEF Shortened
      <4>3. \A k \in DOMAIN d : k \in DOMAIN q /\ q[k].id < id
        BY <3>2, <4>2
      <4>4. Ascending(d)
        BY <3>2, <4>2, <4>3 DEF Ascending
      <4>5. \A k \in DOMAIN d : d[k].id \in left
        BY <1>11, <2>1, <3>2, <4>2, <4>3
      <4>6. QED
        BY <3>1, <4>4, <4>5
    <3>5. QED
      BY <3>3, <3>4
  <2>5. QED
    BY <1>11, <2>1, <2>2, <2>3, <2>4 DEF Listed
<1>12. Lists(s)'
  <2>1. tx'[s].set = TRUE => Listed(tx'[s].order, tx'[s].log, tx'[s].warn) /\ tx'[s].order \subseteq order[s]
    BY <1>3, <1>10, <1>11 DEF Lists
  <2>2. QED
    BY <1>3, <1>7, <1>8, <2>1 DEF Lists
<1>13. Required(s)'
  BY <1>3, <1>7, <1>10 DEF Required
<1>14. Stages' /\ PlanSound'
  BY <1>2, <1>7, <1>10, <1>1, <1>3 DEF Stages, PlanSound
<1>15. QED
  BY <1>2, <1>7, <1>8, <1>9, <1>12, <1>13, <1>14, HolderOrdered

LEMMA CloseOrdered ==
  ASSUME StoreTyped, Ordered, Close
  PROVE  Ordered'
<1> DEFINE mine == Journal(op.id, op.retain, "open")
           hint == Journal(op.id, op.retain, "required")
<1>1. /\ UNCHANGED <<order, log, warn, unended, pend, tx, active>> /\ op.pc = "close"
  BY DEF Close
<1>2. PICK s \in Sessions : lease = s /\ active[s] = 0 /\ op \in Operations
  BY <1>1, HolderIs
<1>3. Lists(s) /\ Required(s) /\ Stages
  BY DEF Ordered
<1>4. /\ journals \in [Sessions -> SUBSET Journals] /\ needs \in [Sessions -> SUBSET CheckpointIds]
      /\ op.recovering \in BOOLEAN /\ op.failed \in BOOLEAN
  BY <1>2 DEF StoreTyped, DiskTyped, MemoryTyped, Operations
<1> DEFINE met  == {j \in journals[s] : j.id = op.id /\ j.phase = "required"}
           next == [NoOperation EXCEPT !.pc = "recover", !.why = op.why,
                                       !.target = op.target, !.keep = op.keep]
<1>5. next.pc = "recover" /\ next.id = 0 /\ next.failed = FALSE
  BY DEF NoOperation
<1> HIDE DEF next
<1>6. cut' = cut
  BY DEF Close, NoFault, Fault, budget
<1>7. CASE Release
  <2>1. op' = NoOperation /\ lease' = Nobody
    BY <1>7 DEF Release
  <2>2. Stages' /\ PlanSound'
    BY <2>1, IdleOrdered
  <2>3. Lists(s)' /\ Required(s)'
    BY <1>1, <1>3, <1>6, <2>1, CheckpointsAssumption DEF Lists, Required
  <2>4. OnlyOf(s)
    <3>1. \A t \in Sessions \ {s} : journals'[t] = journals[t]
      BY <1>2, <1>4 DEF Close
    <3>2. QED
      BY <1>1, <3>1 DEF OnlyOf
  <2>5. QED
    BY <1>1, <1>2, <1>6, <2>1, <2>2, <2>3, <2>4, HolderOrdered
<1>8. CASE ~Release
  <2>1. /\ op.id # 0 /\ op.recovering = TRUE /\ op' = next /\ lease' = s
        /\ journals' = [journals EXCEPT ![s] =
                    (@ \ ({mine} \cup IF Clean /\ ~op.recovering THEN met ELSE {}))
                       \cup (IF Asks THEN {hint} ELSE {})]
        /\ needs' = [needs EXCEPT ![s] =
                    IF Asks THEN @ \cup {op.id}
                    ELSE IF op.recovering \/ ~Clean THEN @ ELSE @ \ {op.id}]
    BY <1>2, <1>4, <1>8 DEF Close, Journal, next
  <2>2. OnlyOf(s)
    BY <1>1, <1>4, <2>1 DEF OnlyOf
  <2>3. CASE Asks
    <3>1. journals'[s] \subseteq journals[s] \cup {hint} /\ needs'[s] = needs[s] \cup {op.id}
      BY <1>4, <2>1, <2>3
    <3>2. hint.id = op.id
      BY DEF Journal
    <3> HIDE DEF hint
    <3>3. Required(s)'
      BY <1>1, <1>2, <1>3, <3>1, <3>2 DEF Required
    <3>4. Lists(s)' /\ Stages' /\ PlanSound'
      BY <1>1, <1>3, <1>5, <1>6, <2>1 DEF Lists, Stages, PlanSound
    <3>5. QED
      BY <1>1, <1>2, <1>6, <2>1, <2>2, <3>3, <3>4, HolderOrdered
  <2>4. CASE ~Asks
    <3>1. journals'[s] \subseteq journals[s] /\ needs'[s] = needs[s]
      BY <1>4, <2>1, <2>4
    <3>2. op.failed = FALSE
      BY <1>4, <2>4 DEF Asks
    <3>3. tx[s].set # TRUE
      BY <1>1, <1>2, <1>3, <2>1, <3>2 DEF Stages
    <3>4. Required(s)'
      BY <1>1, <1>2, <1>3, <3>1, <3>3 DEF Required
    <3>5. Lists(s)' /\ Stages' /\ PlanSound'
      BY <1>1, <1>3, <1>5, <1>6, <2>1 DEF Lists, Stages, PlanSound
    <3>6. QED
      BY <1>1, <1>2, <1>6, <2>1, <2>2, <3>4, <3>5, HolderOrdered
  <2>5. QED
    BY <2>3, <2>4
<1>9. QED
  BY <1>7, <1>8

-----------------------------------------------------------------------------
(* The invariant.                                                           *)

StoreInv == StoreTyped /\ Ordered

LEMMA StartOrdered == StoreInit => StoreInv
<1> SUFFICES ASSUME StoreInit PROVE StoreInv
  OBVIOUS
<1>1. <<>> \in Seq(Changes) /\ DOMAIN <<>> = {}
  OBVIOUS
<1>2. WorkspaceTyped
  BY CheckpointsAssumption DEF StoreInit, WorkspaceTyped, States, Contents
<1>3. DiskTyped
  <2>1. tx \in [Sessions -> Transactions]
    BY EmptyTyped DEF StoreInit
  <2>2. log \in [Sessions -> [Paths -> Seq(Changes)]]
    BY <1>1 DEF StoreInit
  <2>3. QED
    BY <2>1, <2>2 DEF StoreInit, DiskTyped, Transactions
<1>4. MemoryTyped /\ BudgetTyped
  BY EmptyTyped, CheckpointsAssumption DEF StoreInit, MemoryTyped, BudgetTyped
<1>5. Leased /\ Room
  BY CheckpointsAssumption DEF StoreInit, Leased, Room, NoOperation
<1>6. Stages /\ PlanSound
  BY DEF StoreInit, NoOperation, Stages, PlanSound
<1>7. ASSUME NEW s \in Sessions PROVE Lists(s) /\ InTurn(s) /\ Required(s)
  <2>1. /\ order[s] = {} /\ warn[s] = {} /\ tx[s] = NoTx /\ tx[s].set = FALSE /\ active[s] = 0
        /\ journals[s] = {} /\ \A p \in Paths : log[s][p] = <<>>
    BY DEF StoreInit, NoTx
  <2>2. Listed(order[s], log[s], warn[s])
    BY <1>1, <2>1 DEF Listed, Ascending
  <2>3. QED
    BY <2>1, <2>2 DEF Lists, InTurn, Required
<1>8. QED
  BY <1>2, <1>3, <1>4, <1>5, <1>6, <1>7 DEF StoreInv, StoreTyped, Ordered

\* The types of the steps that depend on the order of the lists.
LEMMA RestTyped ==
  ASSUME StoreInv
  PROVE  (Begin \/ RestoreFile \/ Commit) => StoreTyped'
<1>1. StoreTyped /\ Ordered
  BY DEF StoreInv
<1>2. ASSUME op.pc # "idle"
      PROVE  (\A p \in Paths : Ascending(log[lease][p])) /\ \A i \in order[lease] : i <= cut
  <2>1. lease \in Sessions /\ order[lease] \subseteq CheckpointIds /\ cut \in Nat
    BY <1>1, <1>2, HolderIs DEF StoreTyped, BudgetTyped
  <2>2. Lists(lease)
    BY <1>1, <2>1 DEF Ordered
  <2>3. QED
    BY <2>1, <2>2 DEF Lists, Listed
<1>3. CASE Begin
  <2>1. op.pc # "idle"
    BY <1>3 DEF Begin, Recovered
  <2>2. QED
    BY <1>1, <1>2, <1>3, <2>1, BeginTyped
<1>4. CASE Commit
  <2>1. op.pc # "idle"
    BY <1>4 DEF Commit
  <2>2. QED
    BY <1>1, <1>2, <1>4, <2>1, CommitTyped
<1>5. CASE RestoreFile
  <2>1. op.pc = "files"
    BY <1>5 DEF RestoreFile
  <2>2. lease \in Sessions /\ log[lease] \in [Paths -> Seq(Changes)] /\ op \in Operations
    BY <1>1, <2>1, HolderIs
  <2>3. op.id \in Nat /\ op.todo \subseteq Paths
    BY <2>2, CheckpointsAssumption DEF Operations
  <2>4. ASSUME NEW p \in op.todo
        PROVE  \E c \in Seq(Changes) : c # <<>> /\ c = Since(lease, op.id, p)
    <3>1. PICK k \in DOMAIN log[lease][p] : SoundFrom(log[lease], warn[lease], p, op.id, k)
      BY <1>1, <2>1 DEF Ordered, PlanSound
    <3>2. PICK q, c : q = log[lease][p] /\ c = Newer(q, op.id)
      OBVIOUS
    <3>3. q \in Seq(Changes) /\ Ascending(q)
      BY <1>2, <2>1, <2>2, <2>3, <3>2
    <3>4. c \in Seq(Changes) /\ Tails(q, op.id, c)
      BY <2>3, <3>2, <3>3, Begins
    <3>5. k \in DOMAIN q /\ StartsAt(q, op.id, k)
      BY <3>1, <3>2 DEF SoundFrom
    <3>6. c # <<>>
      BY <3>4, <3>5 DEF Tails
    <3>7. QED
      BY <3>2, <3>4, <3>6 DEF Since
  <2>5. QED
    BY <1>1, <1>5, <2>4, RestoreFileTyped
<1>6. QED
  BY <1>3, <1>4, <1>5

LEMMA StepOrdered == StoreInv /\ [StoreNext]_storeVars => StoreInv'
<1> SUFFICES ASSUME StoreTyped, Ordered, [StoreNext]_storeVars PROVE StoreTyped' /\ Ordered'
  BY DEF StoreInv
<1>1. ASSUME Manual PROVE StoreTyped' /\ Ordered'
  BY <1>1, ManualTyped, ManualOrdered
<1>2. ASSUME StoreStep PROVE StoreTyped' /\ Ordered'
  <2>1. CASE Recover
    BY <2>1, RecoverTyped, RecoverOrdered
  <2>2. CASE Begin
    BY <2>2, RestTyped, BeginOrdered DEF StoreInv
  <2>3. CASE Decline
    BY <2>3, DeclineTyped, DeclineOrdered
  <2>4. CASE Go
    BY <2>4, GoTyped, GoOrdered
  <2>5. CASE Compact
    BY <2>5, CompactTyped, CompactOrdered
  <2>6. CASE PlanRestore
    BY <2>6, PlanRestoreTyped, PlanRestoreOrdered
  <2>7. CASE RestoreFile
    BY <2>7, RestTyped, RestoreFileOrdered DEF StoreInv
  <2>8. CASE Commit
    BY <2>8, RestTyped, CommitOrdered DEF StoreInv
  <2>9. CASE Apply
    BY <2>9, ApplyTyped, ApplyOrdered
  <2>10. CASE Close
    BY <2>10, CloseTyped, CloseOrdered
  <2>11. QED
    BY <1>2, <2>1, <2>2, <2>3, <2>4, <2>5, <2>6, <2>7, <2>8, <2>9, <2>10 DEF StoreStep
<1>3. ASSUME NEW s \in Sessions, TurnStep(s) PROVE StoreTyped' /\ Ordered'
  BY <1>3, PreTyped, PreOrdered, ToolWritesTyped, ToolWritesOrdered, PostTyped, PostOrdered,
     FinishTyped, FinishOrdered DEF TurnStep
<1>4. ASSUME NEW s \in Sessions, OpenStore(s) PROVE StoreTyped' /\ Ordered'
  BY <1>4, OpenStoreTyped, OpenStoreOrdered
<1>5. ASSUME NEW s \in Sessions, ProcessEnds(s) PROVE StoreTyped' /\ Ordered'
  BY <1>5, ProcessEndsTyped, ProcessEndsOrdered
<1>6. ASSUME NEW s \in Sessions, AskBegin(s) PROVE StoreTyped' /\ Ordered'
  BY <1>6, AskBeginTyped, AskBeginOrdered
<1>7. ASSUME NEW s \in Sessions, AskRestore(s) PROVE StoreTyped' /\ Ordered'
  BY <1>7, AskRestoreTyped, AskRestoreOrdered
<1>8. ASSUME NEW s \in Sessions, AskCompact(s) PROVE StoreTyped' /\ Ordered'
  BY <1>8, AskCompactTyped, AskCompactOrdered
<1>9. ASSUME UNCHANGED storeVars PROVE StoreTyped' /\ Ordered'
  <2>1. /\ UNCHANGED <<file, ino, lease, order, log, warn, unended, pend, journals, tx>>
        /\ UNCHANGED <<up, active, needs, op, by, maker, manual>>
        /\ UNCHANGED <<cut, writes, others, restores, storeFaults>>
    BY <1>9 DEF storeVars, disk, memory, ghost, budget
  <2>2. Ordered'
    BY <2>1, QuietOrdered
  <2>3. StoreTyped'
    BY <2>1 DEF StoreTyped, WorkspaceTyped, DiskTyped, MemoryTyped, BudgetTyped, Leased, Room
  <2>4. QED
    BY <2>2, <2>3
<1>10. QED
  BY <1>1, <1>2, <1>3, <1>4, <1>5, <1>6, <1>7, <1>8, <1>9 DEF StoreNext

\* The lists, transactions, journals and plans of the checkpoints of every session stay in
\* order, whatever ends, fails or is asked for.
THEOREM StoreInOrder == StoreSpec => []StoreInv
BY StartOrdered, StepOrdered, PTL DEF StoreSpec

\* The variables of the model keep their types.
THEOREM StoreTypes == StoreSpec => []StoreTypeOK
<1>1. StoreInv => StoreTypeOK
  <2> SUFFICES ASSUME StoreInv PROVE StoreTypeOK
    OBVIOUS
  <2>1. WorkspaceTyped /\ DiskTyped /\ MemoryTyped /\ BudgetTyped /\ Leased
    BY DEF StoreInv, StoreTyped
  <2>2. /\ op.pc \in {"idle", "recover", "plan", "files", "apply", "close"}
        /\ op.todo \subseteq Paths /\ DOMAIN op.wrote \subseteq Paths
        /\ op.skipped \subseteq Paths \cup {Unknown}
        /\ {op.target, op.id} \subseteq 0..MaxCut
    BY <2>1 DEF MemoryTyped, Operations
  <2>3. \A s \in Sessions : lease = s => up[s] /\ (active[s] # 0) = (op.pc = "idle")
    BY <2>1 DEF Leased
  <2>4. /\ tx \in [Sessions -> [set : BOOLEAN, order : SUBSET CheckpointIds,
                                log : [Paths -> Seq(Changes)], warn : SUBSET Warnings]]
        /\ order \in [Sessions -> SUBSET CheckpointIds] /\ unended \in [Sessions -> SUBSET CheckpointIds]
        /\ log \in [Sessions -> [Paths -> Seq(Changes)]] /\ warn \in [Sessions -> SUBSET Warnings]
    BY <2>1 DEF DiskTyped
  <2>5. \A s \in Sessions :
          /\ pend[s] \subseteq [id : CheckpointIds, path : Paths, before : States]
          /\ journals[s] \subseteq [id : CheckpointIds, retain : BOOLEAN, phase : {"open", "required"}]
    BY <2>1 DEF DiskTyped, OpenCalls, Journals
  <2>6. QED
    BY <2>1, <2>2, <2>3, <2>4, <2>5 DEF StoreTypeOK, WorkspaceTyped, MemoryTyped, BudgetTyped, Leased
<1>2. QED
  BY <1>1, StoreInOrder, PTL

\* No turn begins, or goes on, over a restore that is half done.
THEOREM TurnsBeginWhole == StoreSpec => []NoTurnOverHalfUndone
<1>1. StoreInv => NoTurnOverHalfUndone
  <2> SUFFICES ASSUME StoreInv, NEW s \in Sessions, active[s] # 0 PROVE journals[s] = {} /\ ~tx[s].set
    BY DEF NoTurnOverHalfUndone
  <2>1. InTurn(s)
    BY DEF StoreInv, Ordered
  <2>2. QED
    BY <2>1 DEF InTurn
<1>2. QED
  BY <1>1, StoreInOrder, PTL

-----------------------------------------------------------------------------
(* What a session has on record of a file.                                  *)

\* A recorded state is not newer than the last write, and a file that is in one belongs to
\* the session that recorded it.
Known(s, l) ==
  \A p \in Paths : \A k \in DOMAIN l[p] :
    l[p][k].after.ino <= ino /\ (file[p] = l[p][k].after => s \in by[p])
Seen ==
  /\ \A p \in Paths : file[p].ino <= ino
  /\ \A s \in Sessions : Known(s, log[s]) /\ Known(s, tx[s].log)

\* A file is left alone, or gets a new identity; a record is an old one, or what the file is.
Moved ==
  /\ ino' \in {ino, ino + 1}
  /\ \A p \in Paths : \/ file'[p] = file[p] /\ by[p] \subseteq by'[p]
                      \/ file'[p].ino = ino + 1 /\ ino' = ino + 1
Derived(s, l, m) ==
  \A p \in Paths : \A k \in DOMAIN m[p] :
    \/ \E i \in DOMAIN l[p] : m[p][k].after = l[p][i].after
    \/ m[p][k].after = file[p] /\ file'[p] = file[p] /\ s \in by'[p]

LEMMA DerivedKnown ==
  ASSUME NEW s \in Sessions, NEW l \in [Paths -> Seq(Changes)], NEW m, Known(s, l), Moved,
         Derived(s, l, m), ino \in Nat, file \in [Paths -> States], \A p \in Paths : file[p].ino <= ino
  PROVE  Known(s, m)'
<1> SUFFICES ASSUME NEW p \in Paths, NEW k \in DOMAIN m[p]
             PROVE  m[p][k].after.ino <= ino' /\ (file'[p] = m[p][k].after => s \in by'[p])
  BY DEF Known
<1>1. ino' \in Nat /\ ino <= ino' /\ file[p].ino \in Nat
  BY DEF Moved, States
<1>2. CASE m[p][k].after = file[p] /\ file'[p] = file[p] /\ s \in by'[p]
  BY <1>1, <1>2
<1>3. CASE \E i \in DOMAIN l[p] : m[p][k].after = l[p][i].after
  <2>1. PICK i \in DOMAIN l[p] : m[p][k].after = l[p][i].after
    BY <1>3
  <2>2. PICK x : x = l[p][i].after
    OBVIOUS
  <2>3. x \in States /\ x.ino \in Nat
    <3>1. l[p] \in Seq(Changes)
      OBVIOUS
    <3>2. l[p][i] \in Changes
      BY <3>1, ChangeTypes
    <3>3. QED
      BY <2>2, <3>2 DEF Changes, States
  <2>4. x.ino <= ino /\ (file[p] = x => s \in by[p])
    BY <2>2 DEF Known
  <2>5. file'[p] = x => s \in by'[p]
    BY <1>1, <2>3, <2>4 DEF Moved
  <2>6. QED
    BY <1>1, <2>1, <2>2, <2>3, <2>4, <2>5
<1>4. QED
  BY <1>2, <1>3 DEF Derived

LEMMA StepSeen ==
  ASSUME StoreTyped, Seen, Moved,
         \A t \in Sessions : \A m \in {log'[t], tx'[t].log} :
           \E l \in {log[t], tx[t].log} : Derived(t, l, m)
  PROVE  Seen'
<1>1. /\ ino \in Nat /\ file \in [Paths -> States] /\ \A p \in Paths : file[p].ino <= ino
      /\ \A t \in Sessions : log[t] \in [Paths -> Seq(Changes)] /\ tx[t].log \in [Paths -> Seq(Changes)]
  BY DEF StoreTyped, WorkspaceTyped, DiskTyped, Seen
<1>2. ASSUME NEW p \in Paths PROVE file'[p].ino <= ino'
  BY <1>1 DEF Moved, States
<1>3. ASSUME NEW t \in Sessions, NEW m \in {log'[t], tx'[t].log} PROVE Known(t, m)'
  <2>1. PICK l \in {log[t], tx[t].log} : Derived(t, l, m)
    BY <1>3
  <2>2. Known(t, l) /\ l \in [Paths -> Seq(Changes)]
    BY <1>1 DEF Seen
  <2>3. QED
    BY <1>1, <2>1, <2>2, DerivedKnown
<1>4. ASSUME NEW t \in Sessions PROVE Known(t, log[t])' /\ Known(t, tx[t].log)'
  <2>1. PICK m, n : m = log'[t] /\ n = tx'[t].log
    OBVIOUS
  <2>2. Known(t, m)' /\ Known(t, n)'
    BY <1>3, <2>1
  <2>3. QED
    BY <2>1, <2>2 DEF Known
<1>5. QED
  BY <1>2, <1>4 DEF Seen

LEMMA SameDerived ==
  ASSUME NEW s, NEW l
  PROVE  Derived(s, l, l)
BY DEF Derived

LEMMA QuietSeen ==
  ASSUME StoreTyped, Seen, Moved, UNCHANGED <<log, tx>>
  PROVE  Seen'
<1>1. ASSUME NEW t \in Sessions, NEW m \in {log'[t], tx'[t].log}
      PROVE  \E l \in {log[t], tx[t].log} : Derived(t, l, m)
  BY SameDerived
<1>2. QED
  BY <1>1, StepSeen

LEMMA WritesSeen ==
  ASSUME StoreTyped, Seen, NEW x \in States, x.ino = ino + 1, ino' = ino + 1, NEW p \in Paths,
         file' = [file EXCEPT ![p] = x], NEW b, by' = [by EXCEPT ![p] = b], UNCHANGED <<log, tx>>
  PROVE  Seen'
<1>1. Moved
  BY DEF StoreTyped, WorkspaceTyped, Moved
<1>2. QED
  BY <1>1, QuietSeen

LEMMA ToolWritesSeen ==
  ASSUME StoreTyped, Seen, NEW s \in Sessions, ToolWrites(s)
  PROVE  Seen'
<1>1. PICK p \in Paths : /\ file' = [file EXCEPT ![p] = [data |-> writes + 1, ino |-> ino + 1]]
                         /\ by' = [by EXCEPT ![p] = {}]
  BY DEF ToolWrites
<1>2. writes < MaxWrites /\ ino' = ino + 1 /\ UNCHANGED <<log, tx>>
  BY DEF ToolWrites, disk
<1>3. writes \in Nat /\ ino \in Nat
  BY DEF StoreTyped, WorkspaceTyped, BudgetTyped
<1>4. PICK x : x = [data |-> writes + 1, ino |-> ino + 1]
  OBVIOUS
<1>5. x \in States /\ x.ino = ino + 1
  BY <1>2, <1>3, <1>4, CheckpointsAssumption DEF States, Contents
<1>6. QED
  BY <1>1, <1>2, <1>4, <1>5, WritesSeen

LEMMA ManualSeen ==
  ASSUME StoreTyped, Seen, Manual
  PROVE  Seen'
<1>1. PICK p \in Paths :
        /\ file' = [file EXCEPT ![p] = [data |-> MaxWrites + others + 1, ino |-> ino + 1]]
        /\ by' = [by EXCEPT ![p] = {}]
  BY DEF Manual
<1>2. others < MaxManual /\ ino' = ino + 1 /\ UNCHANGED <<log, tx>>
  BY DEF Manual, disk
<1>3. others \in Nat /\ ino \in Nat
  BY DEF StoreTyped, WorkspaceTyped, BudgetTyped
<1>4. PICK x : x = [data |-> MaxWrites + others + 1, ino |-> ino + 1]
  OBVIOUS
<1>5. x \in States /\ x.ino = ino + 1
  BY <1>2, <1>3, <1>4, CheckpointsAssumption DEF States, Contents
<1>6. QED
  BY <1>1, <1>2, <1>4, <1>5, WritesSeen

LEMMA RestoreFileSeen ==
  ASSUME StoreTyped, Ordered, Seen, RestoreFile
  PROVE  Seen'
<1>1. op.pc = "files"
  BY DEF RestoreFile
<1>2. PICK s \in Sessions, id \in Nat : lease = s /\ op.id = id
  <2>1. lease \in Sessions /\ op \in Operations
    BY <1>1, HolderIs
  <2>2. op.id \in Nat
    BY <2>1, CheckpointsAssumption DEF Operations
  <2>3. QED
    BY <2>1, <2>2
<1>2l. PICK l, w : log[s] = l /\ w = warn[s]
  OBVIOUS
<1>3. FileStep(s, l, w, id) /\ UNCHANGED <<log, tx>>
  BY <1>2, <1>2l, RestoreFileIs
<1>4. PICK p \in Paths, x \in States :
        /\ x.ino = ino + 1
        /\ \/ file' = [file EXCEPT ![p] = x] /\ ino' = ino + 1 /\ by' = [by EXCEPT ![p] = {s}]
           \/ UNCHANGED <<file, ino, by>>
  BY <1>3 DEF FileStep
<1>5. CASE file' = [file EXCEPT ![p] = x] /\ ino' = ino + 1 /\ by' = [by EXCEPT ![p] = {s}]
  BY <1>3, <1>4, <1>5, WritesSeen
<1>6. CASE UNCHANGED <<file, ino, by>>
  BY <1>3, <1>6, QuietSeen DEF Moved
<1>7. QED
  BY <1>4, <1>5, <1>6

LEMMA PostSeen ==
  ASSUME StoreTyped, Ordered, Seen, NEW s \in Sessions, Post(s)
  PROVE  Seen'
<1>1. UNCHANGED <<file, ino, tx>>
  BY DEF Post
<1>2. PICK r \in pend[s] :
        \/ UNCHANGED <<log, by>>
        \/ /\ log' = [log EXCEPT ![s][r.path] =
                  Append(@, [id |-> r.id, before |-> r.before, after |-> file[r.path]])]
           /\ by' = [by EXCEPT ![r.path] = @ \cup {s}]
  BY DEF Post
<1>3. /\ log \in [Sessions -> [Paths -> Seq(Changes)]] /\ by \in [Paths -> SUBSET Sessions]
      /\ r.path \in Paths
  BY DEF StoreTyped, WorkspaceTyped, DiskTyped, OpenCalls
<1>4. Moved
  BY <1>1, <1>2, <1>3 DEF Moved
<1>5. CASE UNCHANGED <<log, by>>
  BY <1>1, <1>4, <1>5, QuietSeen
<1>6. CASE /\ log' = [log EXCEPT ![s][r.path] =
                Append(@, [id |-> r.id, before |-> r.before, after |-> file[r.path]])]
           /\ by' = [by EXCEPT ![r.path] = @ \cup {s}]
  <2>1. ASSUME NEW t \in Sessions PROVE Derived(t, log[t], log'[t])
    <3>1. SUFFICES ASSUME NEW p \in Paths, NEW k \in DOMAIN log'[t][p]
                   PROVE  \/ \E i \in DOMAIN log[t][p] : log'[t][p][k].after = log[t][p][i].after
                          \/ log'[t][p][k].after = file[p] /\ file'[p] = file[p] /\ t \in by'[p]
      BY DEF Derived
    <3>2. CASE log'[t][p] = log[t][p]
      BY <3>1, <3>2
    <3>3. CASE log'[t][p] # log[t][p]
      <4>1. t = s /\ p = r.path
        BY <1>3, <1>6, <3>3
      <4>2. PICK q, c : q = log[s][p] /\ c = [id |-> r.id, before |-> r.before, after |-> file[r.path]]
        OBVIOUS
      <4>3. log'[t][p] = Append(q, c) /\ q \in Seq(Changes) /\ c.after = file[p]
        BY <1>3, <1>6, <4>1, <4>2
      <4>4. k \in 1..(Len(q) + 1) /\ DOMAIN q = 1..Len(q) /\ Len(q) \in Nat
            /\ (\A i \in 1..Len(q) : Append(q, c)[i] = q[i]) /\ Append(q, c)[Len(q) + 1] = c
        BY <4>3
      <4>5. t \in by'[p]
        BY <1>3, <1>6, <4>1
      <4>6. CASE k = Len(q) + 1
        BY <1>1, <4>3, <4>4, <4>5, <4>6
      <4>7. CASE k # Len(q) + 1
        <5>1. k \in DOMAIN q /\ log'[t][p][k] = q[k]
          BY <4>3, <4>4, <4>7
        <5>2. QED
          BY <4>1, <4>2, <5>1
      <4>8. QED
        BY <4>6, <4>7
    <3>4. QED
      BY <3>2, <3>3
  <2>2. ASSUME NEW t \in Sessions, NEW m \in {log'[t], tx'[t].log}
        PROVE  \E l \in {log[t], tx[t].log} : Derived(t, l, m)
    BY <1>1, <2>1, <2>2, SameDerived
  <2>3. QED
    BY <1>4, <2>2, StepSeen
<1>7. QED
  BY <1>2, <1>5, <1>6

LEMMA AcquireSeen ==
  ASSUME StoreTyped, Seen, NEW s \in Sessions, NEW request, Acquire(s, request),
         UNCHANGED <<file, ino, by>>
  PROVE  Seen'
<1>1. /\ log' = [log EXCEPT ![s] = IF tx[s].set THEN tx[s].log ELSE @]
      /\ tx' = [tx EXCEPT ![s] = NoTx]
  BY DEF Acquire
<1>2. log \in [Sessions -> [Paths -> Seq(Changes)]] /\ tx \in [Sessions -> Transactions]
  BY DEF StoreTyped, DiskTyped, Transactions
<1>3. ASSUME NEW t \in Sessions, NEW m \in {log'[t], tx'[t].log}
      PROVE  \E l \in {log[t], tx[t].log} : Derived(t, l, m)
  <2>1. CASE m \in {log[t], tx[t].log}
    BY <2>1, SameDerived
  <2>2. CASE m \notin {log[t], tx[t].log}
    <3>1. m = NoTx.log
      BY <1>1, <1>2, <1>3, <2>2
    <3>2. \A p \in Paths : m[p] = <<>> /\ DOMAIN m[p] = {}
      BY <3>1 DEF NoTx
    <3>3. Derived(t, log[t], m)
      BY <3>2 DEF Derived
    <3>4. QED
      BY <3>3
  <2>3. QED
    BY <2>1, <2>2
<1>4. Moved
  BY DEF Moved
<1>5. QED
  BY <1>3, <1>4, StepSeen

LEMMA ApplySeen ==
  ASSUME StoreTyped, Seen, Apply
  PROVE  Seen'
<1>1. UNCHANGED <<file, ino, by>>
  BY DEF Apply, ghost
<1>2. lease \in Sessions
  <2>1. op.pc = "apply"
    BY DEF Apply
  <2>2. QED
    BY <2>1, HolderIs
<1>3. \/ log' = [log EXCEPT ![lease] = tx[lease].log] /\ tx' = [tx EXCEPT ![lease] = NoTx]
      \/ UNCHANGED <<log, tx>>
  BY DEF Apply
<1>4. log \in [Sessions -> [Paths -> Seq(Changes)]] /\ tx \in [Sessions -> Transactions]
  BY DEF StoreTyped, DiskTyped, Transactions
<1>5. ASSUME NEW t \in Sessions, NEW m \in {log'[t], tx'[t].log}
      PROVE  \E l \in {log[t], tx[t].log} : Derived(t, l, m)
  <2>1. CASE m \in {log[t], tx[t].log}
    BY <2>1, SameDerived
  <2>2. CASE m \notin {log[t], tx[t].log}
    <3>1. m = NoTx.log
      BY <1>2, <1>3, <1>4, <1>5, <2>2
    <3>2. \A p \in Paths : m[p] = <<>> /\ DOMAIN m[p] = {}
      BY <3>1 DEF NoTx
    <3>3. Derived(t, log[t], m)
      BY <3>2 DEF Derived
    <3>4. QED
      BY <3>3
  <2>3. QED
    BY <2>1, <2>2
<1>6. Moved
  BY <1>1 DEF Moved
<1>7. QED
  BY <1>5, <1>6, StepSeen

\* The step of one session that changes only one of its two lists.
LEMMA OneSeen ==
  ASSUME StoreTyped, Seen, Moved, NEW s \in Sessions, \A t \in Sessions \ {s} : log'[t] = log[t] /\ tx'[t] = tx[t],
         \/ Derived(s, log[s], log'[s]) /\ tx'[s] = tx[s]
         \/ Derived(s, log[s], tx'[s].log) /\ log'[s] = log[s]
  PROVE  Seen'
<1>1. ASSUME NEW t \in Sessions, NEW m \in {log'[t], tx'[t].log}
      PROVE  \E l \in {log[t], tx[t].log} : Derived(t, l, m)
  <2>1. CASE m \in {log[t], tx[t].log}
    BY <2>1, SameDerived
  <2>2. CASE m \notin {log[t], tx[t].log}
    <3>1. t = s
      BY <1>1, <2>2
    <3>2. Derived(s, log[s], m)
      BY <1>1, <2>2, <3>1
    <3>3. QED
      BY <3>1, <3>2
  <2>3. QED
    BY <2>1, <2>2
<1>2. QED
  BY <1>1, StepSeen

LEMMA BeginSeen ==
  ASSUME StoreTyped, Ordered, Seen, Begin
  PROVE  Seen'
<1>1. op.pc = "recover"
  BY DEF Begin, Recovered
<1>2. PICK s \in Sessions : lease = s
  BY <1>1, HolderIs
<1>3. (\A p \in Paths : Ascending(log[s][p])) /\ \A i \in order[s] : i <= cut
  <2>1. cut \in Nat /\ Lists(s) /\ order[s] \subseteq CheckpointIds
    BY DEF Ordered, StoreTyped, BudgetTyped, DiskTyped
  <2>2. QED
    BY <2>1 DEF Lists, Listed
<1>4. /\ (\E kept, first : Renewed(s, kept, first)) /\ OnlyOf(s)
      /\ UNCHANGED <<file, ino, tx, by>>
  BY <1>2, <1>3, BeginIs
<1>5. PICK first : \A p \in Paths : \E n \in Nat : Splits(log[s][p], first, n, log'[s][p])
  BY <1>4 DEF Renewed
<1>6. Derived(s, log[s], log'[s])
  <2>1. SUFFICES ASSUME NEW p \in Paths, NEW k \in DOMAIN log'[s][p]
                 PROVE  \E i \in DOMAIN log[s][p] : log'[s][p][k].after = log[s][p][i].after
    BY DEF Derived
  <2>2. PICK n \in Nat : Splits(log[s][p], first, n, log'[s][p])
    BY <1>5
  <2>3. PICK l, c : l = log[s][p] /\ c = log'[s][p]
    OBVIOUS
  <2>4. DOMAIN l = 1..Len(l) /\ Len(l) \in Nat
    <3>1. l \in Seq(Changes)
      BY <2>3 DEF StoreTyped, DiskTyped
    <3>2. QED
      BY <3>1
  <2>5. n \in 0..Len(l) /\ k \in 1..(Len(l) - n) /\ c[k] = l[n + k]
    BY <2>2, <2>3 DEF Splits
  <2>6. n + k \in DOMAIN l
    BY <2>4, <2>5
  <2>7. QED
    BY <2>3, <2>5, <2>6
<1>7. QED
  BY <1>4, <1>6, OneSeen DEF Moved, OnlyOf

LEMMA CompactSeen ==
  ASSUME StoreTyped, Seen, Compact
  PROVE  Seen'
<1>1. PICK s \in Sessions : lease = s
  <2>1. op.pc = "recover"
    BY DEF Compact, Recovered
  <2>2. QED
    BY <2>1, HolderIs
<1>2. /\ \E kept, newest :
              /\ Hides(s, kept, newest)
              /\ \/ NoFault /\ op' = [op EXCEPT !.pc = "apply"] /\ Compacted(s, kept, newest)
                 \/ Fault /\ op' = [op EXCEPT !.pc = "close"] /\ UNCHANGED tx
      /\ (\A t \in Sessions \ {s} : tx'[t] = tx[t])
      /\ UNCHANGED <<file, ino, log, by>>
  BY <1>1, CompactIs
<1>3. PICK kept, newest : Compacted(s, kept, newest) \/ UNCHANGED tx
  BY <1>2
<1>4. Moved
  BY <1>2 DEF Moved
<1>5. CASE UNCHANGED tx
  BY <1>2, <1>4, <1>5, QuietSeen
<1>6. CASE Compacted(s, kept, newest)
  <2>1. Derived(s, log[s], tx'[s].log)
    <3>1. SUFFICES ASSUME NEW p \in Paths, NEW k \in DOMAIN tx'[s].log[p]
                   PROVE  \E i \in DOMAIN log[s][p] : tx'[s].log[p][k].after = log[s][p][i].after
      BY DEF Derived
    <3>2. CASE kept = {}
      <4>1. tx'[s].log[p] = <<>> /\ DOMAIN <<>> = {}
        BY <1>6, <3>2 DEF Compacted
      <4>2. QED
        BY <3>1, <4>1
    <3>3. CASE kept # {}
      <4>1. FoldsTo(log[s][p], tx'[s].log[p], order[s] \ kept, newest)
        BY <1>6, <3>3 DEF Compacted
      <4>2. QED
        BY <4>1 DEF FoldsTo
    <3>4. QED
      BY <3>2, <3>3
  <2>2. QED
    BY <1>2, <1>4, <2>1, OneSeen
<1>7. QED
  BY <1>3, <1>5, <1>6

LEMMA CommitSeen ==
  ASSUME StoreTyped, Ordered, Seen, Commit
  PROVE  Seen'
<1>1. op.pc = "files"
  BY DEF Commit
<1>2. PICK s \in Sessions, id \in Nat : lease = s /\ op.id = id
  <2>1. lease \in Sessions /\ op \in Operations
    BY <1>1, HolderIs
  <2>2. op.id \in Nat
    BY <2>1, CheckpointsAssumption DEF Operations
  <2>3. QED
    BY <2>1, <2>2
<1>3. PICK l : log[s] = l
  OBVIOUS
<1>4. \A p \in Paths : Ascending(l[p])
  BY <1>3 DEF Ordered, Lists, Listed
<1>5. /\ \/ /\ Committed(s, l, id, tx'[s].log)
            /\ by' = [p \in Paths |-> IF p \in DOMAIN op.wrote /\ file[p] = op.wrote[p]
                                      THEN by[p] \cup {s} ELSE by[p]]
         \/ UNCHANGED <<tx, by>>
      /\ (\A t \in Sessions \ {s} : tx'[t] = tx[t])
      /\ UNCHANGED <<file, ino, log>>
  BY <1>2, <1>3, <1>4, CommitIs
<1>6. CASE UNCHANGED <<tx, by>>
  BY <1>5, <1>6, QuietSeen DEF Moved
<1>7. CASE /\ Committed(s, l, id, tx'[s].log)
           /\ by' = [p \in Paths |-> IF p \in DOMAIN op.wrote /\ file[p] = op.wrote[p]
                                      THEN by[p] \cup {s} ELSE by[p]]
  <2>1. Moved
    BY <1>5, <1>7 DEF Moved
  <2>2. Derived(s, l, tx'[s].log)
    <3>1. PICK m : m = tx'[s].log
      OBVIOUS
    <3>2. SUFFICES ASSUME NEW p \in Paths, NEW k \in DOMAIN m[p]
                   PROVE  \/ \E i \in DOMAIN l[p] : m[p][k].after = l[p][i].after
                          \/ m[p][k].after = file[p] /\ file'[p] = file[p] /\ s \in by'[p]
      BY <3>1 DEF Derived
    <3>3. CASE p \in op'.skipped
      <4>1. m[p] = l[p]
        BY <1>7, <3>1, <3>3 DEF Committed
      <4>2. QED
        BY <4>1
    <3>4. CASE p \notin op'.skipped
      <4>1. Shortened(l[p], id, m[p])
        BY <1>7, <3>1, <3>4 DEF Committed
      <4>2. PICK q, d : q = l[p] /\ d = m[p]
        OBVIOUS
      <4>3. q \in Seq(Changes) /\ DOMAIN q = 1..Len(q) /\ Len(q) \in Nat
        <5>1. q \in Seq(Changes)
          BY <1>3, <4>2 DEF StoreTyped, DiskTyped
        <5>2. QED
          BY <5>1
      <4>4. /\ Len(d) \in 0..Len(q) /\ DOMAIN d = 1..Len(d)
            /\ \A i \in DOMAIN d : i # Len(d) => d[i].after = q[i].after
        BY <4>1, <4>2 DEF Shortened
      <4>5. k \in DOMAIN q
        BY <3>2, <4>2, <4>3, <4>4
      <4>6. CASE p \notin DOMAIN op.wrote
        BY <1>7, <3>1, <3>4, <4>5, <4>2, <4>6 DEF Committed
      <4>7. CASE p \in DOMAIN op.wrote
        <5>1. file[p] = op.wrote[p] /\ (d # <<>> => d[Len(d)].after = file[p])
          BY <1>7, <3>1, <3>4, <4>2, <4>7 DEF Committed
        <5>2. s \in by'[p] /\ file'[p] = file[p]
          BY <1>5, <1>7, <4>7, <5>1
        <5>3. d # <<>>
          BY <3>2, <4>2, <4>3, <4>4
        <5>4. QED
          BY <3>2, <4>2, <4>4, <4>5, <5>1, <5>2, <5>3
      <4>8. QED
        BY <4>6, <4>7
    <3>5. QED
      BY <3>3, <3>4
  <2>3. QED
    BY <1>3, <1>5, <2>1, <2>2, OneSeen
<1>8. QED
  BY <1>5, <1>6, <1>7

LEMMA StepsSeen == StoreInv /\ Seen /\ [StoreNext]_storeVars => Seen'
<1> SUFFICES ASSUME StoreTyped, Ordered, Seen, [StoreNext]_storeVars PROVE Seen'
  BY DEF StoreInv
<1>1. ASSUME UNCHANGED <<file, ino, by, log, tx>> PROVE Seen'
  BY <1>1, QuietSeen DEF Moved
<1>2. ASSUME Manual PROVE Seen'
  BY <1>2, ManualSeen
<1>3. ASSUME StoreStep PROVE Seen'
  <2>1. CASE Recover \/ Decline \/ Go \/ PlanRestore \/ Close
    BY <1>1, <2>1 DEF Recover, Decline, Go, PlanRestore, Close, disk, ghost
  <2>2. CASE Begin \/ Compact \/ RestoreFile \/ Commit \/ Apply
    BY <2>2, BeginSeen, CompactSeen, RestoreFileSeen, CommitSeen, ApplySeen
  <2>3. QED
    BY <1>3, <2>1, <2>2 DEF StoreStep
<1>4. ASSUME NEW s \in Sessions, TurnStep(s) PROVE Seen'
  <2>1. CASE Pre(s) \/ Finish(s)
    BY <1>1, <2>1 DEF Pre, Finish, ghost
  <2>2. CASE ToolWrites(s) \/ Post(s)
    BY <2>2, ToolWritesSeen, PostSeen
  <2>3. QED
    BY <1>4, <2>1, <2>2 DEF TurnStep
<1>5. ASSUME NEW s \in Sessions, NEW request, Acquire(s, request), UNCHANGED <<file, ino, by>>
      PROVE  Seen'
  BY <1>5, AcquireSeen
<1>6. ASSUME NEW s \in Sessions, AskBegin(s) \/ AskRestore(s) \/ AskCompact(s) PROVE Seen'
  <2>1. UNCHANGED <<file, ino, by>>
    BY <1>6 DEF AskBegin, AskRestore, AskCompact, ghost
  <2>2. \E request : Acquire(s, request)
    BY <1>6 DEF AskBegin, AskRestore, AskCompact
  <2>3. QED
    BY <1>5, <2>1, <2>2
<1>7. ASSUME NEW s \in Sessions, OpenStore(s) PROVE Seen'
  <2>1. UNCHANGED <<file, ino, by>>
    BY <1>7 DEF OpenStore, ghost
  <2>2. (\E request : Acquire(s, request)) \/ UNCHANGED <<log, tx>>
    BY <1>7 DEF OpenStore
  <2>3. QED
    BY <1>1, <1>5, <2>1, <2>2
<1>8. ASSUME NEW s \in Sessions, ProcessEnds(s) PROVE Seen'
  BY <1>1, <1>8 DEF ProcessEnds, disk, ghost
<1>9. ASSUME UNCHANGED storeVars PROVE Seen'
  BY <1>1, <1>9 DEF storeVars, disk, ghost
<1>10. QED
  BY <1>2, <1>3, <1>4, <1>6, <1>7, <1>8, <1>9 DEF StoreNext

LEMMA StartSeen == StoreInit => Seen
<1> SUFFICES ASSUME StoreInit PROVE Seen
  OBVIOUS
<1>1. DOMAIN <<>> = {}
  OBVIOUS
<1>2. \A s \in Sessions, p \in Paths : log[s][p] = <<>> /\ tx[s].log[p] = <<>>
  BY DEF StoreInit, NoTx
<1>3. \A p \in Paths : file[p].ino <= ino
  BY DEF StoreInit
<1>4. QED
  BY <1>1, <1>2, <1>3 DEF Seen, Known

\* A recorded state never is in a file that somebody else has written since.
THEOREM RecordsAreOwn == StoreSpec => []Seen
<1>1. StoreInit => Seen
  BY StartSeen
<1>2. StoreInv /\ Seen /\ [StoreNext]_storeVars => Seen'
  BY StepsSeen
<1>3. QED
  BY <1>1, <1>2, StoreInOrder, PTL DEF StoreSpec

\* A restore writes a file only over a state that its session has on record.
THEOREM OwnStateIsReplaced == StoreSpec => OnlyOwnStateIsReplaced
<1> DEFINE Own == \A p \in Paths : RestoreFile /\ file'[p] # file[p] => lease \in by[p]
<1>1. StoreInv /\ Seen => Own
  <2> SUFFICES ASSUME StoreTyped, Ordered, Seen, NEW p \in Paths, RestoreFile, file'[p] # file[p]
               PROVE  lease \in by[p]
    BY DEF StoreInv
  <2>1. PICK s \in Sessions, id \in Nat : lease = s /\ op.id = id
    <3>1. op.pc = "files"
      BY DEF RestoreFile
    <3>2. lease \in Sessions /\ op \in Operations
      BY <3>1, HolderIs
    <3>3. op.id \in Nat
      BY <3>2, CheckpointsAssumption DEF Operations
    <3>4. QED
      BY <3>2, <3>3
  <2>2. PICK l, w : log[s] = l /\ w = warn[s]
    OBVIOUS
  <2>3. FileStep(s, l, w, id)
    BY <2>1, <2>2, RestoreFileIs
  <2>4. PICK q \in Paths, x \in States : \E k \in DOMAIN l[q] :
          \/ file[q] = l[q][Len(l[q])].after /\ file' = [file EXCEPT ![q] = x]
          \/ UNCHANGED file
    BY <2>3 DEF FileStep
  <2>5. file \in [Paths -> States] /\ l \in [Paths -> Seq(Changes)]
    BY <2>2 DEF StoreTyped, WorkspaceTyped, DiskTyped
  <2>6. q = p /\ file[p] = l[p][Len(l[p])].after /\ l[p] \in Seq(Changes) /\ DOMAIN l[p] # {}
    BY <2>4, <2>5
  <2>7. Len(l[p]) \in DOMAIN l[p]
    <3>1. DOMAIN l[p] = 1..Len(l[p]) /\ Len(l[p]) \in Nat
      BY <2>6
    <3>2. QED
      BY <2>6, <3>1
  <2>8. Known(s, l)
    BY <2>2 DEF Seen
  <2>9. QED
    BY <2>1, <2>6, <2>7, <2>8 DEF Known
<1>2. StoreSpec => [][Own]_storeVars
  <2> HIDE DEF Own
  <2>1. QED
    BY <1>1, StoreInOrder, RecordsAreOwn, PTL DEF StoreSpec
<1>3. QED
  BY <1>2 DEF OnlyOwnStateIsReplaced

-----------------------------------------------------------------------------
(* What a session has on record fits its files.                             *)

\* A file fits a list when it is in the state the last change left, in the one before the
\* changes of the last checkpoint, or in the one a restore that is still open goes back to.
Leads(l, k) == \A i \in DOMAIN l : k <= i => l[i].id = l[k].id
Fit(x, js, o, l, w, p) ==
  \/ x = l[p][Len(l[p])].after
  \/ \E k \in DOMAIN l[p] : x.data = l[p][k].before.data /\ Leads(l[p], k)
  \/ \E j \in js : j.id \in o /\ Undone(l, w, p, j.id, x)
Fits(own, f, js, o, l, w) == \A p \in own : DOMAIN l[p] # {} => Fit(f[p], js, o, l, w, p)
Own(s) == {p \in Paths : s \in by[p]}
Over(s) == lease = s /\ op.pc = "files"
Pending(s) == lease = s /\ tx[s].set = TRUE /\ op.pc = "apply" /\ op.id # 0
Applied(s) == lease = s /\ op.pc = "close" /\ op.id # 0 /\ op.failed = FALSE
Recorded(s) ==
  /\ Fits(Own(s), file, journals[s], order[s], log[s], warn[s])
  /\ tx[s].set = TRUE /\ ~Over(s) =>
       Fits(Own(s), file, journals[s], tx[s].order, tx[s].log, tx[s].warn)
  /\ Pending(s) =>
       Fits(Own(s), file, journals[s], tx[s].order \ {op.id}, tx[s].log, tx[s].warn)
  /\ Applied(s) =>
       Fits(Own(s), file, journals[s], order[s] \ {op.id}, log[s], warn[s])

\* The calls that never ended are older than a restore that is open or under way.
Ended(s) ==
  \A j \in journals[s], i \in unended[s] \cap order[s] : j.id \in order[s] => i < j.id
Closing ==
  op.pc \in {"files", "apply", "close"} /\ op.id # 0 =>
    \A i \in unended[lease] \cap order[lease] : i < op.id
\* The files of a restore under way: its journal is open, and a file is in the state the
\* restore goes back to only by its doing.
Redoing ==
  op.pc = "files" =>
    /\ Journal(op.id, op.retain, "open") \in journals[lease]
    /\ \A p \in op.skipped : p \notin op.todo \cup DOMAIN op.wrote
    /\ \A p \in op.todo : p \notin DOMAIN op.wrote
    /\ \A p \in Own(lease) : Undone(log[lease], warn[lease], p, op.id, file[p]) =>
         p \in DOMAIN op.wrote /\ file[p] = op.wrote[p]
RecordsInv == Closing /\ Redoing /\ \A s \in Sessions : Ended(s) /\ Recorded(s)

\* Fits holds on when no journal is lost and no warning stands in the way of one.
LEMMA FitsOn ==
  ASSUME NEW own, NEW own2, NEW f, NEW f2, \A p \in own2 : p \in own /\ f2[p] = f[p],
         NEW js, NEW js2, NEW o, NEW o2, NEW l, NEW w, NEW w2,
         \A j \in js : j.id \in o => \E i \in js2 : i.id = j.id /\ j.id \in o2,
         \A j \in js, p \in own : j.id \in o /\ Warned(w2, p, j.id) => Warned(w, p, j.id),
         Fits(own, f, js, o, l, w)
  PROVE  Fits(own2, f2, js2, o2, l, w2)
<1> SUFFICES ASSUME NEW p \in own2, DOMAIN l[p] # {} PROVE Fit(f2[p], js2, o2, l, w2, p)
  BY DEF Fits
<1>1. Fit(f2[p], js, o, l, w, p) /\ p \in own
  BY DEF Fits
<1>2. ASSUME NEW j \in js, j.id \in o, Undone(l, w, p, j.id, f2[p])
      PROVE  Undone(l, w2, p, j.id, f2[p])
  BY <1>1, <1>2 DEF Undone, SoundFrom
<1>3. QED
  BY <1>1, <1>2 DEF Fit

LEMMA FitsLess ==
  ASSUME NEW own, NEW f, NEW js, NEW o, NEW o2, o2 \subseteq o, NEW l, NEW w,
         Fits(own, f, js, o2, l, w)
  PROVE  Fits(own, f, js, o, l, w)
BY DEF Fits, Fit

\* A step that leaves a session's records and the states of its files as they are.
LEMMA RecordedOn ==
  ASSUME NEW t \in Sessions, Lists(t), Recorded(t),
         order'[t] = order[t], log'[t] = log[t], tx'[t] = tx[t],
         \A p \in Own(t)' : p \in Own(t) /\ file'[p] = file[p],
         \A j \in journals[t] : j.id \in order[t] => \E i \in journals'[t] : i.id = j.id,
         \A j \in journals[t], x \in warn'[t] :
           x \in warn[t] \/ (j.id \in order[t] => ~(j.id <= x.id)),
         tx[t].set = TRUE /\ ~Over(t)' => ~Over(t),
         Pending(t)' => Pending(t) /\ op'.id = op.id,
         Applied(t)' => Applied(t) /\ op'.id = op.id
  PROVE  Recorded(t)'
<1>1. \A j \in journals[t], p \in Own(t) :
        j.id \in order[t] /\ Warned(warn'[t], p, j.id) => Warned(warn[t], p, j.id)
  BY DEF Warned
<1>2. tx[t].set = TRUE => tx[t].order \subseteq order[t]
  BY DEF Lists
<1>3. Fits(Own(t)', file', journals'[t], order'[t], log'[t], warn'[t])
  <2>1. Fits(Own(t), file, journals[t], order[t], log[t], warn[t])
    BY DEF Recorded
  <2>2. QED
    BY <1>1, <2>1, FitsOn
<1>4. ASSUME tx[t].set = TRUE, ~Over(t)'
      PROVE  Fits(Own(t)', file', journals'[t], tx[t].order, tx[t].log, tx[t].warn)
  <2>1. Fits(Own(t), file, journals[t], tx[t].order, tx[t].log, tx[t].warn)
    BY <1>4 DEF Recorded
  <2>2. \A j \in journals[t] : j.id \in tx[t].order => \E i \in journals'[t] : i.id = j.id /\ j.id \in tx[t].order
    BY <1>2, <1>4
  <2>3. QED
    BY <2>1, <2>2, FitsOn
<1>5. ASSUME Pending(t)'
      PROVE  Fits(Own(t)', file', journals'[t], tx[t].order \ {op.id}, tx[t].log, tx[t].warn)
  <2>1. Fits(Own(t), file, journals[t], tx[t].order \ {op.id}, tx[t].log, tx[t].warn)
        /\ tx[t].set = TRUE
    BY <1>5 DEF Recorded, Pending
  <2>2. \A j \in journals[t] : j.id \in tx[t].order \ {op.id} =>
          \E i \in journals'[t] : i.id = j.id /\ j.id \in tx[t].order \ {op.id}
    BY <1>2, <2>1
  <2>3. QED
    BY <2>1, <2>2, FitsOn
<1>6. ASSUME Applied(t)'
      PROVE  Fits(Own(t)', file', journals'[t], order[t] \ {op.id}, log[t], warn'[t])
  <2>1. Fits(Own(t), file, journals[t], order[t] \ {op.id}, log[t], warn[t])
    BY <1>6 DEF Recorded
  <2>2. \A j \in journals[t] : j.id \in order[t] \ {op.id} =>
          \E i \in journals'[t] : i.id = j.id /\ j.id \in order[t] \ {op.id}
    OBVIOUS
  <2>3. \A j \in journals[t], p \in Own(t) :
        j.id \in order[t] \ {op.id} /\ Warned(warn'[t], p, j.id) => Warned(warn[t], p, j.id)
    BY <1>1
  <2>4. QED
    BY <2>1, <2>2, <2>3, FitsOn
<1>7. QED
  BY <1>3, <1>4, <1>5, <1>6 DEF Recorded

LEMMA EndedOn ==
  ASSUME NEW t \in Sessions, Ended(t), order'[t] \subseteq order[t],
         unended'[t] \cap order'[t] \subseteq unended[t],
         \A i \in journals'[t] : \E j \in journals[t] : j.id = i.id
  PROVE  Ended(t)'
BY DEF Ended

\* A step of one session does not touch the records of the others.
LEMMA OthersRecorded ==
  ASSUME StoreTyped, Ordered, RecordsInv, NEW s \in Sessions, OnlyOf(s), lease \in {s, Nobody},
         lease' \in {s, Nobody}, NEW t \in Sessions \ {s},
         \A p \in Own(t)' : p \in Own(t) /\ file'[p] = file[p]
  PROVE  Ended(t)' /\ Recorded(t)'
<1>1. lease # t /\ lease' # t
  BY CheckpointsAssumption
<1>2. Lists(t) /\ Recorded(t) /\ Ended(t)
  BY DEF Ordered, RecordsInv
<1>3. /\ order'[t] = order[t] /\ log'[t] = log[t] /\ warn'[t] = warn[t] /\ unended'[t] = unended[t]
      /\ journals'[t] = journals[t] /\ tx'[t] = tx[t]
  BY DEF OnlyOf
<1>4. Ended(t)'
  BY <1>2, <1>3, EndedOn
<1>5. ~Over(t) /\ ~Pending(t)' /\ ~Applied(t)'
  BY <1>1 DEF Over, Pending, Applied
<1>6. Recorded(t)'
  BY <1>2, <1>3, <1>5, RecordedOn
<1>7. QED
  BY <1>4, <1>6

\* No operation is under way.
LEMMA IdleRecords ==
  ASSUME op' = NoOperation
  PROVE  Closing' /\ Redoing' /\ \A t \in Sessions : ~Over(t)' /\ ~Pending(t)' /\ ~Applied(t)'
BY DEF NoOperation, Closing, Redoing, Over, Pending, Applied

\* A step during a turn: there is no journal and no transaction, and only what is recorded
\* now of a path, if anything, is new.
LEMMA TurnRecorded ==
  ASSUME StoreTyped, Ordered, RecordsInv, NEW s \in Sessions, active[s] # 0, OnlyOf(s),
         lease' \in {s, Nobody}, op' = op,
         UNCHANGED <<order, journals, tx>>, unended'[s] \subseteq unended[s],
         \A t \in Sessions : \A p \in Own(t)' : p \in Own(t) \/ t = s,
         \A p \in Own(s)' :
           \/ DOMAIN log'[s][p] # {} => file'[p] = log'[s][p][Len(log'[s][p])].after
           \/ p \in Own(s) /\ file'[p] = file[p] /\ log'[s][p] = log[s][p],
         \A t \in Sessions \ {s} : \A p \in Own(t) : p \in Own(t)' => file'[p] = file[p]
  PROVE  RecordsInv'
<1>1. lease = s /\ op = NoOperation /\ journals[s] = {} /\ tx[s].set = FALSE
  BY TurnHolds
<1>2. Closing' /\ Redoing' /\ \A t \in Sessions : ~Over(t)' /\ ~Pending(t)' /\ ~Applied(t)'
  BY <1>1, IdleRecords
<1>3. ASSUME NEW t \in Sessions \ {s} PROVE Ended(t)' /\ Recorded(t)'
  BY <1>1, OthersRecorded
<1>4. Ended(s)'
  BY <1>1 DEF Ended
<1>5. Fits(Own(s), file, {}, order[s], log[s], warn[s])
  BY <1>1 DEF RecordsInv, Recorded
<1>6. Fits(Own(s)', file', {}, order'[s], log'[s], warn'[s])
  <2>1. SUFFICES ASSUME NEW p \in Own(s)', DOMAIN log'[s][p] # {}
                 PROVE  Fit(file'[p], {}, order'[s], log'[s], warn'[s], p)
    BY DEF Fits
  <2>2. CASE file'[p] = log'[s][p][Len(log'[s][p])].after
    BY <2>2 DEF Fit
  <2>3. CASE p \in Own(s) /\ file'[p] = file[p] /\ log'[s][p] = log[s][p]
    <3>1. Fit(file[p], {}, order[s], log[s], warn[s], p)
      BY <1>5, <2>1, <2>3 DEF Fits
    <3>2. QED
      BY <2>3, <3>1 DEF Fit
  <2>4. QED
    BY <2>1, <2>2, <2>3
<1>7. Recorded(s)'
  BY <1>1, <1>2, <1>6 DEF Recorded
<1>8. QED
  BY <1>2, <1>3, <1>4, <1>7 DEF RecordsInv

LEMMA PreRecorded ==
  ASSUME StoreTyped, Ordered, RecordsInv, NEW s \in Sessions, Pre(s)
  PROVE  RecordsInv'
<1>1. /\ active[s] # 0 /\ UNCHANGED <<file, lease, order, log, unended, journals, tx, op, by>>
      /\ \A t \in Sessions \ {s} : warn'[t] = warn[t] /\ pend'[t] = pend[t]
  BY DEF Pre, memory, ghost, StoreTyped, DiskTyped
<1>2. lease = s
  BY <1>1, TurnHolds
<1>3. OnlyOf(s)
  BY <1>1 DEF OnlyOf
<1>4. \A t \in Sessions : Own(t)' = Own(t)
  BY <1>1 DEF Own
<1>5. QED
  BY <1>1, <1>2, <1>3, <1>4, TurnRecorded

LEMMA ToolWritesRecorded ==
  ASSUME StoreTyped, Ordered, RecordsInv, NEW s \in Sessions, ToolWrites(s)
  PROVE  RecordsInv'
<1>1. /\ active[s] # 0 /\ UNCHANGED <<lease, order, log, warn, unended, pend, journals, tx, op>>
      /\ \E q \in Paths : \E x : file' = [file EXCEPT ![q] = x] /\ by' = [by EXCEPT ![q] = {}]
  BY DEF ToolWrites, memory, disk
<1>2. lease = s
  BY <1>1, TurnHolds
<1>3. OnlyOf(s)
  BY <1>1 DEF OnlyOf
<1>4. \A t \in Sessions : \A p \in Own(t)' : p \in Own(t) /\ file'[p] = file[p]
  BY <1>1 DEF Own, StoreTyped, WorkspaceTyped
<1>5. QED
  BY <1>1, <1>2, <1>3, <1>4, TurnRecorded

LEMMA PostRecorded ==
  ASSUME StoreTyped, Ordered, RecordsInv, NEW s \in Sessions, Post(s)
  PROVE  RecordsInv'
<1>1. /\ active[s] # 0 /\ UNCHANGED <<file, lease, order, unended, journals, tx, op>>
      /\ \A t \in Sessions \ {s} : warn'[t] = warn[t] /\ pend'[t] = pend[t] /\ log'[t] = log[t]
  BY DEF Post, memory, StoreTyped, DiskTyped
<1>2. lease = s
  BY <1>1, TurnHolds
<1>3. OnlyOf(s)
  BY <1>1 DEF OnlyOf
<1>4. /\ log \in [Sessions -> [Paths -> Seq(Changes)]] /\ by \in [Paths -> SUBSET Sessions]
      /\ pend[s] \subseteq OpenCalls
  BY DEF StoreTyped, WorkspaceTyped, DiskTyped
<1>5. /\ \A t \in Sessions : \A p \in Own(t)' : p \in Own(t) \/ t = s
      /\ \A p \in Own(s)' :
           \/ DOMAIN log'[s][p] # {} => file'[p] = log'[s][p][Len(log'[s][p])].after
           \/ p \in Own(s) /\ file'[p] = file[p] /\ log'[s][p] = log[s][p]
  <2>1. CASE UNCHANGED <<log, by>>
    BY <1>1, <2>1 DEF Own
  <2>2. CASE \E r \in pend[s] :
               /\ log' = [log EXCEPT ![s][r.path] =
                            Append(@, [id |-> r.id, before |-> r.before, after |-> file[r.path]])]
               /\ by' = [by EXCEPT ![r.path] = @ \cup {s}]
    <3>1. PICK r \in pend[s] :
               /\ log' = [log EXCEPT ![s][r.path] =
                            Append(@, [id |-> r.id, before |-> r.before, after |-> file[r.path]])]
               /\ by' = [by EXCEPT ![r.path] = @ \cup {s}]
      BY <2>2
    <3>2. PICK q, c, l : q = r.path /\ l = log[s][q]
                         /\ c = [id |-> r.id, before |-> r.before, after |-> file[r.path]]
      OBVIOUS
    <3>3. q \in Paths /\ l \in Seq(Changes)
      BY <1>4, <3>2 DEF OpenCalls
    <3>4. log'[s][q] = Append(l, c) /\ \A p \in Paths \ {q} : log'[s][p] = log[s][p]
      BY <1>4, <3>1, <3>2, <3>3
    <3>5. Len(Append(l, c)) = Len(l) + 1 /\ Append(l, c)[Len(l) + 1] = c
      BY <3>3
    <3>6. file'[q] = c.after
      BY <1>1, <3>2
    <3>7. \A t \in Sessions : \A p \in Paths : t \in by'[p] => t \in by[p] \/ (p = q /\ t = s)
      BY <1>4, <3>1, <3>2, <3>3
    <3>8. \A p \in Own(s)' : p = q \/ (p \in Own(s) /\ log'[s][p] = log[s][p])
      BY <3>4, <3>7 DEF Own
    <3>9. file'[q] = log'[s][q][Len(log'[s][q])].after
      BY <3>4, <3>5, <3>6
    <3>10. \A t \in Sessions : \A p \in Own(t)' : p \in Own(t) \/ t = s
      BY <3>7 DEF Own
    <3>11. QED
      BY <1>1, <3>8, <3>9, <3>10
  <2>3. QED
    BY <2>1, <2>2 DEF Post
<1>6. QED
  BY <1>1, <1>2, <1>3, <1>5, TurnRecorded

LEMMA FinishRecorded ==
  ASSUME StoreTyped, Ordered, RecordsInv, NEW s \in Sessions, Finish(s)
  PROVE  RecordsInv'
<1>1. /\ active[s] # 0 /\ lease' = Nobody /\ UNCHANGED <<file, order, log, journals, tx, op, by>>
  BY DEF Finish, ghost
<1>2. lease = s
  BY <1>1, TurnHolds
<1>3. /\ unended'[s] \subseteq unended[s]
      /\ \A t \in Sessions \ {s} : warn'[t] = warn[t] /\ unended'[t] = unended[t] /\ pend'[t] = pend[t]
  BY DEF Finish, EndCalls, StoreTyped, DiskTyped
<1>4. OnlyOf(s)
  BY <1>1, <1>3 DEF OnlyOf
<1>5. \A t \in Sessions : Own(t)' = Own(t)
  BY <1>1 DEF Own
<1>6. QED
  BY <1>1, <1>2, <1>3, <1>4, <1>5, TurnRecorded

\* Somebody else writes a file: it no longer is anybody's.
LEMMA ManualRecorded ==
  ASSUME StoreTyped, Ordered, RecordsInv, Manual
  PROVE  RecordsInv'
<1>1. /\ UNCHANGED <<lease, order, log, warn, unended, pend, journals, tx, op>>
      /\ \E q \in Paths : \E x : file' = [file EXCEPT ![q] = x] /\ by' = [by EXCEPT ![q] = {}]
  BY DEF Manual, memory, disk
<1>2. \A t \in Sessions : \A p \in Own(t)' : p \in Own(t) /\ file'[p] = file[p]
  BY <1>1 DEF Own, StoreTyped, WorkspaceTyped
<1>3. ASSUME NEW t \in Sessions PROVE Ended(t)' /\ Recorded(t)'
  <2>1. Lists(t) /\ Recorded(t) /\ Ended(t)
    BY DEF Ordered, RecordsInv
  <2>2. Over(t)' = Over(t) /\ Pending(t)' = Pending(t) /\ Applied(t)' = Applied(t)
    BY <1>1 DEF Over, Pending, Applied
  <2>3. Ended(t)'
    BY <1>1, <2>1, EndedOn
  <2>4. Recorded(t)'
    BY <1>1, <1>2, <2>1, <2>2, RecordedOn
  <2>5. QED
    BY <2>3, <2>4
<1>4. Closing'
  BY <1>1 DEF RecordsInv, Closing
<1>5. Redoing'
  <2>1. SUFFICES ASSUME op.pc = "files" PROVE Redoing'
    BY <1>1 DEF Redoing
  <2>2. PICK s \in Sessions : lease = s
    BY <2>1, HolderIs
  <2>3. Redoing
    BY DEF RecordsInv
  <2>4. QED
    BY <1>1, <1>2, <2>1, <2>2, <2>3 DEF Redoing
<1>6. QED
  BY <1>3, <1>4, <1>5 DEF RecordsInv

LEMMA ProcessEndsRecorded ==
  ASSUME StoreTyped, Ordered, RecordsInv, NEW s \in Sessions, ProcessEnds(s),
         lease = s /\ op.pc = "files" => tx[s].set = FALSE
  PROVE  RecordsInv'
<1>1. /\ UNCHANGED <<file, order, log, warn, unended, pend, journals, tx, by>>
      /\ IF lease = s THEN op' = NoOperation /\ lease' = Nobody ELSE UNCHANGED <<op, lease>>
  BY DEF ProcessEnds, disk, ghost
<1>2. \A t \in Sessions : Own(t)' = Own(t)
  BY <1>1 DEF Own
<1>3. \A t \in Sessions : Lists(t) /\ Recorded(t) /\ Ended(t)
  BY DEF Ordered, RecordsInv
<1>4. \A t \in Sessions : Ended(t)'
  BY <1>1, <1>3, EndedOn
<1>5. CASE lease # s
  <2>1. UNCHANGED <<lease, op>>
    BY <1>1, <1>5
  <2>2. \A t \in Sessions : Over(t)' = Over(t) /\ Pending(t)' = Pending(t) /\ Applied(t)' = Applied(t)
    BY <1>1, <2>1 DEF Over, Pending, Applied
  <2>3. \A t \in Sessions : Recorded(t)'
    BY <1>1, <1>2, <1>3, <2>1, <2>2, RecordedOn
  <2>4. Closing' /\ Redoing'
    BY <1>1, <2>1 DEF RecordsInv, Closing, Redoing, Own
  <2>5. QED
    BY <1>4, <2>3, <2>4 DEF RecordsInv
<1>6. CASE lease = s
  <2>1. Closing' /\ Redoing' /\ \A t \in Sessions : ~Over(t)' /\ ~Pending(t)' /\ ~Applied(t)'
    BY <1>1, <1>6, IdleRecords
  <2>2. \A t \in Sessions : tx[t].set = TRUE => ~Over(t)
    BY <1>6 DEF Over
  <2>3. \A t \in Sessions : Recorded(t)'
    BY <1>1, <1>2, <1>3, <2>1, <2>2, RecordedOn
  <2>4. QED
    BY <1>4, <2>1, <2>3 DEF RecordsInv
<1>7. QED
  BY <1>5, <1>6

LEMMA AcquireRecorded ==
  ASSUME StoreTyped, Ordered, RecordsInv, NEW s \in Sessions, NEW request,
         request.pc = "recover", Acquire(s, request), UNCHANGED <<file, unended, pend, by>>
  PROVE  RecordsInv'
<1> DEFINE now    == IF tx[s].set THEN tx[s].order ELSE order[s]
           asking == {j \in journals[s] : j.phase = "required"}
           moot   == {j \in asking : j.id \notin now}
<1>1. /\ lease = Nobody /\ lease' = s /\ op' = request
      /\ order' = [order EXCEPT ![s] = now]
      /\ log' = [log EXCEPT ![s] = IF tx[s].set THEN tx[s].log ELSE @]
      /\ warn' = [warn EXCEPT ![s] = IF tx[s].set THEN tx[s].warn ELSE @]
      /\ tx' = [tx EXCEPT ![s] = NoTx]
      /\ journals' = [journals EXCEPT ![s] = @ \ moot]
  BY DEF Acquire
<1>2. /\ tx \in [Sessions -> Transactions] /\ order \in [Sessions -> SUBSET CheckpointIds]
      /\ log \in [Sessions -> [Paths -> Seq(Changes)]] /\ warn \in [Sessions -> SUBSET Warnings]
      /\ journals \in [Sessions -> SUBSET Journals]
  BY DEF StoreTyped, DiskTyped, MemoryTyped, Transactions
<1>3. OnlyOf(s)
  BY <1>1, <1>2 DEF OnlyOf
<1>4. Lists(s) /\ Recorded(s) /\ Ended(s)
  BY DEF Ordered, RecordsInv
<1>5. \/ tx[s].set = TRUE /\ order'[s] = tx[s].order /\ log'[s] = tx[s].log /\ warn'[s] = tx[s].warn
      \/ tx[s].set = FALSE /\ order'[s] = order[s] /\ log'[s] = log[s] /\ warn'[s] = warn[s]
  <2>1. tx[s].set \in BOOLEAN
    BY <1>2 DEF Transactions
  <2>2. CASE tx[s].set = TRUE
    BY <1>1, <1>2, <2>2
  <2>3. CASE tx[s].set = FALSE
    BY <1>1, <1>2, <2>3
  <2>4. QED
    BY <2>1, <2>2, <2>3
<1>6. tx'[s].set = FALSE
  BY <1>1, <1>2 DEF NoTx
<1>7. order'[s] = now /\ journals'[s] = journals[s] \ moot
  BY <1>1, <1>2
<1>8. \A j \in journals[s] : j.id \in order'[s] => j \in journals'[s]
  BY <1>7
<1> HIDE DEF now, asking, moot
<1>9. \A t \in Sessions : Own(t)' = Own(t)
  BY DEF Own
<1>10. Ended(s)'
  <2>1. order'[s] \subseteq order[s]
    BY <1>4, <1>5 DEF Lists
  <2>2. QED
    BY <1>4, <1>7, <2>1, EndedOn
<1>11. ~Pending(s)' /\ ~Applied(s)' /\ ~Over(s)
  BY <1>1, CheckpointsAssumption DEF Pending, Applied, Over
<1>12. Fits(Own(s), file, journals[s], order'[s], log'[s], warn'[s])
  BY <1>4, <1>5, <1>11 DEF Recorded
<1>13. Fits(Own(s)', file', journals'[s], order'[s], log'[s], warn'[s])
  BY <1>8, <1>9, <1>12, FitsOn
<1>14. Recorded(s)'
  BY <1>6, <1>11, <1>13 DEF Recorded
<1>15. ASSUME NEW t \in Sessions \ {s} PROVE Ended(t)' /\ Recorded(t)'
  BY <1>1, <1>3, <1>9, OthersRecorded
<1>16. Closing' /\ Redoing'
  BY <1>1 DEF Closing, Redoing
<1>17. QED
  BY <1>10, <1>14, <1>15, <1>16 DEF RecordsInv

\* A step of the holder that leaves the records alone.
LEMMA HolderRecorded ==
  ASSUME StoreTyped, Ordered, RecordsInv, NEW s \in Sessions, lease = s, lease' \in {s, Nobody},
         OnlyOf(s), UNCHANGED <<file, order, log, tx, by>>,
         unended'[s] \subseteq unended[s],
         \A i \in journals'[s] : \E j \in journals[s] : j.id = i.id,
         \A j \in journals[s] : j.id \in order[s] => \E i \in journals'[s] : i.id = j.id,
         \A j \in journals[s], x \in warn'[s] :
           x \in warn[s] \/ (j.id \in order[s] => ~(j.id <= x.id)),
         tx[s].set = TRUE /\ ~Over(s)' => ~Over(s),
         Pending(s)' => Pending(s) /\ op'.id = op.id,
         Applied(s)' => Applied(s) /\ op'.id = op.id
  PROVE  \A t \in Sessions : Ended(t)' /\ Recorded(t)'
<1>1. \A t \in Sessions : Own(t)' = Own(t)
  BY DEF Own
<1>2. ASSUME NEW t \in Sessions \ {s} PROVE Ended(t)' /\ Recorded(t)'
  BY <1>1, OthersRecorded
<1>3. Lists(s) /\ Recorded(s) /\ Ended(s)
  BY DEF Ordered, RecordsInv
<1>4. Ended(s)'
  BY <1>3, EndedOn
<1>5. Recorded(s)'
  BY <1>1, <1>3, RecordedOn
<1>6. QED
  BY <1>2, <1>4, <1>5

LEMMA RecoverRecorded ==
  ASSUME StoreTyped, Ordered, RecordsInv, Recover
  PROVE  RecordsInv'
<1>1. op.pc = "recover"
  BY DEF Recover
<1>2. PICK s \in Sessions : lease = s /\ op \in Operations /\ journals[s] \subseteq Journals
  BY <1>1, HolderIs
<1>3. /\ UNCHANGED <<file, lease, order, log, warn, unended, pend, tx, by>>
      /\ \E j \in journals[s] :
            IF j.id \in order[s]
            THEN op' = [op EXCEPT !.pc = "plan", !.id = j.id, !.retain = j.retain, !.recovering = TRUE]
                 /\ UNCHANGED journals
            ELSE journals' = [journals EXCEPT ![s] = @ \ {j}] /\ UNCHANGED op
  BY <1>2 DEF Recover, ghost
<1>4. OnlyOf(s)
  BY <1>3 DEF OnlyOf, StoreTyped, DiskTyped
<1>5. journals'[s] \subseteq journals[s] /\ \A j \in journals[s] : j.id \in order[s] => j \in journals'[s]
  BY <1>3 DEF StoreTyped, DiskTyped
<1>6. op'.pc \in {"recover", "plan"}
  BY <1>1, <1>2, <1>3 DEF Operations
<1>7. ~Over(s) /\ ~Pending(s)' /\ ~Applied(s)'
  BY <1>1, <1>6 DEF Over, Pending, Applied
<1>8. \A t \in Sessions : Ended(t)' /\ Recorded(t)'
  BY <1>2, <1>3, <1>4, <1>5, <1>7, HolderRecorded
<1>9. Closing' /\ Redoing'
  BY <1>6 DEF Closing, Redoing
<1>10. QED
  BY <1>8, <1>9 DEF RecordsInv

LEMMA DeclineRecorded ==
  ASSUME StoreTyped, Ordered, RecordsInv, Decline
  PROVE  RecordsInv'
<1>1. /\ op.pc = "recover" /\ op' = NoOperation /\ lease' = Nobody
      /\ UNCHANGED <<file, order, log, warn, unended, pend, journals, tx, by>>
  BY DEF Decline, Recovered, Release, disk, ghost
<1>2. PICK s \in Sessions : lease = s
  BY <1>1, HolderIs
<1>3. OnlyOf(s)
  BY <1>1 DEF OnlyOf
<1>4. Closing' /\ Redoing' /\ \A t \in Sessions : ~Over(t)' /\ ~Pending(t)' /\ ~Applied(t)'
  BY <1>1, IdleRecords
<1>5. ~Over(s)
  BY <1>1 DEF Over
<1>6. \A t \in Sessions : Ended(t)' /\ Recorded(t)'
  BY <1>1, <1>2, <1>3, <1>4, <1>5, HolderRecorded
<1>7. QED
  BY <1>4, <1>6 DEF RecordsInv

LEMMA GoRecorded ==
  ASSUME StoreTyped, Ordered, RecordsInv, Go
  PROVE  RecordsInv'
<1>1. op.pc = "recover"
  BY DEF Go, Recovered
<1>2. PICK s \in Sessions : lease = s /\ op \in Operations
  BY <1>1, HolderIs
<1>3. /\ op'.pc = "plan" /\ UNCHANGED <<file, lease, order, log, warn, unended, pend, journals, tx, by>>
  BY <1>2 DEF Go, disk, ghost, Operations
<1>4. OnlyOf(s)
  BY <1>3 DEF OnlyOf
<1>5. ~Over(s) /\ ~Pending(s)' /\ ~Applied(s)'
  BY <1>1, <1>3 DEF Over, Pending, Applied
<1>6. \A t \in Sessions : Ended(t)' /\ Recorded(t)'
  BY <1>2, <1>3, <1>4, <1>5, HolderRecorded
<1>7. Closing' /\ Redoing'
  BY <1>3 DEF Closing, Redoing
<1>8. QED
  BY <1>6, <1>7 DEF RecordsInv

\* The window moves on: what is left of a list fits the file as the whole list did.
LEMMA FitsRest ==
  ASSUME NEW l \in Seq(Changes), NEW c, NEW n \in Nat, NEW id, Splits(l, id, n, c),
         DOMAIN c # {}, NEW x, NEW k \in DOMAIN l, x.data = l[k].before.data, Leads(l, k)
  PROVE  \E i \in DOMAIN c : x.data = c[i].before.data /\ Leads(c, i)
<1>1. /\ DOMAIN l = 1..Len(l) /\ Len(l) \in Nat /\ n \in 0..Len(l)
      /\ DOMAIN c = 1..(Len(l) - n) /\ \A i \in 1..(Len(l) - n) : c[i] = l[n + i]
      /\ \A i \in 1..Len(l) : n < i <=> id <= l[i].id
  BY DEF Splits
<1>2. n < Len(l)
  BY <1>1
<1>3. l[Len(l)].id = l[k].id
  BY <1>1 DEF Leads
<1>4. n < k
  BY <1>1, <1>2, <1>3
<1>5. k - n \in DOMAIN c /\ c[k - n] = l[k]
  <2>1. k - n \in 1..(Len(l) - n) /\ n + (k - n) = k
    BY <1>1, <1>4
  <2>2. QED
    BY <1>1, <2>1
<1>6. Leads(c, k - n)
  <2>1. SUFFICES ASSUME NEW i \in DOMAIN c, k - n <= i PROVE c[i].id = c[k - n].id
    BY DEF Leads
  <2>2. n + i \in DOMAIN l /\ k <= n + i /\ c[i] = l[n + i]
    BY <1>1, <2>1
  <2>3. QED
    BY <1>5, <2>2 DEF Leads
<1>7. QED
  BY <1>5, <1>6

LEMMA BeginRecorded ==
  ASSUME StoreTyped, Ordered, RecordsInv, Begin
  PROVE  RecordsInv'
<1>1. op.pc = "recover"
  BY DEF Begin, Recovered
<1>2. PICK s \in Sessions : lease = s
  BY <1>1, HolderIs
<1>3. (\A p \in Paths : Ascending(log[s][p])) /\ \A i \in order[s] : i <= cut
  <2>1. cut \in Nat /\ Lists(s) /\ order[s] \subseteq CheckpointIds
    BY DEF Ordered, StoreTyped, BudgetTyped, DiskTyped
  <2>2. QED
    BY <2>1 DEF Lists, Listed
<1>4. /\ (\E kept, first : Renewed(s, kept, first)) /\ OnlyOf(s)
      /\ op' = NoOperation /\ needs[s] = {} /\ (\A j \in journals[s] : j.phase # "open")
      /\ UNCHANGED <<file, lease, journals, tx, by>>
  BY <1>2, <1>3, BeginIs
<1>5. journals[s] = {} /\ tx[s].set = FALSE
  <2>1. Required(s) /\ journals[s] \subseteq Journals /\ tx[s] \in Transactions
    BY <1>1, HolderIs, <1>2 DEF Ordered
  <2>2. tx[s].set = FALSE
    BY <1>1, <1>2, <1>4, <2>1 DEF Required, Transactions
  <2>3. \A j \in journals[s] : j.phase = "required"
    BY <1>4, <2>1 DEF Journals
  <2>4. QED
    BY <1>2, <1>4, <2>1, <2>2, <2>3 DEF Required
<1>6. PICK first : \A p \in Paths : \E n \in Nat : Splits(log[s][p], first, n, log'[s][p])
  BY <1>4 DEF Renewed
<1>7. Fits(Own(s), file, {}, order[s], log[s], warn[s])
  BY <1>5 DEF RecordsInv, Recorded
<1>8. Fits(Own(s), file, {}, order'[s], log'[s], warn'[s])
  <2>1. SUFFICES ASSUME NEW p \in Own(s), DOMAIN log'[s][p] # {}
                 PROVE  Fit(file[p], {}, order'[s], log'[s], warn'[s], p)
    BY DEF Fits
  <2>2. PICK n \in Nat : Splits(log[s][p], first, n, log'[s][p])
    BY <1>6, <2>1 DEF Own
  <2>3. PICK l, c, x : l = log[s][p] /\ c = log'[s][p] /\ x = file[p]
    OBVIOUS
  <2>4. l \in Seq(Changes) /\ DOMAIN l = 1..Len(l) /\ Len(l) \in Nat
    <3>1. l \in Seq(Changes)
      BY <2>1, <2>3 DEF Own, StoreTyped, DiskTyped
    <3>2. QED
      BY <3>1
  <2>5. /\ n \in 0..Len(l) /\ Len(c) = Len(l) - n /\ DOMAIN c = 1..(Len(l) - n)
        /\ \A i \in 1..(Len(l) - n) : c[i] = l[n + i]
    BY <2>2, <2>3 DEF Splits
  <2>6. n < Len(l)
    BY <2>1, <2>3, <2>4, <2>5
  <2>7. Fit(x, {}, order[s], log[s], warn[s], p)
    <3>1. Len(l) \in DOMAIN l
      BY <2>4, <2>5, <2>6
    <3>2. QED
      BY <1>7, <2>1, <2>3, <3>1 DEF Fits
  <2>8. CASE x = l[Len(l)].after
    <3>1. c[Len(c)] = l[Len(l)]
      <4>1. Len(l) - n \in 1..(Len(l) - n) /\ n + (Len(l) - n) = Len(l)
        BY <2>4, <2>5, <2>6
      <4>2. QED
        BY <2>5, <4>1
    <3>2. QED
      BY <2>3, <2>8, <3>1 DEF Fit
  <2>9. CASE \E k \in DOMAIN l : x.data = l[k].before.data /\ Leads(l, k)
    <3>1. Splits(l, first, n, c) /\ DOMAIN c # {}
      BY <2>1, <2>2, <2>3
    <3>2. \E i \in DOMAIN c : x.data = c[i].before.data /\ Leads(c, i)
      BY <2>4, <2>9, <3>1, FitsRest
    <3>3. QED
      BY <2>3, <3>2 DEF Fit
  <2>10. QED
    BY <2>3, <2>7, <2>8, <2>9 DEF Fit
<1>9. Closing' /\ Redoing' /\ \A t \in Sessions : ~Over(t)' /\ ~Pending(t)' /\ ~Applied(t)'
  BY <1>4, IdleRecords
<1>10. \A t \in Sessions : Own(t)' = Own(t)
  BY <1>4 DEF Own
<1>11. Recorded(s)' /\ Ended(s)'
  BY <1>4, <1>5, <1>8, <1>9, <1>10 DEF Recorded, Ended
<1>12. ASSUME NEW t \in Sessions \ {s} PROVE Ended(t)' /\ Recorded(t)'
  BY <1>2, <1>4, <1>10, OthersRecorded
<1>13. QED
  BY <1>9, <1>11, <1>12 DEF RecordsInv

\* Calls that end late leave warnings of the checkpoints that end.
LEMMA EndCallsWarn ==
  ASSUME StoreTyped, NEW s \in Sessions, NEW ids, EndCalls(s, ids)
  PROVE  /\ unended'[s] = unended[s] \ ids
         /\ \A x \in warn'[s] : x \in warn[s] \/ x.id \in ids \cap unended[s]
<1> DEFINE calls == {r \in pend[s] : r.id \in ids \cap unended[s]}
           late  == {[id |-> r.id, path |-> r.path] : r \in calls}
<1>1. /\ unended' = [unended EXCEPT ![s] = @ \ ids] /\ warn' = [warn EXCEPT ![s] = @ \cup late]
  BY DEF EndCalls
<1>2. warn \in [Sessions -> SUBSET Warnings] /\ unended \in [Sessions -> SUBSET CheckpointIds]
  BY DEF StoreTyped, DiskTyped
<1>3. \A x \in late : x.id \in ids \cap unended[s]
  OBVIOUS
<1> HIDE DEF late
<1>4. QED
  BY <1>1, <1>2, <1>3

\* They are older than every restore that is open.
LEMMA EndedWarn ==
  ASSUME StoreTyped, NEW s \in Sessions, Ended(s), NEW ids \in SUBSET order[s], EndCalls(s, ids)
  PROVE  /\ unended'[s] \subseteq unended[s]
         /\ \A j \in journals[s], x \in warn'[s] :
              x \in warn[s] \/ (j.id \in order[s] => ~(j.id <= x.id))
<1>1. /\ unended'[s] = unended[s] \ ids
      /\ \A x \in warn'[s] : x \in warn[s] \/ x.id \in ids \cap unended[s]
  BY EndCallsWarn
<1>2. order[s] \subseteq CheckpointIds
  BY DEF StoreTyped, DiskTyped
<1>3. ASSUME NEW j \in journals[s], NEW x \in warn'[s], x \notin warn[s], j.id \in order[s]
      PROVE  ~(j.id <= x.id)
  <2>1. x.id \in unended[s] \cap order[s]
    BY <1>1, <1>3
  <2>2. x.id < j.id
    BY <1>3, <2>1 DEF Ended
  <2>3. x.id \in Nat /\ j.id \in Nat
    BY <1>2, <1>3, <2>1 DEF CheckpointIds
  <2>4. QED
    BY <2>2, <2>3
<1>4. QED
  BY <1>1, <1>3

\* What the folding of a list of changes and of the warnings is.
FoldsAll(o, target, kept, newest, l, p, m, w, v) ==
  /\ o \subseteq Nat /\ target \in Nat /\ kept = {i \in o : i < target}
  /\ newest \in kept /\ (\A i \in kept : i <= newest)
  /\ l[p] \in Seq(Changes) /\ DOMAIN l[p] # {} /\ FoldsTo(l[p], m[p], o \ kept, newest)
  /\ (\A k \in DOMAIN l[p] : l[p][k].id \in o) /\ (\A y \in w : y.id \in o /\ y \in Warnings)
  /\ v = {Folded(y, o \ kept, newest) : y \in w}
\* What fits a list fits what it is folded to.
LEMMA FitFolds ==
  ASSUME NEW o, NEW target, NEW kept, NEW newest, NEW l, NEW p, NEW m, NEW w, NEW v, NEW x, NEW js,
         FoldsAll(o, target, kept, newest, l, p, m, w, v), Fit(x, js, o, l, w, p)
  PROVE  Fit(x, js, kept, m, v, p)
<1>0. /\ o \subseteq Nat /\ target \in Nat /\ kept = {i \in o : i < target}
      /\ newest \in kept /\ (\A i \in kept : i <= newest)
      /\ l[p] \in Seq(Changes) /\ DOMAIN l[p] # {} /\ FoldsTo(l[p], m[p], o \ kept, newest)
      /\ (\A k \in DOMAIN l[p] : l[p][k].id \in o) /\ (\A y \in w : y.id \in o /\ y \in Warnings)
      /\ v = {Folded(y, o \ kept, newest) : y \in w}
  BY DEF FoldsAll
<1> USE <1>0
<1>1. PICK q, d : q = l[p] /\ d = m[p]
  OBVIOUS
<1>2. /\ Len(d) = Len(q) /\ DOMAIN d = DOMAIN q
      /\ \A k \in DOMAIN q :
           /\ d[k].id = (IF q[k].id \in o \ kept THEN newest ELSE q[k].id)
           /\ d[k].before = q[k].before /\ d[k].after = q[k].after
  BY <1>1 DEF FoldsTo
<1>3. DOMAIN q = 1..Len(q) /\ Len(q) \in Nat /\ DOMAIN q # {}
  <2>1. q \in Seq(Changes) /\ DOMAIN q # {}
    BY <1>1
  <2>2. QED
    BY <2>1
<1>4. \A k \in DOMAIN q : q[k].id \in Nat /\ d[k].id = (IF q[k].id < target THEN q[k].id ELSE newest)
  <2>1. SUFFICES ASSUME NEW k \in DOMAIN q
                 PROVE  q[k].id \in Nat /\ d[k].id = (IF q[k].id < target THEN q[k].id ELSE newest)
    OBVIOUS
  <2>2. q[k].id \in o /\ q[k].id \in Nat
    BY <1>1
  <2>3. q[k].id \in kept <=> q[k].id < target
    BY <2>2
  <2>4. QED
    BY <1>2, <2>2, <2>3
<1>5. CASE x = q[Len(q)].after
  <2>1. Len(q) \in DOMAIN q
    BY <1>3
  <2>2. QED
    BY <1>1, <1>2, <1>5, <2>1 DEF Fit
<1>6. ASSUME NEW k \in DOMAIN q, x.data = q[k].before.data, Leads(q, k)
      PROVE  Fit(x, js, kept, m, v, p)
  <2>1. x.data = d[k].before.data /\ k \in DOMAIN d
    BY <1>2, <1>6
  <2>2. Leads(d, k)
    BY <1>2, <1>4, <1>6 DEF Leads
  <2>3. QED
    BY <1>1, <2>1, <2>2 DEF Fit
<1>7. ASSUME NEW j \in js, j.id \in o, NEW k \in DOMAIN q, SoundFrom(l, w, p, j.id, k), x.data = q[k].before.data
      PROVE  Fit(x, js, kept, m, v, p)
  <2>1. StartsAt(q, j.id, k) /\ Joined(q, k) /\ ~Warned(w, p, j.id)
    BY <1>1, <1>7 DEF SoundFrom
  <2>2. k \in DOMAIN d /\ x.data = d[k].before.data /\ j.id \in Nat
    BY <1>2, <1>7
  <2>3. CASE j.id \in kept
    <3>1. j.id < target /\ j.id <= newest /\ newest \in Nat
      BY <2>3
    <3>2. StartsAt(d, j.id, k)
      <4>1. \A i \in DOMAIN q : j.id <= q[i].id <=> j.id <= d[i].id
        BY <1>4, <2>2, <3>1
      <4>2. QED
        BY <1>2, <2>1, <4>1 DEF StartsAt
    <3>3. Joined(d, k)
      <4>1. SUFFICES ASSUME NEW i \in DOMAIN d, k <= i, i < Len(d) PROVE d[i].after = d[i + 1].before
        BY DEF Joined
      <4>2. q[i].after = q[i + 1].before
        BY <1>2, <2>1, <4>1 DEF Joined
      <4>3. i + 1 \in DOMAIN q
        BY <1>2, <1>3, <4>1
      <4>4. QED
        BY <1>2, <4>1, <4>2, <4>3
    <3>4. ~Warned(v, p, j.id)
      <4>1. SUFFICES ASSUME NEW y \in w, j.id <= Folded(y, o \ kept, newest).id,
                            Folded(y, o \ kept, newest).path \in {p, Unknown}
                     PROVE  FALSE
        BY DEF Warned
      <4>2. y.id \in Nat /\ y.id \in o /\ y \in Warnings
        BY <4>1
      <4>3. Folded(y, o \ kept, newest).path = y.path
        BY <4>2 DEF Folded, Warnings
      <4>4. j.id <= y.id
        <5>1. CASE y.id \in kept
          BY <4>1, <5>1 DEF Folded
        <5>2. CASE y.id \notin kept
          <6>1. target <= y.id
            BY <4>2, <5>2
          <6>2. QED
            BY <2>2, <3>1, <4>2, <6>1
        <5>3. QED
          BY <5>1, <5>2
      <4>5. QED
        BY <2>1, <4>1, <4>3, <4>4 DEF Warned
    <3>5. Undone(m, v, p, j.id, x)
      BY <1>1, <2>2, <3>2, <3>3, <3>4 DEF Undone, SoundFrom
    <3>6. QED
      BY <2>3, <3>5 DEF Fit
  <2>4. CASE j.id \notin kept
    <3>1. target <= j.id
      BY <1>7, <2>2, <2>4
    <3>2. \A i \in DOMAIN q : k <= i => d[i].id = newest
      <4>1. SUFFICES ASSUME NEW i \in DOMAIN q, k <= i PROVE d[i].id = newest
        OBVIOUS
      <4>2. j.id <= q[i].id /\ q[i].id \in Nat
        BY <1>4, <2>1, <4>1 DEF StartsAt
      <4>3. ~(q[i].id < target)
        BY <2>2, <3>1, <4>2
      <4>4. QED
        BY <1>4, <4>3
    <3>3. j.id <= q[k].id /\ q[k].id \in Nat
      <4>1. k <= k <=> j.id <= q[k].id
        BY <1>7, <2>1 DEF StartsAt
      <4>2. k \in Nat
        BY <1>7, <1>3
      <4>3. QED
        BY <1>4, <1>7, <4>1, <4>2
    <3>4. d[k].id = newest
      BY <1>4, <1>7, <2>2, <3>1, <3>3
    <3>5. Leads(d, k)
      BY <1>2, <3>2, <3>4 DEF Leads
    <3>6. QED
      BY <1>1, <2>2, <3>5 DEF Fit
  <2>5. QED
    BY <2>3, <2>4
<1>8. QED
  BY <1>1, <1>5, <1>6, <1>7 DEF Fit, Undone

LEMMA CompactRecorded ==
  ASSUME StoreTyped, Ordered, RecordsInv, Compact
  PROVE  RecordsInv'
<1>1. op.pc = "recover"
  BY DEF Compact, Recovered
<1>2. PICK s \in Sessions : lease = s
  BY <1>1, HolderIs
<1>3. /\ op \in Operations /\ order[s] \subseteq CheckpointIds /\ log[s] \in [Paths -> Seq(Changes)]
      /\ order[s] \subseteq Nat /\ op.target \in Nat
  <2>1. op \in Operations /\ order[s] \subseteq CheckpointIds /\ log[s] \in [Paths -> Seq(Changes)]
    BY <1>1, <1>2, HolderIs
  <2>2. QED
    BY <2>1, CheckpointsAssumption DEF Operations, CheckpointIds
<1>4. /\ \E kept, newest :
              /\ Hides(s, kept, newest)
              /\ \/ NoFault /\ op' = [op EXCEPT !.pc = "apply"] /\ Compacted(s, kept, newest)
                 \/ Fault /\ op' = [op EXCEPT !.pc = "close"] /\ UNCHANGED tx
      /\ (\A t \in Sessions \ {s} : tx'[t] = tx[t])
      /\ UNCHANGED <<file, lease, order, log, journals, by>>
  BY <1>2, CompactIs
<1>5. PICK kept, newest :
              /\ Hides(s, kept, newest)
              /\ \/ op' = [op EXCEPT !.pc = "apply"] /\ Compacted(s, kept, newest)
                 \/ op' = [op EXCEPT !.pc = "close"] /\ UNCHANGED tx
  BY <1>4
<1>6. Lists(s) /\ Recorded(s) /\ Ended(s) /\ op.id = 0
  BY <1>1 DEF Ordered, RecordsInv, Stages
<1>7. kept = {i \in order[s] : i < op.target}
  BY <1>5 DEF Hides
<1>8. /\ unended'[s] \subseteq unended[s]
      /\ \A j \in journals[s], x \in warn'[s] :
              x \in warn[s] \/ (j.id \in order[s] => ~(j.id <= x.id))
      /\ Listed(order[s], log[s], warn'[s])
      /\ \A t \in Sessions \ {s} :
              warn'[t] = warn[t] /\ unended'[t] = unended[t] /\ pend'[t] = pend[t]
  <2>1. CASE kept = {}
    BY <1>5, <1>6, <2>1 DEF Hides, Lists
  <2>2. CASE kept # {}
    <3>1. EndCalls(s, {newest} \cup (order[s] \ kept)) /\ newest \in order[s]
      BY <1>5, <1>7, <2>2 DEF Hides
    <3>2. PICK ids \in SUBSET order[s] : EndCalls(s, ids)
      BY <3>1
    <3>3. QED
      BY <1>6, <3>2, EndedWarn, EndCallsOrdered DEF Lists
  <2>3. QED
    BY <2>1, <2>2
<1>9. /\ op'.pc \in {"apply", "close"} /\ op'.id = 0
      /\ ~Over(s) /\ ~Over(s)' /\ ~Pending(s)' /\ ~Applied(s)'
  <2>1. op'.pc \in {"apply", "close"} /\ op'.id = 0
    BY <1>3, <1>5, <1>6 DEF Operations
  <2>2. QED
    BY <1>1, <2>1 DEF Over, Pending, Applied
<1>10. Closing' /\ Redoing'
  BY <1>9 DEF Closing, Redoing
<1>11. CASE UNCHANGED tx
  <2>1. OnlyOf(s)
    BY <1>4, <1>8, <1>11 DEF OnlyOf
  <2>2. \A t \in Sessions : Ended(t)' /\ Recorded(t)'
    BY <1>2, <1>4, <1>8, <1>9, <1>11, <2>1, HolderRecorded
  <2>3. QED
    BY <1>10, <2>2 DEF RecordsInv
<1>12. CASE Compacted(s, kept, newest)
  <2>1. OnlyOf(s)
    BY <1>4, <1>8 DEF OnlyOf
  <2>2. \A t \in Sessions : Own(t)' = Own(t)
    BY <1>4 DEF Own
  <2>3. Fits(Own(s), file, journals[s], order[s], log[s], warn'[s])
    <3>1. Fits(Own(s), file, journals[s], order[s], log[s], warn[s])
      BY <1>6 DEF Recorded
    <3>2. \A j \in journals[s], p \in Own(s) :
            j.id \in order[s] /\ Warned(warn'[s], p, j.id) => Warned(warn[s], p, j.id)
      BY <1>8 DEF Warned
    <3>3. QED
      BY <3>1, <3>2, FitsOn
  <2>4. PICK m, v : m = tx'[s].log /\ v = tx'[s].warn
    OBVIOUS
  <2>5. Fits(Own(s), file, journals[s], kept, m, v)
    <3>1. SUFFICES ASSUME NEW p \in Own(s), DOMAIN m[p] # {}
                   PROVE  Fit(file[p], journals[s], kept, m, v, p)
      BY DEF Fits
    <3>2. kept # {}
      <4>1. ASSUME kept = {} PROVE DOMAIN m[p] = {}
        BY <1>12, <2>4, <3>1, <4>1 DEF Compacted, Own
      <4>2. QED
        BY <3>1, <4>1
    <3>3. /\ v = {Folded(y, order[s] \ kept, newest) : y \in warn'[s]}
          /\ FoldsTo(log[s][p], m[p], order[s] \ kept, newest)
      BY <1>12, <2>4, <3>1, <3>2 DEF Compacted, Own
    <3>4. newest \in kept /\ \A i \in kept : i <= newest
      BY <1>5, <3>2 DEF Hides
    <3>5. PICK l, w, o, target, x : /\ l = log[s] /\ w = warn'[s] /\ o = order[s]
                                    /\ target = op.target /\ x = file[p]
      OBVIOUS
    <3>6. l[p] \in Seq(Changes) /\ DOMAIN l[p] # {} /\ o \in SUBSET Nat /\ target \in Nat
      BY <1>3, <3>1, <3>3, <3>5 DEF FoldsTo, Own
    <3>7. (\A k \in DOMAIN l[p] : l[p][k].id \in o) /\ \A y \in w : y.id \in o
      BY <1>8, <3>1, <3>5 DEF Listed, Own
    <3>8. \A y \in w : y \in Warnings
      <4>1. StoreTyped'
        BY CompactTyped
      <4>2. QED
        BY <3>5, <4>1 DEF StoreTyped, DiskTyped
    <3>9. Fit(x, journals[s], o, l, w, p)
      BY <2>3, <3>1, <3>5, <3>6 DEF Fits
    <3>10. /\ kept = {i \in o : i < target} /\ v = {Folded(y, o \ kept, newest) : y \in w}
           /\ FoldsTo(l[p], m[p], o \ kept, newest)
      BY <1>7, <3>3, <3>5
    <3>11. FoldsAll(o, target, kept, newest, l, p, m, w, v)
      BY <3>4, <3>6, <3>7, <3>8, <3>10 DEF FoldsAll
    <3>12. Fit(x, journals[s], kept, m, v, p)
      BY <3>9, <3>11, FitFolds
    <3>13. QED
      BY <3>5, <3>12
  <2>6. Fits(Own(s), file, journals[s], tx'[s].order, tx'[s].log, tx'[s].warn)
    BY <1>12, <2>4, <2>5 DEF Compacted
  <2>7. Recorded(s)'
    BY <1>4, <1>9, <2>2, <2>3, <2>6 DEF Recorded
  <2>8. Ended(s)'
    BY <1>4, <1>6, <1>8, EndedOn
  <2>9. ASSUME NEW t \in Sessions \ {s} PROVE Ended(t)' /\ Recorded(t)'
    BY <1>2, <1>4, <2>1, <2>2, OthersRecorded
  <2>10. QED
    BY <1>10, <2>7, <2>8, <2>9 DEF RecordsInv
<1>13. QED
  BY <1>5, <1>11, <1>12

LEMMA PlanRestoreRecorded ==
  ASSUME StoreTyped, Ordered, RecordsInv, PlanRestore
  PROVE  RecordsInv'
<1>1. op.pc = "plan"
  BY DEF PlanRestore
<1>2. PICK s \in Sessions, id \in Nat : lease = s /\ op.id = id /\ op \in Operations
  <2>1. lease \in Sessions /\ op \in Operations
    BY <1>1, HolderIs
  <2>2. op.id \in Nat
    BY <2>1, CheckpointsAssumption DEF Operations
  <2>3. QED
    BY <2>1, <2>2
<1>3. PICK l, w : log[s] = l /\ w = warn'[s]
  OBVIOUS
<1>4. /\ Lists(s) /\ Recorded(s) /\ Ended(s) /\ id \in order[s] /\ order[s] \subseteq CheckpointIds
      /\ op.failed = FALSE
  BY <1>1, <1>2, HolderIs DEF Ordered, RecordsInv, Stages
<1>5. EndCalls(s, {i \in order[s] : i >= id})
  BY <1>2 DEF PlanRestore
<1>6. /\ unended'[s] = unended[s] \ {i \in order[s] : i >= id}
      /\ \A j \in journals[s], x \in warn'[s] :
              x \in warn[s] \/ (j.id \in order[s] => ~(j.id <= x.id))
  BY <1>4, <1>5, EndedWarn, EndCallsWarn
<1>7. /\ Listed(order[s], log[s], warn'[s])
      /\ \A t \in Sessions \ {s} :
              warn'[t] = warn[t] /\ unended'[t] = unended[t] /\ pend'[t] = pend[t]
  BY <1>4, <1>5, EndCallsOrdered DEF Lists
<1>8. (\A p \in Paths : Ascending(l[p])) /\ \A x \in w : x.id \in order[s]
  BY <1>3, <1>7 DEF Listed
<1>9. /\ \/ /\ NoFault /\ PlanMade(s, l, w, id) /\ UNCHANGED lease
            /\ journals' = [journals EXCEPT ![s] = @ \cup {Journal(id, op.retain, "open")}]
            /\ op' = [op EXCEPT !.pc = "files", !.todo = op'.todo, !.wrote = op'.wrote,
                                !.skipped = op'.skipped]
         \/ /\ Fault /\ UNCHANGED journals
            /\ \/ op' = [op EXCEPT !.pc = "close", !.failed = TRUE] /\ UNCHANGED lease
               \/ Release /\ op.recovering = FALSE
      /\ UNCHANGED <<file, ino, order, log, tx, up, active, needs, by, maker, manual>>
  BY <1>2, <1>3, <1>8, PlanRestoreIs
<1>10. \A i \in unended'[s] \cap order'[s] : i < id
  <2>1. \A i \in order[s] : i \in Nat
    BY <1>4 DEF CheckpointIds
  <2>2. QED
    BY <1>6, <1>9, <2>1
<1>11. journals \in [Sessions -> SUBSET Journals] /\ op \in Operations
  BY <1>2 DEF StoreTyped, DiskTyped
<1>12. ~Over(s)
  BY <1>1 DEF Over
<1>13. CASE /\ PlanMade(s, l, w, id) /\ UNCHANGED lease
            /\ journals' = [journals EXCEPT ![s] = @ \cup {Journal(id, op.retain, "open")}]
            /\ op' = [op EXCEPT !.pc = "files", !.todo = op'.todo, !.wrote = op'.wrote,
                                !.skipped = op'.skipped]
  <2>1. op'.pc = "files" /\ op'.id = id /\ op'.retain = op.retain
    BY <1>2, <1>13 DEF Operations
  <2>2. /\ journals'[s] = journals[s] \cup {Journal(id, op.retain, "open")}
        /\ \A t \in Sessions \ {s} : journals'[t] = journals[t]
    BY <1>11, <1>13
  <2>3. OnlyOf(s)
    BY <1>7, <1>9, <2>2 DEF OnlyOf
  <2>4. \A t \in Sessions : Own(t)' = Own(t)
    BY <1>9 DEF Own
  <2>5. Over(s)' /\ ~Pending(s)' /\ ~Applied(s)'
    BY <1>2, <1>13, <2>1 DEF Over, Pending, Applied
  <2>6. Recorded(s)'
    BY <1>4, <1>6, <1>9, <1>12, <2>2, <2>4, <2>5, RecordedOn
  <2>7. Ended(s)'
    <3>1. SUFFICES ASSUME NEW j \in journals'[s], NEW i \in unended'[s] \cap order'[s],
                          j.id \in order'[s]
                   PROVE  i < j.id
      BY DEF Ended
    <3>2. CASE j \in journals[s]
      BY <1>4, <1>6, <1>9, <3>1, <3>2 DEF Ended
    <3>3. CASE j = Journal(id, op.retain, "open")
      BY <1>10, <3>1, <3>3 DEF Journal
    <3>4. QED
      BY <2>2, <3>1, <3>2, <3>3
  <2>8. ASSUME NEW t \in Sessions \ {s} PROVE Ended(t)' /\ Recorded(t)'
    BY <1>2, <1>9, <1>13, <2>3, <2>4, OthersRecorded
  <2>9. Closing'
    BY <1>2, <1>10, <1>13, <2>1 DEF Closing
  <2>10. Redoing'
    <3>1. Journal(id, op.retain, "open") \in journals'[s]
      BY <2>2
    <3>2. \A p \in op'.skipped : p \notin op'.todo \cup DOMAIN op'.wrote
      BY <1>13 DEF PlanMade
    <3>3. \A p \in op'.todo : p \notin DOMAIN op'.wrote
      BY <1>13 DEF PlanMade
    <3>4. \A p \in Paths : Undone(l, w, p, id, file[p]) => p \in DOMAIN op'.wrote /\ file[p] = op'.wrote[p]
      BY <1>13 DEF PlanMade
    <3>5. \A p \in Own(s)' : p \in Paths
      BY DEF Own
    <3>6. log'[s] = l /\ warn'[s] = w /\ lease' = s /\ file' = file
      BY <1>2, <1>3, <1>9, <1>13
    <3>7. QED
      BY <2>1, <3>1, <3>2, <3>3, <3>4, <3>5, <3>6 DEF Redoing
  <2>11. QED
    BY <2>6, <2>7, <2>8, <2>9, <2>10 DEF RecordsInv
<1>14. CASE /\ UNCHANGED journals
            /\ \/ op' = [op EXCEPT !.pc = "close", !.failed = TRUE] /\ UNCHANGED lease
               \/ Release /\ op.recovering = FALSE
  <2>1. OnlyOf(s)
    BY <1>7, <1>9, <1>14 DEF OnlyOf
  <2>2. lease' \in {s, Nobody}
    BY <1>2, <1>14 DEF Release
  <2>3. /\ op'.pc = "close" /\ op'.id = id /\ op'.failed = TRUE /\ lease' = s
        \/ op'.pc = "idle"
    <3>1. ASSUME op' = [op EXCEPT !.pc = "close", !.failed = TRUE]
          PROVE  op'.pc = "close" /\ op'.id = id /\ op'.failed = TRUE
      BY <1>2, <3>1 DEF Operations
    <3>2. Release => op'.pc = "idle"
      BY DEF Release, NoOperation
    <3>3. QED
      BY <1>2, <1>14, <3>1, <3>2
  <2>4. ~Pending(s)' /\ ~Applied(s)'
    BY <2>3 DEF Pending, Applied
  <2>5. unended'[s] \subseteq unended[s]
    BY <1>6
  <2>6. \A t \in Sessions : Ended(t)' /\ Recorded(t)'
    BY <1>2, <1>6, <1>9, <1>12, <1>14, <2>1, <2>2, <2>4, <2>5, HolderRecorded
  <2>7. Closing' /\ Redoing'
    BY <1>10, <2>3 DEF Closing, Redoing
  <2>8. QED
    BY <2>6, <2>7 DEF RecordsInv
<1>15. QED
  BY <1>9, <1>13, <1>14

LEMMA RestoreFileRecorded ==
  ASSUME StoreTyped, Ordered, RecordsInv, RestoreFile
  PROVE  RecordsInv'
<1>1. op.pc = "files"
  BY DEF RestoreFile
<1>2. PICK s \in Sessions, id \in Nat : lease = s /\ op.id = id /\ op \in Operations
  <2>1. lease \in Sessions /\ op \in Operations
    BY <1>1, HolderIs
  <2>2. op.id \in Nat
    BY <2>1, CheckpointsAssumption DEF Operations
  <2>3. QED
    BY <2>1, <2>2
<1>3. PICK l, w : log[s] = l /\ w = warn[s]
  OBVIOUS
<1>4. /\ FileStep(s, l, w, id)
      /\ UNCHANGED <<lease, order, log, warn, unended, pend, journals, tx, up, active, needs>>
  BY <1>2, <1>3, RestoreFileIs
<1>5. /\ Lists(s) /\ Recorded(s) /\ Ended(s) /\ id \in order[s]
      /\ Closing /\ Redoing
  BY <1>1, <1>2 DEF Ordered, RecordsInv, Stages
<1>6. PICK p \in op.todo, x \in States : \E k \in DOMAIN l[p] :
    /\ p \in Paths /\ SoundFrom(l, w, p, id, k)
    /\ x.data = l[p][k].before.data
    /\ \/ /\ file' = [file EXCEPT ![p] = x]
          /\ by' = [by EXCEPT ![p] = {s}]
          /\ op' = [op EXCEPT !.todo = @ \ {p}, !.wrote = Wrote(@, p, x)]
       \/ /\ op' = [op EXCEPT !.todo = @ \ {p}, !.skipped = @ \cup {p}]
          /\ UNCHANGED <<file, by>>
  BY <1>4 DEF FileStep
<1>7. p \in Paths /\ Undone(l, w, p, id, x)
  BY <1>6 DEF Undone
<1>8. OnlyOf(s)
  BY <1>4 DEF OnlyOf
<1>9. file \in [Paths -> States] /\ by \in [Paths -> SUBSET Sessions]
  BY DEF StoreTyped, WorkspaceTyped
<1>10. /\ Journal(id, op.retain, "open") \in journals[s]
       /\ (\A q \in op.skipped : q \notin op.todo \cup DOMAIN op.wrote)
       /\ (\A q \in op.todo : q \notin DOMAIN op.wrote)
       /\ \A q \in Own(s) : Undone(l, w, q, id, file[q]) =>
            q \in DOMAIN op.wrote /\ file[q] = op.wrote[q]
  BY <1>1, <1>2, <1>3, <1>5 DEF Redoing
<1>11. CASE /\ file' = [file EXCEPT ![p] = x]
            /\ by' = [by EXCEPT ![p] = {s}]
            /\ op' = [op EXCEPT !.todo = @ \ {p}, !.wrote = Wrote(@, p, x)]
  <2>1. /\ op'.pc = op.pc /\ op'.id = op.id /\ op'.failed = op.failed /\ op'.retain = op.retain
        /\ op'.todo = op.todo \ {p} /\ op'.skipped = op.skipped
        /\ DOMAIN op'.wrote = {p} \cup DOMAIN op.wrote /\ op'.wrote[p] = x
        /\ \A q \in DOMAIN op.wrote : q # p => op'.wrote[q] = op.wrote[q]
    BY <1>2, <1>7, <1>11, WroteIs
  <2>2. file'[p] = x /\ \A q \in Paths \ {p} : file'[q] = file[q]
    BY <1>7, <1>9, <1>11
  <2>3. \A q \in Own(s)' : q \in Paths /\ (q = p \/ q \in Own(s) \ {p})
    BY <1>7, <1>9, <1>11 DEF Own
  <2>4. ASSUME NEW t \in Sessions \ {s} PROVE Ended(t)' /\ Recorded(t)'
    <3>1. \A q \in Own(t)' : q \in Own(t) /\ file'[q] = file[q]
      BY <1>7, <1>9, <1>11, <2>2 DEF Own
    <3>2. QED
      BY <1>2, <1>4, <1>8, <3>1, OthersRecorded
  <2>5. Over(s)' /\ ~Pending(s)' /\ ~Applied(s)'
    BY <1>1, <1>2, <1>4, <2>1 DEF Over, Pending, Applied
  <2>6. Fits(Own(s)', file', journals[s], order[s], l, w)
    <3>1. SUFFICES ASSUME NEW q \in Own(s)', DOMAIN l[q] # {}
                   PROVE  Fit(file'[q], journals[s], order[s], l, w, q)
      BY DEF Fits
    <3>2. CASE q = p
      <4>1. Undone(l, w, q, id, file'[q])
        BY <1>7, <2>2, <3>2
      <4>2. \E j \in journals[s] : j.id = id
        BY <1>10 DEF Journal
      <4>3. QED
        BY <1>5, <4>1, <4>2 DEF Fit
    <3>3. CASE q \in Own(s) \ {p}
      <4>1. Fits(Own(s), file, journals[s], order[s], l, w)
        BY <1>3, <1>5 DEF Recorded
      <4>2. file'[q] = file[q]
        BY <2>2, <3>3 DEF Own
      <4>3. QED
        BY <3>1, <3>3, <4>1, <4>2 DEF Fits
    <3>4. QED
      BY <2>3, <3>1, <3>2, <3>3
  <2>7. Recorded(s)'
    BY <1>3, <1>4, <2>5, <2>6 DEF Recorded
  <2>8. Ended(s)'
    BY <1>4, <1>5, EndedOn
  <2>9. Closing'
    BY <1>1, <1>2, <1>4, <1>5, <2>1 DEF Closing
  <2>10. Redoing'
    <3>1. \A q \in op'.skipped : q \notin op'.todo \cup DOMAIN op'.wrote
      BY <1>10, <2>1
    <3>2. \A q \in op'.todo : q \notin DOMAIN op'.wrote
      BY <1>10, <2>1
    <3>3. \A q \in Own(s)' : Undone(l, w, q, id, file'[q]) =>
            q \in DOMAIN op'.wrote /\ file'[q] = op'.wrote[q]
      BY <1>10, <2>1, <2>2, <2>3
    <3>4. QED
      BY <1>2, <1>3, <1>4, <1>10, <2>1, <3>1, <3>2, <3>3 DEF Redoing
  <2>11. QED
    BY <2>4, <2>7, <2>8, <2>9, <2>10 DEF RecordsInv
<1>12. CASE /\ op' = [op EXCEPT !.todo = @ \ {p}, !.skipped = @ \cup {p}]
            /\ UNCHANGED <<file, by>>
  <2>1. /\ op'.pc = op.pc /\ op'.id = op.id /\ op'.retain = op.retain
        /\ op'.todo = op.todo \ {p} /\ op'.skipped = op.skipped \cup {p} /\ op'.wrote = op.wrote
    BY <1>2, <1>12 DEF Operations
  <2>2. Over(s)' /\ ~Pending(s)' /\ ~Applied(s)'
    BY <1>1, <1>2, <1>4, <2>1 DEF Over, Pending, Applied
  <2>3. \A t \in Sessions : Ended(t)' /\ Recorded(t)'
    BY <1>2, <1>4, <1>8, <1>12, <2>2, HolderRecorded
  <2>4. Closing'
    BY <1>1, <1>2, <1>4, <1>5, <2>1 DEF Closing
  <2>5. Redoing'
    <3>1. \A q \in op'.skipped : q \notin op'.todo \cup DOMAIN op'.wrote
      BY <1>10, <2>1
    <3>2. Own(s)' = Own(s)
      BY <1>12 DEF Own
    <3>3. QED
      BY <1>2, <1>3, <1>4, <1>10, <1>12, <2>1, <3>1, <3>2 DEF Redoing
  <2>6. QED
    BY <2>3, <2>4, <2>5 DEF RecordsInv
<1>13. QED
  BY <1>6, <1>11, <1>12

\* A list that did not change fits, when the restore that the state is owed to is left.
LEMMA FitMoves ==
  ASSUME NEW x, NEW js, NEW o, NEW o2, NEW l, NEW m, NEW w, NEW p, m[p] = l[p],
         \A j \in js : j.id \in o /\ Undone(l, w, p, j.id, x) => j.id \in o2,
         Fit(x, js, o, l, w, p)
  PROVE  Fit(x, js, o2, m, w, p)
<1>1. \A j \in js : Undone(l, w, p, j.id, x) => Undone(m, w, p, j.id, x)
  BY DEF Undone, SoundFrom
<1>2. QED
  BY <1>1 DEF Fit

LEMMA ApplyRecorded ==
  ASSUME StoreTyped, Ordered, RecordsInv, Apply
  PROVE  RecordsInv'
<1>1. op.pc = "apply" /\ UNCHANGED <<file, lease, unended, pend, journals, by>>
  BY DEF Apply, ghost
<1>2. PICK s \in Sessions : lease = s /\ op \in Operations
  BY <1>1, HolderIs
<1>3. /\ order \in [Sessions -> SUBSET CheckpointIds] /\ log \in [Sessions -> [Paths -> Seq(Changes)]]
      /\ warn \in [Sessions -> SUBSET Warnings] /\ tx \in [Sessions -> Transactions]
  BY DEF StoreTyped, DiskTyped, Transactions
<1>4. \/ /\ op' = [op EXCEPT !.pc = "close"]
         /\ order' = [order EXCEPT ![s] = tx[s].order] /\ log' = [log EXCEPT ![s] = tx[s].log]
         /\ warn' = [warn EXCEPT ![s] = tx[s].warn] /\ tx' = [tx EXCEPT ![s] = NoTx]
      \/ /\ op' = [op EXCEPT !.pc = "close", !.failed = TRUE]
         /\ UNCHANGED <<order, log, warn, tx>>
  BY <1>2 DEF Apply
<1>5. Lists(s) /\ Recorded(s) /\ Ended(s) /\ Closing /\ tx[s].set = TRUE
  BY <1>1, <1>2 DEF Ordered, Stages, RecordsInv
<1>6. \A t \in Sessions : Own(t)' = Own(t)
  BY <1>1 DEF Own
<1>7. ~Over(s)
  BY <1>1 DEF Over
<1>8. CASE /\ op' = [op EXCEPT !.pc = "close"]
           /\ order' = [order EXCEPT ![s] = tx[s].order] /\ log' = [log EXCEPT ![s] = tx[s].log]
           /\ warn' = [warn EXCEPT ![s] = tx[s].warn] /\ tx' = [tx EXCEPT ![s] = NoTx]
  <2>1. op'.pc = "close" /\ op'.id = op.id
    BY <1>2, <1>8 DEF Operations
  <2>2. /\ order'[s] = tx[s].order /\ log'[s] = tx[s].log /\ warn'[s] = tx[s].warn
        /\ tx'[s].set = FALSE
    BY <1>3, <1>8 DEF NoTx
  <2>3. OnlyOf(s)
    BY <1>1, <1>3, <1>8 DEF OnlyOf
  <2>4. order'[s] \subseteq order[s]
    BY <1>5, <2>2 DEF Lists
  <2>5. ASSUME NEW t \in Sessions \ {s} PROVE Ended(t)' /\ Recorded(t)'
    BY <1>1, <1>2, <1>6, <2>3, OthersRecorded
  <2>6. Ended(s)'
    BY <1>1, <1>5, <2>4, EndedOn
  <2>7. Fits(Own(s)', file', journals'[s], order'[s], log'[s], warn'[s])
    BY <1>1, <1>5, <1>6, <1>7, <2>2 DEF Recorded
  <2>8. Applied(s)' => Fits(Own(s)', file', journals'[s], order'[s] \ {op'.id}, log'[s], warn'[s])
    BY <1>1, <1>2, <1>5, <1>6, <2>1, <2>2 DEF Recorded, Pending, Applied
  <2>9. Recorded(s)'
    BY <2>1, <2>2, <2>7, <2>8 DEF Recorded, Pending
  <2>10. Closing' /\ Redoing'
    BY <1>1, <1>2, <1>5, <2>1, <2>4 DEF Closing, Redoing
  <2>11. QED
    BY <2>5, <2>6, <2>9, <2>10 DEF RecordsInv
<1>9. CASE /\ op' = [op EXCEPT !.pc = "close", !.failed = TRUE]
           /\ UNCHANGED <<order, log, warn, tx>>
  <2>1. op'.pc = "close" /\ op'.id = op.id /\ op'.failed = TRUE
    BY <1>2, <1>9 DEF Operations
  <2>2. OnlyOf(s)
    BY <1>1, <1>9 DEF OnlyOf
  <2>3. ~Pending(s)' /\ ~Applied(s)'
    BY <2>1 DEF Pending, Applied
  <2>4. \A t \in Sessions : Ended(t)' /\ Recorded(t)'
    BY <1>1, <1>2, <1>7, <1>9, <2>2, <2>3, HolderRecorded
  <2>5. Closing' /\ Redoing'
    BY <1>1, <1>2, <1>5, <1>9, <2>1 DEF Closing, Redoing
  <2>6. QED
    BY <2>4, <2>5 DEF RecordsInv
<1>10. QED
  BY <1>4, <1>8, <1>9

LEMMA CloseRecorded ==
  ASSUME StoreTyped, Ordered, RecordsInv, Close
  PROVE  RecordsInv'
<1> DEFINE mine == Journal(op.id, op.retain, "open")
           hint == Journal(op.id, op.retain, "required")
           met  == {j \in journals[lease] : j.id = op.id /\ j.phase = "required"}
           next == [NoOperation EXCEPT !.pc = "recover", !.why = op.why,
                                       !.target = op.target, !.keep = op.keep]
<1>1. op.pc = "close" /\ UNCHANGED <<file, order, log, warn, unended, pend, tx, by>>
  BY DEF Close, ghost
<1>2. PICK s \in Sessions : lease = s /\ op \in Operations /\ journals[s] \subseteq Journals
  BY <1>1, HolderIs
<1>3. /\ journals \in [Sessions -> SUBSET Journals] /\ op.recovering \in BOOLEAN /\ op.failed \in BOOLEAN
  BY <1>2 DEF StoreTyped, DiskTyped, Operations
<1>4. Lists(s) /\ Recorded(s) /\ Ended(s) /\ Closing /\ Stages
  BY DEF Ordered, RecordsInv
<1>5. /\ op' \in {NoOperation, next} /\ lease' \in {s, Nobody}
  BY <1>2, <1>3 DEF Close, Release
<1>6. op'.pc \in {"idle", "recover"}
  <2>1. NoOperation.pc = "idle" /\ next.pc = "recover"
    BY DEF NoOperation
  <2> HIDE DEF next
  <2>2. QED
    BY <1>5, <2>1
<1>7. ~Pending(s)' /\ ~Applied(s)' /\ ~Over(s) /\ Closing' /\ Redoing'
  BY <1>1, <1>6 DEF Pending, Applied, Over, Closing, Redoing
<1>8. \A t \in Sessions : Own(t)' = Own(t)
  BY <1>1 DEF Own
<1>9. \/ UNCHANGED journals
      \/ /\ op.id # 0
         /\ journals' = [journals EXCEPT ![s] =
                    (@ \ ({mine} \cup IF Clean /\ ~op.recovering THEN met ELSE {}))
                       \cup (IF Asks THEN {hint} ELSE {})]
  BY <1>2 DEF Close, Journal
<1>10. CASE UNCHANGED journals
  <2>1. OnlyOf(s)
    BY <1>1, <1>10 DEF OnlyOf
  <2>2. \A t \in Sessions : Ended(t)' /\ Recorded(t)'
    BY <1>1, <1>2, <1>5, <1>7, <1>10, <2>1, HolderRecorded
  <2>3. QED
    BY <1>7, <2>2 DEF RecordsInv
<1>11. CASE /\ op.id # 0
            /\ journals' = [journals EXCEPT ![s] =
                    (@ \ ({mine} \cup IF Clean /\ ~op.recovering THEN met ELSE {}))
                       \cup (IF Asks THEN {hint} ELSE {})]
  <2>1. /\ \A j \in journals[s] : j.id # op.id => j \in journals'[s]
        /\ \A i \in journals'[s] : i \in journals[s] \/ i.id = op.id
        /\ Asks => \E i \in journals'[s] : i.id = op.id
        /\ \A t \in Sessions \ {s} : journals'[t] = journals[t]
    <3>1. mine.id = op.id /\ hint.id = op.id /\ \A j \in met : j.id = op.id
      BY DEF Journal
    <3>2. PICK gone, new : /\ gone = {mine} \cup IF Clean /\ ~op.recovering THEN met ELSE {}
                           /\ new = IF Asks THEN {hint} ELSE {}
      OBVIOUS
    <3> HIDE DEF mine, hint, met
    <3>3. /\ (\A j \in gone : j.id = op.id) /\ (\A j \in new : j.id = op.id)
          /\ Asks => \E j \in new : j.id = op.id
      BY <3>1, <3>2
    <3>4. journals' = [journals EXCEPT ![s] = (@ \ gone) \cup new]
      BY <1>11, <3>2
    <3>5. /\ journals'[s] = (journals[s] \ gone) \cup new
          /\ \A t \in Sessions \ {s} : journals'[t] = journals[t]
      BY <1>3, <3>4
    <3>6. QED
      BY <3>3, <3>5
  <2> HIDE DEF mine, hint, met, next
  <2>2. OnlyOf(s)
    BY <1>1, <2>1 DEF OnlyOf
  <2>3. ASSUME NEW t \in Sessions \ {s} PROVE Ended(t)' /\ Recorded(t)'
    BY <1>2, <1>1, <1>5, <1>8, <2>2, OthersRecorded
  <2>4. Ended(s)'
    BY <1>1, <1>2, <1>4, <1>11, <2>1 DEF Ended, Closing
  <2>5. CASE Asks
    <3>1. \A j \in journals[s] : \E i \in journals'[s] : i.id = j.id
      BY <2>1, <2>5
    <3>2. Recorded(s)'
      BY <1>1, <1>4, <1>7, <1>8, <3>1, RecordedOn
    <3>3. QED
      BY <1>7, <2>3, <2>4, <3>2 DEF RecordsInv
  <2>6. CASE ~Asks
    <3>1. op.failed = FALSE
      BY <1>3, <2>6 DEF Asks
    <3>2. tx[s].set # TRUE
      BY <1>1, <1>2, <1>4, <1>11, <3>1 DEF Stages
    <3>3. Fits(Own(s), file, journals[s], order[s] \ {op.id}, log[s], warn[s])
      BY <1>1, <1>2, <1>4, <1>11, <3>1 DEF Recorded, Applied
    <3>4. Fits(Own(s)', file', journals'[s], order[s] \ {op.id}, log[s], warn[s])
      <4>1. \A j \in journals[s] : j.id \in order[s] \ {op.id} =>
              \E i \in journals'[s] : i.id = j.id /\ j.id \in order[s] \ {op.id}
        BY <2>1
      <4>2. \A p \in Own(s)' : p \in Own(s) /\ file'[p] = file[p]
        BY <1>1, <1>8
      <4>3. QED
        BY <3>3, <4>1, <4>2, FitsOn
    <3>5. Fits(Own(s)', file', journals'[s], order[s], log[s], warn[s])
      BY <3>4, FitsLess
    <3>6. Recorded(s)'
      BY <1>1, <1>7, <3>2, <3>5 DEF Recorded
    <3>7. QED
      BY <1>7, <2>3, <2>4, <3>6 DEF RecordsInv
  <2>7. QED
    BY <2>5, <2>6
<1>12. QED
  BY <1>9, <1>10, <1>11

LEMMA CommitRecorded ==
  ASSUME StoreTyped, Ordered, RecordsInv, Commit,
         Fault => tx[lease].set # TRUE
  PROVE  RecordsInv'
<1>1. op.pc = "files"
  BY DEF Commit
<1>2. PICK s \in Sessions, id \in Nat : lease = s /\ op.id = id /\ op \in Operations
  <2>1. lease \in Sessions /\ op \in Operations
    BY <1>1, HolderIs
  <2>2. op.id \in Nat
    BY <2>1, CheckpointsAssumption DEF Operations
  <2>3. QED
    BY <2>1, <2>2
<1>3. PICK l, w : log[s] = l /\ w = warn[s]
  OBVIOUS
<1>4. /\ Lists(s) /\ Recorded(s) /\ Ended(s) /\ Closing /\ Redoing /\ PlanSound /\ id \in order[s]
  BY <1>1, <1>2 DEF Ordered, RecordsInv, Stages
<1>5. /\ l \in [Paths -> Seq(Changes)] /\ order[s] \subseteq CheckpointIds
      /\ journals[s] \subseteq Journals /\ by \in [Paths -> SUBSET Sessions]
  BY <1>3 DEF StoreTyped, DiskTyped, WorkspaceTyped
<1>6. \A p \in Paths : Ascending(l[p])
  BY <1>3, <1>4 DEF Lists, Listed
<1>7. /\ op.todo = {}
      /\ op'.skipped = op.skipped \cup {p \in DOMAIN op.wrote : file[p] # op.wrote[p]}
      /\ \/ /\ NoFault /\ op' = [op EXCEPT !.pc = "apply", !.skipped = op'.skipped]
            /\ tx'[s].set = TRUE /\ tx'[s].warn = warn[s]
            /\ tx'[s].order = (IF op'.skipped = {} /\ op.retain = FALSE
                               THEN {i \in order[s] : i < id} ELSE order[s])
            /\ Committed(s, l, id, tx'[s].log)
            /\ by' = [p \in Paths |-> IF p \in DOMAIN op.wrote /\ file[p] = op.wrote[p]
                                      THEN by[p] \cup {s} ELSE by[p]]
         \/ /\ Fault /\ UNCHANGED <<tx, by>>
            /\ op' = [op EXCEPT !.pc = "close", !.skipped = op'.skipped, !.failed = TRUE]
      /\ (\A t \in Sessions \ {s} : tx'[t] = tx[t])
      /\ UNCHANGED <<file, lease, order, log, warn, unended, pend, journals>>
  BY <1>2, <1>3, <1>6, CommitIs
<1>8. OnlyOf(s)
  BY <1>7 DEF OnlyOf
<1>9. Ended(s)'
  BY <1>4, <1>7, EndedOn
<1>10. PICK js, o, skip : js = journals[s] /\ o = order[s] /\ skip = op'.skipped
  OBVIOUS
<1>11. /\ Journal(id, op.retain, "open") \in js
       /\ (\A p \in op.skipped : p \notin DOMAIN op.wrote)
       /\ \A p \in Own(s) : Undone(l, w, p, id, file[p]) =>
            p \in DOMAIN op.wrote /\ file[p] = op.wrote[p]
  BY <1>1, <1>2, <1>3, <1>4, <1>10 DEF Redoing
<1>12. /\ \A p \in Paths : \A k \in DOMAIN l[p] :
            id <= l[p][k].id => p \in DOMAIN op.wrote \cup op.skipped
       /\ \A p \in DOMAIN op.wrote : Undone(l, w, p, id, op.wrote[p])
  BY <1>1, <1>2, <1>3, <1>4, <1>7 DEF PlanSound, Undone
<1>13. Fits(Own(s), file, js, o, l, w)
  BY <1>3, <1>4, <1>10 DEF Recorded
<1>14. CASE /\ Fault /\ UNCHANGED <<tx, by>>
            /\ op' = [op EXCEPT !.pc = "close", !.skipped = skip, !.failed = TRUE]
  <2>1. op'.pc = "close" /\ op'.id = id /\ op'.failed = TRUE
    BY <1>2, <1>14 DEF Operations
  <2>2. ~Pending(s)' /\ ~Applied(s)' /\ tx[s].set # TRUE
    BY <1>2, <1>14, <2>1 DEF Pending, Applied
  <2>3. \A t \in Sessions : Ended(t)' /\ Recorded(t)'
    BY <1>2, <1>7, <1>8, <1>14, <2>2, HolderRecorded
  <2>4. Closing' /\ Redoing'
    BY <1>1, <1>2, <1>4, <1>7, <2>1 DEF Closing, Redoing
  <2>5. QED
    BY <2>3, <2>4 DEF RecordsInv
<1>15. CASE /\ op' = [op EXCEPT !.pc = "apply", !.skipped = skip]
            /\ tx'[s].set = TRUE /\ tx'[s].warn = warn[s]
            /\ tx'[s].order = (IF skip = {} /\ op.retain = FALSE
                               THEN {i \in order[s] : i < id} ELSE order[s])
            /\ Committed(s, l, id, tx'[s].log)
            /\ by' = [p \in Paths |-> IF p \in DOMAIN op.wrote /\ file[p] = op.wrote[p]
                                      THEN by[p] \cup {s} ELSE by[p]]
  <2>1. op'.pc = "apply" /\ op'.id = id
    BY <1>2, <1>15 DEF Operations
  <2>2. /\ \A t \in Sessions \ {s} : Own(t)' = Own(t)
        /\ \A p \in Own(s)' : p \in Paths /\
             (p \in Own(s) \/ (p \in DOMAIN op.wrote /\ file[p] = op.wrote[p]))
    BY <1>5, <1>15 DEF Own
  <2>3. PICK m, left : m = tx'[s].log /\ left = tx'[s].order
    OBVIOUS
  <2>4. /\ left = (IF skip = {} /\ op.retain = FALSE THEN {i \in o : i < id} ELSE o)
        /\ Committed(s, l, id, m)
        /\ skip = op.skipped \cup {p \in DOMAIN op.wrote : file[p] # op.wrote[p]}
    BY <1>7, <1>10, <1>15, <2>3
  <2>5. Fits(Own(s)', file, js, o, l, w)
    <3>1. SUFFICES ASSUME NEW p \in Own(s)', DOMAIN l[p] # {}
                   PROVE  Fit(file[p], js, o, l, w, p)
      BY DEF Fits
    <3>2. CASE p \in Own(s)
      BY <1>13, <3>1, <3>2 DEF Fits
    <3>3. CASE p \in DOMAIN op.wrote /\ file[p] = op.wrote[p]
      <4>1. Undone(l, w, p, id, file[p])
        BY <1>12, <3>3
      <4>2. \E j \in js : j.id = id
        BY <1>11 DEF Journal
      <4>3. QED
        BY <1>4, <1>10, <4>1, <4>2 DEF Fit
    <3>4. QED
      BY <2>2, <3>1, <3>2, <3>3
  <2>6. ASSUME NEW p \in Paths, p \notin DOMAIN op.wrote \/ file[p] # op.wrote[p]
        PROVE  m[p] = l[p]
    <3>1. CASE p \in skip
      BY <1>10, <2>4, <3>1 DEF Committed
    <3>2. CASE p \notin skip
      <4>1. p \notin DOMAIN op.wrote /\ p \notin op.skipped
        BY <2>4, <2>6, <3>2
      <4>2. PICK d, q : d = m[p] /\ q = l[p]
        OBVIOUS
      <4>3. q \in Seq(Changes) /\ DOMAIN q = 1..Len(q) /\ Len(q) \in Nat
        BY <1>5, <4>2, ChangeTypes
      <4>4. Shortened(q, id, d) /\ \A k \in DOMAIN d : d[k].after = q[k].after
        BY <1>10, <2>4, <3>2, <4>1, <4>2 DEF Committed
      <4>5. \A k \in DOMAIN q : ~(id <= q[k].id)
        BY <1>12, <4>1, <4>2
      <4>6. /\ d \in Seq(Changes) /\ Len(d) \in 0..Len(q) /\ DOMAIN d = 1..Len(d)
            /\ \A k \in 1..Len(q) : Len(d) < k <=> id <= q[k].id
            /\ \A k \in DOMAIN d : d[k].id = q[k].id /\ d[k].before = q[k].before
        BY <4>4 DEF Shortened
      <4>7. Len(d) = Len(q)
        <5>1. Len(d) < Len(q) => Len(q) \in 1..Len(q) /\ Len(q) \in DOMAIN q
          BY <4>3, <4>6
        <5>2. ~(Len(d) < Len(q))
          BY <4>5, <4>6, <5>1
        <5>3. PICK a, b : a = Len(d) /\ b = Len(q)
          OBVIOUS
        <5>4. b \in Nat /\ a \in 0..b /\ ~(a < b)
          BY <4>3, <4>6, <5>2, <5>3
        <5>5. a = b
          BY <5>4
        <5>6. QED
          BY <5>3, <5>5
      <4>8. \A k \in 1..Len(q) : d[k] \in Changes /\ q[k] \in Changes
        BY <4>3, <4>6, <4>7, ChangeTypes
      <4>9. \A k \in 1..Len(q) : d[k] = q[k]
        BY <4>4, <4>6, <4>7, <4>8 DEF Changes
      <4>10. d = q
        BY <4>3, <4>6, <4>7, <4>9
      <4>11. QED
        BY <4>2, <4>10
    <3>3. QED
      BY <3>1, <3>2
  <2>7. Fits(Own(s)', file, js, left \ {id}, m, w)
    <3>1. SUFFICES ASSUME NEW p \in Own(s)', DOMAIN m[p] # {}
                   PROVE  Fit(file[p], js, left \ {id}, m, w, p)
      BY DEF Fits
    <3>2. p \in Paths
      BY <2>2
    <3>3. CASE p \in DOMAIN op.wrote /\ file[p] = op.wrote[p]
      <4>1. p \notin skip
        BY <1>11, <2>4, <3>3
      <4>2. m[p] # <<>> => m[p][Len(m[p])].after = file[p]
        BY <1>10, <2>4, <3>2, <3>3, <4>1 DEF Committed
      <4>3. m[p] # <<>>
        BY <3>1
      <4>4. QED
        BY <4>2, <4>3 DEF Fit
    <3>4. CASE p \notin DOMAIN op.wrote \/ file[p] # op.wrote[p]
      <4>1. p \in Own(s) /\ m[p] = l[p]
        BY <2>2, <2>6, <3>2, <3>4
      <4>2. Fit(file[p], js, o, l, w, p)
        BY <1>13, <3>1, <4>1 DEF Fits
      <4>3. ~Undone(l, w, p, id, file[p])
        BY <1>11, <3>4, <4>1
      <4>4. ASSUME NEW j \in js, j.id \in o, Undone(l, w, p, j.id, file[p])
            PROVE  j.id \in left \ {id}
        <5>1. j.id # id
          BY <4>3, <4>4
        <5>2. CASE left = o
          BY <4>4, <5>1, <5>2
        <5>3. CASE skip = {} /\ left = {i \in o : i < id}
          <6>1. PICK k \in DOMAIN l[p] : StartsAt(l[p], j.id, k)
            BY <4>4 DEF Undone, SoundFrom
          <6>2. l[p] \in Seq(Changes)
            BY <1>5, <3>2
          <6>3. k \in Nat /\ l[p][k].id \in Nat
            BY <6>1, <6>2, ChangeTypes
          <6>4. j.id <= l[p][k].id
            BY <6>1, <6>3 DEF StartsAt
          <6>5. ~(id <= l[p][k].id)
            <7>1. p \notin DOMAIN op.wrote \cup op.skipped
              BY <2>4, <3>4, <5>3
            <7>2. QED
              BY <1>12, <3>2, <6>1, <7>1
          <6>6. j.id \in Nat
            BY <1>5, <1>10, <4>4, CheckpointsAssumption DEF CheckpointIds
          <6>7. QED
            BY <4>4, <5>3, <6>3, <6>4, <6>5, <6>6
        <5>4. QED
          BY <2>4, <5>2, <5>3
      <4>5. QED
        BY <4>1, <4>2, <4>4, FitMoves
    <3>5. QED
      BY <3>3, <3>4
  <2>8. Fits(Own(s)', file, js, left, m, w)
    BY <2>7, FitsLess
  <2>9. ~Applied(s)' /\ op'.id = id /\ file' = file /\ journals'[s] = js /\ order'[s] = o
        /\ log'[s] = l /\ warn'[s] = w /\ tx'[s].warn = w
    BY <1>3, <1>7, <1>10, <1>15, <2>1 DEF Applied
  <2>10. Recorded(s)'
    BY <2>3, <2>5, <2>7, <2>8, <2>9 DEF Recorded
  <2>11. ASSUME NEW t \in Sessions \ {s} PROVE Ended(t)' /\ Recorded(t)'
    BY <1>2, <1>7, <1>8, <2>2, OthersRecorded
  <2>12. Closing' /\ Redoing'
    BY <1>1, <1>2, <1>4, <1>7, <2>1 DEF Closing, Redoing
  <2>13. QED
    BY <1>9, <2>10, <2>11, <2>12 DEF RecordsInv
<1>16. QED
  BY <1>7, <1>10, <1>14, <1>15

-----------------------------------------------------------------------------
(* The records agree with the files.                                        *)

\* A restore that goes on over a transaction that is not applied yet is stopped.
StopsOver ==
  op.pc = "files" /\ tx[lease].set = TRUE /\ op'.pc # "files" /\ storeFaults' # storeFaults

LEMMA StartRecords == StoreInit => RecordsInv
<1> SUFFICES ASSUME StoreInit PROVE RecordsInv
  OBVIOUS
<1>1. op.pc = "idle" /\ (\A p \in Paths : by[p] = {})
      /\ \A s \in Sessions : journals[s] = {} /\ tx[s].set = FALSE
  BY DEF StoreInit, NoOperation, NoTx
<1>2. Closing /\ Redoing
  BY <1>1 DEF Closing, Redoing
<1>3. ASSUME NEW s \in Sessions PROVE Ended(s) /\ Recorded(s)
  <2>1. Own(s) = {}
    BY <1>1 DEF Own
  <2>2. QED
    BY <1>1, <2>1 DEF Ended, Recorded, Fits, Pending, Applied
<1>4. QED
  BY <1>2, <1>3 DEF RecordsInv

LEMMA StepRecorded ==
  StoreInv /\ RecordsInv /\ [StoreNext]_storeVars /\ [~StopsOver]_storeVars => RecordsInv'
<1> SUFFICES ASSUME StoreTyped, Ordered, RecordsInv, [StoreNext]_storeVars, [~StopsOver]_storeVars
             PROVE  RecordsInv'
  BY DEF StoreInv
<1>1. ASSUME StoreStep PROVE RecordsInv'
  <2>1. CASE Recover
    BY <2>1, RecoverRecorded
  <2>2. CASE Begin
    BY <2>2, BeginRecorded
  <2>3. CASE Decline
    BY <2>3, DeclineRecorded
  <2>4. CASE Go
    BY <2>4, GoRecorded
  <2>5. CASE Compact
    BY <2>5, CompactRecorded
  <2>6. CASE PlanRestore
    BY <2>6, PlanRestoreRecorded
  <2>7. CASE RestoreFile
    BY <2>7, RestoreFileRecorded
  <2>8. CASE Commit
    <3>1. op.pc = "files" /\ op \in Operations
      BY <2>8, HolderIs DEF Commit
    <3>2. ASSUME Fault PROVE storeFaults' # storeFaults
      BY <3>2 DEF Fault, StoreTyped, BudgetTyped
    <3>3. ASSUME Fault PROVE op'.pc # "files"
      <4>1. \E skip : \/ op' = [op EXCEPT !.pc = "apply", !.skipped = skip]
                      \/ op' = [op EXCEPT !.pc = "close", !.skipped = skip, !.failed = TRUE]
        BY <2>8 DEF Commit
      <4>2. QED
        BY <3>1, <4>1 DEF Operations
    <3>4. Fault => tx[lease].set # TRUE
      BY <3>1, <3>2, <3>3 DEF StopsOver, storeVars, budget
    <3>5. QED
      BY <2>8, <3>4, CommitRecorded
  <2>9. CASE Apply
    BY <2>9, ApplyRecorded
  <2>10. CASE Close
    BY <2>10, CloseRecorded
  <2>11. QED
    BY <1>1, <2>1, <2>2, <2>3, <2>4, <2>5, <2>6, <2>7, <2>8, <2>9, <2>10 DEF StoreStep
<1>2. ASSUME NEW s \in Sessions, TurnStep(s) PROVE RecordsInv'
  BY <1>2, PreRecorded, ToolWritesRecorded, PostRecorded, FinishRecorded DEF TurnStep
<1>3. ASSUME NEW s \in Sessions, ProcessEnds(s) PROVE RecordsInv'
  <2>1. ASSUME lease = s, op.pc = "files" PROVE tx[s].set = FALSE
    <3>1. op'.pc = "idle"
      BY <1>3, <2>1 DEF ProcessEnds, NoOperation
    <3>2. storeFaults' # storeFaults
      BY <1>3 DEF ProcessEnds, Fault, StoreTyped, BudgetTyped
    <3>3. tx[s].set # TRUE
      BY <2>1, <3>1, <3>2 DEF StopsOver, storeVars, budget
    <3>4. tx[s].set \in BOOLEAN
      BY DEF StoreTyped, DiskTyped
    <3>5. QED
      BY <3>3, <3>4
  <2>2. QED
    BY <1>3, <2>1, ProcessEndsRecorded
<1>4. ASSUME NEW s \in Sessions, OpenStore(s) PROVE RecordsInv'
  <2>1. UNCHANGED <<file, unended, pend, by>>
    BY <1>4 DEF OpenStore, ghost
  <2>2. PICK request : request = [NoOperation EXCEPT !.pc = "recover"]
    OBVIOUS
  <2>3. CASE Acquire(s, request)
    <3>1. request.pc = "recover"
      BY <2>2 DEF NoOperation
    <3>2. QED
      BY <2>1, <2>3, <3>1, AcquireRecorded
  <2>4. CASE UNCHANGED <<lease, order, log, warn, tx, journals, op>>
    <3>1. \A t \in Sessions : Own(t)' = Own(t)
      BY <2>1 DEF Own
    <3>2. \A t \in Sessions : Ended(t)' /\ Recorded(t)'
      BY <2>1, <2>4, <3>1 DEF RecordsInv, Ended, Recorded, Over, Pending, Applied
    <3>3. Closing' /\ Redoing'
      BY <2>1, <2>4 DEF RecordsInv, Closing, Redoing, Own
    <3>4. QED
      BY <3>2, <3>3 DEF RecordsInv
  <2>5. QED
    BY <1>4, <2>2, <2>3, <2>4 DEF OpenStore
<1>5. ASSUME NEW s \in Sessions, AskBegin(s) PROVE RecordsInv'
  <2>1. PICK request : request = [NoOperation EXCEPT !.pc = "recover", !.why = "begin"]
    OBVIOUS
  <2>2. request.pc = "recover"
    BY <2>1 DEF NoOperation
  <2>3. Acquire(s, request) /\ UNCHANGED <<file, unended, pend, by>>
    BY <1>5, <2>1 DEF AskBegin, ghost
  <2>4. QED
    BY <2>2, <2>3, AcquireRecorded
<1>6. ASSUME NEW s \in Sessions, AskRestore(s) PROVE RecordsInv'
  <2>1. PICK id, keep : Acquire(s, [NoOperation EXCEPT !.pc = "recover", !.why = "restore",
                                                       !.target = id, !.keep = keep])
    BY <1>6 DEF AskRestore
  <2>2. PICK request : request = [NoOperation EXCEPT !.pc = "recover", !.why = "restore",
                                                     !.target = id, !.keep = keep]
    OBVIOUS
  <2>3. request.pc = "recover"
    BY <2>2 DEF NoOperation
  <2>4. Acquire(s, request) /\ UNCHANGED <<file, unended, pend, by>>
    BY <1>6, <2>1, <2>2 DEF AskRestore, ghost
  <2>5. QED
    BY <2>3, <2>4, AcquireRecorded
<1>7. ASSUME NEW s \in Sessions, AskCompact(s) PROVE RecordsInv'
  <2>1. PICK id : Acquire(s, [NoOperation EXCEPT !.pc = "recover", !.why = "compact", !.target = id])
    BY <1>7 DEF AskCompact
  <2>2. PICK request : request = [NoOperation EXCEPT !.pc = "recover", !.why = "compact", !.target = id]
    OBVIOUS
  <2>3. request.pc = "recover"
    BY <2>2 DEF NoOperation
  <2>4. Acquire(s, request) /\ UNCHANGED <<file, unended, pend, by>>
    BY <1>7, <2>1, <2>2 DEF AskCompact, ghost
  <2>5. QED
    BY <2>3, <2>4, AcquireRecorded
<1>8. ASSUME UNCHANGED storeVars PROVE RecordsInv'
  <2>1. UNCHANGED <<file, lease, order, log, warn, unended, journals, tx, op, by>>
    BY <1>8 DEF storeVars, disk, memory, ghost
  <2>2. \A t \in Sessions : Own(t)' = Own(t)
    BY <2>1 DEF Own
  <2>3. \A t \in Sessions : Ended(t)' /\ Recorded(t)'
    BY <2>1, <2>2 DEF RecordsInv, Ended, Recorded, Over, Pending, Applied
  <2>4. Closing' /\ Redoing'
    BY <2>1 DEF RecordsInv, Closing, Redoing, Own
  <2>5. QED
    BY <2>3, <2>4 DEF RecordsInv
<1>9. QED
  BY <1>1, <1>2, <1>3, <1>4, <1>5, <1>6, <1>7, <1>8, ManualRecorded DEF StoreNext

LEMMA RecordsFit == StoreInv /\ RecordsInv => RecordsMatch
<1> SUFFICES ASSUME StoreInv, RecordsInv, NEW s \in Sessions, NEW p \in Paths,
                    journals[s] = {}, s \in by[p], log[s][p] # <<>>
             PROVE  \/ file[p] = Expected(log[s][p])
                    \/ \E c \in ToSet(log[s][p]) : file[p].data = c.before.data
  BY DEF RecordsMatch
<1>1. PICK l : l = log[s][p]
  OBVIOUS
<1>2. l \in Seq(Changes) /\ l # <<>>
  BY <1>1 DEF StoreInv, StoreTyped, DiskTyped
<1>3. DOMAIN l # {}
  <2>1. DOMAIN l = 1..Len(l) /\ Len(l) \in Nat \ {0}
    BY <1>2, EmptySeq, ChangeTypes
  <2>2. 1 \in DOMAIN l
    BY <2>1
  <2>3. QED
    BY <2>2
<1>4. Fit(file[p], {}, order[s], log[s], warn[s], p)
  BY <1>1, <1>3 DEF RecordsInv, Recorded, Fits, Own
<1>5. file[p] = l[Len(l)].after \/ \E k \in DOMAIN l : file[p].data = l[k].before.data
  BY <1>1, <1>4 DEF Fit
<1>6. \A k \in DOMAIN l : l[k] \in ToSet(l)
  BY DEF ToSet
<1>7. QED
  BY <1>1, <1>5, <1>6 DEF Expected

LEMMA Agrees == StoreInv /\ RecordsInv => RecordsMatch /\ NoTurnOverHalfUndone
<1>1. StoreInv => NoTurnOverHalfUndone
  <2> SUFFICES ASSUME StoreInv, NEW s \in Sessions, active[s] # 0 PROVE journals[s] = {} /\ ~tx[s].set
    BY DEF NoTurnOverHalfUndone
  <2>1. InTurn(s)
    BY DEF StoreInv, Ordered
  <2>2. QED
    BY <2>1 DEF InTurn
<1>2. QED
  BY <1>1, RecordsFit

\* With no restore left to finish, a file its session was the last to write is in a state the
\* session has on record, and no turn begins over a restore that is half done: unless a fault
\* stops a restore that went on over a transaction that was not applied.
THEOREM RecordsAgreeUnlessStopped ==
  StoreSpec /\ [][~StopsOver]_storeVars => []RecordsAgree
<1>1. StoreSpec /\ [][~StopsOver]_storeVars => []RecordsInv
  BY StartRecords, StoreInOrder, StepRecorded, PTL DEF StoreSpec
<1>2. StoreSpec => []StoreTypeOK
  BY StoreTypes
<1>3. StoreTypeOK /\ RecordsMatch /\ NoTurnOverHalfUndone => RecordsAgree
  BY DEF RecordsAgree
<1>4. QED
  BY <1>1, <1>2, <1>3, StoreInOrder, Agrees, PTL

\* It takes two faults before a restore goes on over a transaction that is not applied: one
\* that leaves its journal open, and one that stops what recovery does about it.
Mine(s, j) ==
  lease = s /\ op.pc \in {"files", "apply", "close"} /\ j = Journal(op.id, op.retain, "open")
Continuing ==
  \/ op.pc \in {"recover", "plan", "files"}
  \/ op.pc = "close" /\ op.recovering = TRUE /\ op.id # 0
Scarce ==
  /\ op.pc # "idle" /\ op.recovering = TRUE => storeFaults >= 1
  /\ \A s \in Sessions : \A j \in journals[s] : j.phase = "open" => Mine(s, j) \/ storeFaults >= 1
  /\ \A s \in Sessions : lease = s /\ tx[s].set = TRUE /\ Continuing => storeFaults >= 2

\* Steps outside an operation, or of somebody else, and steps that start or end one.
LEMMA ScarceQuiet ==
  ASSUME StoreTyped, Scarce, storeFaults' \in {storeFaults, storeFaults + 1},
         UNCHANGED <<op, journals, tx>>, lease' = lease \/ op.pc = "idle"
  PROVE  Scarce'
<1>1. storeFaults \in Nat /\ storeFaults' \in Nat /\ storeFaults <= storeFaults'
  BY DEF StoreTyped, BudgetTyped
<1>2. CASE lease' = lease
  BY <1>1, <1>2 DEF Scarce, Mine, Continuing
<1>3. CASE op.pc = "idle"
  BY <1>1, <1>3 DEF Scarce, Mine, Continuing
<1>4. QED
  BY <1>2, <1>3

LEMMA ScarceIdle ==
  ASSUME StoreTyped, Scarce, op'.pc = "idle", storeFaults' \in {storeFaults, storeFaults + 1},
         \A s \in Sessions : \A j \in journals'[s] :
           j.phase = "open" => j \in journals[s] /\ (Mine(s, j) => storeFaults' >= 1)
  PROVE  Scarce'
<1>1. storeFaults \in Nat /\ storeFaults' \in Nat /\ storeFaults <= storeFaults'
  BY DEF StoreTyped, BudgetTyped
<1>2. QED
  BY <1>1 DEF Scarce, Continuing

LEMMA ScarceAcquire ==
  ASSUME StoreTyped, Scarce, NEW s \in Sessions, NEW request, request.pc = "recover",
         request.recovering = FALSE, Acquire(s, request), storeFaults' = storeFaults
  PROVE  Scarce'
<1>1. lease = Nobody /\ lease' = s /\ op' = request /\ tx' = [tx EXCEPT ![s] = NoTx]
      /\ \E moot : journals' = [journals EXCEPT ![s] = @ \ moot]
  BY DEF Acquire
<1>2. \A t \in Sessions : journals'[t] \subseteq journals[t]
  BY <1>1 DEF StoreTyped, DiskTyped
<1>3. tx'[s].set = FALSE
  BY <1>1 DEF StoreTyped, DiskTyped, NoTx
<1>4. \A t \in Sessions : lease # t
  BY <1>1, CheckpointsAssumption
<1>5. \A t \in Sessions : \A j \in journals[t] : ~Mine(t, j)
  BY <1>4 DEF Mine
<1>6. QED
  BY <1>1, <1>2, <1>3, <1>5 DEF Scarce

\* A step that takes the operation on.
LEMMA ScarceMoves ==
  ASSUME StoreTyped, Scarce, NEW s \in Sessions, lease = s, lease' = s,
         storeFaults' \in {storeFaults, storeFaults + 1},
         op'.recovering = TRUE => op.recovering = TRUE \/ storeFaults' >= 1,
         op.pc # "idle",
         \A t \in Sessions : \A j \in journals'[t] :
           j.phase = "open" => Mine(t, j)' \/ (j \in journals[t] /\ ~Mine(t, j)) \/ storeFaults' >= 1,
         tx'[s].set = TRUE /\ Continuing' => (tx[s].set = TRUE /\ Continuing) \/ storeFaults' >= 2
  PROVE  Scarce'
<1>1. storeFaults \in Nat /\ storeFaults' \in Nat /\ storeFaults <= storeFaults'
  BY DEF StoreTyped, BudgetTyped
<1>2. op'.recovering = TRUE => storeFaults' >= 1
  BY <1>1 DEF Scarce
<1>3. \A t \in Sessions : \A j \in journals'[t] : j.phase = "open" => Mine(t, j)' \/ storeFaults' >= 1
  BY <1>1 DEF Scarce
<1>4. \A t \in Sessions : lease' = t /\ tx'[t].set = TRUE /\ Continuing' => storeFaults' >= 2
  BY <1>1 DEF Scarce
<1>5. QED
  BY <1>2, <1>3, <1>4 DEF Scarce

LEMMA StepFaults ==
  ASSUME StoreTyped
  PROVE  /\ NoFault => storeFaults' = storeFaults
         /\ Fault => storeFaults' = storeFaults + 1 /\ storeFaults' >= 1 /\ storeFaults' # storeFaults
         /\ storeFaults \in Nat
BY DEF Fault, NoFault, budget, StoreTyped, BudgetTyped

LEMMA ScarceOperation ==
  ASSUME StoreTyped, Stages, Scarce, Recover \/ Go \/ Compact \/ PlanRestore \/ RestoreFile \/ Commit \/ Apply
  PROVE  Scarce'
<1>1. op.pc # "idle"
  BY DEF Recover, Go, Recovered, Compact, PlanRestore, RestoreFile, Commit, Apply
<1>2. PICK s \in Sessions : lease = s /\ op \in Operations
  BY <1>1, HolderIs
<1>3. journals \in [Sessions -> SUBSET Journals] /\ tx \in [Sessions -> Transactions]
  BY DEF StoreTyped, DiskTyped, Transactions
<1>4. CASE Recover
  <2>1. /\ op.pc = "recover" /\ UNCHANGED <<lease, tx>> /\ storeFaults' = storeFaults
        /\ \E j \in journals[s] :
              /\ j.phase = "open"
              /\ \/ /\ op' = [op EXCEPT !.pc = "plan", !.id = j.id, !.retain = j.retain,
                                        !.recovering = TRUE]
                    /\ UNCHANGED journals
                 \/ journals' = [journals EXCEPT ![s] = @ \ {j}] /\ UNCHANGED op
    BY <1>2, <1>4 DEF Recover, budget
  <2>2. \A t \in Sessions : \A j \in journals[t] : ~Mine(t, j)
    BY <2>1 DEF Mine
  <2>3. storeFaults >= 1
    BY <2>1, <2>2 DEF Scarce
  <2>4. \A t \in Sessions : journals'[t] \subseteq journals[t]
    BY <1>3, <2>1
  <2>5. Continuing
    BY <2>1 DEF Continuing
  <2>6. QED
    BY <1>1, <1>2, <2>1, <2>2, <2>3, <2>4, <2>5, ScarceMoves
<1>5. CASE Go
  <2>1. op.pc = "recover" /\ UNCHANGED <<lease, journals, tx>> /\ storeFaults' = storeFaults
        /\ op' = [op EXCEPT !.pc = "plan", !.id = op.target, !.retain = op.keep, !.recovering = FALSE]
    BY <1>5 DEF Go, Recovered, disk, budget
  <2>2. op'.recovering = FALSE
    BY <1>2, <2>1 DEF Operations
  <2>3. Continuing /\ \A t \in Sessions : \A j \in journals[t] : ~Mine(t, j)
    BY <2>1 DEF Mine, Continuing
  <2>4. QED
    BY <1>1, <1>2, <2>1, <2>2, <2>3, ScarceMoves
<1>6. CASE Compact
  <2>1. /\ op.pc = "recover" /\ UNCHANGED <<lease, journals>>
        /\ \/ NoFault /\ op' = [op EXCEPT !.pc = "apply"]
           \/ Fault /\ op' = [op EXCEPT !.pc = "close"] /\ UNCHANGED tx
    BY <1>6 DEF Compact, Recovered
  <2>2. op'.pc \in {"apply", "close"} /\ op'.recovering = op.recovering /\ op'.id = 0
    BY <1>2, <2>1 DEF Operations, Stages
  <2>3. (\A t \in Sessions : \A j \in journals[t] : ~Mine(t, j)) /\ ~Continuing'
    BY <2>1, <2>2 DEF Mine, Continuing
  <2>4. QED
    BY <1>1, <1>2, <2>1, <2>2, <2>3, StepFaults, ScarceMoves
<1>7. CASE PlanRestore
  <2>1. /\ op.pc = "plan" /\ UNCHANGED tx
        /\ \/ /\ NoFault /\ UNCHANGED lease /\ op'.pc = "files"
              /\ journals' = [journals EXCEPT ![s] = @ \cup {Journal(op.id, op.retain, "open")}]
              /\ op'.recovering = op.recovering /\ op'.id = op.id /\ op'.retain = op.retain
           \/ /\ Fault /\ UNCHANGED journals
              /\ \/ op' = [op EXCEPT !.pc = "close", !.failed = TRUE] /\ UNCHANGED lease
                 \/ Release
    <3> DEFINE here    == {i \in order[s] : i >= op.id}
               warned  == {w.path : w \in {x \in warn'[s] : x.id \in here}}
               touched == {p \in Paths : Since(s, op.id, p) # <<>>}
               sound   == IF Unknown \in warned THEN {}
                          ELSE {p \in touched \ warned : Continuous(Since(s, op.id, p))}
               done    == {p \in sound : file[p].data = Desired(Since(s, op.id, p)).data}
               due     == {p \in sound \ done : file[p] = Expected(Since(s, op.id, p))}
    <3>1. /\ op.pc = "plan" /\ UNCHANGED tx
          /\ \/ /\ NoFault /\ UNCHANGED lease
                /\ journals' = [journals EXCEPT ![s] = @ \cup {Journal(op.id, op.retain, "open")}]
                /\ op' = [op EXCEPT !.pc = "files", !.todo = due,
                                    !.wrote = [p \in done |-> file[p]],
                                    !.skipped = warned \cup (touched \ (done \cup due))]
             \/ /\ Fault /\ UNCHANGED journals
                /\ \/ op' = [op EXCEPT !.pc = "close", !.failed = TRUE] /\ UNCHANGED lease
                   \/ Release
      BY <1>2, <1>7 DEF PlanRestore, Journal
    <3>2. PICK a, b, c : /\ a = due /\ b = [p \in done |-> file[p]]
                         /\ c = warned \cup (touched \ (done \cup due))
      OBVIOUS
    <3> HIDE DEF here, warned, touched, sound, done, due
    <3>3. ASSUME op' = [op EXCEPT !.pc = "files", !.todo = a, !.wrote = b, !.skipped = c]
          PROVE  /\ op'.pc = "files" /\ op'.recovering = op.recovering /\ op'.id = op.id
                 /\ op'.retain = op.retain
      BY <1>2, <3>3 DEF Operations
    <3>4. QED
      BY <3>1, <3>2, <3>3
  <2>2. Continuing /\ \A t \in Sessions : \A j \in journals[t] : ~Mine(t, j)
    BY <2>1 DEF Mine, Continuing
  <2>3. CASE /\ NoFault /\ UNCHANGED lease /\ op'.pc = "files"
             /\ journals' = [journals EXCEPT ![s] = @ \cup {Journal(op.id, op.retain, "open")}]
             /\ op'.recovering = op.recovering /\ op'.id = op.id /\ op'.retain = op.retain
    <3>1. \A t \in Sessions : \A j \in journals'[t] :
            j \in journals[t] \/ (t = s /\ j = Journal(op.id, op.retain, "open"))
      BY <1>3, <2>3
    <3>2. \A t \in Sessions : \A j \in journals'[t] : Mine(t, j)' \/ (j \in journals[t] /\ ~Mine(t, j))
      BY <1>2, <2>2, <2>3, <3>1 DEF Mine
    <3>3. QED
      BY <1>1, <1>2, <2>1, <2>2, <2>3, <3>2, StepFaults, ScarceMoves
  <2>4. CASE Fault /\ UNCHANGED journals /\ op' = [op EXCEPT !.pc = "close", !.failed = TRUE] /\ UNCHANGED lease
    <3>1. op'.recovering = op.recovering
      BY <1>2, <2>4 DEF Operations
    <3>2. QED
      BY <1>1, <1>2, <2>1, <2>2, <2>4, <3>1, StepFaults, ScarceMoves
  <2>5. CASE Fault /\ UNCHANGED journals /\ Release
    <3>1. op'.pc = "idle"
      BY <2>5 DEF Release, NoOperation
    <3>2. QED
      BY <2>2, <2>5, <3>1, StepFaults, ScarceIdle
  <2>6. QED
    BY <2>1, <2>3, <2>4, <2>5
<1>8. CASE RestoreFile
  <2>1. /\ op.pc = "files" /\ UNCHANGED <<lease, journals, tx>> /\ (NoFault \/ Fault)
        /\ \E jobs, wrote, skipped : \/ op' = [op EXCEPT !.todo = jobs, !.wrote = wrote]
                                    \/ op' = [op EXCEPT !.todo = jobs, !.skipped = skipped]
    <3>1. op.pc = "files" /\ UNCHANGED <<lease, journals, tx>> /\ (NoFault \/ Fault)
      BY <1>8 DEF RestoreFile, disk
    <3>2. \E jobs, wrote, skipped : \/ op' = [op EXCEPT !.todo = jobs, !.wrote = wrote]
                                    \/ op' = [op EXCEPT !.todo = jobs, !.skipped = skipped]
      BY <1>8 DEF RestoreFile
    <3>3. QED
      BY <3>1, <3>2
  <2>2. /\ op'.pc = op.pc /\ op'.recovering = op.recovering /\ op'.id = op.id /\ op'.retain = op.retain
    BY <1>2, <2>1 DEF Operations
  <2>3. Continuing /\ \A t \in Sessions : \A j \in journals[t] : Mine(t, j)' = Mine(t, j)
    BY <1>2, <2>1, <2>2 DEF Continuing, Mine
  <2>4. QED
    BY <1>1, <1>2, <2>1, <2>2, <2>3, StepFaults, ScarceMoves
<1>9. CASE Commit
  <2>1. PICK skipped :
          /\ op.pc = "files" /\ UNCHANGED <<lease, journals>>
          /\ \/ NoFault /\ op' = [op EXCEPT !.pc = "apply", !.skipped = skipped]
             \/ Fault /\ UNCHANGED tx
                /\ op' = [op EXCEPT !.pc = "close", !.skipped = skipped, !.failed = TRUE]
    BY <1>9 DEF Commit
  <2>2. /\ op'.pc = "apply" \/ (op'.pc = "close" /\ UNCHANGED tx)
        /\ op'.recovering = op.recovering /\ op'.id = op.id /\ op'.retain = op.retain
    BY <1>2, <2>1 DEF Operations
  <2>3. /\ Continuing /\ (Continuing' => UNCHANGED tx)
        /\ \A t \in Sessions : \A j \in journals[t] : Mine(t, j)' = Mine(t, j)
    BY <1>2, <2>1, <2>2 DEF Continuing, Mine
  <2>4. QED
    BY <1>1, <1>2, <2>1, <2>2, <2>3, StepFaults, ScarceMoves
<1>10. CASE Apply
  <2>1. /\ op.pc = "apply" /\ UNCHANGED <<lease, journals>>
        /\ \/ NoFault /\ op' = [op EXCEPT !.pc = "close"] /\ tx' = [tx EXCEPT ![s] = NoTx]
           \/ Fault /\ op' = [op EXCEPT !.pc = "close", !.failed = TRUE]
    BY <1>2, <1>10 DEF Apply
  <2>2. op'.pc = "close" /\ op'.recovering = op.recovering /\ op'.id = op.id /\ op'.retain = op.retain
    BY <1>2, <2>1 DEF Operations
  <2>3. \A t \in Sessions : \A j \in journals[t] : Mine(t, j)' = Mine(t, j)
    BY <1>2, <2>1, <2>2 DEF Mine
  <2>4. tx'[s].set = TRUE /\ Continuing' => storeFaults' >= 2
    <3>1. CASE NoFault /\ tx' = [tx EXCEPT ![s] = NoTx]
      <4>1. tx'[s].set = FALSE
        BY <1>3, <3>1 DEF NoTx
      <4>2. QED
        BY <4>1
    <3>2. CASE Fault
      <4>1. op.recovering = TRUE => storeFaults >= 1
        BY <1>1 DEF Scarce
      <4>2. Continuing' => op.recovering = TRUE
        BY <2>2 DEF Continuing
      <4>3. QED
        BY <3>2, <4>1, <4>2, StepFaults
    <3>3. QED
      BY <2>1, <3>1, <3>2
  <2>5. QED
    BY <1>1, <1>2, <2>1, <2>2, <2>3, <2>4, StepFaults, ScarceMoves
<1>11. QED
  BY <1>4, <1>5, <1>6, <1>7, <1>8, <1>9, <1>10

LEMMA ScarceClose ==
  ASSUME StoreTyped, Scarce, Close
  PROVE  Scarce'
<1> DEFINE mine == Journal(op.id, op.retain, "open")
           hint == Journal(op.id, op.retain, "required")
           next == [NoOperation EXCEPT !.pc = "recover", !.why = op.why,
                                       !.target = op.target, !.keep = op.keep]
<1>1. op.pc = "close" /\ UNCHANGED tx
  BY DEF Close
<1>2. PICK s \in Sessions : lease = s /\ op \in Operations
  BY <1>1, HolderIs
<1>3. journals \in [Sessions -> SUBSET Journals] /\ op.recovering \in BOOLEAN
  BY <1>2 DEF StoreTyped, DiskTyped, Operations
<1>4. CASE Fault /\ Release /\ UNCHANGED journals
  <2>1. op'.pc = "idle"
    BY <1>4 DEF Release, NoOperation
  <2>2. QED
    BY <1>4, <2>1, StepFaults, ScarceIdle
<1>5. CASE op.id = 0 /\ Release /\ UNCHANGED journals /\ NoFault
  <2>1. op'.pc = "idle"
    BY <1>5 DEF Release, NoOperation
  <2>2. \A t \in Sessions : \A j \in journals[t] : ~Mine(t, j)
    <3>1. \A t \in Sessions : \A j \in journals[t] : j.id # 0
      BY <1>3 DEF Journals, CheckpointIds
    <3>2. QED
      BY <1>5, <3>1 DEF Mine, Journal
  <2>3. QED
    BY <1>5, <2>1, <2>2, StepFaults, ScarceIdle
<1>6. CASE /\ op.id # 0 /\ NoFault
           /\ \E gone, new : /\ mine \in gone /\ (\A j \in new : j = hint)
                             /\ journals' = [journals EXCEPT ![s] = (@ \ gone) \cup new]
           /\ (Release \/ (op.recovering = TRUE /\ op' = next /\ UNCHANGED lease))
  <2>1. hint.phase = "required" /\ next.pc = "recover" /\ next.recovering = FALSE
    BY DEF Journal, NoOperation
  <2>2. PICK gone, new : /\ mine \in gone /\ (\A j \in new : j = hint)
                         /\ journals' = [journals EXCEPT ![s] = (@ \ gone) \cup new]
    BY <1>6
  <2>3. \A t \in Sessions : \A j \in journals'[t] :
          j.phase = "open" => j \in journals[t] /\ (t = s => j # mine)
    BY <1>3, <2>1, <2>2
  <2>4. \A t \in Sessions : \A j \in journals'[t] : j.phase = "open" => j \in journals[t] /\ ~Mine(t, j)
    BY <1>2, <2>3 DEF Mine
  <2> HIDE DEF mine, hint, next
  <2>5. CASE Release
    <3>1. op'.pc = "idle"
      BY <2>5 DEF Release, NoOperation
    <3>2. QED
      BY <1>6, <2>4, <3>1, StepFaults, ScarceIdle
  <2>6. CASE op.recovering = TRUE /\ op' = next /\ UNCHANGED lease
    <3>1. Continuing
      BY <1>1, <1>6, <2>6 DEF Continuing
    <3>2. QED
      BY <1>1, <1>2, <1>6, <2>1, <2>4, <2>6, <3>1, StepFaults, ScarceMoves
  <2>7. QED
    BY <1>6, <2>5, <2>6
<1>7. QED
  <2>1. \/ op.id = 0 /\ Release /\ UNCHANGED journals /\ NoFault
        \/ Fault /\ Release /\ UNCHANGED journals
        \/ /\ op.id # 0 /\ NoFault
           /\ journals' = [journals EXCEPT ![s] =
                  (@ \ ({mine} \cup IF Clean /\ ~op.recovering
                                    THEN {j \in journals[s] : j.id = op.id /\ j.phase = "required"}
                                    ELSE {}))
                     \cup (IF Asks THEN {hint} ELSE {})]
           /\ (Release \/ (op.recovering = TRUE /\ op' = next /\ UNCHANGED lease))
    BY <1>2, <1>3 DEF Close, Journal
  <2> HIDE DEF mine, hint, next
  <2>2. QED
    BY <1>4, <1>5, <1>6, <2>1

LEMMA StepScarce == StoreInv /\ Scarce /\ [StoreNext]_storeVars => Scarce'
<1> SUFFICES ASSUME StoreTyped, Ordered, Scarce, [StoreNext]_storeVars PROVE Scarce'
  BY DEF StoreInv
<1>1. storeFaults \in Nat
  BY StepFaults
<1>2. ASSUME op.pc \notin {"files", "apply", "close"}
      PROVE  \A s \in Sessions : \A j \in journals[s] : ~Mine(s, j)
  BY <1>2 DEF Mine
<1>3. ASSUME StoreStep PROVE Scarce'
  <2>1. CASE Begin \/ Decline
    <3>1. op.pc = "recover" /\ op' = NoOperation /\ UNCHANGED <<journals, storeFaults>>
      BY <2>1 DEF Begin, Decline, Recovered, Release, disk, budget
    <3>2. op'.pc = "idle"
      BY <3>1 DEF NoOperation
    <3>3. QED
      BY <1>2, <3>1, <3>2, ScarceIdle
  <2>2. CASE Close
    BY <2>2, ScarceClose
  <2>3. QED
    BY <1>3, <2>1, <2>2, ScarceOperation DEF StoreStep, Ordered
<1>4. ASSUME NEW s \in Sessions, TurnStep(s) PROVE Scarce'
  <2>1. active[s] # 0
    BY <1>4 DEF TurnStep, Pre, ToolWrites, Post, Finish
  <2>2. op.pc = "idle"
    BY <2>1 DEF StoreTyped, Leased
  <2>3. UNCHANGED <<op, journals, tx>> /\ (NoFault \/ Fault \/ storeFaults' = storeFaults)
    BY <1>4 DEF TurnStep, Pre, ToolWrites, Post, Finish, memory, disk
  <2>4. QED
    BY <2>2, <2>3, StepFaults, ScarceQuiet
<1>5. ASSUME Manual PROVE Scarce'
  <2>1. UNCHANGED <<lease, op, journals, tx, storeFaults>>
    BY <1>5 DEF Manual, memory, disk
  <2>2. QED
    BY <2>1, ScarceQuiet
<1>6. ASSUME NEW s \in Sessions, ProcessEnds(s) PROVE Scarce'
  <2>1. /\ Fault /\ UNCHANGED <<journals, tx>>
        /\ (op' = NoOperation \/ UNCHANGED <<op, lease>>)
    BY <1>6 DEF ProcessEnds, disk
  <2>2. CASE op' = NoOperation
    <3>1. op'.pc = "idle"
      BY <2>2 DEF NoOperation
    <3>2. QED
      BY <2>1, <3>1, StepFaults, ScarceIdle
  <2>3. CASE UNCHANGED <<op, lease>>
    BY <2>1, <2>3, StepFaults, ScarceQuiet
  <2>4. QED
    BY <2>1, <2>2, <2>3
<1>7. ASSUME NEW s \in Sessions, OpenStore(s) \/ AskBegin(s) \/ AskRestore(s) \/ AskCompact(s)
      PROVE  Scarce'
  <2>1. storeFaults' = storeFaults
    BY <1>7 DEF OpenStore, AskBegin, AskRestore, AskCompact, budget
  <2>2. CASE \E request : /\ request.pc = "recover" /\ request.recovering = FALSE
                          /\ Acquire(s, request)
    BY <2>1, <2>2, ScarceAcquire
  <2>3. CASE OpenStore(s)
    <3>1. [NoOperation EXCEPT !.pc = "recover"].pc = "recover"
          /\ [NoOperation EXCEPT !.pc = "recover"].recovering = FALSE
      BY DEF NoOperation
    <3>2. \/ Acquire(s, [NoOperation EXCEPT !.pc = "recover"])
          \/ UNCHANGED <<lease, op, journals, tx>>
      BY <2>3 DEF OpenStore
    <3>3. QED
      BY <2>1, <2>2, <3>1, <3>2, ScarceQuiet
  <2>4. CASE AskBegin(s)
    <3>1. [NoOperation EXCEPT !.pc = "recover", !.why = "begin"].pc = "recover"
          /\ [NoOperation EXCEPT !.pc = "recover", !.why = "begin"].recovering = FALSE
      BY DEF NoOperation
    <3>2. Acquire(s, [NoOperation EXCEPT !.pc = "recover", !.why = "begin"])
      BY <2>4 DEF AskBegin
    <3>3. QED
      BY <2>2, <3>1, <3>2
  <2>5. CASE AskRestore(s)
    <3>1. PICK id, keep : Acquire(s, [NoOperation EXCEPT !.pc = "recover", !.why = "restore",
                                                         !.target = id, !.keep = keep])
      BY <2>5 DEF AskRestore
    <3>2. PICK request : request = [NoOperation EXCEPT !.pc = "recover", !.why = "restore",
                                                       !.target = id, !.keep = keep]
      OBVIOUS
    <3>3. request.pc = "recover" /\ request.recovering = FALSE
      BY <3>2 DEF NoOperation
    <3>4. QED
      BY <2>2, <3>1, <3>2, <3>3
  <2>6. CASE AskCompact(s)
    <3>1. PICK id : Acquire(s, [NoOperation EXCEPT !.pc = "recover", !.why = "compact", !.target = id])
      BY <2>6 DEF AskCompact
    <3>2. PICK request : request = [NoOperation EXCEPT !.pc = "recover", !.why = "compact", !.target = id]
      OBVIOUS
    <3>3. request.pc = "recover" /\ request.recovering = FALSE
      BY <3>2 DEF NoOperation
    <3>4. QED
      BY <2>2, <3>1, <3>2, <3>3
  <2>7. QED
    BY <1>7, <2>3, <2>4, <2>5, <2>6
<1>8. ASSUME UNCHANGED storeVars PROVE Scarce'
  <2>1. UNCHANGED <<lease, op, journals, tx, storeFaults>>
    BY <1>8 DEF storeVars, disk, memory, budget
  <2>2. QED
    BY <2>1, ScarceQuiet
<1>9. QED
  BY <1>3, <1>4, <1>5, <1>6, <1>7, <1>8 DEF StoreNext

LEMMA StartScarce == StoreInit => Scarce
BY DEF StoreInit, Scarce, Mine, Continuing, NoOperation, NoTx

\* Up to two faults, no restore is stopped over a transaction that is not applied.
FewFaults == storeFaults <= 2 => RecordsInv
LEMMA StepFew == StoreInv /\ Scarce /\ FewFaults /\ [StoreNext]_storeVars => FewFaults'
<1> SUFFICES ASSUME StoreInv, Scarce, FewFaults, [StoreNext]_storeVars, storeFaults' <= 2
             PROVE  RecordsInv'
  BY DEF FewFaults
<1>1. StoreTyped
  BY DEF StoreInv
<1>2. storeFaults \in Nat /\ storeFaults' \in {storeFaults, storeFaults + 1}
  <2>1. \/ Fault \/ NoFault \/ storeFaults' = storeFaults
    BY DEF StoreNext, StoreStep, TurnStep, Manual, Recover, Begin, Decline, Go, Compact,
           PlanRestore, RestoreFile, Commit, Apply, Close, Pre, ToolWrites, Post, Finish, OpenStore,
           ProcessEnds, AskBegin, AskRestore, AskCompact, budget, storeVars
  <2>2. QED
    BY <1>1, <2>1, StepFaults
<1>3. RecordsInv
  BY <1>2 DEF FewFaults
<1>4. ~StopsOver
  <2>1. ASSUME StopsOver PROVE FALSE
    <3>1. op.pc = "files" /\ tx[lease].set = TRUE /\ storeFaults' = storeFaults + 1
      BY <1>2, <2>1 DEF StopsOver
    <3>2. lease \in Sessions
      BY <1>1, <3>1, HolderIs
    <3>3. storeFaults >= 2
      BY <3>1, <3>2 DEF Scarce, Continuing
    <3>4. QED
      BY <1>2, <3>1, <3>3
  <2>2. QED
    BY <2>1
<1>5. QED
  BY <1>3, <1>4, StepRecorded

\* Whatever ends or fails, as long as it is not more than twice, the records agree with the
\* files between operations, and no turn begins over a restore that is half done.
THEOREM RecordsAgreeOverTwoFaults == StoreSpec => [](storeFaults <= 2 => RecordsAgree)
<1>1. StoreInit => FewFaults
  BY StartRecords DEF FewFaults
<1>2. StoreSpec => [](Scarce /\ FewFaults)
  BY <1>1, StartScarce, StepScarce, StepFew, StoreInOrder, PTL DEF StoreSpec
<1>3. StoreTypeOK /\ RecordsMatch /\ NoTurnOverHalfUndone => RecordsAgree
  BY DEF RecordsAgree
<1>4. StoreInv /\ FewFaults /\ StoreTypeOK => (storeFaults <= 2 => RecordsAgree)
  BY <1>3, Agrees DEF FewFaults
<1>5. QED
  BY <1>2, <1>4, StoreInOrder, StoreTypes, PTL
=============================================================================
