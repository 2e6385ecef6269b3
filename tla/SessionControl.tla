--------------------------- MODULE SessionControl ---------------------------
(***************************************************************************)
(* The control plane of one session: the single write lease, the pause     *)
(* flag, the one-shot handoffs and the audit trail that                    *)
(* kernel/session_control.py keeps in control.json.  Every public method   *)
(* of SessionControl is one transaction (read, mutate, write under the     *)
(* file lock), so every method is one action here; LockedUpdate studies    *)
(* what becomes of these transactions when the lock does not hold.         *)
(*                                                                         *)
(* Abstractions of data:                                                   *)
(*   - a lease id (a fresh uuid per grant) is the epoch of its grant; 0 is *)
(*     "no id presented" and the id of the absent lease;                   *)
(*   - expires_at - now is the number of ticks the lease has left, so the  *)
(*     clock itself is not part of the state;                              *)
(*   - a handoff id is its position in the list, and a handoff is reduced  *)
(*     to who claimed it;                                                  *)
(*   - the audit file is reduced to its last line: the lease it leaves in  *)
(*     force for its reader (trail), and whether its number is behind the  *)
(*     audit_seq of control.json (behind).  Any append may fail.           *)
(***************************************************************************)
EXTENDS Integers, Sequences, FiniteSets

CONSTANTS
  Ids,          \* identities a controller may claim
  Actors,       \* the (id, kind) claims the clients of this session make
  Anonymous,    \* the default actor of an operation that names none
  NoActor,      \* "no actor field on the operation"
  TtlRequests,  \* the ttl values clients ask for, in ticks
  NoTtl,        \* "no ttl field on the operation"
  MinTtl, MaxTtl, DefaultTtl,
  MaxEpoch,     \* bound: grants in one behaviour
  MaxHandoffs   \* bound: handoffs minted in one behaviour

Kinds == {"unknown", "automation", "human"}

ASSUME ActorsAssumption ==
  /\ Actors \subseteq [id : Ids, kind : Kinds]
  /\ Anonymous \in Actors
  /\ NoActor \notin Actors

ASSUME TtlAssumption ==
  /\ MinTtl \in Nat \ {0} /\ MaxTtl \in Nat /\ DefaultTtl \in MinTtl .. MaxTtl
  /\ TtlRequests \subseteq Int /\ NoTtl \notin TtlRequests

ASSUME BoundsAssumption == MaxEpoch \in Nat /\ MaxHandoffs \in Nat

VARIABLES
  lease,     \* _State.lease, NoLease when null
  epoch,     \* _State.epoch
  paused,    \* _State.paused
  handoffs,  \* _State.handoffs, each reduced to its claimed_by
  trail,     \* the lease in force according to the last line of control-audit.jsonl
  behind,    \* the number of that line is less than _State.audit_seq
  alive,     \* identities whose controller process still runs
  landed,    \* history: lease id under which the latest write was accepted
  by         \* history: the actor of the latest operation

lastLine == <<trail, behind>>
control == <<lease, epoch, paused, handoffs, lastLine>>
vars == <<lease, epoch, paused, handoffs, trail, behind, alive, landed, by>>

NoLease == [id |-> 0, actor |-> NoActor, left |-> 0]

Leases == [id : 1 .. MaxEpoch, actor : Actors, left : 0 .. MaxTtl]

LeaseIds == 0 .. MaxEpoch

TypeOK ==
  /\ lease \in Leases \cup {NoLease}
  /\ epoch \in 0 .. MaxEpoch
  /\ paused \in BOOLEAN
  /\ handoffs \in Seq(Actors \cup {NoActor})
  /\ Len(handoffs) <= MaxHandoffs
  /\ trail \in LeaseIds
  /\ behind \in BOOLEAN
  /\ alive \subseteq Ids
  /\ landed \in LeaseIds
  /\ by \in Actors \cup {NoActor}

Init ==
  /\ lease = NoLease
  /\ epoch = 0
  /\ paused = FALSE
  /\ handoffs = <<>>
  /\ trail = 0
  /\ behind = FALSE
  /\ alive = Ids
  /\ landed = 0
  /\ by = NoActor

-----------------------------------------------------------------------------
(* Helpers shared by the operations.                                        *)

Precedence(a) == CASE a.kind = "human"      -> 2
                   [] a.kind = "automation" -> 1
                   [] OTHER                 -> 0

Who(a) == IF a = NoActor THEN Anonymous ELSE a

\* An operation reaches the session only while its sender still runs.
Sends(a) == Who(a).id \in alive /\ by' = Who(a)

\* Mutant: only an absent ttl is looked at.
TtlUnclamped(raw) == IF raw = NoTtl THEN DefaultTtl ELSE raw

\* _ttl: absent takes the default, anything else is clamped.
Ttl(raw) == IF raw = NoTtl THEN DefaultTtl
            ELSE IF raw < MinTtl THEN MinTtl
            ELSE IF raw > MaxTtl THEN MaxTtl ELSE raw

\* Mutant: off by one at the deadline, so that a lease never expires.
ExpiredTooLate == lease # NoLease /\ lease.left < 0

Expired == lease # NoLease /\ lease.left = 0

Reaped == IF Expired THEN NoLease ELSE lease

\* _audit, for the lines one operation appends: last is the lease in force after
\* the last of them, earlier those after the others.  Every line takes the next
\* number, but an append may fail, which is suppressed.
Audit(earlier, last) ==
  \/ trail' = last /\ behind' = FALSE
  \/ trail' \in {trail} \cup earlier /\ behind' = TRUE

\* The line lease.expired, when others follow it.
Expiry == IF Expired THEN {0} ELSE {}

\* Mutant: a lease is reaped without its lease.expired line.
ExpiryUnaudited == UNCHANGED lastLine

\* The line lease.expired, when it is the only one.
AuditExpiry == IF Expired THEN Audit({}, 0) ELSE UNCHANGED lastLine

\* _grant: a new epoch, a new lease id.
Grant(a, raw, earlier) ==
  /\ epoch < MaxEpoch
  /\ epoch' = epoch + 1
  /\ lease' = [id |-> epoch + 1, actor |-> a, left |-> Ttl(raw)]
  /\ Audit(earlier, epoch + 1)

\* _expire_if_due, when the operation changes the lease no further: with no line
\* of its own, or with one.
Reap == lease' = Reaped /\ AuditExpiry /\ UNCHANGED epoch

ReapAndAudit == lease' = Reaped /\ Audit(Expiry, Reaped.id) /\ UNCHANGED epoch

-----------------------------------------------------------------------------
(* The lease life cycle.                                                    *)

HeldByOther(a) == Reaped # NoLease /\ Reaped.actor.id # a.id

\* The same identity re-acquiring renews: a new lease id, not a conflict.
Acquire(a, raw) ==
  /\ Sends(a)
  /\ \/ a = NoActor /\ Audit({}, lease.id) /\ UNCHANGED <<lease, epoch>>  \* no_actor
     \/ a # NoActor /\ HeldByOther(a) /\ ReapAndAudit                    \* lease_held
     \/ a # NoActor /\ ~HeldByOther(a) /\ Grant(a, raw, Expiry)
  /\ UNCHANGED <<paused, handoffs, alive, landed>>

\* A controller heartbeats while it runs; a superseded id is a conflict.
Heartbeat(l, raw) ==
  /\ IF Reaped = NoLease \/ Reaped.id # l
     THEN lease' = Reaped
     ELSE lease.actor.id \in alive /\ lease' = [lease EXCEPT !.left = Ttl(raw)]
  /\ AuditExpiry
  /\ by' = NoActor
  /\ UNCHANGED <<epoch, paused, handoffs, alive, landed>>

\* release looks at the stored lease, expired or not, and an empty id
\* releases whatever is held.
Release(a, l) ==
  /\ Who(a).id \in alive
  /\ IF lease = NoLease \/ (l # 0 /\ lease.id # l)
     THEN by' = Who(a) /\ UNCHANGED <<lease, lastLine>>
     ELSE /\ by' = IF a = NoActor THEN lease.actor ELSE a
          /\ lease' = NoLease
          /\ Audit({}, 0)
  /\ UNCHANGED <<epoch, paused, handoffs, alive, landed>>

MayNotTake(a, force) ==
  /\ Reaped # NoLease
  /\ ~(Precedence(a) > Precedence(Reaped.actor))
  /\ ~(force /\ a.kind = "human" /\ Precedence(a) = Precedence(Reaped.actor))

Takeover(a, force, raw) ==
  /\ Sends(a)
  /\ \/ a = NoActor /\ UNCHANGED <<lease, epoch, lastLine>>              \* no_actor
     \/ a # NoActor /\ MayNotTake(a, force) /\ ReapAndAudit             \* takeover_denied
     \/ /\ a # NoActor /\ ~MayNotTake(a, force)
        /\ Grant(a, raw, IF lease # NoLease THEN {0} ELSE {})   \* expired or revoked
  /\ UNCHANGED <<paused, handoffs, alive, landed>>

-----------------------------------------------------------------------------
(* Pause and handoff.                                                       *)

Pause(a, l) ==
  /\ Sends(a)
  /\ IF Reaped # NoLease /\ l # 0 /\ Reaped.id # l
     THEN /\ Reap                                              \* not_holder
          /\ UNCHANGED <<paused, handoffs>>
     ELSE /\ Len(handoffs) < MaxHandoffs
          /\ handoffs' = Append(handoffs, NoActor)
          /\ paused' = TRUE
          /\ lease' = NoLease
          /\ Audit({0}, 0)                  \* session.paused, handoff.created
          /\ UNCHANGED epoch
  /\ UNCHANGED <<alive, landed>>

Claimable(h) == h \in DOMAIN handoffs /\ handoffs[h] = NoActor

\* Mutant: the handoff reference alone is enough.
OutrankedNever(a) == FALSE

Outranked(a) == Reaped # NoLease /\ Precedence(a) < Precedence(Reaped.actor)

ClaimHandoff(a, h, raw) ==
  /\ Sends(a)
  /\ \/ ~Claimable(h) /\ UNCHANGED control           \* unknown / claimed
     \/ /\ Claimable(h) /\ Outranked(Who(a)) /\ Reap \* takeover_denied
        /\ UNCHANGED <<paused, handoffs>>
     \/ /\ Claimable(h) /\ ~Outranked(Who(a))
        /\ Grant(Who(a), raw, Expiry)
        /\ handoffs' = [handoffs EXCEPT ![h] = Who(a)]
        /\ paused' = FALSE
  /\ UNCHANGED <<alive, landed>>

Resume(a) ==
  /\ Sends(a)
  /\ paused' = FALSE
  /\ IF paused THEN Audit({}, lease.id) ELSE UNCHANGED lastLine
  /\ UNCHANGED <<lease, epoch, handoffs, alive, landed>>

\* note_ambient and _auth_refusal: a line that leaves the lease alone.
NoteAmbient(a) ==
  /\ Sends(a)
  /\ Audit({}, lease.id)
  /\ UNCHANGED <<lease, epoch, paused, handoffs, alive, landed>>

-----------------------------------------------------------------------------
(* The write gate.                                                          *)

\* Mutant: any lease id opens the gate.
DeniedToNobodyWithAnId(l) == paused \/ (l = 0 /\ Reaped # NoLease)

\* authorize: session_paused, lease_expired / not_holder, lease_held.
Denied(l) ==
  \/ paused
  \/ l # 0 /\ (Reaped = NoLease \/ Reaped.id # l)
  \/ l = 0 /\ Reaped # NoLease

Attributed(a, l) ==
  IF a # NoActor THEN a
  ELSE IF Reaped # NoLease /\ l = Reaped.id THEN Reaped.actor ELSE Anonymous

Authorize(a, l) ==
  /\ Who(a).id \in alive
  /\ by' = Attributed(a, l)
  /\ ReapAndAudit
  /\ landed' = IF Denied(l) THEN landed ELSE l
  /\ UNCHANGED <<paused, handoffs, alive>>

-----------------------------------------------------------------------------
(* The environment: time, and controllers that vanish without a word.       *)

Tick ==
  /\ lease # NoLease /\ lease.left > 0
  /\ lease' = [lease EXCEPT !.left = @ - 1]
  /\ UNCHANGED <<epoch, paused, handoffs, lastLine, alive, landed, by>>

Vanish(i) ==
  /\ i \in alive \ {Anonymous.id}
  /\ alive' = alive \ {i}
  /\ UNCHANGED <<lease, epoch, paused, handoffs, lastLine, landed, by>>

Requests == TtlRequests \cup {NoTtl}

Next ==
  \/ \E a \in Actors \cup {NoActor}, raw \in Requests : Acquire(a, raw)
  \/ \E l \in LeaseIds, raw \in Requests : Heartbeat(l, raw)
  \/ \E a \in Actors \cup {NoActor}, l \in LeaseIds : Release(a, l)
  \/ \E a \in Actors \cup {NoActor}, force \in BOOLEAN, raw \in Requests :
        Takeover(a, force, raw)
  \/ \E a \in Actors \cup {NoActor}, l \in LeaseIds : Pause(a, l)
  \/ \E a \in Actors \cup {NoActor}, h \in 1 .. MaxHandoffs, raw \in Requests :
        ClaimHandoff(a, h, raw)
  \/ \E a \in Actors \cup {NoActor} : Resume(a) \/ NoteAmbient(a)
  \/ \E a \in Actors \cup {NoActor}, l \in LeaseIds : Authorize(a, l)
  \/ Tick
  \/ \E i \in Ids : Vanish(i)

Spec == Init /\ [][Next]_vars

\* Time passes, and some client (at least the anonymous one) keeps asking.
Fairness == WF_vars(Tick) /\ WF_vars(Authorize(NoActor, 0))

FairSpec == Spec /\ Fairness

-----------------------------------------------------------------------------
(* Correctness.                                                             *)

Live == lease # NoLease /\ lease.left > 0

\* Every path that begins or ends a lease has its lines, in the right order: once
\* the last line in control-audit.jsonl is the last one numbered, it leaves the
\* lease of control.json in force, however many appends failed before it.  Behind
\* that number it may name a lease long gone, but never one that was not granted.
TrailAgrees == (~behind => trail = lease.id) /\ trail <= epoch

\* The lease in force is always the newest one granted, so no superseded
\* controller finds its own id back in force.
LeaseIsNewest == lease # NoLease => lease.id = epoch

\* A paused session always has a way out that a person can be handed: the
\* handoff minted by the latest pause is still unclaimed.
PauseCanBeClaimed ==
  paused => handoffs # <<>> /\ handoffs[Len(handoffs)] = NoActor

\* A trail that is not behind names the lease in force, that lease is the newest,
\* and a pause can be claimed, after every sequence of operations, refusals,
\* expiries and failed appends.
ControlAgrees == TrailAgrees /\ LeaseIsNewest /\ PauseCanBeClaimed

\* The pen passes straight from one living holder to another only upwards or
\* sideways in rank, never from a person to a bot, whichever operation did it.
NeverSeizedByWeaker ==
  [][ (Live /\ lease'.id > lease.id /\ lease'.actor.id # lease.actor.id)
      => Precedence(lease'.actor) >= Precedence(lease.actor) ]_vars

\* AC5 of docs/SESSION-CONTROL.md: a holder that vanished is reaped, so the
\* session is never locked for good.
VanishedHolderIsReaped ==
  \A i \in Ids :
    (lease # NoLease /\ lease.actor.id = i /\ i \notin alive)
      ~> (lease = NoLease \/ lease.actor.id # i)

\* The promise to clients, stated abstractly: writes land under the newest
\* lease or under none, and never while the session is paused.
Fence == INSTANCE WriteFence WITH token <- lease.id, issued <- epoch, frozen <- paused

FenceSpec == Fence!Spec
=============================================================================
