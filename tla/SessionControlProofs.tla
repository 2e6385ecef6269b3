------------------------ MODULE SessionControlProofs ------------------------
(***************************************************************************)
(* What the control of a session guarantees: its operations, for every set *)
(* of actors, every ttl range and every bound; and the transactions that   *)
(* store them (LockedUpdate), for any number of processes, any choice of   *)
(* those that look at the yielded boolean, any deadlines and any number of *)
(* deaths and stalls.                                                      *)
(***************************************************************************)
EXTENDS SessionControl, LockedUpdate, FiniteSetTheorems, SequenceTheorems, TLAPS

\* A requested ttl is clamped into the legal range, whatever was asked.
LEMMA TtlInRange ==
  ASSUME NEW raw \in Requests
  PROVE  Ttl(raw) \in 0 .. MaxTtl
<1>1. CASE raw = NoTtl
  BY <1>1, TtlAssumption DEF Ttl
<1>2. CASE raw # NoTtl
  <2>1. raw \in Int
    BY <1>2, TtlAssumption DEF Requests
  <2>2. QED
    BY <1>2, <2>1, TtlAssumption DEF Ttl
<1>3. QED
  BY <1>1, <1>2

\* An operation that names no actor is made by the default actor.
LEMMA WhoIsAnActor ==
  ASSUME NEW a \in Actors \cup {NoActor}
  PROVE  Who(a) \in Actors
BY ActorsAssumption DEF Who

\* Whatever reaches the audit file, its last line names a lease.
LEMMA AuditType ==
  ASSUME TypeOK
  PROVE  /\ \A earlier \in SUBSET {0}, last \in LeaseIds : Audit(earlier, last) =>
              trail' \in LeaseIds /\ behind' \in BOOLEAN
         /\ 0 \in LeaseIds /\ lease.id \in LeaseIds /\ Reaped.id \in LeaseIds
         /\ Expiry \in SUBSET {0}
         /\ AuditExpiry => trail' \in LeaseIds /\ behind' \in BOOLEAN
<1>1. 0 \in LeaseIds
  BY BoundsAssumption DEF LeaseIds
<1>2. \A earlier \in SUBSET {0}, last \in LeaseIds : Audit(earlier, last) =>
              trail' \in LeaseIds /\ behind' \in BOOLEAN
  BY <1>1 DEF TypeOK, Audit
<1>3. lease.id \in LeaseIds /\ Reaped.id \in LeaseIds
  BY <1>1 DEF TypeOK, Reaped, NoLease, Leases, LeaseIds
<1>4. Expiry \in SUBSET {0}
  BY DEF Expiry
<1>5. AuditExpiry => trail' \in LeaseIds /\ behind' \in BOOLEAN
  <2>1. CASE Expired
    BY <1>1, <1>2, <2>1 DEF AuditExpiry
  <2>2. CASE ~Expired
    BY <2>2 DEF AuditExpiry, lastLine, TypeOK
  <2>3. QED
    BY <2>1, <2>2
<1>6. QED
  BY <1>1, <1>2, <1>3, <1>4, <1>5

\* Reaping an expired lease keeps the lease and the trail well typed.
LEMMA ReapedType ==
  ASSUME TypeOK
  PROVE  /\ Reaped \in Leases \cup {NoLease}
         /\ Reap \/ ReapAndAudit => /\ lease' \in Leases \cup {NoLease} /\ epoch' = epoch
                                   /\ trail' \in LeaseIds /\ behind' \in BOOLEAN
BY AuditType DEF TypeOK, Reaped, Reap, ReapAndAudit

\* A grant mints the next epoch's lease, and its line is the last.
LEMMA GrantType ==
  ASSUME TypeOK, NEW a \in Actors, NEW raw \in Requests, NEW earlier \in SUBSET {0},
         Grant(a, raw, earlier)
  PROVE  /\ lease' \in Leases
         /\ lease'.id = epoch + 1 /\ lease'.actor = a
         /\ epoch' = epoch + 1 /\ epoch' \in 0 .. MaxEpoch
         /\ trail' \in LeaseIds /\ behind' \in BOOLEAN
         /\ Audit(earlier, epoch + 1)
<1>1. Ttl(raw) \in 0 .. MaxTtl
  BY TtlInRange
<1>2. epoch \in Nat /\ epoch + 1 \in 1 .. MaxEpoch /\ epoch + 1 # 0
  BY BoundsAssumption DEF TypeOK, Grant
<1>3. epoch + 1 \in LeaseIds
  BY <1>2 DEF LeaseIds
<1>4. Audit(earlier, epoch + 1)
  BY DEF Grant
<1>5. trail' \in LeaseIds /\ behind' \in BOOLEAN
  BY <1>3, <1>4, AuditType
<1>6. QED
  BY <1>1, <1>2, <1>4, <1>5 DEF Grant, Leases

-----------------------------------------------------------------------------
(* Type correctness.                                                        *)

\* Every operation keeps the control file well formed.
THEOREM TypeCorrect == Spec => []TypeOK
<1>1. Init => TypeOK
  <2>1. <<>> \in Seq(Actors \cup {NoActor}) /\ Len(<<>>) = 0
    OBVIOUS
  <2>2. 0 \in LeaseIds /\ 0 \in 0 .. MaxEpoch /\ 0 <= MaxHandoffs
    BY BoundsAssumption DEF LeaseIds
  <2>3. QED
    BY <2>1, <2>2 DEF Init, TypeOK
<1>2. TypeOK /\ [Next]_vars => TypeOK'
  <2> SUFFICES ASSUME TypeOK, [Next]_vars
               PROVE  TypeOK'
    OBVIOUS
  <2> USE DEF TypeOK
  <2>0. /\ Reaped \in Leases \cup {NoLease}
        /\ Reap \/ ReapAndAudit => /\ lease' \in Leases \cup {NoLease} /\ epoch' = epoch
                                  /\ trail' \in LeaseIds /\ behind' \in BOOLEAN
    BY ReapedType
  <2>a. Expiry \in SUBSET {0} /\ (IF lease # NoLease THEN {0} ELSE {}) \in SUBSET {0}
    BY AuditType
  <2>b. Audit({}, lease.id) \/ Audit({}, 0) \/ Audit({0}, 0) \/ AuditExpiry =>
          trail' \in LeaseIds /\ behind' \in BOOLEAN
    <3>1. {} \in SUBSET {0} /\ {0} \in SUBSET {0}
      OBVIOUS
    <3>2. QED
      BY <3>1, AuditType
  <2>1. ASSUME NEW a \in Actors \cup {NoActor}, NEW raw \in Requests, Acquire(a, raw)
        PROVE  TypeOK'
    <3>1. Who(a) \in Actors
      BY WhoIsAnActor
    <3>2. CASE a = NoActor /\ Audit({}, lease.id) /\ UNCHANGED <<lease, epoch>>
      BY <2>1, <2>b, <3>1, <3>2 DEF Acquire, Sends
    <3>3. CASE a # NoActor /\ ReapAndAudit
      BY <2>0, <2>1, <3>1, <3>3 DEF Acquire, Sends
    <3>4. CASE a # NoActor /\ Grant(a, raw, Expiry)
      BY <2>1, <2>a, <3>1, <3>4, GrantType DEF Acquire, Sends
    <3>5. QED
      BY <2>1, <3>2, <3>3, <3>4 DEF Acquire
  <2>2. ASSUME NEW l \in LeaseIds, NEW raw \in Requests, Heartbeat(l, raw)
        PROVE  TypeOK'
    <3>1. CASE lease' = Reaped
      BY <2>0, <2>2, <2>b, <3>1 DEF Heartbeat
    <3>2. CASE Reaped # NoLease /\ lease' = [lease EXCEPT !.left = Ttl(raw)]
      <4>1. lease \in Leases
        BY <3>2 DEF Reaped
      <4>2. lease' \in Leases
        BY <3>2, <4>1, TtlInRange DEF Leases
      <4>3. QED
        BY <2>2, <2>b, <4>2 DEF Heartbeat
    <3>3. QED
      BY <2>2, <3>1, <3>2 DEF Heartbeat
  <2>3. ASSUME NEW a \in Actors \cup {NoActor}, NEW l \in LeaseIds, Release(a, l)
        PROVE  TypeOK'
    <3>1. Who(a) \in Actors
      BY WhoIsAnActor
    <3>2. CASE lease = NoLease \/ (l # 0 /\ lease.id # l)
      BY <2>3, <3>1, <3>2 DEF Release, lastLine
    <3>3. CASE ~(lease = NoLease \/ (l # 0 /\ lease.id # l))
      <4>1. lease.actor \in Actors
        BY <3>3 DEF Leases
      <4>2. trail' \in LeaseIds /\ behind' \in BOOLEAN
        BY <2>3, <2>b, <3>3 DEF Release
      <4>3. QED
        BY <2>3, <3>3, <4>1, <4>2 DEF Release
    <3>4. QED
      BY <3>2, <3>3
  <2>4. ASSUME NEW a \in Actors \cup {NoActor}, NEW force \in BOOLEAN,
               NEW raw \in Requests, Takeover(a, force, raw)
        PROVE  TypeOK'
    <3>1. Who(a) \in Actors
      BY WhoIsAnActor
    <3>2. CASE a = NoActor /\ UNCHANGED <<lease, epoch, lastLine>>
      BY <2>4, <3>1, <3>2 DEF Takeover, Sends, lastLine
    <3>3. CASE a # NoActor /\ ReapAndAudit
      BY <2>0, <2>4, <3>1, <3>3 DEF Takeover, Sends
    <3>4. CASE a # NoActor /\ Grant(a, raw, IF lease # NoLease THEN {0} ELSE {})
      BY <2>4, <2>a, <3>1, <3>4, GrantType DEF Takeover, Sends
    <3>5. QED
      BY <2>4, <3>2, <3>3, <3>4 DEF Takeover
  <2>5. ASSUME NEW a \in Actors \cup {NoActor}, NEW l \in LeaseIds, Pause(a, l)
        PROVE  TypeOK'
    <3>1. Who(a) \in Actors
      BY WhoIsAnActor
    <3>2. CASE Reap /\ UNCHANGED <<paused, handoffs>>
      BY <2>0, <2>5, <3>1, <3>2 DEF Pause, Sends
    <3>3. CASE /\ Len(handoffs) < MaxHandoffs
               /\ handoffs' = Append(handoffs, NoActor)
               /\ paused' = TRUE
               /\ lease' = NoLease
               /\ Audit({0}, 0)
               /\ UNCHANGED epoch
      <4>1. handoffs' \in Seq(Actors \cup {NoActor}) /\ Len(handoffs') <= MaxHandoffs
        BY <3>3, BoundsAssumption
      <4>2. trail' \in LeaseIds /\ behind' \in BOOLEAN
        BY <2>b, <3>3
      <4>3. QED
        BY <2>5, <3>1, <3>3, <4>1, <4>2 DEF Pause, Sends
    <3>4. QED
      BY <2>5, <3>2, <3>3 DEF Pause
  <2>6. ASSUME NEW a \in Actors \cup {NoActor}, NEW h \in 1 .. MaxHandoffs,
               NEW raw \in Requests, ClaimHandoff(a, h, raw)
        PROVE  TypeOK'
    <3>1. Who(a) \in Actors
      BY WhoIsAnActor
    <3>2. CASE UNCHANGED control
      BY <2>6, <3>1, <3>2 DEF ClaimHandoff, Sends, control, lastLine
    <3>3. CASE Reap /\ UNCHANGED <<paused, handoffs>>
      BY <2>0, <2>6, <3>1, <3>3 DEF ClaimHandoff, Sends
    <3>4. CASE /\ Claimable(h)
               /\ Grant(Who(a), raw, Expiry)
               /\ handoffs' = [handoffs EXCEPT ![h] = Who(a)]
               /\ paused' = FALSE
      <4>1. handoffs' \in Seq(Actors \cup {NoActor}) /\ Len(handoffs') = Len(handoffs)
        BY <3>1, <3>4 DEF Claimable
      <4>2. QED
        BY <2>6, <2>a, <3>1, <3>4, <4>1, GrantType DEF ClaimHandoff, Sends
    <3>5. QED
      BY <2>6, <3>2, <3>3, <3>4 DEF ClaimHandoff
  <2>7. ASSUME NEW a \in Actors \cup {NoActor}, Resume(a)
        PROVE  TypeOK'
    BY <2>7, <2>b, WhoIsAnActor DEF Resume, Sends, lastLine
  <2>12. ASSUME NEW a \in Actors \cup {NoActor}, NoteAmbient(a)
         PROVE  TypeOK'
    BY <2>12, <2>b, WhoIsAnActor DEF NoteAmbient, Sends
  <2>8. ASSUME NEW a \in Actors \cup {NoActor}, NEW l \in LeaseIds, Authorize(a, l)
        PROVE  TypeOK'
    <3>1. Attributed(a, l) \in Actors
      BY <2>0, ActorsAssumption DEF Attributed, Leases
    <3>2. QED
      BY <2>0, <2>8, <3>1 DEF Authorize
  <2>9. CASE Tick
    <3>1. lease \in Leases /\ lease.left > 0
      BY <2>9 DEF Tick
    <3>2. lease' \in Leases
      BY <2>9, <3>1, TtlAssumption DEF Tick, Leases
    <3>3. QED
      BY <2>9, <3>2 DEF Tick, lastLine
  <2>10. ASSUME NEW i \in Ids, Vanish(i)
         PROVE  TypeOK'
    BY <2>10 DEF Vanish, lastLine
  <2>11. CASE UNCHANGED vars
    BY <2>11 DEF vars
  <2>13. QED
    BY <2>1, <2>2, <2>3, <2>4, <2>5, <2>6, <2>7, <2>8, <2>9, <2>10, <2>11, <2>12 DEF Next
<1>3. QED
  BY <1>1, <1>2, PTL DEF Spec

-----------------------------------------------------------------------------
(* The safety invariants.  None is inductive alone: TrailAgrees needs to     *)
(* know that a stored lease is well typed (its id is not 0) and the newest,  *)
(* and the refinement below needs LeaseIsNewest.                             *)

IInv == TypeOK /\ TrailAgrees /\ LeaseIsNewest /\ PauseCanBeClaimed

\* What an expired lease leaves is the stored one, or none.
LEMMA ReapedSafe ==
  ASSUME TypeOK, LeaseIsNewest
  PROVE  /\ Reaped # NoLease => Reaped = lease /\ Reaped.id = epoch /\ Reaped.id # 0
         /\ Reaped = NoLease => Reaped.id = 0
         /\ Reaped.id \in {lease.id, 0}
         /\ lease.id \in 0 .. epoch /\ Reaped.id \in 0 .. epoch /\ epoch \in Nat
         /\ lease = NoLease => lease.id = 0
<1>1. lease # NoLease => lease.id \in 1 .. MaxEpoch
  BY DEF TypeOK, Leases
<1>2. NoLease.id = 0 /\ epoch \in Nat
  BY BoundsAssumption DEF TypeOK, NoLease
<1>3. QED
  BY <1>1, <1>2, BoundsAssumption DEF LeaseIsNewest, Reaped, Expired

\* The lines of an operation keep the trail in agreement when the last of them
\* names the lease the operation leaves behind.
LEMMA AuditAgrees ==
  ASSUME TypeOK, TrailAgrees, LeaseIsNewest, epoch' \in {epoch, epoch + 1},
         NEW earlier \in SUBSET {0}, Audit(earlier, lease'.id), lease'.id \in 0 .. epoch'
  PROVE  TrailAgrees'
<1>1. epoch \in Nat /\ trail \in 0 .. epoch
  BY BoundsAssumption DEF TypeOK, TrailAgrees, LeaseIds
<1>2. trail' \in {trail, 0, lease'.id} /\ (~behind' => trail' = lease'.id)
  BY DEF Audit
<1>3. QED
  BY <1>1, <1>2 DEF TrailAgrees

\* So does an operation without a line that only drops an expired lease, ...
LEMMA ReapAgrees ==
  ASSUME TypeOK, TrailAgrees, LeaseIsNewest, Reap \/ ReapAndAudit
  PROVE  TrailAgrees' /\ LeaseIsNewest'
<1>1. LeaseIsNewest'
  BY ReapedSafe DEF LeaseIsNewest, Reap, ReapAndAudit
<1>2. CASE ReapAndAudit
  <2>1. lease'.id \in 0 .. epoch' /\ Expiry \in SUBSET {0} /\ epoch' = epoch
    BY <1>2, ReapedSafe, AuditType DEF ReapAndAudit
  <2>2. Audit(Expiry, lease'.id)
    BY <1>2 DEF ReapAndAudit
  <2>3. QED
    BY <1>1, <2>1, <2>2, AuditAgrees
<1>3. CASE Reap /\ Expired
  <2>1. Audit({}, lease'.id) /\ lease'.id = 0 /\ epoch' = epoch
    BY <1>3 DEF Reap, AuditExpiry, Reaped, NoLease
  <2>2. {} \in SUBSET {0} /\ 0 \in 0 .. epoch'
    BY <2>1, ReapedSafe
  <2>3. QED
    BY <1>1, <2>1, <2>2, AuditAgrees
<1>4. CASE Reap /\ ~Expired
  BY <1>1, <1>4 DEF Reap, AuditExpiry, Reaped, lastLine, TrailAgrees
<1>5. QED
  BY <1>2, <1>3, <1>4

\* ... and one that grants a lease.
LEMMA GrantAgrees ==
  ASSUME TypeOK, TrailAgrees, LeaseIsNewest, NEW a \in Actors, NEW raw \in Requests,
         NEW earlier \in SUBSET {0}, Grant(a, raw, earlier)
  PROVE  TrailAgrees' /\ LeaseIsNewest'
<1>1. /\ lease'.id = epoch + 1 /\ epoch' = epoch + 1 /\ epoch' \in Nat
      /\ Audit(earlier, lease'.id)
  BY GrantType, BoundsAssumption
<1>2. lease'.id \in 0 .. epoch'
  BY <1>1
<1>3. QED
  BY <1>1, <1>2, AuditAgrees DEF LeaseIsNewest

\* Every operation keeps the file, the trail and the handoffs consistent.
THEOREM SafetyStep == IInv /\ TypeOK' /\ [Next]_vars => IInv'
<1> SUFFICES ASSUME IInv, TypeOK', [Next]_vars
             PROVE  TrailAgrees' /\ LeaseIsNewest' /\ PauseCanBeClaimed'
  BY DEF IInv
<1> USE DEF IInv
<1>a. NoLease.id = 0 /\ 0 \in 0 .. epoch /\ epoch \in Nat /\ lease.id \in 0 .. epoch
  BY ReapedSafe DEF NoLease
<1>b. Reap \/ ReapAndAudit => TrailAgrees' /\ LeaseIsNewest'
  BY ReapAgrees
<1>c. ASSUME NEW a \in Actors, NEW raw \in Requests, NEW earlier \in SUBSET {0},
             Grant(a, raw, earlier)
      PROVE  TrailAgrees' /\ LeaseIsNewest'
  BY <1>c, GrantAgrees
<1>d. UNCHANGED <<paused, handoffs>> => PauseCanBeClaimed'
  BY DEF PauseCanBeClaimed
<1>e. ASSUME UNCHANGED <<lease, epoch>>, Audit({}, lease.id)
      PROVE  TrailAgrees' /\ LeaseIsNewest'
  <2>1. {} \in SUBSET {0} /\ Audit({}, lease'.id) /\ lease'.id \in 0 .. epoch'
    BY <1>a, <1>e
  <2>2. TrailAgrees'
    BY <1>e, <2>1, AuditAgrees
  <2>3. QED
    BY <1>e, <2>2 DEF LeaseIsNewest
<1>f. ASSUME NEW earlier \in SUBSET {0}, lease' = NoLease, UNCHANGED epoch,
             Audit(earlier, 0)
      PROVE  TrailAgrees' /\ LeaseIsNewest'
  <2>1. lease'.id = 0 /\ lease'.id \in 0 .. epoch' /\ Audit(earlier, lease'.id)
    BY <1>a, <1>f
  <2>2. TrailAgrees'
    BY <1>f, <2>1, AuditAgrees
  <2>3. QED
    BY <1>f, <2>2 DEF LeaseIsNewest
<1>g. UNCHANGED <<lease, epoch, lastLine>> => TrailAgrees' /\ LeaseIsNewest'
  BY DEF TrailAgrees, LeaseIsNewest, lastLine
<1>h. Expiry \in SUBSET {0} /\ (IF lease # NoLease THEN {0} ELSE {}) \in SUBSET {0}
  BY AuditType
<1>1. ASSUME NEW a \in Actors \cup {NoActor}, NEW raw \in Requests, Acquire(a, raw)
      PROVE  TrailAgrees' /\ LeaseIsNewest' /\ PauseCanBeClaimed'
  BY <1>1, <1>b, <1>c, <1>d, <1>e, <1>h DEF Acquire
<1>2. ASSUME NEW l \in LeaseIds, NEW raw \in Requests, Heartbeat(l, raw)
      PROVE  TrailAgrees' /\ LeaseIsNewest' /\ PauseCanBeClaimed'
  <2>1. CASE lease' = Reaped
    BY <1>2, <1>b, <1>d, <2>1 DEF Heartbeat, Reap
  <2>2. CASE Reaped # NoLease /\ lease' = [lease EXCEPT !.left = Ttl(raw)]
    <3>1. lease \in Leases /\ Reaped = lease /\ ~Expired
      BY <2>2 DEF Reaped, TypeOK
    <3>2. lease'.id = lease.id /\ lease # NoLease
      BY <2>2, <3>1 DEF Leases
    <3>3. UNCHANGED <<epoch, lastLine, paused, handoffs>>
      BY <1>2, <3>1 DEF Heartbeat, AuditExpiry
    <3>4. QED
      BY <1>d, <3>2, <3>3 DEF TrailAgrees, LeaseIsNewest, lastLine
  <2>3. QED
    BY <1>2, <2>1, <2>2 DEF Heartbeat
<1>3. ASSUME NEW a \in Actors \cup {NoActor}, NEW l \in LeaseIds, Release(a, l)
      PROVE  TrailAgrees' /\ LeaseIsNewest' /\ PauseCanBeClaimed'
  <2>1. {} \in SUBSET {0}
    OBVIOUS
  <2>2. QED
    BY <1>3, <1>d, <1>f, <1>g, <2>1 DEF Release
<1>4. ASSUME NEW a \in Actors \cup {NoActor}, NEW force \in BOOLEAN,
             NEW raw \in Requests, Takeover(a, force, raw)
      PROVE  TrailAgrees' /\ LeaseIsNewest' /\ PauseCanBeClaimed'
  BY <1>4, <1>b, <1>c, <1>d, <1>g, <1>h DEF Takeover
<1>5. ASSUME NEW a \in Actors \cup {NoActor}, NEW l \in LeaseIds, Pause(a, l)
      PROVE  TrailAgrees' /\ LeaseIsNewest' /\ PauseCanBeClaimed'
  <2>1. CASE Reap /\ UNCHANGED <<paused, handoffs>>
    BY <1>b, <1>d, <2>1
  <2>2. CASE /\ handoffs' = Append(handoffs, NoActor)
             /\ lease' = NoLease
             /\ Audit({0}, 0)
             /\ UNCHANGED epoch
    <3>1. PauseCanBeClaimed'
      BY <2>2 DEF PauseCanBeClaimed, TypeOK
    <3>2. {0} \in SUBSET {0}
      OBVIOUS
    <3>3. QED
      BY <1>f, <2>2, <3>1, <3>2
  <2>3. QED
    BY <1>5, <2>1, <2>2 DEF Pause
<1>6. ASSUME NEW a \in Actors \cup {NoActor}, NEW h \in 1 .. MaxHandoffs,
             NEW raw \in Requests, ClaimHandoff(a, h, raw)
      PROVE  TrailAgrees' /\ LeaseIsNewest' /\ PauseCanBeClaimed'
  <2>1. CASE UNCHANGED control
    BY <2>1, <1>d, <1>g DEF control
  <2>2. CASE Reap /\ UNCHANGED <<paused, handoffs>>
    BY <1>b, <1>d, <2>2
  <2>3. CASE Grant(Who(a), raw, Expiry) /\ paused' = FALSE
    BY <1>c, <1>h, <2>3, WhoIsAnActor DEF PauseCanBeClaimed
  <2>4. QED
    BY <1>6, <2>1, <2>2, <2>3 DEF ClaimHandoff
<1>7. ASSUME NEW a \in Actors \cup {NoActor}, Resume(a) \/ NoteAmbient(a)
      PROVE  TrailAgrees' /\ LeaseIsNewest' /\ PauseCanBeClaimed'
  <2>1. TrailAgrees' /\ LeaseIsNewest'
    BY <1>7, <1>e, <1>g DEF Resume, NoteAmbient
  <2>2. PauseCanBeClaimed'
    BY <1>7, <1>d DEF Resume, NoteAmbient, PauseCanBeClaimed
  <2>3. QED
    BY <2>1, <2>2
<1>8. ASSUME NEW a \in Actors \cup {NoActor}, NEW l \in LeaseIds, Authorize(a, l)
      PROVE  TrailAgrees' /\ LeaseIsNewest' /\ PauseCanBeClaimed'
  BY <1>8, <1>b, <1>d DEF Authorize
<1>9. CASE Tick
  <2>1. lease \in Leases /\ lease # NoLease
    BY <1>9 DEF Tick, TypeOK
  <2>2. lease'.id = lease.id
    BY <1>9, <2>1 DEF Tick, Leases
  <2>3. QED
    BY <1>9, <1>d, <2>1, <2>2 DEF Tick, TrailAgrees, LeaseIsNewest, lastLine
<1>10. ASSUME NEW i \in Ids, Vanish(i)
       PROVE  TrailAgrees' /\ LeaseIsNewest' /\ PauseCanBeClaimed'
  BY <1>10, <1>d, <1>g DEF Vanish
<1>11. CASE UNCHANGED vars
  BY <1>11, <1>d, <1>g DEF vars, lastLine
<1>12. QED
  BY <1>1, <1>2, <1>3, <1>4, <1>5, <1>6, <1>7, <1>8, <1>9, <1>10, <1>11 DEF Next

\* Whichever appends fail, an audit trail that is not behind names the lease in
\* force, the lease in force is the newest granted, and a paused session can be
\* claimed by a person.
THEOREM Safety == Spec => []ControlAgrees
<1>1. Init => TrailAgrees /\ LeaseIsNewest /\ PauseCanBeClaimed
  BY DEF Init, TrailAgrees, LeaseIsNewest, PauseCanBeClaimed, NoLease
<1>2. QED
  BY <1>1, TypeCorrect, SafetyStep, PTL DEF Spec, IInv, ControlAgrees

-----------------------------------------------------------------------------
(* What a step may never do.                                                 *)

\* Each lease operation that grants over a running lease checks rank first.
LEMMA SeizureStep ==
  ASSUME IInv, [Next]_vars, Live, lease'.id > lease.id, lease'.actor.id # lease.actor.id
  PROVE  Precedence(lease'.actor) >= Precedence(lease.actor)
<1> USE DEF IInv
<1>a. /\ lease \in Leases /\ lease.id \in Nat \ {0} /\ Reaped = lease /\ lease # NoLease
      /\ NoLease.id = 0
  BY DEF Live, TypeOK, Leases, Reaped, Expired, NoLease
<1>b. \A a : Precedence(a) \in {0, 1, 2}
  BY DEF Precedence
<1>c. lease'.id # lease.id /\ lease'.id # 0
  BY <1>a
<1>d. ~Reap /\ ~ReapAndAudit
  BY <1>a, <1>c DEF Reap, ReapAndAudit
<1>e. Expiry \in SUBSET {0} /\ (IF lease # NoLease THEN {0} ELSE {}) \in SUBSET {0}
  BY AuditType
<1>1. ASSUME NEW a \in Actors \cup {NoActor}, NEW raw \in Requests, Acquire(a, raw)
      PROVE  FALSE
  <2>1. a \in Actors /\ ~HeldByOther(a) /\ Grant(a, raw, Expiry)
    BY <1>1, <1>c, <1>d DEF Acquire
  <2>2. lease'.actor = a
    BY <1>e, <2>1, GrantType
  <2>3. QED
    BY <1>a, <2>1, <2>2 DEF HeldByOther
<1>2. ASSUME NEW l \in LeaseIds, NEW raw \in Requests, Heartbeat(l, raw)
      PROVE  FALSE
  <2>1. lease' = lease \/ lease' = [lease EXCEPT !.left = Ttl(raw)]
    BY <1>2, <1>a DEF Heartbeat
  <2>2. QED
    BY <1>a, <1>c, <2>1 DEF Leases
<1>3. ASSUME NEW a \in Actors \cup {NoActor}, NEW force \in BOOLEAN,
             NEW raw \in Requests, Takeover(a, force, raw)
      PROVE  Precedence(lease'.actor) >= Precedence(lease.actor)
  <2>1. /\ a \in Actors /\ ~MayNotTake(a, force)
        /\ Grant(a, raw, IF lease # NoLease THEN {0} ELSE {})
    BY <1>3, <1>c, <1>d DEF Takeover
  <2>2. lease'.actor = a
    BY <1>e, <2>1, GrantType
  <2>3. Precedence(a) > Precedence(lease.actor) \/ Precedence(a) = Precedence(lease.actor)
    BY <1>a, <2>1 DEF MayNotTake
  <2>4. Precedence(a) \in {0, 1, 2} /\ Precedence(lease.actor) \in {0, 1, 2}
    BY <1>b
  <2>5. QED
    BY <2>2, <2>3, <2>4
<1>4. ASSUME NEW a \in Actors \cup {NoActor}, NEW h \in 1 .. MaxHandoffs,
             NEW raw \in Requests, ClaimHandoff(a, h, raw)
      PROVE  Precedence(lease'.actor) >= Precedence(lease.actor)
  <2>1. ~Outranked(Who(a)) /\ Grant(Who(a), raw, Expiry)
    BY <1>4, <1>c, <1>d DEF ClaimHandoff, control
  <2>2. lease'.actor = Who(a)
    BY <1>e, <2>1, GrantType, WhoIsAnActor
  <2>3. ~(Precedence(Who(a)) < Precedence(lease.actor))
    BY <1>a, <2>1 DEF Outranked
  <2>4. Precedence(Who(a)) \in {0, 1, 2} /\ Precedence(lease.actor) \in {0, 1, 2}
    BY <1>b
  <2>5. QED
    BY <2>2, <2>3, <2>4
<1>5. ASSUME NEW a \in Actors \cup {NoActor}, NEW l \in LeaseIds, Release(a, l)
      PROVE  FALSE
  BY <1>5, <1>a, <1>c DEF Release
<1>6. ASSUME NEW a \in Actors \cup {NoActor}, NEW l \in LeaseIds, Pause(a, l)
      PROVE  FALSE
  BY <1>6, <1>a, <1>c, <1>d DEF Pause
<1>7. ASSUME NEW a \in Actors \cup {NoActor}, NEW l \in LeaseIds, Authorize(a, l)
      PROVE  FALSE
  BY <1>7, <1>d DEF Authorize
<1>8. ASSUME NEW a \in Actors \cup {NoActor}, Resume(a) \/ NoteAmbient(a)
      PROVE  FALSE
  BY <1>8, <1>c DEF Resume, NoteAmbient
<1>9. CASE Tick
  <2>1. lease'.id = lease.id
    BY <1>9, <1>a DEF Tick, Leases
  <2>2. QED
    BY <1>c, <2>1
<1>10. ASSUME NEW i \in Ids, Vanish(i)
       PROVE  FALSE
  BY <1>10, <1>c DEF Vanish
<1>11. CASE UNCHANGED vars
  BY <1>11, <1>c DEF vars
<1>12. QED
  BY <1>1, <1>2, <1>3, <1>4, <1>5, <1>6, <1>7, <1>8, <1>9, <1>10, <1>11 DEF Next

\* A living holder is only ever replaced by one of at least its own rank.
THEOREM RankRespected == Spec => NeverSeizedByWeaker
<1>1. IInv /\ [Next]_vars =>
        [(Live /\ lease'.id > lease.id /\ lease'.actor.id # lease.actor.id)
         => Precedence(lease'.actor) >= Precedence(lease.actor)]_vars
  BY SeizureStep
<1>2. Spec => []IInv
  BY TypeCorrect, Safety, PTL DEF IInv, ControlAgrees
<1>3. QED
  BY <1>1, <1>2, PTL DEF Spec, NeverSeizedByWeaker

-----------------------------------------------------------------------------
(* Refinement: the control plane implements the fencing-token promise.       *)

\* Each operation issues a token, retires it, lands a write, or stutters.
LEMMA FenceStep ==
  ASSUME IInv, TypeOK', [Next]_vars
  PROVE  [Fence!Next]_<<lease.id, epoch, paused, landed>>
<1> USE DEF IInv
<1> DEFINE fvars == <<lease.id, epoch, paused, landed>>
<1>a. NoLease.id = 0
  BY DEF NoLease
<1>b. paused \in BOOLEAN /\ paused' \in BOOLEAN
  BY DEF TypeOK
<1>c. (Reap \/ ReapAndAudit) /\ UNCHANGED landed => Fence!Retire
  BY <1>b, ReapedSafe DEF Reap, ReapAndAudit, Fence!Retire
<1>e. Expiry \in SUBSET {0} /\ (IF lease # NoLease THEN {0} ELSE {}) \in SUBSET {0}
  BY AuditType
<1>d. ASSUME NEW a \in Actors, NEW raw \in Requests, NEW earlier \in SUBSET {0},
             Grant(a, raw, earlier), paused' \in {paused, FALSE}, UNCHANGED landed
      PROVE  Fence!Issue
  BY <1>d, GrantType DEF Fence!Issue
<1>1. ASSUME NEW a \in Actors \cup {NoActor}, NEW raw \in Requests, Acquire(a, raw)
      PROVE  [Fence!Next]_fvars
  BY <1>1, <1>c, <1>d, <1>e DEF Acquire, Fence!Next
<1>2. ASSUME NEW l \in LeaseIds, NEW raw \in Requests, Heartbeat(l, raw)
      PROVE  [Fence!Next]_fvars
  <2>1. CASE lease' = Reaped
    BY <1>2, <1>b, <2>1, ReapedSafe DEF Heartbeat, Fence!Next, Fence!Retire
  <2>2. CASE Reaped # NoLease /\ lease' = [lease EXCEPT !.left = Ttl(raw)]
    <3>1. lease'.id = lease.id
      BY <2>2 DEF Reaped, TypeOK, Leases
    <3>2. QED
      BY <1>2, <3>1 DEF Heartbeat
  <2>3. QED
    BY <1>2, <2>1, <2>2 DEF Heartbeat
<1>3. ASSUME NEW a \in Actors \cup {NoActor}, NEW l \in LeaseIds, Release(a, l)
      PROVE  [Fence!Next]_fvars
  BY <1>3, <1>a, <1>b DEF Release, Fence!Next, Fence!Retire
<1>4. ASSUME NEW a \in Actors \cup {NoActor}, NEW force \in BOOLEAN,
             NEW raw \in Requests, Takeover(a, force, raw)
      PROVE  [Fence!Next]_fvars
  BY <1>4, <1>c, <1>d, <1>e DEF Takeover, Fence!Next
<1>5. ASSUME NEW a \in Actors \cup {NoActor}, NEW l \in LeaseIds, Pause(a, l)
      PROVE  [Fence!Next]_fvars
  BY <1>5, <1>a, <1>b, <1>c DEF Pause, Fence!Next, Fence!Retire
<1>6. ASSUME NEW a \in Actors \cup {NoActor}, NEW h \in 1 .. MaxHandoffs,
             NEW raw \in Requests, ClaimHandoff(a, h, raw)
      PROVE  [Fence!Next]_fvars
  BY <1>6, <1>c, <1>d, <1>e, WhoIsAnActor DEF ClaimHandoff, control, Fence!Next
<1>7. ASSUME NEW a \in Actors \cup {NoActor}, Resume(a) \/ NoteAmbient(a)
      PROVE  [Fence!Next]_fvars
  BY <1>7, <1>b DEF Resume, NoteAmbient, Fence!Next, Fence!Retire
<1>8. ASSUME NEW a \in Actors \cup {NoActor}, NEW l \in LeaseIds, Authorize(a, l)
      PROVE  [Fence!Next]_fvars
  <2>1. CASE Denied(l)
    BY <1>8, <1>c, <2>1 DEF Authorize, Fence!Next
  <2>2. CASE ~Denied(l)
    <3>1. ~paused /\ l = Reaped.id
      BY <2>2, <1>a, ReapedSafe DEF Denied
    <3>2. Fence!Write
      BY <1>8, <2>2, <3>1, ReapedSafe DEF Authorize, ReapAndAudit, Fence!Write
    <3>3. QED
      BY <3>2 DEF Fence!Next
  <2>3. QED
    BY <2>1, <2>2
<1>9. CASE Tick
  <2>1. lease'.id = lease.id
    BY <1>9 DEF Tick, TypeOK, Leases
  <2>2. QED
    BY <1>9, <2>1 DEF Tick
<1>10. ASSUME NEW i \in Ids, Vanish(i)
       PROVE  [Fence!Next]_fvars
  BY <1>10 DEF Vanish
<1>11. CASE UNCHANGED vars
  BY <1>11 DEF vars
<1>12. QED
  BY <1>1, <1>2, <1>3, <1>4, <1>5, <1>6, <1>7, <1>8, <1>9, <1>10, <1>11 DEF Next

\* SessionControl implements WriteFence: a write lands under the newest lease
\* or under none when none is held, and never while the session is paused.
THEOREM ImplementsFence == Spec => FenceSpec
<1>1. Init => Fence!Init
  BY DEF Init, NoLease, Fence!Init
<1>2. IInv /\ TypeOK' /\ [Next]_vars => [Fence!Next]_<<lease.id, epoch, paused, landed>>
  BY FenceStep
<1>3. Spec => []IInv
  BY TypeCorrect, Safety, PTL DEF IInv, ControlAgrees
<1>4. QED
  BY <1>1, <1>2, <1>3, TypeCorrect, PTL DEF Spec, FenceSpec, Fence!Spec, Fence!fence

-----------------------------------------------------------------------------
(* The lock and the transactions under it.                                  *)

\* Who has the marker has entered; who was refused and looks does not go on;
\* and an update is in the file, or in a copy of it, only once its transaction
\* has replaced it.
Entered ==
  /\ acquired # {} => writable
  /\ \A p \in acquired : pc[p] \notin Waiting
  /\ \A p \in Checked \ acquired : pc[p] \notin Body
  /\ \A p \in file : pc[p] \in {"release"} \cup Ended
  /\ \A q \in Procs : \A p \in copy[q] : p # q /\ pc[p] \in {"release"} \cup Ended
  /\ \A p \in Procs : pc[p] = "append" => p \in Audited

\* Every audited update that is in the file, in anybody's copy, or about to be
\* written has appended its line, or failed to.
HasLine(p) == \E i \in DOMAIN audit : audit[i].by = p

Trail ==
  /\ \A p \in file \cap Audited : HasLine(p)
  /\ \A q \in Procs : \A p \in copy[q] \cap Audited : HasLine(p)
  /\ \A p \in Audited : pc[p] = "replace" => HasLine(p)

\* Without deaths and stalls the marker is its owner's, for as long as the
\* owner is in its critical section, and nobody is about to break it.
Holder ==
  /\ lock.there => lock.owner \in acquired /\ pc[lock.owner] \in Body /\ ~lock.old
  /\ \A p \in acquired : pc[p] \in Body => lock.there /\ lock.owner = p
  /\ \A p \in Procs : pc[p] # "unlink"

\* If moreover everybody waited for the marker, the transactions are serial.
Serial ==
  /\ \A p \in Procs : pc[p] \in {"append", "replace"} => copy[p] = file
  /\ \A p \in acquired : pc[p] \in {"release", "done"} => p \in file
  /\ \A i \in DOMAIN audit : audit[i].seq = i
  /\ (\E p \in Audited : pc[p] = "replace") => Len(audit) = Cardinality(file \cap Audited) + 1
  /\ (\A p \in Audited : pc[p] # "replace") => Len(audit) = Cardinality(file \cap Audited)

\* A call that got as far as success and is missing in the file, or in a copy that
\* is about to replace it, was written between a read and a write of another; and
\* who still waits for the marker has no part in any of this.
Replaced(p) == pc[p] = "release" \/ (pc[p] = "done" /\ (p \in acquired \/ p \notin Checked))

Lost(p) == \E q \in Procs : p \in overlap[q]

Overlaps ==
  /\ \A p \in Procs : Replaced(p) /\ p \notin file => Lost(p)
  /\ \A q \in Procs : pc[q] \in Between =>
       \A p \in Procs : Replaced(p) /\ p \notin copy[q] => Lost(p)
  /\ \A p \in Procs : pc[p] \in Waiting =>
       overlap[p] = {} /\ \A q \in Procs : p \notin overlap[q]

\* Without deaths and stalls owners have not overlapped.
OwnersApart == \A q \in acquired : overlap[q] \cap acquired = {}

UpdateInv ==
  /\ UpdateTypeOK
  /\ Entered
  /\ Trail
  /\ Overlaps
  /\ Faultless => Holder /\ OwnersApart
  /\ Faultless /\ RanUnlocked = {} => Serial

-----------------------------------------------------------------------------
(* Counting the updates of a file.                                          *)

\* A set of processes is finite, and so are the audited updates it holds.
LEMMA FiniteUpdates ==
  ASSUME NEW S \in SUBSET Procs
  PROVE  /\ IsFiniteSet(S)
         /\ Cardinality(S \cap Audited) \in Nat
         /\ Cardinality(S \cap Audited) <= Cardinality(Procs)
<1>1. S \cap Audited \subseteq Procs
  OBVIOUS
<1>. QED
  BY <1>1, ProcsAssumption, FS_Subset, FS_CardinalityType

\* A further update advances the count by one if it is audited.
LEMMA OneMore ==
  ASSUME NEW S \in SUBSET Procs, NEW p \in Procs \ S
  PROVE  Cardinality((S \cup {p}) \cap Audited)
           = IF p \in Audited THEN Cardinality(S \cap Audited) + 1
                              ELSE Cardinality(S \cap Audited)
<1>1. IsFiniteSet(S \cap Audited)
  BY ProcsAssumption, FS_Subset
<1>2. CASE p \in Audited
  <2>1. (S \cup {p}) \cap Audited = (S \cap Audited) \cup {p}
    BY <1>2
  <2>. QED
    BY <1>1, <1>2, <2>1, FS_AddElement
<1>3. CASE p \notin Audited
  <2>1. (S \cup {p}) \cap Audited = S \cap Audited
    BY <1>3
  <2>. QED
    BY <1>3, <2>1
<1>. QED
  BY <1>2, <1>3

\* A copy without the process itself leaves room for its sequence number.
LEMMA SeqFits ==
  ASSUME NEW S \in SUBSET Procs, NEW p \in Audited \ S
  PROVE  Cardinality(S \cap Audited) + 1 \in 1 .. Cardinality(Procs)
<1>1. Cardinality((S \cup {p}) \cap Audited) = Cardinality(S \cap Audited) + 1
  BY OneMore DEF Audited
<1>2. Cardinality((S \cup {p}) \cap Audited) <= Cardinality(Procs)
  BY FiniteUpdates DEF Audited
<1>3. Cardinality(S \cap Audited) \in Nat /\ Cardinality(Procs) \in Nat
  BY FiniteUpdates, ProcsAssumption, FS_CardinalityType
<1>. QED
  BY <1>1, <1>2, <1>3

-----------------------------------------------------------------------------
(* Type correctness.                                                        *)

LEMMA MarkerTypes ==
  /\ Absent \in [there : BOOLEAN, owner : Procs \cup {NoProc}, old : BOOLEAN]
  /\ \A p \in Procs \cup {NoProc} :
       Marker(p) \in [there : BOOLEAN, owner : Procs \cup {NoProc}, old : BOOLEAN]
  BY DEF Absent, Marker

LEMMA UpdateInvInit == UpdateInit => UpdateInv
<1>. SUFFICES ASSUME UpdateInit PROVE UpdateInv
  OBVIOUS
<1>. USE DEF UpdateInit, LockInit
<1>1. UpdateTypeOK
  <2>1. lock \in [there : BOOLEAN, owner : Procs \cup {NoProc}, old : BOOLEAN]
    BY MarkerTypes
  <2>2. audit \in Seq(Entries)
    OBVIOUS
  <2>3. crashes \in 0 .. MaxCrashes /\ stalls \in 0 .. MaxStalls
    BY ProcsAssumption
  <2>. QED
    BY <2>1, <2>2, <2>3 DEF UpdateTypeOK, LockTypeOK, Waiting
<1>5. Overlaps /\ OwnersApart
  BY DEF Overlaps, OwnersApart, Replaced, Between
<1>2. Entered /\ Trail
  <2>1. Entered
    BY ProcsAssumption DEF Entered, Waiting, Body
  <2>2. Trail
    BY DEF Trail, Audited
  <2>. QED
    BY <2>1, <2>2
<1>3. Faultless => Holder
  BY DEF Faultless, Holder, Absent
<1>4. Serial
  <2>1. file \cap Audited = {}
    OBVIOUS
  <2>2. Cardinality(file \cap Audited) = 0
    BY <2>1, FS_EmptySet
  <2>. QED
    BY <2>2, ProcsAssumption DEF Serial, Audited
<1>. QED
  BY <1>1, <1>2, <1>3, <1>4, <1>5 DEF UpdateInv

LEMMA StepType ==
  ASSUME UpdateTypeOK, Entered, NEW p \in Procs, Step(p)
  PROVE  UpdateTypeOK'
<1>. USE DEF UpdateTypeOK, LockTypeOK, Goto, Enter, Waiting, Body, Ended
<1>1. CASE Locking(p) /\ UNCHANGED <<file, copy, audit, overlap>>
  <2>1. lock' \in {lock, Absent, Marker(p)}
    BY <1>1 DEF Locking, Create, Stat, Break, Unlock, Removed
  <2>2. lock' \in [there : BOOLEAN, owner : Procs \cup {NoProc}, old : BOOLEAN]
    BY <2>1, MarkerTypes
  <2>3. UNCHANGED <<writable, late, crashes, stalls>>
    BY <1>1 DEF Locking, Create, Stat, Break, Unlock
  <2>4. \E l \in {"create", "stat", "unlink", "read", "done"} : pc' = [pc EXCEPT ![p] = l]
    BY <1>1 DEF Locking, Create, Stat, Break, Unlock
  <2>5. acquired' \in {acquired, acquired \cup {p}}
    BY <1>1 DEF Locking, Create, Stat, Break, Unlock
  <2>. QED
    BY <1>1, <2>2, <2>3, <2>4, <2>5
<1>2. CASE Read(p)
  BY <1>2 DEF Read
<1>3. CASE AppendEntry(p)
  <2>1. p \in Audited /\ copy[p] \in SUBSET Procs /\ p \notin copy[p]
    BY <1>3 DEF AppendEntry, Entered
  <2>2. Cardinality(copy[p] \cap Audited) + 1 \in 1 .. Cardinality(Procs)
    BY <2>1, SeqFits
  <2>3. audit' \in Seq(Entries)
    BY <1>3, <2>2 DEF AppendEntry, Entries
  <2>. QED
    BY <1>3, <2>3 DEF AppendEntry
<1>4. CASE Replace(p)
  BY <1>4 DEF Replace
<1>. QED
  BY <1>1, <1>2, <1>3, <1>4 DEF Step

LEMMA StepEntered ==
  ASSUME UpdateTypeOK, Entered, NEW p \in Procs, Step(p)
  PROVE  Entered'
<1>. USE ProcsAssumption DEF UpdateTypeOK, LockTypeOK, Entered, Goto, Enter, Waiting, Body, Ended
<1>1. CASE Create(p) /\ UNCHANGED <<file, copy, audit, overlap>>
  BY <1>1 DEF Create
<1>2. CASE Stat(p) /\ UNCHANGED <<file, copy, audit, overlap>>
  BY <1>2 DEF Stat
<1>3. CASE (Break(p) \/ Unlock(p)) /\ UNCHANGED <<file, copy, audit, overlap>>
  BY <1>3 DEF Break, Unlock
<1>4. CASE Read(p)
  BY <1>4 DEF Read
<1>5. CASE AppendEntry(p)
  BY <1>5 DEF AppendEntry
<1>6. CASE Replace(p)
  <2>1. CASE writable
    BY <1>6, <2>1 DEF Replace
  <2>2. CASE ~writable
    BY <1>6, <2>2 DEF Replace
  <2>. QED
    BY <2>1, <2>2
<1>. QED
  BY <1>1, <1>2, <1>3, <1>4, <1>5, <1>6 DEF Step, Locking

LEMMA StepTrail ==
  ASSUME UpdateTypeOK, Trail, NEW p \in Procs, Step(p)
  PROVE  Trail'
<1>. USE DEF UpdateTypeOK, LockTypeOK, Trail, Goto, Audited
<1>1. CASE Locking(p) /\ UNCHANGED <<file, copy, audit, overlap>>
  <2>1. \A q \in Procs : pc'[q] = "replace" => pc[q] = "replace"
    BY <1>1 DEF Locking, Create, Stat, Break, Unlock, Enter
  <2>. QED
    BY <1>1, <2>1 DEF HasLine
<1>2. CASE Read(p)
  BY <1>2 DEF Read, HasLine
<1>3. CASE AppendEntry(p)
  <2>1. /\ Len(audit') = Len(audit) + 1
        /\ \A i \in DOMAIN audit : i \in DOMAIN audit' /\ audit'[i] = audit[i]
        /\ Len(audit') \in DOMAIN audit' /\ audit'[Len(audit')].by = p
    BY <1>3 DEF AppendEntry
  <2>2. HasLine(p)' /\ \A q \in Procs : HasLine(q) => HasLine(q)'
    BY <2>1 DEF HasLine
  <2>. QED
    BY <1>3, <2>2 DEF AppendEntry
<1>4. CASE Replace(p)
  BY <1>4 DEF Replace, HasLine
<1>. QED
  BY <1>1, <1>2, <1>3, <1>4 DEF Step

\* The one step that writes the file is the one that makes callers overlap.
LEMMA StepOverlaps ==
  ASSUME UpdateTypeOK, Entered, Overlaps, NEW p \in Procs, Step(p)
  PROVE  Overlaps'
<1>. USE DEF UpdateTypeOK, LockTypeOK, Goto, Between, Waiting
<1>1. CASE Locking(p) /\ UNCHANGED <<file, copy, audit, overlap>>
  <2>1. \A q \in Procs : Replaced(q)' => Replaced(q)
    BY <1>1 DEF Locking, Create, Stat, Break, Unlock, Enter, Replaced, Entered
  <2>2. \A q \in Procs : (pc'[q] \in Between => pc[q] \in Between)
                         /\ (pc'[q] \in Waiting => pc[q] \in Waiting)
    BY <1>1 DEF Locking, Create, Stat, Break, Unlock, Enter
  <2>3. \A q \in Procs : Lost(q) => Lost(q)'
    BY <1>1 DEF Lost
  <2>4. \A q \in Procs : Replaced(q)' /\ q \notin file' => Lost(q)'
    BY <1>1, <2>1, <2>3 DEF Overlaps
  <2>5. \A q \in Procs : pc'[q] \in Between =>
          \A r \in Procs : Replaced(r)' /\ r \notin copy'[q] => Lost(r)'
    <3>. SUFFICES ASSUME NEW q \in Procs, NEW r \in Procs, pc'[q] \in Between,
                         Replaced(r)', r \notin copy'[q]
                  PROVE  Lost(r)'
      OBVIOUS
    <3>1. pc[q] \in Between /\ Replaced(r) /\ r \notin copy[q]
      BY <1>1, <2>1, <2>2
    <3>2. \A x \in Procs : Replaced(x) /\ x \notin copy[q] => Lost(x)
      BY <3>1 DEF Overlaps
    <3>. QED
      BY <2>3, <3>1, <3>2
  <2>6. \A q \in Procs : pc'[q] \in Waiting =>
          overlap'[q] = {} /\ \A r \in Procs : q \notin overlap'[r]
    BY <1>1, <2>2 DEF Overlaps
  <2>. QED
    BY <2>4, <2>5, <2>6 DEF Overlaps
<1>2. CASE Read(p)
  <2>1. \A q \in Procs : Replaced(q)' => Replaced(q)
    BY <1>2 DEF Read, Replaced
  <2>. QED
    BY <1>2, <2>1 DEF Read, Overlaps, Lost
<1>3. CASE AppendEntry(p)
  <2>1. \A q \in Procs : Replaced(q)' => Replaced(q)
    BY <1>3 DEF AppendEntry, Replaced
  <2>. QED
    BY <1>3, <2>1 DEF AppendEntry, Overlaps, Lost
<1>4. CASE Replace(p) /\ writable
  <2>1. /\ \A q \in Procs : overlap'[q] = IF q # p /\ pc[q] \in Between
                                         THEN overlap[q] \cup {p} ELSE overlap[q]
        /\ file' = copy[p] \cup {p} /\ pc' = [pc EXCEPT ![p] = "release"]
        /\ UNCHANGED <<copy, acquired>> /\ pc[p] \in Between
    BY <1>4 DEF Replace
  <2>2. \A q \in Procs : q # p /\ Replaced(q)' => Replaced(q)
    BY <2>1 DEF Replaced
  <2>7. \A q, r \in Procs : r \in overlap[q] => r \in overlap'[q]
    BY <2>1
  <2>8. \A r \in Procs : Lost(r) => Lost(r)'
    BY <2>7 DEF Lost
  <2>9. \A q \in Procs : pc'[q] \in Between =>
          q # p /\ pc[q] \in Between /\ p \in overlap'[q]
    BY <2>1
  <2>3. \A q \in Procs : pc'[q] \in Between => q # p /\ pc[q] \in Between /\ Lost(p)'
    BY <2>9 DEF Lost
  <2>4. \A q \in Procs : Replaced(q)' /\ q \notin file' => Lost(q)'
    BY <2>1, <2>2, <2>8 DEF Overlaps
  <2>5. \A q \in Procs : pc'[q] \in Between =>
          \A r \in Procs : Replaced(r)' /\ r \notin copy'[q] => Lost(r)'
    BY <2>1, <2>2, <2>3, <2>8 DEF Overlaps
  <2>6. \A q \in Procs : pc'[q] \in Waiting =>
          overlap'[q] = {} /\ \A r \in Procs : q \notin overlap'[r]
    <3>1. \A q \in Procs : pc'[q] \in Waiting => q # p /\ pc[q] \in Waiting
      BY <2>1
    <3>2. \A q \in Procs : pc[q] \in Waiting => overlap'[q] = overlap[q]
      BY <2>1
    <3>3. \A q, r \in Procs : q \in overlap'[r] => q = p \/ q \in overlap[r]
      BY <2>1
    <3>. QED
      BY <3>1, <3>2, <3>3 DEF Overlaps
  <2>. QED
    BY <2>4, <2>5, <2>6 DEF Overlaps
<1>5. CASE Replace(p) /\ ~writable
  <2>1. \A q \in Procs : Replaced(q)' => Replaced(q)
    BY <1>5 DEF Replace, Replaced
  <2>. QED
    BY <1>5, <2>1 DEF Replace, Overlaps, Lost
<1>. QED
  BY <1>1, <1>2, <1>3, <1>4, <1>5 DEF Step

-----------------------------------------------------------------------------
(* The marker of a faultless run.                                           *)

LEMMA StepHolder ==
  ASSUME UpdateTypeOK, Entered, Holder, Faultless, NEW p \in Procs, Step(p)
  PROVE  Holder'
<1>. USE DEF UpdateTypeOK, LockTypeOK, Entered, Holder, Goto, Enter, Waiting, Body, Ended
<1>1. CASE Create(p) /\ UNCHANGED <<file, copy, audit, overlap>>
  BY <1>1 DEF Create, Marker
<1>2. CASE Stat(p) /\ UNCHANGED <<file, copy, audit, overlap>>
  BY <1>2 DEF Stat
<1>3. CASE Break(p) /\ UNCHANGED <<file, copy, audit, overlap>>
  BY <1>3 DEF Break
<1>4. CASE Unlock(p) /\ UNCHANGED <<file, copy, audit, overlap>>
  <2>1. CASE p \in acquired
    BY <1>4, <2>1 DEF Unlock, Removed, Absent
  <2>2. CASE p \notin acquired
    BY <1>4, <2>2 DEF Unlock
  <2>. QED
    BY <2>1, <2>2
<1>5. CASE Read(p)
  BY <1>5 DEF Read
<1>6. CASE AppendEntry(p)
  BY <1>6 DEF AppendEntry
<1>7. CASE Replace(p)
  BY <1>7 DEF Replace
<1>. QED
  BY <1>1, <1>2, <1>3, <1>4, <1>5, <1>6, <1>7 DEF Step, Locking

\* An owner writes while no other owner is in its critical section.
LEMMA StepApart ==
  ASSUME UpdateTypeOK, Entered, Overlaps, Holder, OwnersApart, NEW p \in Procs, Step(p)
  PROVE  OwnersApart'
<1>. USE DEF UpdateTypeOK, LockTypeOK, Goto, OwnersApart
<1>1. CASE Locking(p) /\ UNCHANGED <<file, copy, audit, overlap>>
  <2>1. acquired' = acquired \/ (acquired' = acquired \cup {p} /\ pc[p] \in Waiting)
    BY <1>1 DEF Locking, Create, Stat, Break, Unlock, Enter, Waiting
  <2>2. acquired \subseteq Procs
    OBVIOUS
  <2>. QED
    BY <1>1, <2>1, <2>2 DEF Overlaps
<1>2. CASE Read(p) \/ AppendEntry(p) \/ (Replace(p) /\ ~writable)
  BY <1>2 DEF Read, AppendEntry, Replace
<1>3. CASE Replace(p) /\ writable
  <2>1. \A q \in acquired : overlap'[q] # overlap[q] => p \notin acquired
    BY <1>3 DEF Replace, Holder, Between, Body
  <2>2. \A q \in acquired : overlap'[q] \subseteq overlap[q] \cup {p}
    BY <1>3 DEF Replace
  <2>. QED
    BY <1>3, <2>1, <2>2 DEF Replace
<1>. QED
  BY <1>1, <1>2, <1>3 DEF Step

-----------------------------------------------------------------------------
(* The transactions of a run in which everybody waited.                     *)

\* Who went ahead without the marker is not forgotten.
LEMMA UnlockedStays ==
  ASSUME UpdateTypeOK, Entered, NEW p \in Procs, Step(p)
  PROVE  RanUnlocked \subseteq RanUnlocked'
<1>. USE DEF UpdateTypeOK, LockTypeOK, Goto, Enter, Waiting, RanUnlocked
<1>1. CASE Locking(p)
  BY <1>1 DEF Locking, Create, Stat, Break, Unlock
<1>2. CASE Read(p) \/ AppendEntry(p) \/ Replace(p)
  BY <1>2 DEF Read, AppendEntry, Replace
<1>. QED
  BY <1>1, <1>2 DEF Step

\* The critical sections of such a run do not overlap.
LEMMA OneInside ==
  ASSUME UpdateTypeOK, Entered, Holder, RanUnlocked = {},
         NEW p \in Procs, NEW q \in Procs, pc[p] \in Body, pc[q] \in Body
  PROVE  p = q /\ p \in acquired
<1>1. p \in acquired /\ q \in acquired
  BY DEF Entered, RanUnlocked, Waiting, Body
<1>. QED
  BY <1>1 DEF Holder

LEMMA StepSerial ==
  ASSUME UpdateTypeOK, Entered, Holder, RanUnlocked = {}, RanUnlocked' = {}, Serial,
         NEW p \in Procs, Step(p)
  PROVE  Serial'
<1>. USE DEF UpdateTypeOK, LockTypeOK, Serial, Goto
<1>1. CASE Locking(p) /\ UNCHANGED <<file, copy, audit, overlap>>
  <2>1. \A q \in Procs : pc'[q] \in {"append", "replace"} <=> pc[q] \in {"append", "replace"}
    BY <1>1 DEF Locking, Create, Stat, Break, Unlock, Enter
  <2>2. \A q \in Procs : pc'[q] = "replace" <=> pc[q] = "replace"
    BY <1>1 DEF Locking, Create, Stat, Break, Unlock, Enter
  <2>3. \A q \in acquired' : pc'[q] \in {"release", "done"} => q \in file
    BY <1>1 DEF Locking, Create, Stat, Break, Unlock, Enter, Entered, Waiting
  <2>. QED
    BY <1>1, <2>1, <2>2, <2>3 DEF Audited
<1>2. CASE Read(p)
  <2>1. p \notin Audited \/ pc'[p] # "replace"
    BY <1>2 DEF Read
  <2>2. \A q \in Audited : pc'[q] = "replace" <=> pc[q] = "replace"
    BY <1>2, <2>1 DEF Read, Audited
  <2>. QED
    BY <1>2, <2>2 DEF Read
<1>3. CASE AppendEntry(p)
  <2>1. \A q \in Audited : pc[q] # "replace"
    BY <1>3, OneInside DEF AppendEntry, Body, Audited
  <2>2. Cardinality(copy[p] \cap Audited) = Len(audit)
    BY <1>3, <2>1 DEF AppendEntry
  <2>3. /\ Len(audit') = Len(audit) + 1
        /\ \A i \in DOMAIN audit' : audit'[i].seq = i
    <3>1. \E kept \in BOOLEAN :
            audit' = Append(audit, [seq |-> Len(audit) + 1, by |-> p, kept |-> kept])
      BY <1>3, <2>2 DEF AppendEntry
    <3>2. \A i \in DOMAIN audit : audit[i].seq = i
      OBVIOUS
    <3>. HIDE DEF Serial
    <3>. QED
      BY <3>1, <3>2
  <2>4. p \in Audited /\ pc'[p] = "replace"
    BY <1>3 DEF AppendEntry, Entered
  <2>. QED
    BY <1>3, <2>1, <2>3, <2>4 DEF AppendEntry
<1>4. CASE Replace(p)
  <2>1. p \in acquired /\ \A q \in Procs : q # p => pc[q] \notin Body
    BY <1>4, OneInside DEF Replace, Body
  <2>2. writable /\ file' = file \cup {p} /\ pc' = [pc EXCEPT ![p] = "release"]
        /\ UNCHANGED <<copy, audit, acquired>>
    BY <1>4, <2>1 DEF Replace, Entered
  <2>3. p \notin file
    BY <1>4 DEF Replace, Entered, Ended
  <2>4. Len(audit) = Cardinality(file' \cap Audited)
    <3>1. CASE p \in Audited
      BY <1>4, <2>2, <2>3, <3>1, OneMore DEF Replace
    <3>2. CASE p \notin Audited
      <4>1. \A q \in Audited : pc[q] # "replace"
        BY <2>1, <3>2 DEF Body, Audited
      <4>. QED
        BY <2>2, <2>3, <3>2, <4>1, OneMore
    <3>. QED
      BY <3>1, <3>2
  <2>5. \A q \in Procs : pc'[q] \notin {"append", "replace"}
    BY <2>1, <2>2 DEF Body
  <2>. QED
    BY <2>2, <2>4, <2>5 DEF Audited
<1>. QED
  BY <1>1, <1>2, <1>3, <1>4 DEF Step

-----------------------------------------------------------------------------
(* The environment.                                                         *)

\* Deaths and stalls end the faultless run; deadlines and aging leave the
\* transactions alone.
LEMMA EnvironmentStep ==
  ASSUME UpdateInv, Environment
  PROVE  UpdateInv'
<1>. USE ProcsAssumption DEF UpdateInv, UpdateTypeOK, LockTypeOK, Environment
<1>1. CASE \E p \in Procs : Deadline(p)
  <2>1. PICK p \in Procs : Deadline(p)
    BY <1>1
  <2>2. UpdateTypeOK'
    BY <2>1 DEF Deadline
  <2>3. Entered' /\ Trail' /\ Overlaps'
    BY <2>1 DEF Deadline, Entered, Trail, HasLine, Overlaps, Replaced, Lost
  <2>4. (Faultless => Holder /\ OwnersApart)'
    BY <2>1 DEF Deadline, Faultless, Holder, OwnersApart
  <2>5. (Faultless /\ RanUnlocked = {} => Serial)'
    BY <2>1 DEF Deadline, Faultless, RanUnlocked, Serial
  <2>. QED
    BY <2>2, <2>3, <2>4, <2>5
<1>2. CASE \E p \in Procs : Crash(p)
  <2>1. PICK p \in Procs : Crash(p)
    BY <1>2
  <2>2. UpdateTypeOK'
    BY <2>1 DEF Crash, Goto, Ended
  <2>3. ~Faultless'
    BY <2>1 DEF Crash, Faultless
  <2>4. Entered'
    BY <2>1 DEF Crash, Goto, Entered, Waiting, Body, Ended
  <2>5. Trail'
    BY <2>1 DEF Crash, Goto, Trail, HasLine, Audited
  <2>6. Overlaps'
    BY <2>1 DEF Crash, Goto, Overlaps, Replaced, Lost, Between, Waiting
  <2>. QED
    BY <2>2, <2>3, <2>4, <2>5, <2>6
<1>3. CASE GrowOld
  <2>1. UpdateTypeOK'
    <3>1. lock' \in [there : BOOLEAN, owner : Procs \cup {NoProc}, old : BOOLEAN]
      BY <1>3 DEF GrowOld
    <3>2. stalls' \in 0 .. MaxStalls
      BY <1>3 DEF GrowOld
    <3>. QED
      BY <1>3, <3>1, <3>2 DEF GrowOld
  <2>2. ~Faultless'
    <3>1. CASE OwnerRuns
      BY <1>3, <3>1 DEF GrowOld, Faultless
    <3>2. CASE ~OwnerRuns
      BY <1>3, <3>2 DEF GrowOld, Faultless, OwnerRuns, Holder
    <3>. QED
      BY <3>1, <3>2
  <2>3. Entered' /\ Trail' /\ Overlaps'
    BY <1>3 DEF GrowOld, Entered, Trail, HasLine, Overlaps, Replaced, Lost
  <2>. QED
    BY <2>1, <2>2, <2>3
<1>. QED
  BY <1>1, <1>2, <1>3

LEMMA ProcessStep ==
  ASSUME UpdateInv, NEW p \in Procs, Step(p)
  PROVE  UpdateInv'
<1>1. UpdateTypeOK' /\ Entered' /\ Trail' /\ Overlaps'
  BY StepType, StepEntered, StepTrail, StepOverlaps DEF UpdateInv
<1>2. Faultless' <=> Faultless
  BY DEF Faultless, Step, Locking, Create, Stat, Break, Unlock, Read, AppendEntry, Replace
<1>3. (Faultless => Holder /\ OwnersApart)'
  BY <1>2, StepHolder, StepApart DEF UpdateInv
<1>4. (Faultless /\ RanUnlocked = {} => Serial)'
  BY <1>2, UnlockedStays, StepSerial DEF UpdateInv
<1>. QED
  BY <1>1, <1>3, <1>4 DEF UpdateInv

LEMMA UpdateInvariance == UpdateSpec => []UpdateInv
<1>1. UpdateInv /\ [UpdateNext]_updateVars => UpdateInv'
  <2>. SUFFICES ASSUME UpdateInv, [UpdateNext]_updateVars PROVE UpdateInv'
    OBVIOUS
  <2>1. CASE UNCHANGED updateVars
    BY <2>1 DEF updateVars, lockVars, UpdateInv, UpdateTypeOK, LockTypeOK, Entered, Trail, HasLine,
                Overlaps, Replaced, Lost, OwnersApart, Faultless, Holder, RanUnlocked, Serial
  <2>2. CASE UpdateNext
    BY <2>1, <2>2, ProcessStep, EnvironmentStep DEF UpdateNext, AllEnded
  <2>. QED
    BY <2>1, <2>2
<1>. QED
  BY <1>1, UpdateInvInit, PTL DEF UpdateSpec

-----------------------------------------------------------------------------
(* The theorems.                                                            *)

\* The marker, the processes, the files and the trail stay what they are: in
\* particular a sequence number is never larger than the number of callers.
THEOREM UpdateTypes == UpdateSpec => []UpdateTypeOK
BY UpdateInvariance, PTL DEF UpdateInv

\* Without deaths and stalls two owners of the marker never overlap, whatever
\* the number of callers, their retries and their timeouts (locked()).
THEOREM OwnersNeverOverlap == UpdateSpec => []OwnersExclude
<1>1. UpdateInv => OwnersExclude
  <2>. SUFFICES ASSUME UpdateInv, Faultless
                PROVE  Cardinality({p \in acquired : pc[p] \in Body}) <= 1
    BY DEF OwnersExclude, UpdateInv
  <2>1. \A p, q \in {r \in acquired : pc[r] \in Body} : p = q
    BY DEF UpdateInv, Holder
  <2>2. CASE {p \in acquired : pc[p] \in Body} = {}
    BY <2>2, FS_EmptySet
  <2>3. CASE {p \in acquired : pc[p] \in Body} # {}
    <3>1. PICK p : {q \in acquired : pc[q] \in Body} = {p}
      BY <2>1, <2>3
    <3>. QED
      BY <3>1, FS_Singleton
  <2>. QED
    BY <2>2, <2>3
<1>. QED
  BY <1>1, UpdateInvariance, PTL

\* An update that was reported successful is lost only to a caller that had read
\* before it was written, and without deaths and stalls only if one of the two went
\* ahead without the marker; and what is in the file appended its line first, or
\* failed to and left a gap (_transaction, TokenStore, AttentionStore).
THEOREM UpdatesNeverLost == UpdateSpec => []UpdatesAreKept
<1>1. UpdateInv => OnlyOverlapsLose
  <2>. SUFFICES ASSUME UpdateInv, NEW p \in Returned \ file
                PROVE  \E q \in Procs :
                         p \in overlap[q] /\ (Faultless => ~({p, q} \subseteq acquired))
    BY DEF OnlyOverlapsLose
  <2>1. p \in Procs /\ Replaced(p)
    BY DEF Returned, Replaced
  <2>2. PICK q \in Procs : p \in overlap[q]
    BY <2>1 DEF UpdateInv, Overlaps, Lost
  <2>3. Faultless => ~({p, q} \subseteq acquired)
    BY <2>2 DEF UpdateInv, OwnersApart
  <2>. QED
    BY <2>2, <2>3
<1>2. UpdateInv => TrailIsWrittenAhead
  <2>. SUFFICES ASSUME UpdateInv PROVE TrailIsWrittenAhead
    OBVIOUS
  <2>1. \A p \in file \cap Audited : \E i \in DOMAIN audit : audit[i].by = p
    BY DEF UpdateInv, Trail, HasLine
  <2>2. Faultless /\ RanUnlocked = {} =>
          \A i, j \in DOMAIN audit : audit[i].seq = audit[j].seq => i = j
    BY DEF UpdateInv, Serial
  <2>. QED
    BY <2>1, <2>2 DEF TrailIsWrittenAhead
<1>. QED
  BY <1>1, <1>2, UpdateInvariance, PTL DEF UpdatesAreKept
=============================================================================
