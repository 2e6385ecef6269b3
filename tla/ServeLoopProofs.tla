-------------------------- MODULE ServeLoopProofs --------------------------
(***************************************************************************)
(* What serving a session guarantees: the loop of its server, for any      *)
(* number of keys, operations, turns and restarts and for any size of the  *)
(* idempotency ring and of the steering queue; and who its server is, for  *)
(* any number of processes, any number of which are killed.                *)
(***************************************************************************)
EXTENDS ServeLoop, SessionAttach, FiniteSetTheorems, SequenceTheorems, TLAPS

\* Turns are numbered as they are created, and only the latest can be live.
OneLive ==
  /\ \A t \in Turns : phase[t] = "none" <=> t > turns
  /\ \A t \in Turns : phase[t] \notin {"none", "done"} => t = slot
  /\ \A k \in Keys : started[k] <= turns

\* A steer that was enqueued while a turn ran waits only while that turn runs.
SteersOfTheTurn ==
  /\ \A i \in DOMAIN steers : steers[i].at # 0 => steers[i].at = slot /\ Busy
  /\ SteerStaysInItsTurn

\* A key for which a turn was created is in the ring or has been pushed out.
KeysRemembered ==
  /\ \A k \in Keys : started[k] > 0 => k \in KeysOf(ring) \cup evicted
  /\ AtMostOneTurnPerKey

IInv ==
  /\ TypeOK
  /\ OneLive
  /\ SteersOfTheTurn
  /\ KeysRemembered

LEMMA InitIInv == Init => IInv
<1>. SUFFICES ASSUME Init PROVE IInv
  OBVIOUS
<1>. USE ServeAssumption DEF Init
<1>1. TypeOK
  <2>1. ops \in Seq(Operations) /\ steers \in Seq(Steers)
        /\ ring \in Seq([key : Keys, ok : BOOLEAN])
    OBVIOUS
  <2>2. phase \in [Turns -> Phases] /\ started \in [Keys -> MaybeTurn]
    BY DEF Phases, MaybeTurn
  <2>3. turns \in MaybeTurn /\ slot \in 0 .. turns /\ restarts \in 0 .. MaxRestarts
    BY DEF MaybeTurn
  <2>4. applied \in [aim : MaybeTurn, at : MaybeTurn, turn : MaybeTurn]
    BY DEF MaybeTurn
  <2>5. Len(ops) <= MaxOps /\ Len(ring) <= RingSize /\ Len(steers) <= SteerLimit
    OBVIOUS
  <2>. QED
    BY <2>1, <2>2, <2>3, <2>4, <2>5 DEF TypeOK
<1>2. OneLive /\ SteersOfTheTurn
  BY DEF OneLive, SteersOfTheTurn, SteerStaysInItsTurn, Turns
<1>3. KeysRemembered
  BY DEF KeysRemembered, AtMostOneTurnPerKey
<1>. QED
  BY <1>1, <1>2, <1>3 DEF IInv

-----------------------------------------------------------------------------
(* The idempotency ring.                                                    *)

Entry == [key : Keys, ok : BOOLEAN]

\* The ring keeps its size, remembers the key, and what it loses is noted.
LEMMA RememberKeeps ==
  ASSUME TypeOK, NEW k \in Keys \cup {NoKey}, NEW ok \in BOOLEAN, Remember(k, ok)
  PROVE  /\ ring' \in Seq(Entry) /\ Len(ring') <= RingSize
         /\ evicted' \in SUBSET Keys /\ evicted \subseteq evicted'
         /\ KeysOf(ring) \cup evicted \subseteq KeysOf(ring') \cup evicted'
         /\ k \in Keys => k \in KeysOf(ring')
<1>. USE ServeAssumption
<1>1. ring \in Seq(Entry) /\ Len(ring) <= RingSize /\ KeysOf(ring) \subseteq Keys
  <2>1. ring \in Seq(Entry) /\ Len(ring) <= RingSize
    BY DEF TypeOK, Entry
  <2>2. \A i \in DOMAIN ring : ring[i] \in Entry
    BY <2>1
  <2>. QED
    BY <2>1, <2>2 DEF KeysOf, Entry
<1>2. evicted' = evicted \cup (KeysOf(ring) \ KeysOf(ring'))
  BY DEF Remember
<1>3. CASE k = NoKey
  <2>1. ring' = ring
    BY <1>3 DEF Remember
  <2>. QED
    BY <1>1, <1>2, <1>3, <2>1 DEF TypeOK
<1>4. CASE k # NoKey
  <2>. DEFINE e == [key |-> k, ok |-> ok]
              longer == Append(ring, e)
  <2>1. e \in Entry /\ longer \in Seq(Entry) /\ Len(longer) = Len(ring) + 1
        /\ longer[Len(longer)] = e
    BY <1>1, <1>4 DEF Entry
  <2>2. ring' = IF Len(longer) > RingSize THEN Tail(longer) ELSE longer
    BY <1>4 DEF Remember, Remembered
  <2>. HIDE DEF longer
  <2>3. ring' \in Seq(Entry) /\ Len(ring') <= RingSize
        /\ Len(ring') \in DOMAIN ring' /\ ring'[Len(ring')] = e
    <3>1. CASE Len(longer) > RingSize
      <4>1. ring' = Tail(longer) /\ Len(longer) = RingSize + 1 /\ longer # <<>>
        BY <1>1, <2>1, <2>2, <3>1
      <4>2. /\ Tail(longer) \in Seq(Entry) /\ Len(Tail(longer)) = RingSize
            /\ Tail(longer)[RingSize] = longer[RingSize + 1]
        BY <2>1, <4>1
      <4>. QED
        BY <2>1, <4>1, <4>2
    <3>2. CASE Len(longer) <= RingSize
      BY <1>1, <2>1, <2>2, <3>2
    <3>. QED
      BY <1>1, <2>1, <3>1, <3>2
  <2>4. k \in KeysOf(ring')
    BY <2>3 DEF KeysOf
  <2>. QED
    BY <1>1, <1>2, <2>3, <2>4 DEF TypeOK
<1>. QED
  BY <1>3, <1>4

-----------------------------------------------------------------------------
(* The loop.                                                                *)

\* The operation that is taken is one, and so is its key.
LEMMA TakenOperation ==
  ASSUME TypeOK, ops # <<>>
  PROVE  /\ Head(ops) \in Operations /\ Key \in Keys \cup {NoKey}
         /\ Tail(ops) \in Seq(Operations) /\ Len(Tail(ops)) <= MaxOps
<1>1. ops \in Seq(Operations) /\ Len(ops) <= MaxOps /\ MaxOps \in Nat
  BY ServeAssumption DEF TypeOK
<1>2. Head(ops) \in Operations /\ Tail(ops) \in Seq(Operations) /\ Len(Tail(ops)) <= Len(ops)
  BY <1>1
<1>. QED
  BY <1>1, <1>2 DEF Key, Operations

\* A step that leaves the turns alone keeps what is said of them, and keys that
\* were remembered.
LEMMA TurnsKept ==
  ASSUME OneLive, SteersOfTheTurn, KeysRemembered, UNCHANGED turnVars,
         evicted \subseteq evicted',
         KeysOf(ring) \cup evicted \subseteq KeysOf(ring') \cup evicted'
  PROVE  OneLive' /\ SteersOfTheTurn' /\ KeysRemembered'
<1>1. OneLive'
  BY DEF OneLive, turnVars
<1>2. SteersOfTheTurn'
  BY DEF SteersOfTheTurn, SteerStaysInItsTurn, Busy, turnVars
<1>3. KeysRemembered'
  BY DEF KeysRemembered, AtMostOneTurnPerKey, turnVars
<1>. QED
  BY <1>1, <1>2, <1>3

LEMMA TurnTypes ==
  ASSUME TypeOK, UNCHANGED turnVars
  PROVE  /\ (turns \in MaybeTurn /\ slot \in 0 .. turns /\ phase \in [Turns -> Phases])'
         /\ (steers \in Seq(Steers) /\ Len(steers) <= SteerLimit /\ goal \in BOOLEAN)'
         /\ (started \in [Keys -> MaybeTurn])'
         /\ (applied \in [aim : MaybeTurn, at : MaybeTurn, turn : MaybeTurn])'
BY DEF TypeOK, turnVars

LEMMA SendStep ==
  ASSUME IInv, NEW kind \in Writes \cup {"control", "quit"}, NEW k \in Keys \cup {NoKey},
         Send(kind, k)
  PROVE  IInv'
<1>. USE DEF IInv
<1>1. UNCHANGED <<loop, ring, restarts, evicted>> /\ UNCHANGED turnVars
  BY DEF Send
<1>2. ops' \in Seq(Operations) /\ Len(ops') <= MaxOps
  <2>1. Current \in MaybeTurn /\ 0 \in MaybeTurn
    BY ServeAssumption DEF TypeOK, Current, MaybeTurn
  <2>2. [kind |-> kind, key |-> k, aim |-> IF kind = "steer" THEN Current ELSE 0] \in Operations
    BY <2>1 DEF Operations
  <2>. QED
    BY <2>2, ServeAssumption DEF Send, TypeOK
<1>3. TypeOK'
  BY <1>1, <1>2, TurnTypes DEF TypeOK
<1>. QED
  BY <1>1, <1>3, TurnsKept

\* Replay, Refuse, Control, Quit and Drain do not touch the turns.
LEMMA QuietStep ==
  ASSUME IInv, Replay \/ Refuse \/ Control \/ Quit \/ Drain
  PROVE  IInv'
<1>. USE DEF IInv
<1>1. UNCHANGED turnVars /\ UNCHANGED restarts
  BY DEF Replay, Refuse, Control, Quit, Drain, Take
<1>2. ops' \in Seq(Operations) /\ Len(ops') <= MaxOps
  <2>1. ops \in Seq(Operations) /\ Len(ops) <= MaxOps /\ MaxOps \in Nat
    BY ServeAssumption DEF TypeOK
  <2>2. \/ ops # <<>> /\ ops' = Tail(ops)
        \/ ops' = <<>>
        \/ ops' = ops
    BY DEF Replay, Refuse, Control, Quit, Drain, Take
  <2>3. CASE ops # <<>> /\ ops' = Tail(ops)
    BY <2>3, TakenOperation
  <2>4. CASE ops' = <<>>
    BY <2>1, <2>4
  <2>. QED
    BY <2>1, <2>2, <2>3, <2>4
<1>3. loop' \in {"serving", "arming", "draining", "stopped"}
  BY DEF Replay, Refuse, Control, Quit, Drain, TypeOK
<1>4. /\ ring' \in Seq(Entry) /\ Len(ring') <= RingSize
      /\ evicted' \in SUBSET Keys /\ evicted \subseteq evicted'
      /\ KeysOf(ring) \cup evicted \subseteq KeysOf(ring') \cup evicted'
  <2>1. CASE Control
    BY <2>1, TakenOperation, RememberKeeps DEF Control, Take
  <2>2. CASE ~Control
    BY <2>2 DEF Replay, Refuse, Quit, Drain, TypeOK, Entry
  <2>. QED
    BY <2>1, <2>2
<1>5. TypeOK'
  BY <1>1, <1>2, <1>3, <1>4, TurnTypes DEF TypeOK, Entry
<1>. QED
  BY <1>1, <1>4, <1>5, TurnsKept

\* What every admitted write does before it reaches its own effect.
LEMMA AdmitKeeps ==
  ASSUME IInv, NEW kind \in Writes, Admit(kind)
  PROVE  /\ ops' \in Seq(Operations) /\ Len(ops') <= MaxOps /\ UNCHANGED restarts
         /\ ring' \in Seq(Entry) /\ Len(ring') <= RingSize
         /\ evicted' \in SUBSET Keys /\ evicted \subseteq evicted'
         /\ KeysOf(ring) \cup evicted \subseteq KeysOf(ring') \cup evicted'
         /\ Key \in Keys \cup {NoKey}
         /\ Key \in Keys => Key \in KeysOf(ring') /\ Key \notin KeysOf(ring)
         /\ Head(ops) \in Operations
<1>1. ops # <<>> /\ ops' = Tail(ops) /\ UNCHANGED restarts /\ ~Known(Key) /\ Remember(Key, TRUE)
  BY DEF Admit, Take
<1>2. TypeOK /\ TRUE \in BOOLEAN
  BY DEF IInv
<1>3. Head(ops) \in Operations /\ Key \in Keys \cup {NoKey}
      /\ ops' \in Seq(Operations) /\ Len(ops') <= MaxOps
  BY <1>1, <1>2, TakenOperation
<1>. QED
  BY <1>1, <1>2, <1>3, RememberKeeps DEF Known

\* A turn is created only when there is none, and only once for a key that is
\* still remembered.
LEMMA NewTurnStep ==
  ASSUME IInv, NEW kind \in Writes, Admit(kind), NEW pending \in {"submit", "goal"},
         ~Busy, NewTurn(pending), UNCHANGED loop
  PROVE  IInv'
<1>. USE ServeAssumption DEF IInv
<1>1. /\ turns < MaxTurns /\ turns' = turns + 1 /\ slot' = turns + 1
      /\ phase' = [phase EXCEPT ![turns + 1] = pending]
      /\ started' = IF Key = NoKey THEN started ELSE [started EXCEPT ![Key] = @ + 1]
      /\ UNCHANGED <<steers, goal, applied>>
  BY DEF NewTurn
<1>2. turns \in Nat /\ turns + 1 \in Turns /\ turns + 1 \in MaybeTurn /\ turns + 1 # 0
  BY <1>1 DEF TypeOK, MaybeTurn, Turns
<1>3. \A k \in Keys : started[k] \in Nat /\ started[k] <= turns
  BY DEF TypeOK, OneLive, MaybeTurn
<1>4. \A k \in Keys : started'[k] = IF k = Key THEN started[k] + 1 ELSE started[k]
  BY <1>1, AdmitKeeps DEF TypeOK
<1>5. TypeOK'
  <2>1. started' \in [Keys -> MaybeTurn]
    <3>1. started \in [Keys -> MaybeTurn]
      BY DEF TypeOK
    <3>2. \A k \in Keys : started[k] + 1 \in MaybeTurn
      BY <1>1, <1>2, <1>3 DEF MaybeTurn
    <3>. QED
      BY <1>1, <3>1, <3>2
  <2>2. phase' \in [Turns -> Phases]
    BY <1>1, <1>2 DEF TypeOK, Phases
  <2>3. turns' \in MaybeTurn /\ slot' \in 0 .. turns'
    BY <1>1, <1>2
  <2>. QED
    BY <1>1, <2>1, <2>2, <2>3, AdmitKeeps DEF TypeOK, Entry
<1>6. \A t \in Turns : phase[t] \in {"none", "done"}
  BY DEF TypeOK, OneLive, Busy, Turns
<1>7. \A t \in Turns : phase'[t] = IF t = turns + 1 THEN pending ELSE phase[t]
  BY <1>1, <1>2 DEF TypeOK
<1>8. OneLive'
  <2>1. \A t \in Turns : phase'[t] = "none" <=> t > turns'
    BY <1>1, <1>2, <1>7 DEF OneLive, Turns
  <2>2. \A t \in Turns : phase'[t] \notin {"none", "done"} => t = slot'
    BY <1>1, <1>6, <1>7
  <2>3. \A k \in Keys : started'[k] <= turns'
    BY <1>1, <1>2, <1>3, <1>4
  <2>. QED
    BY <2>1, <2>2, <2>3 DEF OneLive
<1>9. SteersOfTheTurn'
  BY <1>1 DEF SteersOfTheTurn, SteerStaysInItsTurn
<1>10. KeysRemembered'
  <2>1. \A k \in Keys : started'[k] > 0 => k \in KeysOf(ring') \cup evicted'
    BY <1>3, <1>4, AdmitKeeps DEF KeysRemembered
  <2>2. \A k \in Keys : started'[k] > 1 => k \in evicted'
    <3>1. \A k \in Keys \ {Key} : started'[k] > 1 => k \in evicted'
      BY <1>4, AdmitKeeps DEF KeysRemembered, AtMostOneTurnPerKey
    <3>2. Key \in Keys /\ started'[Key] > 1 => Key \in evicted'
      BY <1>3, <1>4, AdmitKeeps DEF KeysRemembered
    <3>. QED
      BY <3>1, <3>2
  <2>. QED
    BY <2>1, <2>2 DEF KeysRemembered, AtMostOneTurnPerKey
<1>. QED
  BY <1>5, <1>8, <1>9, <1>10

\* No turn begins or ends.
SameLives ==
  /\ phase' \in [Turns -> Phases]
  /\ \A t \in Turns : /\ phase'[t] = "none" <=> phase[t] = "none"
                      /\ phase'[t] = "done" <=> phase[t] = "done"

LEMMA SameLivesKept == TypeOK /\ UNCHANGED phase => SameLives
BY DEF TypeOK, SameLives

\* An admitted write without a turn of its own: the turn that runs, or none,
\* lives on.
LEMMA AdmittedStep ==
  ASSUME IInv, NEW kind \in Writes, Admit(kind),
         loop' \in {"serving", "arming"}, goal' \in BOOLEAN,
         steers' \in Seq(Steers), Len(steers') <= SteerLimit,
         \A i \in DOMAIN steers' : steers'[i].at # 0 => steers'[i].at = slot /\ Busy,
         SameLives, UNCHANGED <<turns, slot, started, applied>>
  PROVE  IInv'
<1>. USE DEF IInv
<1>1. TypeOK'
  BY AdmitKeeps DEF TypeOK, Entry, SameLives
<1>2. OneLive'
  BY DEF OneLive, SameLives
<1>3. SteersOfTheTurn'
  <2>1. Busy => Busy'
    <3>1. slot \in 0 .. turns /\ turns \in 0 .. MaxTurns
      BY DEF TypeOK, MaybeTurn
    <3>. QED
      BY <3>1, ServeAssumption DEF Busy, SameLives, Turns
  <2>. QED
    BY <2>1 DEF SteersOfTheTurn, SteerStaysInItsTurn
<1>4. KeysRemembered'
  BY AdmitKeeps DEF KeysRemembered, AtMostOneTurnPerKey
<1>. QED
  BY <1>1, <1>2, <1>3, <1>4

LEMMA ServeStep ==
  ASSUME IInv, Serve
  PROVE  IInv'
<1>1. CASE Submit
  <2>1. CASE ~Busy /\ NewTurn("submit")
    BY <1>1, <2>1, NewTurnStep DEF Submit, Writes
  <2>2. CASE UNCHANGED turnVars
    BY <1>1, <2>2, AdmittedStep, SameLivesKept
    DEF Submit, Writes, turnVars, Admit, Take, IInv, TypeOK, SteersOfTheTurn
  <2>. QED
    BY <1>1, <2>1, <2>2 DEF Submit
<1>2. CASE SetGoal
  <2>1. CASE ~Busy /\ NewTurn("goal") /\ UNCHANGED loop
    BY <1>2, <2>1, NewTurnStep DEF SetGoal, Writes
  <2>2. CASE loop' = "arming" /\ UNCHANGED turnVars
    BY <1>2, <2>2, AdmittedStep, SameLivesKept DEF SetGoal, Writes, turnVars, IInv, TypeOK, SteersOfTheTurn
  <2>. QED
    BY <1>2, <2>1, <2>2 DEF SetGoal
<1>3. CASE Arm
  <2>1. TypeOK'
    BY <1>3 DEF Arm, IInv, TypeOK
  <2>2. OneLive' /\ SteersOfTheTurn' /\ KeysRemembered'
    BY <1>3
    DEF Arm, IInv, OneLive, SteersOfTheTurn, SteerStaysInItsTurn, Busy, KeysRemembered,
        AtMostOneTurnPerKey
  <2>. QED
    BY <2>1, <2>2 DEF IInv
<1>4. CASE ClearGoal
  BY <1>4, AdmittedStep, SameLivesKept
  DEF ClearGoal, Writes, Admit, Take, IInv, TypeOK, SteersOfTheTurn
<1>5. CASE Steer
  <2>. DEFINE steer == [aim |-> Head(ops).aim, at |-> Current]
  <2>1. steer \in Steers
    <3>1. Head(ops) \in Operations
      BY <1>5, AdmitKeeps DEF Steer, Writes
    <3>2. Current \in MaybeTurn
      BY ServeAssumption DEF IInv, TypeOK, Current, MaybeTurn
    <3>. QED
      BY <3>1, <3>2 DEF Steers, Operations
  <2>2. steer.at # 0 => steer.at = slot /\ Busy
    BY DEF Current
  <2>3. steers \in Seq(Steers) /\ Len(steers) <= SteerLimit
        /\ \A i \in DOMAIN steers : steers[i].at # 0 => steers[i].at = slot /\ Busy
    BY DEF IInv, TypeOK, SteersOfTheTurn
  <2>4. steers' = IF Len(steers) < SteerLimit THEN Append(steers, steer) ELSE steers
    BY <1>5 DEF Steer
  <2>. HIDE DEF steer
  <2>5. steers' \in Seq(Steers) /\ Len(steers') <= SteerLimit
        /\ \A i \in DOMAIN steers' : steers'[i].at # 0 => steers'[i].at = slot /\ Busy
    <3>1. CASE Len(steers) < SteerLimit
      BY <2>1, <2>2, <2>3, <2>4, <3>1, ServeAssumption
    <3>2. CASE ~(Len(steers) < SteerLimit)
      BY <2>3, <2>4, <3>2
    <3>. QED
      BY <3>1, <3>2
  <2>. QED
    BY <1>5, <2>5, AdmittedStep, SameLivesKept DEF Steer, Writes, Admit, Take, IInv, TypeOK
<1>6. CASE Decision
  <2>1. SameLives
    <3>1. CASE UNCHANGED phase
      BY <3>1, SameLivesKept DEF IInv
    <3>2. CASE \E t \in Turns : phase[t] = "asking" /\ phase' = [phase EXCEPT ![t] = "running"]
      BY <3>2 DEF IInv, TypeOK, SameLives, Phases
    <3>. QED
      BY <1>6, <3>1, <3>2 DEF Decision
  <2>. QED
    BY <1>6, <2>1, AdmittedStep DEF Decision, Writes, Admit, Take, IInv, TypeOK, SteersOfTheTurn
<1>. QED
  BY <1>1, <1>2, <1>3, <1>4, <1>5, <1>6, QuietStep DEF Serve

-----------------------------------------------------------------------------
(* The coroutine of a turn, and the death of the process.                   *)

LEMMA TurnStep ==
  ASSUME IInv, NEW t \in Turns, Begin(t) \/ Inject(t) \/ Ask(t) \/ Finish(t) \/ Close(t)
  PROVE  IInv'
<1>. USE DEF IInv
<1>1. UNCHANGED <<ops, loop, ring, turns, slot, restarts, started, evicted>>
  BY DEF Begin, Inject, Ask, Finish, Close, loopVars
<1>2. phase[t] \notin {"none", "done"} /\ t = slot /\ Busy
  <2>1. phase[t] \notin {"none", "done"}
    BY DEF Begin, Inject, Ask, Finish, Close
  <2>. QED
    BY <2>1, ServeAssumption DEF OneLive, Busy, Turns
<1>3. \E l \in {phase[t], "running", "asking", "closing", "done"} : phase' = [phase EXCEPT ![t] = l]
  BY DEF Begin, Inject, Ask, Finish, Close, TypeOK
<1>4. OneLive'
  BY <1>1, <1>2, <1>3 DEF OneLive, TypeOK
<1>5. KeysRemembered'
  BY <1>1 DEF KeysRemembered, AtMostOneTurnPerKey
<1>6. goal' \in BOOLEAN
  BY DEF Begin, Inject, Ask, Finish, Close, TypeOK
<1>7. phase' \in [Turns -> Phases]
  BY <1>3 DEF TypeOK, Phases
<1>8. CASE Inject(t)
  <2>1. steers \in Seq(Steers) /\ steers # <<>> /\ Len(steers) <= SteerLimit
    BY <1>8 DEF Inject, TypeOK
  <2>2. /\ steers' = Tail(steers) /\ UNCHANGED phase
        /\ applied' = [aim |-> Head(steers).aim, at |-> Head(steers).at, turn |-> t]
    BY <1>8 DEF Inject
  <2>3. Head(steers) \in Steers /\ Head(steers) = steers[1] /\ 1 \in DOMAIN steers
    BY <2>1
  <2>4. /\ steers' \in Seq(Steers) /\ Len(steers') <= SteerLimit
        /\ \A i \in DOMAIN steers' : i + 1 \in DOMAIN steers /\ steers'[i] = steers[i + 1]
    BY <2>1, <2>2, ServeAssumption
  <2>5. applied' \in [aim : MaybeTurn, at : MaybeTurn, turn : MaybeTurn]
    BY <2>2, <2>3 DEF Steers, Turns, MaybeTurn
  <2>6. TypeOK'
    BY <1>1, <1>6, <1>7, <2>4, <2>5 DEF TypeOK
  <2>7. SteersOfTheTurn'
    <3>1. \A i \in DOMAIN steers' : steers'[i].at # 0 => steers'[i].at = slot' /\ Busy'
      BY <1>1, <2>2, <2>4 DEF SteersOfTheTurn, Busy
    <3>2. applied'.at # 0 => applied'.turn = applied'.at
      BY <1>2, <2>2, <2>3 DEF SteersOfTheTurn
    <3>. QED
      BY <3>1, <3>2 DEF SteersOfTheTurn, SteerStaysInItsTurn
  <2>. QED
    BY <1>4, <1>5, <2>6, <2>7
<1>9. CASE Close(t)
  <2>1. steers' = <<>> /\ UNCHANGED applied
    BY <1>9 DEF Close
  <2>2. TypeOK'
    BY <1>1, <1>6, <1>7, <2>1, ServeAssumption DEF TypeOK
  <2>3. SteersOfTheTurn'
    BY <2>1 DEF SteersOfTheTurn, SteerStaysInItsTurn
  <2>. QED
    BY <1>4, <1>5, <2>2, <2>3
<1>10. CASE Begin(t) \/ Ask(t) \/ Finish(t)
  <2>1. UNCHANGED <<steers, applied>> /\ phase'[t] # "done"
    BY <1>10 DEF Begin, Ask, Finish, TypeOK
  <2>2. Busy'
    BY <1>1, <1>2, <2>1 DEF Busy, Turns
  <2>3. TypeOK'
    BY <1>1, <1>6, <1>7, <2>1 DEF TypeOK
  <2>4. SteersOfTheTurn'
    BY <1>1, <2>1, <2>2 DEF SteersOfTheTurn, SteerStaysInItsTurn
  <2>. QED
    BY <1>4, <1>5, <2>3, <2>4
<1>. QED
  BY <1>8, <1>9, <1>10

\* The ring survives the process; of its turns none is left.
LEMMA RestartStep ==
  ASSUME IInv, Restart \/ DieAfterRemember
  PROVE  IInv'
<1>. USE ServeAssumption DEF IInv
<1>1. /\ restarts' \in 0 .. MaxRestarts
      /\ ops' = <<>> /\ loop' = "serving" /\ slot' = 0 /\ steers' = <<>> /\ goal' = FALSE
      /\ phase' = [t \in Turns |-> IF phase[t] = "none" THEN "none" ELSE "done"]
      /\ UNCHANGED <<turns, started, applied>>
  <2>1. Reborn
    BY DEF Restart, DieAfterRemember
  <2>2. restarts \in Nat /\ restarts < MaxRestarts /\ restarts' = restarts + 1
    BY <2>1 DEF Reborn, TypeOK
  <2>. QED
    BY <2>1, <2>2 DEF Reborn
<1>2. /\ ring' \in Seq(Entry) /\ Len(ring') <= RingSize
      /\ evicted' \in SUBSET Keys /\ evicted \subseteq evicted'
      /\ KeysOf(ring) \cup evicted \subseteq KeysOf(ring') \cup evicted'
  <2>1. CASE Restart
    BY <2>1 DEF Restart, TypeOK, Entry
  <2>2. CASE DieAfterRemember
    <3>1. ops # <<>> /\ Remember(Key, TRUE) /\ TRUE \in BOOLEAN
      BY <2>2 DEF DieAfterRemember
    <3>. QED
      BY <3>1, TakenOperation, RememberKeeps
  <2>. QED
    BY <2>1, <2>2
<1>3. TypeOK'
  <2>1. phase' \in [Turns -> Phases]
    BY <1>1 DEF Phases
  <2>2. ops' \in Seq(Operations) /\ Len(ops') <= MaxOps
        /\ steers' \in Seq(Steers) /\ Len(steers') <= SteerLimit
    BY <1>1
  <2>3. turns' \in MaybeTurn /\ slot' \in 0 .. turns'
    BY <1>1 DEF TypeOK, MaybeTurn
  <2>4. loop' \in {"serving", "arming", "draining", "stopped"} /\ goal' \in BOOLEAN
    BY <1>1
  <2>. QED
    BY <1>1, <1>2, <2>1, <2>2, <2>3, <2>4 DEF TypeOK, Entry
<1>4. OneLive'
  BY <1>1 DEF OneLive
<1>5. SteersOfTheTurn'
  BY <1>1 DEF SteersOfTheTurn, SteerStaysInItsTurn
<1>6. KeysRemembered'
  BY <1>1, <1>2 DEF KeysRemembered, AtMostOneTurnPerKey
<1>. QED
  BY <1>3, <1>4, <1>5, <1>6

LEMMA Invariance == Spec => []IInv
<1>1. IInv /\ [Next]_vars => IInv'
  <2>. SUFFICES ASSUME IInv, [Next]_vars PROVE IInv'
    OBVIOUS
  <2>1. CASE UNCHANGED vars
    <3>1. UNCHANGED turnVars
      BY <2>1 DEF vars, turnVars
    <3>2. TypeOK'
      BY <2>1 DEF vars, IInv, TypeOK
    <3>. QED
      BY <2>1, <3>1, <3>2, TurnsKept DEF vars, IInv
  <2>2. CASE Next
    BY <2>2, SendStep, ServeStep, TurnStep, RestartStep DEF Next
  <2>. QED
    BY <2>1, <2>2
<1>. QED
  BY <1>1, InitIInv, PTL DEF Spec

-----------------------------------------------------------------------------
(* The theorems.                                                            *)

\* A retried submit or goal never starts a second turn while its key is in the
\* ring, through crashes and restarts (replay, remember).
THEOREM RetriesStartNothing == Spec => []AtMostOneTurnPerKey
BY Invariance, PTL DEF IInv, KeysRemembered

\* At most one turn is live, and a steer that was enqueued while a turn ran is
\* injected into that turn or into none (_run_turn, drain_steers).
THEOREM TurnsKeptApart == Spec => []TurnsStayApart
<1>1. IInv => OneTurnAtATime
  <2>. SUFFICES ASSUME IInv
                PROVE  Cardinality({t \in Turns : phase[t] \notin {"none", "done"}}) <= 1
    BY DEF OneTurnAtATime
  <2>1. {t \in Turns : phase[t] \notin {"none", "done"}} \subseteq {slot}
    BY DEF IInv, OneLive
  <2>2. IsFiniteSet({slot}) /\ Cardinality({slot}) = 1
    BY FS_Singleton
  <2>. QED
    BY <2>1, <2>2, FS_Subset
<1>2. IInv => TypeOK /\ SteerStaysInItsTurn
  BY DEF IInv, SteersOfTheTurn
<1>. QED
  BY <1>1, <1>2, Invariance, PTL DEF TurnsStayApart

-----------------------------------------------------------------------------
(* Who serves: opening, claiming and stopping.                              *)

UnderLock == Claiming \ {"claim"}
Going == {"rewipe", "rewipeSocket", "unbind", "bind"}
Past == Going \cup {"advertise"}

\* Who listens is a runtime with an endpoint, or is about to have one.
Places ==
  /\ \A p \in listening : (p \in owners /\ pc[p] = "serving") \/ pc[p] = "advertise"
  /\ \A p \in Procs : pc[p] = "advertise" => p \in listening

\* The marker protects the claim: who is past the wait made the marker.
Protected == \A p \in Procs : pc[p] \in UnderLock => claimer = p

\* Then whoever listens has the socket, and the advert once it owns; a claimer
\* that goes on has found nobody who listens; and who is attached to a
\* listening process found its socket.
Findable ==
  /\ \A p \in listening : sock = p
  /\ \A p \in Owning : advert = p
  /\ \A p \in Procs : pc[p] \in Going => listening = {}
  /\ \A p \in Procs : joined[p] \in listening => joined[p] = sock

\* Those who own, or may own without reading the advert again under a marker.
Contenders ==
  {p \in Procs : \/ p \in Owning \/ pc[p] \in Past
                 \/ pc[p] = "reread" /\ claimer # p}

\* The next claimer is kept out: by the marker of one that has passed the
\* check, or by an endpoint that answers.
Settled ==
  \/ \E p \in Procs : claimer = p /\ pc[p] \in Past /\ (pc[p] = "advertise" => sock \in listening)
  \/ advert \in listening /\ sock \in listening

\* Each contender but the one who settled the matter is paid for by an event.
Paid == Cardinality(Contenders) <= hits + (IF Settled THEN 1 ELSE 0)

AttachInv ==
  /\ AttachTypeOK
  /\ Places
  /\ hits = 0 => Protected /\ Findable
  /\ Paid

LEMMA AttachInvInit == AttachInit => AttachInv
<1>. SUFFICES ASSUME AttachInit PROVE AttachInv
  OBVIOUS
<1>1. AttachTypeOK
  <2>1. pc \in [Procs -> {"idle", "peer"} \cup Looking \cup Runtimes \cup Ended]
    BY DEF AttachInit
  <2>2. asked \in [Procs -> 0 .. 2] /\ crashes \in 0 .. MaxCrashes
    BY ProcsAssumption DEF AttachInit
  <2>. QED
    BY <2>1, <2>2 DEF AttachInit, AttachTypeOK, MaybeProc
<1>2. Places
  BY DEF AttachInit, Places
<1>3. Protected /\ Findable
  BY DEF AttachInit, Protected, Findable, UnderLock, Claiming, Going, Owning
<1>4. Paid
  <2>1. Contenders = {}
    BY DEF AttachInit, Contenders, Owning, Past, Going
  <2>2. hits = 0 /\ ~Settled
    BY DEF AttachInit, Settled, Past, Going
  <2>. QED
    BY <2>1, <2>2, FS_EmptySet DEF Paid
<1>. QED
  BY <1>1, <1>2, <1>3, <1>4 DEF AttachInv

-----------------------------------------------------------------------------
(* How a step keeps the account.                                            *)

\* Nobody joins, and if the matter is no longer settled that is counted ...
Stays == Contenders' \subseteq Contenders /\ (Settled /\ ~Settled' => hits' > hits)

\* ... or one leaves ...
Leaves == \E p \in Contenders : Contenders' \subseteq Contenders \ {p}

\* ... or one leaves and the event that is counted brings another ...
Swaps == hits' > hits /\ \E p \in Contenders, q \in Procs :
                             Contenders' \subseteq (Contenders \ {p}) \cup {q}

\* ... or one joins, by a counted event or by settling the matter.
Joins == /\ \E p \in Procs : Contenders' \subseteq Contenders \cup {p}
         /\ (hits' > hits /\ (Settled => Settled')) \/ (~Settled /\ Settled')

LEMMA Balance ==
  ASSUME AttachInv, hits' \in Nat, hits' >= hits, Stays \/ Leaves \/ Swaps \/ Joins
  PROVE  Paid'
<1>. DEFINE slack == IF Settled THEN 1 ELSE 0
            slackAfter == IF Settled' THEN 1 ELSE 0
<1>1. hits \in Nat /\ Cardinality(Contenders) <= hits + slack
  BY DEF AttachInv, AttachTypeOK, Paid
<1>2. IsFiniteSet(Contenders) /\ Cardinality(Contenders) \in Nat
  BY ProcsAssumption, FS_Subset, FS_CardinalityType DEF Contenders
<1>3. SUFFICES Cardinality(Contenders') <= hits' + slackAfter
  BY DEF Paid
<1>4. CASE Stays
  <2>1. Cardinality(Contenders') <= Cardinality(Contenders) /\ Cardinality(Contenders') \in Nat
    BY <1>2, <1>4, FS_Subset, FS_CardinalityType DEF Stays
  <2>. QED
    BY <1>1, <1>2, <1>4, <2>1 DEF Stays
<1>5. CASE Leaves
  <2>1. PICK p \in Contenders : Contenders' \subseteq Contenders \ {p}
    BY <1>5 DEF Leaves
  <2>2. IsFiniteSet(Contenders \ {p}) /\ Cardinality(Contenders \ {p}) = Cardinality(Contenders) - 1
    BY <1>2, FS_RemoveElement
  <2>3. Cardinality(Contenders') <= Cardinality(Contenders) - 1 /\ Cardinality(Contenders') \in Nat
    BY <2>1, <2>2, FS_Subset, FS_CardinalityType
  <2>. QED
    BY <1>1, <1>2, <2>3
<1>6. CASE Swaps
  <2>1. PICK p \in Contenders, q \in Procs : Contenders' \subseteq (Contenders \ {p}) \cup {q}
    BY <1>6 DEF Swaps
  <2>2. IsFiniteSet(Contenders \ {p}) /\ Cardinality(Contenders \ {p}) = Cardinality(Contenders) - 1
    BY <1>2, FS_RemoveElement
  <2>5. /\ IsFiniteSet((Contenders \ {p}) \cup {q})
        /\ Cardinality((Contenders \ {p}) \cup {q}) =
             IF q \in Contenders \ {p} THEN Cardinality(Contenders \ {p})
                                     ELSE Cardinality(Contenders \ {p}) + 1
    BY <2>2, FS_AddElement
  <2>3. /\ IsFiniteSet((Contenders \ {p}) \cup {q})
        /\ Cardinality((Contenders \ {p}) \cup {q}) <= Cardinality(Contenders)
    BY <1>2, <2>2, <2>5
  <2>4. /\ Cardinality(Contenders') <= Cardinality((Contenders \ {p}) \cup {q})
        /\ Cardinality(Contenders') \in Nat /\ Cardinality((Contenders \ {p}) \cup {q}) \in Nat
    BY <2>1, <2>3, FS_Subset, FS_CardinalityType
  <2>. QED
    BY <1>1, <1>2, <1>6, <2>3, <2>4 DEF Swaps
<1>7. CASE Joins
  <2>1. PICK p \in Procs : Contenders' \subseteq Contenders \cup {p}
    BY <1>7 DEF Joins
  <2>4. /\ IsFiniteSet(Contenders \cup {p})
        /\ Cardinality(Contenders \cup {p}) =
             IF p \in Contenders THEN Cardinality(Contenders) ELSE Cardinality(Contenders) + 1
    BY <1>2, FS_AddElement
  <2>2. /\ IsFiniteSet(Contenders \cup {p})
        /\ Cardinality(Contenders \cup {p}) <= Cardinality(Contenders) + 1
    BY <1>2, <2>4
  <2>3. /\ Cardinality(Contenders') <= Cardinality(Contenders \cup {p})
        /\ Cardinality(Contenders') \in Nat /\ Cardinality(Contenders \cup {p}) \in Nat
    BY <2>1, <2>2, FS_Subset, FS_CardinalityType
  <2>. QED
    BY <1>1, <1>2, <1>7, <2>2, <2>3 DEF Joins
<1>. QED
  BY <1>4, <1>5, <1>6, <1>7

\* A step of a process that neither contends nor listens, before or after,
\* pays for the file of a listening process it removes, if any.
Aside(p) ==
  /\ \A q \in Procs \ {p} : pc'[q] = pc[q]
  /\ pc[p] \notin Past \cup {"reread"} /\ pc'[p] \notin Past \cup {"reread"}
  /\ p \notin listening /\ owners' \subseteq owners
  /\ UNCHANGED <<listening, claimer>>
  /\ \/ UNCHANGED <<advert, sock, hits>>
     \/ UNCHANGED sock /\ Counting(advert \in listening)
     \/ UNCHANGED advert /\ Counting(sock \in listening)

LEMMA Bystander ==
  ASSUME AttachInv, NEW p \in Procs, Aside(p)
  PROVE  Paid'
<1>1. Contenders' \subseteq Contenders
  BY DEF Aside, Contenders, Owning
<1>2. hits \in Nat /\ hits' \in Nat /\ hits' >= hits
  BY DEF Aside, Counting, AttachInv, AttachTypeOK
<1>3. Settled /\ ~Settled' => hits' > hits
  <2>. SUFFICES ASSUME Settled, hits' = hits PROVE Settled'
    BY <1>2
  <2>1. CASE \E q \in Procs : claimer = q /\ pc[q] \in Past /\ (pc[q] = "advertise" => sock \in listening)
    <3>1. PICK q \in Procs : claimer = q /\ pc[q] \in Past /\ (pc[q] = "advertise" => sock \in listening)
      BY <2>1
    <3>2. pc'[q] = pc[q]
      BY <3>1 DEF Aside
    <3>3. sock \in listening => sock' \in listening'
      BY <1>2 DEF Aside, Counting
    <3>4. claimer' = q
      BY <3>1 DEF Aside
    <3>. QED
      BY <3>1, <3>2, <3>3, <3>4 DEF Settled
  <2>2. CASE advert \in listening /\ sock \in listening
    BY <1>2, <2>2 DEF Aside, Counting, Settled
  <2>. QED
    BY <2>1, <2>2 DEF Settled
<1>. QED
  BY <1>1, <1>2, <1>3, Balance DEF Stays

-----------------------------------------------------------------------------
(* Opening: looking, wiping without the marker, joining, booting.           *)

Opening(p) == Open(p) \/ Look(p) \/ Probe(p) \/ Boot(p) \/ EnsureAttach(p)
Joining(p) == Connect(p) \/ Detach(p)
Wiping(p) == Wipe(p) \/ WipeSocket(p)
Waiting(p) == TakeLock(p) \/ BreakLock(p) \/ GoAhead(p)
Claims(p) == Reread(p) \/ Rewipe(p) \/ RewipeSocket(p) \/ Bind(p) \/ BindFails(p) \/ Advertise(p)
Ending(p) == Stop(p) \/ StopWipe(p) \/ StopWipeSocket(p) \/ Crash(p)

LEMMA OpeningStep ==
  ASSUME AttachInv, NEW p \in Procs, Opening(p)
  PROVE  AttachInv'
<1>1. /\ UNCHANGED <<advert, sock, listening, owners, joined, claimer, held, crashes, hits>>
      /\ \E l \in {"look", "boot", "probe", "connect", "wipe", "serving", "gone", "claim"} :
           pc' = [pc EXCEPT ![p] = l]
      /\ pc[p] \in {"idle", "look", "probe", "boot", "serving"}
  BY DEF Opening, Open, Look, Probe, Boot, EnsureAttach, Goto
<1>2. pc[p] = "serving" => p \notin owners
  BY DEF Opening, Open, Look, Probe, Boot, EnsureAttach
<1>3. seen' \in [Procs -> MaybeProc]
  BY DEF Opening, Open, Look, Probe, Boot, EnsureAttach, AttachInv, AttachTypeOK, MaybeProc
<1>4. asked' \in [Procs -> 0 .. 2]
  BY DEF Opening, Open, Look, Probe, Boot, EnsureAttach, AttachInv, AttachTypeOK
<1>5. p \notin listening /\ p \notin owners /\ p \notin held /\ claimer # p
  BY <1>1, <1>2, ProcsAssumption DEF AttachInv, AttachTypeOK, Places, Claiming, Runtimes, Stopping
<1>6. /\ pc' \in [Procs -> {"idle", "peer"} \cup Looking \cup Runtimes \cup Ended]
      /\ \A q \in Procs \ {p} : pc'[q] = pc[q]
      /\ pc'[p] \notin UnderLock
    BY <1>1 DEF AttachInv, AttachTypeOK, Looking, Claiming, Runtimes, Ended, UnderLock
<1>7. AttachTypeOK'
  BY <1>1, <1>3, <1>4, <1>5, <1>6 DEF AttachInv, AttachTypeOK
<1>8. Places'
  BY <1>1, <1>5, <1>6 DEF AttachInv, AttachTypeOK, Places, UnderLock, Claiming
<1>9. (hits = 0 => Protected /\ Findable)'
  BY <1>1, <1>6 DEF AttachInv, Protected, Findable, UnderLock, Claiming, Going, Owning
<1>10. Aside(p)
  BY <1>1, <1>5, <1>6 DEF Aside, UnderLock, Claiming, Past, Going
<1>. QED
  BY <1>7, <1>8, <1>9, <1>10, Bystander DEF AttachInv

LEMMA JoiningStep ==
  ASSUME AttachInv, NEW p \in Procs, Joining(p)
  PROVE  AttachInv'
<1>1. /\ UNCHANGED <<advert, sock, listening, owners, seen, claimer, held, asked, crashes, hits>>
      /\ \E l \in {"peer", "gone"} : pc' = [pc EXCEPT ![p] = l]
      /\ pc[p] \in {"connect", "peer"}
  BY DEF Joining, Connect, Detach, Goto
<1>2. joined' \in {joined, [joined EXCEPT ![p] = sock], [joined EXCEPT ![p] = NoProc]}
  BY DEF Joining, Connect, Detach
<1>3. p \notin listening /\ p \notin owners /\ p \notin held /\ claimer # p
  BY <1>1, ProcsAssumption DEF AttachInv, AttachTypeOK, Places, Claiming, Runtimes, Stopping
<1>4. /\ pc' \in [Procs -> {"idle", "peer"} \cup Looking \cup Runtimes \cup Ended]
      /\ \A q \in Procs \ {p} : pc'[q] = pc[q]
      /\ pc'[p] \notin UnderLock
  BY <1>1 DEF AttachInv, AttachTypeOK, Looking, Ended, UnderLock, Claiming
<1>5. AttachTypeOK'
  BY <1>1, <1>2, <1>3, <1>4 DEF AttachInv, AttachTypeOK, MaybeProc
<1>6. Places'
  BY <1>1, <1>3, <1>4 DEF AttachInv, AttachTypeOK, Places, UnderLock, Claiming
<1>7. (hits = 0 => Protected /\ Findable)'
  <2>1. hits = 0 => Protected'
    BY <1>1, <1>4 DEF AttachInv, Protected
  <2>2. hits = 0 => Findable'
    BY <1>1, <1>2, <1>4, ProcsAssumption
    DEF AttachInv, AttachTypeOK, Findable, UnderLock, Claiming, Going, Owning
  <2>. QED
    BY <1>1, <2>1, <2>2
<1>8. Aside(p)
  BY <1>1, <1>3, <1>4 DEF Aside, UnderLock, Claiming, Past, Going
<1>. QED
  BY <1>5, <1>6, <1>7, <1>8, Bystander DEF AttachInv

LEMMA WipingStep ==
  ASSUME AttachInv, NEW p \in Procs, Wiping(p)
  PROVE  AttachInv'
<1>1. /\ UNCHANGED <<listening, owners, seen, joined, claimer, held, asked, crashes>>
      /\ \E l \in {"wipeSocket", "boot"} : pc' = [pc EXCEPT ![p] = l]
      /\ pc[p] \in {"wipe", "wipeSocket"}
  BY DEF Wiping, Wipe, WipeSocket, Goto
<1>2. \/ UNCHANGED sock /\ advert' = NoProc /\ Counting(advert \in listening)
      \/ UNCHANGED advert /\ sock' = NoProc /\ Counting(sock \in listening)
  BY DEF Wiping, Wipe, WipeSocket
<1>3. p \notin listening /\ p \notin owners /\ p \notin held /\ claimer # p
  BY <1>1, ProcsAssumption DEF AttachInv, AttachTypeOK, Places, Claiming, Runtimes, Stopping
<1>4. /\ pc' \in [Procs -> {"idle", "peer"} \cup Looking \cup Runtimes \cup Ended]
      /\ \A q \in Procs \ {p} : pc'[q] = pc[q]
      /\ pc'[p] \notin UnderLock
  BY <1>1 DEF AttachInv, AttachTypeOK, Looking, Ended, UnderLock, Claiming
<1>5. AttachTypeOK'
  BY <1>1, <1>2, <1>3, <1>4 DEF AttachInv, AttachTypeOK, MaybeProc, Counting
<1>6. Places'
  BY <1>1, <1>3, <1>4 DEF AttachInv, AttachTypeOK, Places, UnderLock, Claiming
<1>7. (hits = 0 => Protected /\ Findable)'
  <2>. SUFFICES ASSUME hits' = 0 PROVE Protected' /\ Findable'
    OBVIOUS
  <2>0. hits \in Nat
    BY DEF AttachInv, AttachTypeOK
  <2>1. hits = 0 /\ Protected /\ Findable
    <3>1. hits = 0
      BY <1>2, <2>0 DEF Counting
    <3>. QED
      BY <3>1 DEF AttachInv
  <2>2. (advert \notin listening /\ sock' = sock) \/ (sock \notin listening /\ advert' = advert)
    <3>1. \A event \in BOOLEAN : Counting(event) => ~event
      BY <2>1 DEF Counting
    <3>. QED
      BY <1>2, <3>1
  <2>3. Protected'
    BY <1>1, <1>4, <2>1 DEF Protected
  <2>4. \A q \in Procs : pc'[q] \in Going => pc[q] \in Going
    BY <1>4 DEF UnderLock, Claiming, Going
  <2>5. Findable'
    BY <1>1, <2>1, <2>2, <2>4 DEF Findable, Owning
  <2>. QED
    BY <2>3, <2>5
<1>8. Aside(p)
  BY <1>1, <1>2, <1>3, <1>4 DEF Aside, UnderLock, Claiming, Past, Going
<1>. QED
  BY <1>5, <1>6, <1>7, <1>8, Bystander DEF AttachInv

-----------------------------------------------------------------------------
(* Waiting for the marker.                                                  *)

LEMMA WaitingStep ==
  ASSUME AttachInv, NEW p \in Procs, Waiting(p)
  PROVE  AttachInv'
<1>. USE ProcsAssumption
<1>1. /\ UNCHANGED <<advert, sock, listening, owners, seen, joined, asked, crashes>>
      /\ pc[p] = "claim" /\ pc' \in {pc, [pc EXCEPT ![p] = "reread"]}
  BY DEF Waiting, TakeLock, BreakLock, GoAhead, Goto
<1>2. hits \in Nat /\ hits' \in Nat /\ hits' >= hits
  BY DEF Waiting, TakeLock, BreakLock, GoAhead, Counting, AttachInv, AttachTypeOK
<1>3. p \notin listening /\ p \notin owners /\ p \notin held /\ claimer # p
  BY <1>1 DEF AttachInv, AttachTypeOK, Places, Claiming, Runtimes, Stopping
<1>4. /\ pc' \in [Procs -> {"idle", "peer"} \cup Looking \cup Runtimes \cup Ended]
      /\ \A q \in Procs \ {p} : pc'[q] = pc[q]
      /\ pc'[p] \in {"claim", "reread"}
  BY <1>1 DEF AttachInv, AttachTypeOK, Claiming, Runtimes
<1>5. Places'
  BY <1>1, <1>3, <1>4 DEF AttachInv, AttachTypeOK, Places
<1>6. Findable => Findable'
  BY <1>1, <1>4 DEF Findable, Going, Owning
<1>7. CASE TakeLock(p)
  <2>1. claimer = NoProc /\ claimer' = p /\ held' = held \cup {p} /\ hits' = hits
        /\ pc'[p] = "reread"
    BY <1>4, <1>7 DEF TakeLock, Goto, AttachInv, AttachTypeOK
  <2>2. AttachTypeOK'
    BY <1>1, <1>2, <1>3, <1>4, <2>1 DEF AttachInv, AttachTypeOK, Claiming, Runtimes
  <2>3. Protected => Protected'
    BY <1>4, <2>1 DEF Protected
  <2>4. Stays
    <3>1. Contenders' \subseteq Contenders
      BY <1>1, <1>4, <2>1 DEF Contenders, Owning, Past, Going
    <3>2. Settled => Settled'
      BY <1>1, <2>1 DEF Settled
    <3>. QED
      BY <3>1, <3>2 DEF Stays
  <2>. QED
    BY <1>2, <1>5, <1>6, <2>1, <2>2, <2>3, <2>4, Balance DEF AttachInv
<1>8. CASE BreakLock(p)
  <2>1. claimer # NoProc /\ claimer' = NoProc /\ held' = held /\ pc' = pc
        /\ hits' = IF claimer \in held THEN hits + 1 ELSE hits
    BY <1>8 DEF BreakLock, Counting, AtWork
  <2>2. claimer \in Procs /\ (claimer \in held \/ pc[claimer] = "crashed")
    BY <2>1 DEF AttachInv, AttachTypeOK
  <2>3. AttachTypeOK'
    BY <1>1, <1>2, <2>1 DEF AttachInv, AttachTypeOK
  <2>4. CASE claimer \in held
    <3>1. hits' = hits + 1
      BY <2>1, <2>4
    <3>2. pc[claimer] \in Past \cup {"reread"}
      BY <2>2, <2>4 DEF AttachInv, AttachTypeOK, Claiming, Past, Going
    <3>3. CASE pc[claimer] \in Past
      <4>1. Contenders' \subseteq Contenders
        BY <1>1, <2>1, <2>2, <3>3 DEF Contenders, Owning, Past, Going
      <4>. QED
        BY <1>2, <1>5, <2>3, <3>1, <4>1, Balance DEF Stays, AttachInv
    <3>4. CASE pc[claimer] = "reread"
      <4>1. Contenders' \subseteq Contenders \cup {claimer}
        BY <1>1, <2>1, <2>2 DEF Contenders, Owning
      <4>2. Settled => Settled'
        BY <1>1, <2>1, <3>4 DEF Settled, Past, Going
      <4>3. Joins
        BY <1>2, <2>2, <3>1, <4>1, <4>2 DEF Joins
      <4>. QED
        BY <1>2, <1>5, <2>3, <3>1, <4>3, Balance DEF AttachInv
    <3>. QED
      BY <3>2, <3>3, <3>4
  <2>5. CASE claimer \notin held
    <3>1. hits' = hits /\ pc[claimer] = "crashed"
      BY <2>1, <2>2, <2>5
    <3>2. Protected => Protected'
      BY <2>1, <2>2, <3>1 DEF Protected, UnderLock, Claiming
    <3>3. Contenders' \subseteq Contenders
      BY <1>1, <2>1, <2>2, <3>1 DEF Contenders, Owning
    <3>4. Settled => Settled'
      BY <1>1, <2>1, <3>1 DEF Settled, Past, Going
    <3>. QED
      BY <1>2, <1>5, <1>6, <2>3, <3>1, <3>2, <3>3, <3>4, Balance DEF Stays, AttachInv
  <2>. QED
    BY <2>4, <2>5
<1>9. CASE GoAhead(p)
  <2>1. claimer' = claimer /\ held' = held /\ hits' = hits + 1 /\ pc'[p] = "reread"
    BY <1>4, <1>9 DEF GoAhead, Counting, Goto, AttachInv, AttachTypeOK
  <2>2. AttachTypeOK'
    BY <1>1, <1>2, <1>3, <1>4, <2>1 DEF AttachInv, AttachTypeOK, Claiming, Runtimes
  <2>3. Joins
    <3>1. Contenders' \subseteq Contenders \cup {p}
      BY <1>1, <1>4, <2>1 DEF Contenders, Owning
    <3>2. Settled => Settled'
      BY <1>1, <1>3, <1>4, <2>1 DEF Settled
    <3>. QED
      BY <1>2, <2>1, <3>1, <3>2 DEF Joins
  <2>. QED
    BY <1>2, <1>5, <2>1, <2>2, <2>3, Balance DEF AttachInv
<1>. QED
  BY <1>7, <1>8, <1>9 DEF Waiting

-----------------------------------------------------------------------------
(* Giving the marker up, whoever's it is.                                   *)

Ends(p) ==
  /\ pc[p] \in UnderLock /\ pc' = [pc EXCEPT ![p] = "serving"]
  /\ Release(p)

\* The four things a release may find: its own marker; no marker of its own to
\* remove; no marker, or a dead claimer's; the marker of one still at work.
Own(p) == claimer = p /\ claimer' = NoProc /\ hits' = hits
Unmarked(p) == claimer # p /\ claimer' = claimer /\ hits' = hits
Stale(p) == claimer # p /\ claimer \notin held /\ claimer' = NoProc /\ hits' = hits
Robs(p) == claimer \in held \ {p} /\ claimer' = NoProc /\ hits' = hits + 1

LEMMA Released ==
  ASSUME AttachInv, NEW p \in Procs, Ends(p)
  PROVE  /\ hits' \in Nat /\ hits' >= hits
         /\ claimer' \in {NoProc} \cup {q \in Procs : q \in held' \/ pc'[q] = "crashed"}
         /\ held' \subseteq {q \in Procs : pc'[q] \in UnderLock}
         /\ hits = 0 => Protected'
         /\ Own(p) \/ Unmarked(p) \/ Stale(p) \/ Robs(p)
<1>1. \A q \in Procs : pc'[q] = IF q = p THEN "serving" ELSE pc[q]
  BY DEF Ends, AttachInv, AttachTypeOK
<1>2. hits \in Nat /\ hits' \in Nat /\ hits' >= hits
  BY DEF Ends, Release, Counting, AttachInv, AttachTypeOK
<1>3. /\ claimer \in {NoProc} \cup {q \in Procs : q \in held \/ pc[q] = "crashed"}
      /\ held \subseteq {q \in Procs : pc[q] \in UnderLock}
  BY DEF AttachInv, AttachTypeOK, UnderLock
<1>4. pc[p] # "crashed"
  BY DEF Ends, UnderLock, Claiming
<1>5. held' = held \ {p} /\ claimer' = IF p \in held THEN NoProc ELSE claimer
  BY DEF Ends, Release
<1>6. claimer' \in {NoProc} \cup {q \in Procs : q \in held' \/ pc'[q] = "crashed"}
  <2>1. CASE p \in held
    BY <1>5, <2>1
  <2>2. CASE p \notin held /\ claimer = NoProc
    BY <1>5, <2>2
  <2>3. CASE p \notin held /\ claimer # NoProc
    <3>1. claimer \in Procs /\ claimer # p /\ claimer' = claimer
      BY <1>3, <1>4, <1>5, <2>3
    <3>. QED
      BY <1>1, <1>3, <1>5, <3>1
  <2>. QED
    BY <2>1, <2>2, <2>3
<1>7. held' \subseteq {q \in Procs : pc'[q] \in UnderLock}
  BY <1>1, <1>3, <1>5
<1>8. hits = 0 => Protected'
  <2>. SUFFICES ASSUME hits = 0 PROVE Protected'
    OBVIOUS
  <2>1. \A q \in Procs : pc[q] \in UnderLock => claimer = q
    BY DEF AttachInv, Protected
  <2>2. claimer = p
    BY <2>1 DEF Ends
  <2>3. \A q \in Procs : pc'[q] \notin UnderLock
    BY <1>1, <2>1, <2>2 DEF UnderLock, Claiming
  <2>. QED
    BY <2>3 DEF Protected
<1>9. Own(p) \/ Unmarked(p) \/ Stale(p) \/ Robs(p)
  <2>1. hits' = IF p \in held /\ claimer # p /\ claimer \in held THEN hits + 1 ELSE hits
    BY DEF Ends, Release, Counting, AtWork
  <2>2. CASE claimer = p
    <3>1. p \in held
      BY <1>3, <1>4, <2>2, ProcsAssumption
    <3>. QED
      BY <1>5, <2>1, <2>2, <3>1 DEF Own
  <2>3. CASE claimer # p /\ p \notin held
    BY <1>5, <2>1, <2>3 DEF Unmarked
  <2>4. CASE claimer # p /\ p \in held /\ claimer \notin held
    BY <1>5, <2>1, <2>4 DEF Stale
  <2>5. CASE claimer # p /\ p \in held /\ claimer \in held
    BY <1>5, <2>1, <2>5 DEF Robs
  <2>. QED
    BY <2>2, <2>3, <2>4, <2>5
<1>. QED
  BY <1>2, <1>6, <1>7, <1>8, <1>9

\* A marker that is not at work keeps nobody who rereads from contending.
LEMMA NotAtWork ==
  ASSUME AttachInv, claimer \notin held
  PROVE  \A q \in Procs : claimer = q => pc[q] \notin Past \cup {"reread"}
BY ProcsAssumption DEF AttachInv, AttachTypeOK, Past, Going

\* A claimer that gives up leaves the account as it was, or better.
LEMMA GivesUp ==
  ASSUME AttachInv, NEW p \in Procs, Ends(p), p \notin listening,
         UNCHANGED <<advert, sock, listening, owners>>
  PROVE  Paid'
<1>1. \A q \in Procs : pc'[q] = IF q = p THEN "serving" ELSE pc[q]
  BY DEF Ends, AttachInv, AttachTypeOK
<1>2. hits' \in Nat /\ hits' >= hits /\ hits \in Nat
  BY Released DEF AttachInv, AttachTypeOK
<1>3. pc[p] \in Past \cup {"reread"}
  BY DEF Ends, UnderLock, Claiming, Past, Going
<1>4. p \notin Contenders'
  BY <1>1 DEF Contenders, Owning, Past, Going
<1>5. claimer # p => p \in Contenders
  BY <1>3 DEF Contenders
<1>6. CASE Own(p)
  <2>1. Contenders' \subseteq Contenders
    BY <1>1, <1>4, <1>6 DEF Own, Contenders, Owning
  <2>2. CASE pc[p] \in Past
    <3>1. p \in Contenders
      BY <2>2 DEF Contenders
    <3>. QED
      BY <1>2, <1>4, <2>1, <3>1, Balance DEF Leaves
  <2>3. CASE pc[p] = "reread"
    <3>1. Settled => Settled'
      BY <1>6, <2>3 DEF Own, Settled, Past, Going
    <3>. QED
      BY <1>2, <2>1, <3>1, Balance DEF Stays
  <2>. QED
    BY <1>3, <2>2, <2>3
<1>7. CASE Unmarked(p)
  <2>1. Contenders' \subseteq Contenders \ {p}
    BY <1>1, <1>4, <1>7 DEF Unmarked, Contenders, Owning
  <2>. QED
    BY <1>2, <1>5, <1>7, <2>1, Balance DEF Unmarked, Leaves
<1>8. CASE Stale(p)
  <2>1. \A q \in Procs : claimer = q => pc[q] # "reread"
    BY <1>8, NotAtWork DEF Stale
  <2>2. Contenders' \subseteq Contenders \ {p}
    BY <1>1, <1>4, <2>1 DEF Contenders, Owning
  <2>. QED
    BY <1>2, <1>5, <1>8, <2>2, Balance DEF Stale, Leaves
<1>9. CASE Robs(p)
  <2>1. claimer \in Procs /\ claimer # p /\ hits' > hits
    BY <1>2, <1>9 DEF Robs, AttachInv, AttachTypeOK
  <2>2. Contenders' \subseteq (Contenders \ {p}) \cup {claimer}
    BY <1>1, <1>4 DEF Contenders, Owning
  <2>. QED
    BY <1>2, <1>5, <2>1, <2>2, Balance DEF Swaps
<1>. QED
  BY <1>6, <1>7, <1>8, <1>9, Released

\* A claimer that advertises keeps its place, and its endpoint answers.
LEMMA TakesOver ==
  ASSUME AttachInv, NEW p \in Procs, Ends(p), pc[p] = "advertise",
         advert' = p, owners' = owners \cup {p}, UNCHANGED <<sock, listening>>
  PROVE  Paid'
<1>1. \A q \in Procs : pc'[q] = IF q = p THEN "serving" ELSE pc[q]
  BY DEF Ends, AttachInv, AttachTypeOK
<1>2. hits' \in Nat /\ hits' >= hits /\ hits \in Nat
  BY Released DEF AttachInv, AttachTypeOK
<1>3. p \in Contenders /\ p \in listening
  BY DEF AttachInv, Places, Contenders, Past
<1>4. sock \in listening => Settled'
  BY <1>3 DEF Settled
<1>5. CASE Own(p)
  <2>1. Contenders' \subseteq Contenders
    BY <1>1, <1>3, <1>5 DEF Own, Contenders, Owning
  <2>2. Settled => sock \in listening
    BY <1>5 DEF Own, Settled
  <2>. QED
    BY <1>2, <1>4, <2>1, <2>2, Balance DEF Stays
<1>6. CASE Unmarked(p)
  <2>1. Contenders' \subseteq Contenders
    BY <1>1, <1>3, <1>6 DEF Unmarked, Contenders, Owning
  <2>2. Settled => Settled'
    BY <1>1, <1>4, <1>6 DEF Unmarked, Settled
  <2>. QED
    BY <1>2, <2>1, <2>2, Balance DEF Stays
<1>7. CASE Stale(p)
  <2>1. \A q \in Procs : claimer = q => pc[q] \notin Past \cup {"reread"}
    BY <1>7, NotAtWork DEF Stale
  <2>2. Contenders' \subseteq Contenders
    BY <1>1, <1>3, <2>1 DEF Contenders, Owning
  <2>3. Settled => Settled'
    BY <1>4, <2>1 DEF Settled
  <2>. QED
    BY <1>2, <2>2, <2>3, Balance DEF Stays
<1>8. CASE Robs(p)
  <2>1. claimer \in Procs /\ claimer # p /\ hits' > hits
    BY <1>2, <1>8 DEF Robs, AttachInv, AttachTypeOK
  <2>2. CASE pc[claimer] \in Past
    <3>1. Contenders' \subseteq Contenders
      BY <1>1, <1>3, <2>1, <2>2 DEF Contenders, Owning, Past, Going
    <3>. QED
      BY <1>2, <2>1, <3>1, Balance DEF Stays
  <2>3. CASE pc[claimer] \notin Past
    <3>1. Contenders' \subseteq Contenders \cup {claimer}
      BY <1>1, <1>3 DEF Contenders, Owning
    <3>2. Settled => Settled'
      BY <1>4, <2>3 DEF Settled
    <3>. QED
      BY <1>2, <2>1, <3>1, <3>2, Balance DEF Joins
  <2>. QED
    BY <2>2, <2>3
<1>. QED
  BY <1>5, <1>6, <1>7, <1>8, Released

-----------------------------------------------------------------------------
(* Claiming.                                                                *)

\* While the claim is protected, a claimer that finds no live endpoint finds
\* nobody who listens at all.
LEMMA NobodyListens ==
  ASSUME AttachInv, hits = 0, NEW p \in Procs, pc[p] = "reread", ~EndpointLive(advert)
  PROVE  listening = {}
<1>. SUFFICES ASSUME NEW q \in listening PROVE FALSE
  OBVIOUS
<1>1. q \in Procs /\ q # NoProc
  BY ProcsAssumption DEF AttachInv, AttachTypeOK
<1>2. pc[q] # "advertise"
  BY <1>1 DEF AttachInv, Protected, UnderLock, Claiming
<1>3. q \in Owning /\ Alive(q)
  BY <1>1, <1>2 DEF AttachInv, AttachTypeOK, Places, Alive, Owning, Ended
<1>4. advert = q /\ sock = q
  BY <1>3 DEF AttachInv, Findable, Owning
<1>. QED
  BY <1>1, <1>3, <1>4 DEF EndpointLive, Answers

LEMMA ClaimingStep ==
  ASSUME AttachInv, NEW p \in Procs, Claims(p)
  PROVE  AttachInv'
<1>. USE ProcsAssumption
<1>1. UNCHANGED <<seen, joined, asked, crashes>> /\ pc[p] \in UnderLock
  BY DEF Claims, Reread, Rewipe, RewipeSocket, Bind, BindFails, Advertise, UnderLock, Claiming
<1>2. /\ p \notin owners /\ hits \in Nat
      /\ pc[p] # "advertise" => p \notin listening
  BY <1>1 DEF AttachInv, AttachTypeOK, Places, UnderLock, Claiming, Stopping
<1>3. CASE (Reread(p) /\ EndpointLive(advert)) \/ BindFails(p)
  <2>1. /\ Ends(p) /\ UNCHANGED <<advert, sock, listening, owners>>
        /\ pc[p] \in {"reread", "bind"}
    BY <1>1, <1>3 DEF Reread, BindFails, Ends, Goto
  <2>2. \A q \in Procs : pc'[q] = IF q = p THEN "serving" ELSE pc[q]
    BY <2>1 DEF Ends, AttachInv, AttachTypeOK
  <2>3. p \notin listening
    BY <1>2, <2>1
  <2>4. AttachTypeOK'
    <3>1. pc' \in [Procs -> {"idle", "peer"} \cup Looking \cup Runtimes \cup Ended]
      BY <2>1 DEF Ends, AttachInv, AttachTypeOK, Runtimes
    <3>2. /\ claimer' \in {NoProc} \cup {q \in Procs : q \in held' \/ pc'[q] = "crashed"}
          /\ held' \subseteq {q \in Procs : pc'[q] \in UnderLock} /\ hits' \in Nat
      BY <2>1, Released
    <3>. QED
      BY <1>1, <1>2, <2>1, <2>2, <2>3, <3>1, <3>2 DEF AttachInv, AttachTypeOK, UnderLock
  <2>5. Places'
    BY <2>1, <2>2, <2>3 DEF AttachInv, AttachTypeOK, Places
  <2>6. hits' = 0 => Protected' /\ Findable'
    <3>1. hits' >= hits /\ (hits = 0 => Protected')
      BY <2>1, Released
    <3>2. Findable => Findable'
      BY <1>1, <2>1, <2>2 DEF Findable, Owning, Going
    <3>. QED
      BY <1>2, <3>1, <3>2 DEF AttachInv
  <2>7. Paid'
    BY <2>1, <2>3, GivesUp
  <2>. QED
    BY <2>4, <2>5, <2>6, <2>7 DEF AttachInv
<1>4. CASE Reread(p) /\ ~EndpointLive(advert)
  <2>1. /\ UNCHANGED <<advert, sock, listening, owners, claimer, held, hits>>
        /\ pc[p] = "reread" /\ \E l \in {"unbind", "rewipe"} : pc' = [pc EXCEPT ![p] = l]
    BY <1>4 DEF Reread, Goto
  <2>2. /\ \A q \in Procs \ {p} : pc'[q] = pc[q]
        /\ pc'[p] \in {"unbind", "rewipe"}
    BY <2>1 DEF AttachInv, AttachTypeOK
  <2>3. p \notin listening
    BY <1>2, <2>1
  <2>4. AttachTypeOK'
    BY <1>1, <1>2, <2>1, <2>2, <2>3 DEF AttachInv, AttachTypeOK, Claiming, Runtimes
  <2>5. Places'
    BY <2>1, <2>2, <2>3 DEF AttachInv, AttachTypeOK, Places
  <2>6. hits = 0 => Protected' /\ Findable'
    <3>. SUFFICES ASSUME hits = 0 PROVE Protected' /\ Findable'
      OBVIOUS
    <3>1. Protected'
      BY <1>1, <2>1, <2>2 DEF AttachInv, Protected
    <3>2. listening = {}
      BY <1>4, <2>1, NobodyListens
    <3>3. Findable'
      BY <1>1, <2>1, <3>2 DEF AttachInv, Findable, Owning
    <3>. QED
      BY <3>1, <3>3
  <2>7. Paid'
    <3>1. CASE claimer = p
      <4>1. Contenders' \subseteq Contenders \cup {p}
        BY <2>1, <2>2 DEF Contenders, Owning
      <4>2. ~Settled
        <5>1. sock \in listening => advert \notin listening
          BY <1>4 DEF EndpointLive, Answers, Alive, AttachInv, AttachTypeOK, Places, Ended
        <5>. QED
          BY <2>1, <3>1, <5>1 DEF Settled, Past, Going
      <4>3. Settled'
        BY <2>1, <2>2, <3>1 DEF Settled, Past, Going
      <4>. QED
        BY <1>2, <2>1, <4>1, <4>2, <4>3, Balance DEF Joins
    <3>2. CASE claimer # p
      <4>1. Contenders' \subseteq Contenders
        BY <2>1, <2>2, <3>2 DEF Contenders, Owning
      <4>2. Settled => Settled'
        BY <2>1, <2>2, <3>2 DEF Settled
      <4>. QED
        BY <1>2, <2>1, <4>1, <4>2, Balance DEF Stays
    <3>. QED
      BY <3>1, <3>2
  <2>. QED
    BY <2>1, <2>4, <2>5, <2>6, <2>7 DEF AttachInv
<1>5. CASE Rewipe(p) \/ RewipeSocket(p)
  <2>1. /\ UNCHANGED <<listening, owners, claimer, held>>
        /\ \E l \in {"rewipeSocket", "unbind", "bind"} : pc' = [pc EXCEPT ![p] = l]
        /\ pc[p] \in Going
        /\ \/ UNCHANGED sock /\ advert' = NoProc /\ Counting(claimer # p /\ advert \in listening)
           \/ UNCHANGED advert /\ sock' = NoProc /\ Counting(claimer # p /\ sock \in listening)
    BY <1>5 DEF Rewipe, RewipeSocket, Goto, Going
  <2>2. /\ \A q \in Procs \ {p} : pc'[q] = pc[q]
        /\ pc'[p] \in Going
    BY <2>1 DEF AttachInv, AttachTypeOK, Going
  <2>3. p \notin listening
    BY <1>2, <2>1 DEF Going
  <2>4. hits' \in Nat /\ hits' >= hits
    BY <1>2, <2>1 DEF Counting
  <2>5. AttachTypeOK'
    <3>1. pc' \in [Procs -> {"idle", "peer"} \cup Looking \cup Runtimes \cup Ended]
      BY <2>1 DEF AttachInv, AttachTypeOK, Runtimes, Claiming
    <3>2. pc'[p] \in Claiming \ {"claim"} /\ pc'[p] \in Runtimes
      BY <2>2 DEF Going, Claiming, Runtimes
    <3>3. advert' \in MaybeProc /\ sock' \in MaybeProc
      BY <2>1 DEF AttachInv, AttachTypeOK, MaybeProc
    <3>4. claimer' \in {NoProc} \cup {q \in Procs : q \in held' \/ pc'[q] = "crashed"}
      BY <2>1, <2>2, <1>1 DEF AttachInv, AttachTypeOK, UnderLock, Claiming
    <3>5. /\ held' \subseteq {q \in Procs : pc'[q] \in Claiming \ {"claim"}}
          /\ listening' \subseteq {q \in Procs : pc'[q] \in Runtimes}
          /\ owners' \subseteq {q \in Procs : pc'[q] \in {"serving"} \cup Stopping}
      BY <1>2, <2>1, <2>2, <2>3, <3>2 DEF AttachInv, AttachTypeOK
    <3>. QED
      BY <1>1, <2>4, <3>1, <3>3, <3>4, <3>5 DEF AttachInv, AttachTypeOK
  <2>6. Places'
    BY <2>1, <2>2, <2>3 DEF AttachInv, AttachTypeOK, Places, Going
  <2>7. hits' = 0 => Protected' /\ Findable'
    <3>. SUFFICES ASSUME hits' = 0 PROVE Protected' /\ Findable'
      OBVIOUS
    <3>1. hits = 0 /\ Protected /\ Findable
      BY <1>2, <2>4 DEF AttachInv
    <3>2. Protected'
      BY <1>1, <2>1, <2>2, <3>1 DEF Protected
    <3>3. listening = {}
      BY <2>1, <3>1 DEF Findable
    <3>4. Findable'
      BY <1>1, <2>1, <3>1, <3>3 DEF Findable, Owning
    <3>. QED
      BY <3>2, <3>4
  <2>8. Stays
    <3>1. Contenders' \subseteq Contenders
      BY <2>1, <2>2 DEF Contenders, Owning, Past
    <3>2. CASE claimer = p
      <4>1. Settled'
        BY <2>1, <2>2, <3>2 DEF Settled, Past, Going
      <4>. QED
        BY <3>1, <4>1 DEF Stays
    <3>3. CASE claimer # p
      <4>. SUFFICES ASSUME Settled, hits' = hits PROVE Settled'
        BY <1>2, <2>4, <3>1 DEF Stays
      <4>1. (sock' = sock /\ advert \notin listening) \/ sock \notin listening
        <5>1. CASE sock' = sock /\ Counting(claimer # p /\ advert \in listening)
          BY <1>2, <3>3, <5>1 DEF Counting
        <5>2. CASE Counting(claimer # p /\ sock \in listening)
          BY <1>2, <3>3, <5>2 DEF Counting
        <5>. QED
          BY <2>1, <5>1, <5>2
      <4>2. PICK q \in Procs : claimer = q /\ pc[q] \in Past /\ (pc[q] = "advertise" => sock \in listening)
        BY <4>1 DEF Settled
      <4>3. sock \in listening => sock' \in listening'
        BY <2>1, <4>1
      <4>4. claimer' = q /\ pc'[q] = pc[q]
        BY <2>1, <2>2, <3>3, <4>2
      <4>. QED
        BY <4>2, <4>3, <4>4 DEF Settled
    <3>. QED
      BY <3>2, <3>3
  <2>. QED
    BY <2>4, <2>5, <2>6, <2>7, <2>8, Balance DEF AttachInv
<1>6. CASE Bind(p)
  <2>1. /\ UNCHANGED <<advert, owners, claimer, held, hits>>
        /\ pc[p] = "bind" /\ pc' = [pc EXCEPT ![p] = "advertise"]
        /\ sock' = p /\ listening' = listening \cup {p}
    BY <1>6 DEF Bind, Goto
  <2>2. \A q \in Procs : pc'[q] = IF q = p THEN "advertise" ELSE pc[q]
    BY <2>1 DEF AttachInv, AttachTypeOK
  <2>3. AttachTypeOK'
    BY <1>1, <1>2, <2>1, <2>2 DEF AttachInv, AttachTypeOK, Claiming, Runtimes, MaybeProc
  <2>4. Places'
    BY <2>1, <2>2 DEF AttachInv, AttachTypeOK, Places
  <2>5. hits = 0 => Protected' /\ Findable'
    <3>. SUFFICES ASSUME hits = 0 PROVE Protected' /\ Findable'
      OBVIOUS
    <3>1. Protected /\ Findable
      BY DEF AttachInv
    <3>2. Protected'
      BY <1>1, <2>1, <2>2, <3>1 DEF Protected
    <3>3. listening = {} /\ listening' = {p}
      BY <2>1, <3>1 DEF Findable, Going
    <3>4. \A q \in Procs : pc'[q] \notin Going
      BY <1>1, <2>2, <3>1 DEF Protected, UnderLock, Claiming, Going
    <3>5. Findable'
      BY <1>1, <1>2, <2>1, <3>3, <3>4 DEF Findable, Owning
    <3>. QED
      BY <3>2, <3>5
  <2>6. Stays
    <3>1. Contenders' \subseteq Contenders
      BY <1>2, <2>1, <2>2 DEF Contenders, Owning, Past, Going
    <3>2. Settled => Settled'
      <4>1. sock' \in listening'
        BY <2>1
      <4>2. CASE \E q \in Procs : claimer = q /\ pc[q] \in Past
        BY <2>1, <2>2, <4>1, <4>2 DEF Settled, Past
      <4>3. CASE advert \in listening
        BY <2>1, <4>1, <4>3 DEF Settled
      <4>. QED
        BY <4>2, <4>3 DEF Settled
    <3>. QED
      BY <3>1, <3>2 DEF Stays
  <2>. QED
    BY <1>2, <2>1, <2>3, <2>4, <2>5, <2>6, Balance DEF AttachInv
<1>7. CASE Advertise(p)
  <2>1. /\ UNCHANGED <<sock, listening>> /\ Ends(p) /\ pc[p] = "advertise"
        /\ advert' = p /\ owners' = owners \cup {p}
    BY <1>1, <1>7 DEF Advertise, Ends, Goto
  <2>2. \A q \in Procs : pc'[q] = IF q = p THEN "serving" ELSE pc[q]
    BY <2>1 DEF Ends, AttachInv, AttachTypeOK
  <2>3. AttachTypeOK'
    <3>1. pc' \in [Procs -> {"idle", "peer"} \cup Looking \cup Runtimes \cup Ended]
      BY <2>1 DEF Ends, AttachInv, AttachTypeOK, Runtimes
    <3>2. /\ claimer' \in {NoProc} \cup {q \in Procs : q \in held' \/ pc'[q] = "crashed"}
          /\ held' \subseteq {q \in Procs : pc'[q] \in UnderLock} /\ hits' \in Nat
      BY <2>1, Released
    <3>3. /\ listening' \subseteq {q \in Procs : pc'[q] \in Runtimes}
          /\ owners' \subseteq {q \in Procs : pc'[q] \in {"serving"} \cup Stopping}
      BY <2>1, <2>2 DEF AttachInv, AttachTypeOK, Runtimes
    <3>. QED
      BY <1>1, <2>1, <3>1, <3>2, <3>3 DEF AttachInv, AttachTypeOK, UnderLock, MaybeProc
  <2>4. Places'
    BY <2>1, <2>2 DEF AttachInv, AttachTypeOK, Places
  <2>5. hits' = 0 => Protected' /\ Findable'
    <3>. SUFFICES ASSUME hits' = 0 PROVE Protected' /\ Findable'
      OBVIOUS
    <3>1. hits = 0 /\ Protected'
      <4>1. hits' >= hits /\ (hits = 0 => Protected')
        BY <2>1, Released
      <4>. QED
        BY <1>2, <4>1
    <3>2. Protected /\ Findable
      BY <3>1 DEF AttachInv
    <3>3. listening = {p}
      BY <2>1, <3>2 DEF AttachInv, Places, Findable
    <3>4. \A q \in Procs : pc'[q] \notin Going
      BY <1>1, <2>2, <3>2 DEF Protected, UnderLock, Claiming, Going
    <3>5. Findable'
      BY <1>1, <2>1, <3>2, <3>3, <3>4 DEF Findable, Owning
    <3>. QED
      BY <3>1, <3>5
  <2>6. Paid'
    BY <2>1, TakesOver
  <2>. QED
    BY <2>3, <2>4, <2>5, <2>6 DEF AttachInv
<1>. QED
  BY <1>3, <1>4, <1>5, <1>6, <1>7 DEF Claims

-----------------------------------------------------------------------------
(* Stopping and dying.                                                      *)

LEMMA EndingStep ==
  ASSUME AttachInv, NEW p \in Procs, Ending(p)
  PROVE  AttachInv'
<1>. USE ProcsAssumption
<1>0. hits \in Nat
  BY DEF AttachInv, AttachTypeOK
<1>1. CASE Stop(p)
  <2>1. /\ UNCHANGED <<advert, owners, seen, joined, claimer, held, asked, crashes, hits>>
        /\ pc[p] = "serving" /\ listening' = listening \ {p}
        /\ pc' = [pc EXCEPT ![p] = IF p \in owners THEN "stopWipe" ELSE "gone"]
        /\ sock' = sock \/ (sock = p /\ sock' = NoProc)
    BY <1>1 DEF Stop, Goto
  <2>2. claimer # p /\ p \notin held
    BY <2>1 DEF AttachInv, AttachTypeOK, Claiming
  <2>3. /\ \A q \in Procs \ {p} : pc'[q] = pc[q]
        /\ pc'[p] = IF p \in owners THEN "stopWipe" ELSE "gone"
    BY <2>1 DEF AttachInv, AttachTypeOK
  <2>4. AttachTypeOK'
    <3>1. pc' \in [Procs -> {"idle", "peer"} \cup Looking \cup Runtimes \cup Ended]
      BY <2>1 DEF AttachInv, AttachTypeOK, Runtimes, Stopping, Ended
    <3>2. owners' \subseteq {q \in Procs : pc'[q] \in {"serving"} \cup Stopping}
      BY <2>1, <2>3 DEF AttachInv, AttachTypeOK, Stopping
    <3>3. /\ held' \subseteq {q \in Procs : pc'[q] \in Claiming \ {"claim"}}
          /\ listening' \subseteq {q \in Procs : pc'[q] \in Runtimes}
      BY <2>1, <2>2, <2>3 DEF AttachInv, AttachTypeOK
    <3>4. claimer' \in {NoProc} \cup {q \in Procs : q \in held' \/ pc'[q] = "crashed"}
      BY <2>1, <2>2, <2>3 DEF AttachInv, AttachTypeOK
    <3>. QED
      BY <2>1, <3>1, <3>2, <3>3, <3>4 DEF AttachInv, AttachTypeOK, MaybeProc
  <2>5. Places'
    BY <2>1, <2>3 DEF AttachInv, AttachTypeOK, Places
  <2>6. hits = 0 => Protected' /\ Findable'
    <3>1. Protected => Protected'
      BY <2>1, <2>3 DEF Protected, UnderLock, Claiming
    <3>2. Findable => Findable'
      BY <2>1, <2>3 DEF Findable, Owning, Going
    <3>. QED
      BY <3>1, <3>2 DEF AttachInv
  <2>7. Leaves \/ Stays
    <3>1. CASE p \in listening
      <4>1. p \in Contenders
        BY <2>1, <3>1 DEF AttachInv, Places, Contenders, Owning
      <4>2. Contenders' \subseteq Contenders \ {p}
        BY <2>1, <2>3 DEF Contenders, Owning, Past, Going
      <4>. QED
        BY <4>1, <4>2 DEF Leaves
    <3>2. CASE p \notin listening
      <4>1. Contenders' \subseteq Contenders
        BY <2>1, <2>3 DEF Contenders, Owning, Past, Going
      <4>2. listening' = listening /\ (sock \in listening => sock' = sock)
        BY <2>1, <3>2
      <4>3. Settled => Settled'
        BY <2>1, <2>2, <2>3, <4>2 DEF Settled
      <4>. QED
        BY <4>1, <4>3 DEF Stays
    <3>. QED
      BY <3>1, <3>2
  <2>. QED
    BY <1>0, <2>1, <2>4, <2>5, <2>6, <2>7, Balance DEF AttachInv
<1>2. CASE StopWipe(p) \/ StopWipeSocket(p)
  <2>1. /\ UNCHANGED <<listening, seen, joined, claimer, held, asked, crashes>>
        /\ owners' \in {owners, owners \ {p}}
        /\ pc[p] \in Stopping
        /\ \/ pc' = [pc EXCEPT ![p] = "stopWipeSocket"]
           \/ pc' = [pc EXCEPT ![p] = "gone"] /\ owners' = owners \ {p}
        /\ \/ UNCHANGED sock /\ advert' = NoProc /\ Counting(advert \in listening)
           \/ UNCHANGED advert /\ sock' = NoProc /\ Counting(sock \in listening)
    BY <1>2 DEF StopWipe, StopWipeSocket, Goto, Stopping
  <2>2. p \notin listening /\ p \notin held /\ claimer # p
    BY <2>1 DEF AttachInv, AttachTypeOK, Places, Claiming, Stopping
  <2>3. /\ \A q \in Procs \ {p} : pc'[q] = pc[q]
        /\ pc'[p] \in {"stopWipeSocket", "gone"} /\ (p \in owners' => pc'[p] \in Stopping)
    BY <2>1 DEF AttachInv, AttachTypeOK, Stopping
  <2>4. hits' \in Nat /\ hits' >= hits
    BY <1>0, <2>1 DEF Counting
  <2>5. AttachTypeOK'
    <3>1. pc' \in [Procs -> {"idle", "peer"} \cup Looking \cup Runtimes \cup Ended]
      BY <2>1 DEF AttachInv, AttachTypeOK, Runtimes, Stopping, Ended
    <3>2. owners' \subseteq {q \in Procs : pc'[q] \in {"serving"} \cup Stopping}
      BY <2>1, <2>3 DEF AttachInv, AttachTypeOK
    <3>3. /\ held' \subseteq {q \in Procs : pc'[q] \in Claiming \ {"claim"}}
          /\ listening' \subseteq {q \in Procs : pc'[q] \in Runtimes}
      BY <2>1, <2>2, <2>3 DEF AttachInv, AttachTypeOK
    <3>4. claimer' \in {NoProc} \cup {q \in Procs : q \in held' \/ pc'[q] = "crashed"}
      BY <2>1, <2>2, <2>3 DEF AttachInv, AttachTypeOK
    <3>5. advert' \in MaybeProc /\ sock' \in MaybeProc
      BY <2>1 DEF AttachInv, AttachTypeOK, MaybeProc
    <3>. QED
      BY <2>1, <2>4, <3>1, <3>2, <3>3, <3>4, <3>5 DEF AttachInv, AttachTypeOK
  <2>6. Places'
    BY <2>1, <2>2, <2>3 DEF AttachInv, AttachTypeOK, Places
  <2>7. hits' = 0 => Protected' /\ Findable'
    <3>. SUFFICES ASSUME hits' = 0 PROVE Protected' /\ Findable'
      OBVIOUS
    <3>1. hits = 0 /\ Protected /\ Findable
      BY <1>0, <2>4 DEF AttachInv
    <3>2. (advert \notin listening /\ sock' = sock) \/ (sock \notin listening /\ advert' = advert)
      <4>1. \A event \in BOOLEAN : Counting(event) => ~event
        BY <3>1 DEF Counting
      <4>. QED
        BY <2>1, <4>1
    <3>3. Protected'
      BY <2>1, <2>3, <3>1 DEF Protected, UnderLock, Claiming
    <3>4. \A q \in Procs : pc'[q] \in Going => pc[q] \in Going
      BY <2>3 DEF Going
    <3>5. owners' \subseteq owners
      BY <2>1
    <3>6. Findable'
      BY <2>1, <3>1, <3>2, <3>4, <3>5 DEF Findable, Owning
    <3>. QED
      BY <3>3, <3>6
  <2>8. Aside(p)
    BY <2>1, <2>2, <2>3 DEF Aside, Past, Going, Stopping
  <2>. QED
    BY <2>5, <2>6, <2>7, <2>8, Bystander DEF AttachInv
<1>3. CASE Crash(p)
  <2>1. /\ UNCHANGED <<advert, sock, seen, claimer, hits, asked>>
        /\ pc' = [pc EXCEPT ![p] = "crashed"] /\ crashes' \in 0 .. MaxCrashes
        /\ listening' = listening \ {p} /\ owners' = owners \ {p} /\ held' = held \ {p}
        /\ joined' = [joined EXCEPT ![p] = NoProc]
    BY <1>3 DEF Crash, Goto, AttachInv, AttachTypeOK
  <2>2. \A q \in Procs : pc'[q] = IF q = p THEN "crashed" ELSE pc[q]
    BY <2>1 DEF AttachInv, AttachTypeOK
  <2>3. AttachTypeOK'
    <3>1. pc' \in [Procs -> {"idle", "peer"} \cup Looking \cup Runtimes \cup Ended]
      BY <2>1 DEF AttachInv, AttachTypeOK, Ended
    <3>2. owners' \subseteq {q \in Procs : pc'[q] \in {"serving"} \cup Stopping}
      BY <2>1, <2>2 DEF AttachInv, AttachTypeOK
    <3>3. /\ held' \subseteq {q \in Procs : pc'[q] \in Claiming \ {"claim"}}
          /\ listening' \subseteq {q \in Procs : pc'[q] \in Runtimes}
      BY <2>1, <2>2 DEF AttachInv, AttachTypeOK
    <3>4. claimer' \in {NoProc} \cup {q \in Procs : q \in held' \/ pc'[q] = "crashed"}
      BY <2>1, <2>2 DEF AttachInv, AttachTypeOK
    <3>5. joined' \in [Procs -> MaybeProc]
      BY <2>1 DEF AttachInv, AttachTypeOK, MaybeProc
    <3>. QED
      BY <2>1, <3>1, <3>2, <3>3, <3>4, <3>5 DEF AttachInv, AttachTypeOK
  <2>4. Places'
    BY <2>1, <2>2 DEF AttachInv, AttachTypeOK, Places
  <2>5. hits = 0 => Protected' /\ Findable'
    <3>1. Protected => Protected'
      BY <2>1, <2>2 DEF Protected, UnderLock, Claiming
    <3>2. Findable => Findable'
      <4>1. \A q \in Procs : joined'[q] \in listening' => joined'[q] = joined[q]
        BY <2>1 DEF AttachInv, AttachTypeOK
      <4>. QED
        BY <2>1, <2>2, <4>1 DEF Findable, Owning, Going
    <3>. QED
      BY <3>1, <3>2 DEF AttachInv
  <2>6. Contenders' \subseteq Contenders \ {p}
    BY <2>1, <2>2 DEF Contenders, Owning, Past, Going
  <2>7. Leaves \/ Stays
    <3>1. CASE p \in Contenders
      BY <2>6, <3>1 DEF Leaves
    <3>2. CASE p \notin Contenders
      <4>1. p \notin listening /\ pc[p] \notin Past
        BY <3>2 DEF AttachInv, AttachTypeOK, Places, Contenders, Owning, Past
      <4>2. listening' = listening
        BY <2>1, <4>1
      <4>3. Settled => Settled'
        BY <2>1, <2>2, <4>1, <4>2 DEF Settled
      <4>. QED
        BY <2>6, <4>3 DEF Stays
    <3>. QED
      BY <3>1, <3>2
  <2>. QED
    BY <1>0, <2>1, <2>3, <2>4, <2>5, <2>7, Balance DEF AttachInv
<1>. QED
  BY <1>1, <1>2, <1>3 DEF Ending

LEMMA AttachInvariance == AttachSpec => []AttachInv
<1>1. AttachInv /\ [AttachNext]_attachVars => AttachInv'
  <2>. SUFFICES ASSUME AttachInv, [AttachNext]_attachVars PROVE AttachInv'
    OBVIOUS
  <2>1. CASE UNCHANGED attachVars
    <3>1. AttachTypeOK' /\ Places'
      BY <2>1 DEF attachVars, AttachInv, AttachTypeOK, Places
    <3>2. (hits = 0 => Protected /\ Findable)'
      BY <2>1 DEF attachVars, AttachInv, Protected, Findable, Owning
    <3>3. Paid'
      BY <2>1 DEF attachVars, AttachInv, Paid, Contenders, Owning, Settled
    <3>. QED
      BY <3>1, <3>2, <3>3 DEF AttachInv
  <2>2. CASE AttachNext
    <3>1. PICK p \in Procs : \/ Opening(p) \/ Joining(p) \/ Wiping(p)
                             \/ Waiting(p) \/ Claims(p) \/ Ending(p)
      BY <2>2 DEF AttachNext, Proceed, Opening, Joining, Wiping, Waiting, Claims, Ending
    <3>. QED
      BY <3>1, OpeningStep, JoiningStep, WipingStep, WaitingStep, ClaimingStep, EndingStep
  <2>. QED
    BY <2>1, <2>2
<1>. QED
  BY <1>1, AttachInvInit, PTL DEF AttachSpec

-----------------------------------------------------------------------------
(* The theorems.                                                            *)

\* Processes, files and the marker stay what they are: in particular only a
\* claimer, at work or dead, has the marker, and only a runtime listens or owns.
THEOREM AttachTypes == AttachSpec => []AttachTypeOK
BY AttachInvariance, PTL DEF AttachInv

\* While the claim is protected throughout, a live owner is found by whoever
\* looks, and whoever is attached to a process that listens is attached to
\* that owner; and there are never more owners than one and the times it was
\* not (AttachServer.start, live_endpoint, locked).
THEOREM OwnersAreFound == AttachSpec => []OwnerIsFindable
<1>1. AttachInv => OwnerIsFindable
  <2>. SUFFICES ASSUME AttachInv PROVE OwnerIsFindable
    OBVIOUS
  <2>1. hits = 0 => /\ \A p \in Owning : advert = p /\ sock = p
                    /\ \A p \in Procs : joined[p] \in listening => joined[p] = sock
    BY DEF AttachInv, Findable, Owning
  <2>2. Owning \subseteq Contenders /\ IsFiniteSet(Contenders)
    BY ProcsAssumption, FS_Subset DEF AttachInv, AttachTypeOK, Contenders, Owning
  <2>3. /\ Cardinality(Owning) <= Cardinality(Contenders)
        /\ Cardinality(Owning) \in Nat /\ Cardinality(Contenders) \in Nat
    BY <2>2, FS_Subset, FS_CardinalityType
  <2>4. Cardinality(Contenders) <= hits + 1 /\ hits \in Nat
    BY <2>3 DEF AttachInv, AttachTypeOK, Paid
  <2>5. Cardinality(Owning) <= 1 + hits
    BY <2>3, <2>4
  <2>. QED
    BY <2>1, <2>5 DEF AttachInv, OwnerIsFindable
<1>. QED
  BY <1>1, AttachInvariance, PTL

\* "two processes racing to own the same session cannot both win"
\* (session_attach.py:246) is true of a claim that is protected: a second owner
\* needs an unlink by someone without the marker, a claimer that went ahead
\* without it, or one that lost it.
THEOREM SecondOwnerIsPaidFor == AttachSpec => [](hits = 0 => OneOwner)
<1>1. OwnerIsFindable => (hits = 0 => OneOwner)
  BY DEF OwnerIsFindable, OneOwner
<1>. QED
  BY <1>1, OwnersAreFound, PTL
=============================================================================
