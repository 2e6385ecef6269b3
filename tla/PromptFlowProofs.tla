-------------------------- MODULE PromptFlowProofs --------------------------
(***************************************************************************)
(* What happens to the words the user sends, for any words, any number of  *)
(* keys, restores and context operations, and at most one goal.            *)
(*                                                                         *)
(* IInv says where everything under way is: the submission, the restore,   *)
(* the context operations and what the interface has still to hear about   *)
(* each.  Kept, on top of it, says where every word is.                    *)
(***************************************************************************)
EXTENDS PromptFlow, FiniteSetTheorems, TLAPS

Vias == {"composer", "queue", "goal"}
Texts == SUBSET Words
Inputs == [key : {"submit", "queue", "steer"}, text : Texts, for : Nat]
Calls ==
  [do : {"submit"}, id : Nat, text : Texts, via : Vias]
    \cup [do : {"restore"}, at : Nat, text : {{}}]
    \cup [do : {"clear", "compact", "cancel"}, id : Nat, text : {{}}]
Returns ==
  [do : {"returned"}, id : Nat, text : Texts, via : Vias, ok : BOOLEAN,
   admitted : BOOLEAN,
   why : {"recovery", "restoring", "executing", "checkpoint", "turn"}]
Messages ==
  [do : {"start"}, id : Nat, text : {{}}]
    \cup [do : {"complete"}, text : Texts]
    \cup Returns
    \cup [do : {"restored"}, whole : BOOLEAN, conversation : BOOLEAN, text : {{}}]
    \cup [do : {"operated"}, id : Nat, cleared : BOOLEAN, text : {{}}]
Jobs ==
  [id : Nat, text : Texts, via : Vias,
   stage : {"preflight", "begin", "turn", "closing"}, ok : BOOLEAN]
Ops ==
  [do : {"restore"}, at : Nat, text : {{}}]
    \cup [do : {"clear", "compact"}, id : Nat, text : {{}}]

\* Each variable keeps its type.
WordsTyped ==
  /\ composer \in Texts /\ parked \in Texts /\ slot \in Texts /\ settled \in Texts
  /\ typed \in Texts /\ steer \in [text : Texts, for : Nat]
QueuesTyped ==
  /\ inbox \in Seq(Inputs) /\ toRt \in Seq(Calls) /\ toUi \in Seq(Messages)
  /\ turns \in Seq(Texts) /\ context \in Seq(Texts)
FlagsTyped ==
  /\ running \in Nat /\ admission \in Nat /\ sent \in Nat
  /\ pressed \in Nat /\ asked \in Nat /\ goals \in Nat
  /\ drain \in BOOLEAN /\ goal \in BOOLEAN /\ cut \in BOOLEAN /\ doubt \in BOOLEAN
  /\ rewind \in [stage : {"none", "wait", "called"}, at : Nat]
  /\ ctx \in [do : {"none", "clear", "compact"}, stage : {"none", "wait", "call", "called"},
              id : Nat]
  /\ (rewind.stage = "none") = (rewind = NoRewind) /\ (ctx.stage = "none") = (ctx = NoOp)
  /\ (ctx.do = "none") = (ctx = NoOp)
RuntimeTyped == jobs \subseteq Jobs /\ ops \subseteq Ops
Typed == WordsTyped /\ QueuesTyped /\ FlagsTyped /\ RuntimeTyped

\* What a call or a message is about.
Kind(m) ==
  IF m.do = "returned" THEN (IF m.admitted THEN "returned" ELSE "refused")
  ELSE IF m.do \in {"clear", "compact"} THEN "operation" ELSE m.do
Kinds(q) == {Kind(q[i]) : i \in DOMAIN q}
Once(q, k) ==
  \E i \in DOMAIN q : Kind(q[i]) = k /\ \A n \in DOMAIN q : Kind(q[n]) = k => n = i

\* Where the one submission under way is.
At(call, stages, message) ==
  /\ IF call THEN Once(toRt, "submit") ELSE "submit" \notin Kinds(toRt)
  /\ IF stages = {} THEN jobs = {} ELSE \E j \in jobs : jobs = {j} /\ j.stage \in stages
  /\ \A k \in {"start", "complete", "refused"} :
       IF k = message THEN Once(toUi, k) ELSE k \notin Kinds(toUi)

Waiting ==
  /\ running = 0 /\ sent # 0
  /\ (~goal /\ admission = sent) \/ (goal /\ admission = 0)
  /\ \/ At(TRUE, {}, "none") \/ At(FALSE, {"preflight", "begin"}, "none")
     \/ At(FALSE, {"turn"}, "start") \/ At(FALSE, {}, "refused")
InTurn ==
  /\ running = sent /\ sent # 0 /\ admission = 0 /\ ~goal
  /\ At(FALSE, {"turn", "closing"}, "none") \/ At(FALSE, {}, "complete")
Resting ==
  /\ running = 0 /\ admission = 0 /\ ~goal
  /\ At(FALSE, {}, "none")
OneAtATime == Waiting \/ InTurn \/ Resting

\* The submission under way is the last one sent, and an answer that is late
\* cannot be taken for its answer.
Mine(x) == x.id = sent /\ ((x.via = "goal") <=> goal)
Marked ==
  /\ \A c \in Range(toRt) : c.do = "submit" => Mine(c)
  /\ \A j \in jobs : j.id = sent /\ (j.stage \in {"preflight", "begin"} => Mine(j))
  /\ \A m \in Range(toUi) :
       /\ Kind(m) = "start" => m.id = sent
       /\ Kind(m) = "refused" => Mine(m) /\ ~m.ok
       /\ Kind(m) = "returned" =>
            m.id # 0 /\ m.id <= sent /\ m.id # admission /\ (m.via = "goal" => ~goal)
OneGoal ==
  /\ goals <= MaxGoals /\ (goal => goals # 0)
  /\ goals = 0 =>
       /\ \A c \in Range(toRt) : c.do = "submit" => c.via # "goal"
       /\ \A j \in jobs : j.via # "goal"
       /\ \A m \in Range(toUi) : m.do = "returned" => m.via # "goal"
Submissions == OneAtATime /\ Marked /\ OneGoal
Announced == "start" \in Kinds(toUi) => \A j \in jobs : Mine(j)

\* Where the restore is.
RestoreAt ==
  /\ rewind.stage = "wait" => rewind.at \in 1..(Len(turns) + (IF running # 0 THEN 1 ELSE 0))
  /\ rewind.stage = "called" => rewind.at \in 1..Len(turns)
  /\ \A c \in Range(toRt) : c.do = "restore" => c.at = rewind.at
  /\ \A o \in ops : o.do = "restore" => o.at = rewind.at
  /\ \/ /\ rewind.stage = "called" /\ Once(toRt, "restore")
        /\ ~Restoring /\ "restored" \notin Kinds(toUi)
     \/ /\ rewind.stage = "called" /\ "restore" \notin Kinds(toRt)
        /\ Restoring /\ "restored" \notin Kinds(toUi)
     \/ /\ rewind.stage = "called" /\ "restore" \notin Kinds(toRt)
        /\ ~Restoring /\ Once(toUi, "restored")
     \/ /\ rewind.stage # "called" /\ "restore" \notin Kinds(toRt)
        /\ ~Restoring /\ "restored" \notin Kinds(toUi)
RestoreApart ==
  /\ Rewinding => ctx = NoOp
  /\ \A j \in jobs : j.stage # "preflight" => ~Restoring
  /\ (\E j \in jobs : j.stage = "closing") \/ "complete" \in Kinds(toUi)
        => rewind.stage # "called"

\* Clears and compactions.
IsOperation(c) == c.do \in {"clear", "compact"}
Called(c) == ctx.stage = "called" /\ ctx.id = c.id
Ended(c, n) == \E k \in DOMAIN toRt : n < k /\ toRt[k].do = "cancel" /\ toRt[k].id = c.id
OperationsHeld ==
  /\ \A o \in ops : IsOperation(o) => Called(o) \/ Ended(o, 0)
  /\ \A i \in DOMAIN toRt : IsOperation(toRt[i]) => Called(toRt[i]) \/ Ended(toRt[i], i)
Unfenced == ctx = NoOp \/ (ctx.stage = "wait" /\ running # 0)
OperationsApart ==
  /\ \A j \in jobs : j.via # "goal" =>
       /\ Unfenced
       /\ \A o \in ops : ~IsOperation(o)
       /\ Kinds(toRt) \cap {"operation", "cancel"} = {}
  /\ \A i \in DOMAIN toRt : toRt[i].do = "submit" /\ toRt[i].via # "goal" =>
       /\ Unfenced
       /\ \A k \in DOMAIN toRt : Kind(toRt[k]) \in {"operation", "cancel"} => k < i
\* An operation is in one place only: a call, the operation, or its answer.
Numbered(x) == x.do \in {"clear", "compact", "operated"}
Single(q) ==
  \A i, k \in DOMAIN q : Numbered(q[i]) /\ Numbered(q[k]) /\ q[i].id = q[k].id => i = k
Issued(x) == x.id # 0 /\ x.id <= asked /\ (x.id = ctx.id => ctx.stage = "called")
OperationsOnce ==
  /\ ctx.id <= asked /\ (ctx # NoOp => ctx.id # 0)
  /\ Single(toRt) /\ Single(toUi)
  /\ \A o, p \in ops : Numbered(o) /\ Numbered(p) /\ o.id = p.id => o = p
  /\ \A c \in Range(toRt) : Numbered(c) =>
       /\ Issued(c)
       /\ \A x \in ops \cup Range(toUi) : Numbered(x) => x.id # c.id
  /\ \A o \in ops : Numbered(o) =>
       /\ Issued(o)
       /\ \A x \in Range(toUi) : Numbered(x) => x.id # o.id
  /\ \A m \in Range(toUi) : Numbered(m) => Issued(m)
OneOperation ==
  ~doubt =>
    /\ "cancel" \notin Kinds(toRt)
    /\ \A x \in Range(toRt) \cup ops \cup Range(toUi) : Numbered(x) => Called(x)
NeverExecuting == \A m \in Range(toUi) : m.do = "returned" => m.why # "executing"

\* What the interface is about to hear, applied to what it shows.
Cleared(m) == m.do = "operated" /\ m.cleared
Cut(m) == m.do = "restored" /\ m.conversation
InStep ==
  ~doubt =>
    /\ \A i, k \in DOMAIN toUi : Cleared(toUi[i]) /\ toUi[k].do = "complete" => k < i
    /\ (\E m \in Range(toUi) : Cleared(m)) =>
         context = <<>> /\ \A j \in jobs : j.stage # "closing"
    /\ (\A m \in Range(toUi) : ~Cleared(m)) =>
         /\ \A j \in jobs : j.stage = "closing" => context = Append(turns, j.text)
         /\ \A m \in Range(toUi) : m.do = "complete" => context = Append(turns, m.text)
         /\ \A m \in Range(toUi) : Cut(m) => context = SubSeq(turns, 1, rewind.at - 1)
         /\ (\A j \in jobs : j.stage # "closing")
              /\ (\A m \in Range(toUi) : m.do # "complete" /\ ~Cut(m)) => context = turns

Drained == drain => ~cut
IInv ==
  /\ Typed /\ Submissions /\ Announced /\ RestoreAt /\ RestoreApart
  /\ OperationsHeld /\ OperationsApart /\ OperationsOnce /\ OneOperation
  /\ NeverExecuting /\ InStep /\ Drained

\* Every word is in one place.
Held(m) == IF Kind(m) = "returned" THEN {} ELSE m.text
Within(q) == UNION {Held(q[i]) : i \in DOMAIN q}
Apart(q) == \A i, k \in DOMAIN q : i # k => Held(q[i]) \cap Held(q[k]) = {}
TurnsApart == \A i, k \in DOMAIN turns : i # k => turns[i] \cap turns[k] = {}
InJobs == UNION {j.text : j \in jobs}
InInbox == UNION {inbox[i].text : i \in DOMAIN inbox}
InboxApart == \A i, k \in DOMAIN inbox : i # k => inbox[i].text \cap inbox[k].text = {}
One(p) == IF p THEN 1 ELSE 0
Loose(w) ==
  One(w \in composer) + One(w \in parked) + One(w \in slot) + One(w \in steer.text)
  + One(w \in settled) + One(w \in Within(toRt))
Passing(w) ==
  One(w \in WordsOf(turns)) + One(w \in InInbox) + One(w \in Within(toUi)) + One(w \in InJobs)
Kept ==
  /\ TurnsApart /\ InboxApart /\ Apart(toRt) /\ Apart(toUi)
  /\ \A w \in Words : Loose(w) + Passing(w) = One(w \in typed)

-----------------------------------------------------------------------------
(* Queues.                                                                  *)

LEMMA AppendFacts ==
  ASSUME NEW S, NEW q \in Seq(S), NEW m
  PROVE  /\ Range(Append(q, m)) = Range(q) \cup {m}
         /\ Kinds(Append(q, m)) = Kinds(q) \cup {Kind(m)}
         /\ \A k : Kind(m) # k /\ Once(q, k) => Once(Append(q, m), k)
         /\ \A k : Kind(m) = k /\ k \notin Kinds(q) => Once(Append(q, m), k)
<1> DEFINE a == Append(q, m)
           n == Len(q) + 1
<1>1. /\ DOMAIN a = 1 .. n /\ DOMAIN q = 1 .. Len(q) /\ Len(q) \in Nat
      /\ a[n] = m /\ \A i \in 1 .. Len(q) : a[i] = q[i]
  OBVIOUS
<1> HIDE DEF a
<1>2. DOMAIN a = DOMAIN q \cup {n} /\ n \notin DOMAIN q
  BY <1>1
<1>3. a[n] = m /\ \A i \in DOMAIN q : a[i] = q[i]
  BY <1>1
<1>4. Range(a) = Range(q) \cup {m}
  BY <1>2, <1>3 DEF Range
<1>5. Kinds(a) = Kinds(q) \cup {Kind(m)}
  BY <1>2, <1>3 DEF Kinds
<1>6. ASSUME NEW k, Kind(m) # k, Once(q, k)
      PROVE  Once(a, k)
  BY <1>2, <1>3, <1>6 DEF Once
<1>7. ASSUME NEW k, Kind(m) = k, k \notin Kinds(q)
      PROVE  Once(a, k)
  BY <1>2, <1>3, <1>7 DEF Once, Kinds
<1>8. QED
  BY <1>4, <1>5, <1>6, <1>7 DEF a

LEMMA TailFacts ==
  ASSUME NEW S, NEW q \in Seq(S), q # <<>>
  PROVE  /\ Head(q) \in S /\ Tail(q) \in Seq(S)
         /\ Range(q) = Range(Tail(q)) \cup {Head(q)}
         /\ Kinds(q) = Kinds(Tail(q)) \cup {Kind(Head(q))}
         /\ \A k : Once(q, k) /\ Kind(Head(q)) = k => k \notin Kinds(Tail(q))
         /\ \A k : Once(q, k) /\ Kind(Head(q)) # k => Once(Tail(q), k)
<1> DEFINE b == Tail(q)
           h == Head(q)
<1>1. /\ Len(q) \in Nat \ {0} /\ DOMAIN q = 1 .. Len(q) /\ DOMAIN b = 1 .. (Len(q) - 1)
      /\ h = q[1] /\ \A i \in 1 .. (Len(q) - 1) : b[i] = q[i + 1]
      /\ b \in Seq(S) /\ h \in S
  OBVIOUS
<1> HIDE DEF b, h
<1>2. \A i \in DOMAIN b : i + 1 \in DOMAIN q /\ i + 1 # 1 /\ b[i] = q[i + 1]
  BY <1>1
<1>3. \A i \in DOMAIN q : i = 1 \/ (i - 1 \in DOMAIN b /\ b[i - 1] = q[i])
  BY <1>1
<1>4. 1 \in DOMAIN q /\ h = q[1]
  BY <1>1
<1>5. Range(q) = Range(b) \cup {h}
  BY <1>2, <1>3, <1>4 DEF Range
<1>6. Kinds(q) = Kinds(b) \cup {Kind(h)}
  BY <1>2, <1>3, <1>4 DEF Kinds
<1>7. ASSUME NEW k, Once(q, k), Kind(h) = k
      PROVE  k \notin Kinds(b)
  BY <1>2, <1>4, <1>7 DEF Once, Kinds
<1>8. ASSUME NEW k, Once(q, k), Kind(h) # k
      PROVE  Once(b, k)
  <2>1. PICK i \in DOMAIN q : Kind(q[i]) = k /\ \A n \in DOMAIN q : Kind(q[n]) = k => n = i
    BY <1>8 DEF Once
  <2>2. i # 1
    BY <2>1, <1>4, <1>8
  <2>3. i - 1 \in DOMAIN b /\ Kind(b[i - 1]) = k
    BY <2>1, <2>2, <1>3
  <2>4. ASSUME NEW n \in DOMAIN b, Kind(b[n]) = k
        PROVE  n = i - 1
    <3>1. n + 1 = i
      BY <2>1, <2>4, <1>2
    <3>2. n \in Nat /\ i \in Nat
      BY <1>1
    <3>3. QED
      BY <3>1, <3>2
  <2>5. QED
    BY <2>3, <2>4 DEF Once
<1>9. QED
  BY <1>1, <1>5, <1>6, <1>7, <1>8 DEF b, h

LEMMA EmptyFacts == Range(<<>>) = {} /\ Kinds(<<>>) = {} /\ \A k : ~Once(<<>>, k)
BY DEF Range, Kinds, Once

LEMMA KindIn ==
  ASSUME NEW q, NEW k
  PROVE  /\ k \in Kinds(q) <=> \E m \in Range(q) : Kind(m) = k
         /\ Once(q, k) => k \in Kinds(q)
BY DEF Kinds, Range, Once

-----------------------------------------------------------------------------
(* Types.                                                                   *)

LEMMA CallIs ==
  ASSUME NEW c \in Calls
  PROVE  /\ c.do \in {"submit", "restore", "clear", "compact", "cancel"}
         /\ c.text \in Texts
         /\ c.do = "submit" => c.id \in Nat /\ c.via \in Vias
         /\ c.do # "submit" => c.text = {}
         /\ c.do = "restore" => c.at \in Nat /\ c \in Ops
         /\ c.do \in {"clear", "compact", "cancel"} => c.id \in Nat
         /\ c.do \in {"clear", "compact"} => c \in Ops
         /\ Kind(c) = IF c.do \in {"clear", "compact"} THEN "operation" ELSE c.do
BY DEF Calls, Ops, Texts, Kind

LEMMA MessageIs ==
  ASSUME NEW m \in Messages
  PROVE  /\ m.do \in {"start", "complete", "returned", "restored", "operated"}
         /\ m.text \in Texts
         /\ m.do \notin {"complete", "returned"} => m.text = {}
         /\ m.do \in {"start", "returned", "operated"} => m.id \in Nat
         /\ m.do = "returned" => m.via \in Vias /\ m.ok \in BOOLEAN /\ m.admitted \in BOOLEAN
         /\ m.do = "restored" => m.whole \in BOOLEAN /\ m.conversation \in BOOLEAN
         /\ m.do = "operated" => m.cleared \in BOOLEAN
         /\ m.do # "returned" => Kind(m) = m.do
         /\ m.do = "returned" => Kind(m) = IF m.admitted THEN "returned" ELSE "refused"
BY DEF Messages, Returns, Texts, Kind

LEMMA Said ==
  ASSUME NEW text \in Texts, NEW via \in Vias, sent \in Nat
  PROVE  /\ Submission(text, via) \in Calls
         /\ Submission(text, via).do = "submit" /\ Submission(text, via).id = sent + 1
         /\ Submission(text, via).text = text /\ Submission(text, via).via = via
         /\ Kind(Submission(text, via)) = "submit"
BY DEF Submission, Calls, Kind

LEMMA Refusal ==
  ASSUME NEW j \in Jobs,
         NEW why \in {"recovery", "restoring", "executing", "checkpoint", "turn"}
  PROVE  /\ Returned(j, FALSE, why) \in Messages
         /\ Returned(j, FALSE, why).do = "returned" /\ Returned(j, FALSE, why).id = j.id
         /\ Returned(j, FALSE, why).text = j.text /\ Returned(j, FALSE, why).via = j.via
         /\ ~Returned(j, FALSE, why).ok /\ Returned(j, FALSE, why).why = why
         /\ Returned(j, FALSE, why).admitted <=> (j.stage = "closing")
         /\ Kind(Returned(j, FALSE, why)) = IF j.stage = "closing" THEN "returned" ELSE "refused"
<1>1. (j.stage = "closing") \in BOOLEAN
  OBVIOUS
<1>2. QED
  BY <1>1 DEF Returned, Jobs, Messages, Returns, Kind

LEMMA Answers ==
  ASSUME NEW j \in Jobs, NEW ok \in BOOLEAN,
         NEW why \in {"recovery", "restoring", "executing", "checkpoint", "turn"}
  PROVE  /\ Returned(j, ok, why) \in Messages
         /\ Returned(j, ok, why).do = "returned" /\ Returned(j, ok, why).id = j.id
         /\ Returned(j, ok, why).text = j.text /\ Returned(j, ok, why).via = j.via
         /\ Returned(j, ok, why).ok = ok /\ Returned(j, ok, why).why = why
         /\ Returned(j, ok, why).admitted <=> (j.stage = "closing")
         /\ Kind(Returned(j, ok, why)) = IF j.stage = "closing" THEN "returned" ELSE "refused"
<1>1. (j.stage = "closing") \in BOOLEAN
  OBVIOUS
<1>2. QED
  BY <1>1 DEF Returned, Jobs, Messages, Returns, Kind

LEMMA SendTyped ==
  ASSUME Typed, NEW text \in Texts, NEW via \in Vias, Send(text, via)
  PROVE  toRt' \in Seq(Calls) /\ sent' \in Nat /\ admission' \in Nat
<1>1. Submission(text, via) \in Calls
  BY Said DEF Typed, FlagsTyped
<1>2. toRt \in Seq(Calls) /\ sent \in Nat
  BY DEF Typed, FlagsTyped, QueuesTyped
<1>3. QED
  BY <1>1, <1>2 DEF Send

LEMMA SubmitTyped ==
  ASSUME Typed, NEW text \in Texts, Submit(text)
  PROVE  /\ composer' \in Texts /\ parked' \in Texts /\ slot' \in Texts /\ settled' \in Texts
         /\ toRt' \in Seq(Calls) /\ sent' \in Nat /\ admission' \in Nat
<1>1. composer \in Texts /\ parked \in Texts /\ slot \in Texts /\ settled \in Texts
      /\ toRt \in Seq(Calls) /\ sent \in Nat /\ admission \in Nat
  BY DEF Typed, FlagsTyped, QueuesTyped, WordsTyped
<1>2. slot' = slot /\ settled' = settled
  BY DEF Submit
<1>3. CASE Pending \/ (Busy /\ ~Rewinding)
  BY <1>1, <1>2, <1>3 DEF Submit, Return, Texts
<1>4. CASE ~(Pending \/ (Busy /\ ~Rewinding)) /\ Rewinding
  BY <1>1, <1>2, <1>4 DEF Submit, Texts
<1>5. CASE ~(Pending \/ (Busy /\ ~Rewinding)) /\ ~Rewinding
  <2>1. Send(text, "composer") /\ composer' = composer /\ parked' = parked
    BY <1>5 DEF Submit
  <2>2. QED
    BY <2>1, <1>1, <1>2, SendTyped DEF Vias
<1>6. QED
  BY <1>3, <1>4, <1>5

LEMMA EnqueueTyped ==
  ASSUME Typed, NEW text \in Texts, Enqueue(text)
  PROVE  slot' \in Texts /\ settled' \in Texts
BY DEF Typed, WordsTyped, Enqueue, Texts

LEMMA DrainTyped ==
  ASSUME Typed, NEW draft, NEW active, FinishTurnQueues(draft, active)
  PROVE  /\ slot' \in Texts /\ steer' \in [text : Texts, for : Nat] /\ drain' \in BOOLEAN
         /\ toRt' \in Seq(Calls) /\ sent' \in Nat /\ admission' \in Nat
<1>1. slot \in Texts /\ toRt \in Seq(Calls) /\ sent \in Nat /\ admission \in Nat
  BY DEF Typed, FlagsTyped, QueuesTyped, WordsTyped
<1>2. drain' = FALSE /\ steer' \in [text : Texts, for : Nat]
  BY DEF FinishTurnQueues, NoSteer, Texts
<1>3. CASE PickedUp(draft, active)
  <2>1. Send(slot, "queue") /\ slot' = {}
    BY <1>3 DEF FinishTurnQueues
  <2>2. QED
    BY <2>1, <1>1, <1>2, SendTyped DEF Vias, Texts
<1>4. CASE ~PickedUp(draft, active)
  BY <1>1, <1>2, <1>4 DEF FinishTurnQueues
<1>5. QED
  BY <1>3, <1>4

LEMMA CutTurns ==
  ASSUME NEW S, NEW q \in Seq(S), NEW n \in Nat, 1 <= n, n <= Len(q) + 1
  PROVE  /\ SubSeq(q, 1, n - 1) \in Seq(S) /\ Len(SubSeq(q, 1, n - 1)) = n - 1
         /\ \A i \in 1 .. (n - 1) : SubSeq(q, 1, n - 1)[i] = q[i]
OBVIOUS

LEMMA WordsAreWords ==
  ASSUME NEW q \in Seq(Texts)
  PROVE  WordsOf(q) \in Texts
<1>1. \A x \in Range(q) : x \subseteq Words
  BY DEF Range, Texts
<1>2. QED
  BY <1>1 DEF WordsOf, Texts

LEMMA LaterTurns ==
  ASSUME NEW S, NEW q \in Seq(S), NEW n \in Nat, 1 <= n, n <= Len(q)
  PROVE  /\ SubSeq(q, n + 1, Len(q)) \in Seq(S)
         /\ Range(SubSeq(q, n + 1, Len(q))) = {q[i] : i \in (n + 1) .. Len(q)}
<1> DEFINE b == SubSeq(q, n + 1, Len(q))
<1>1. /\ Len(q) \in Nat /\ b \in Seq(S) /\ DOMAIN b = 1 .. (Len(q) - n)
      /\ \A i \in 1 .. (Len(q) - n) : b[i] = q[i + n]
  OBVIOUS
<1> HIDE DEF b
<1>2. \A i \in (n + 1) .. Len(q) : i - n \in DOMAIN b /\ b[i - n] = q[i]
  BY <1>1
<1>3. \A i \in DOMAIN b : i + n \in (n + 1) .. Len(q) /\ b[i] = q[i + n]
  BY <1>1
<1>4. Range(b) = {q[i] : i \in (n + 1) .. Len(q)}
  BY <1>2, <1>3 DEF Range
<1>5. QED
  BY <1>1, <1>4 DEF b

LEMMA FinishTyped ==
  ASSUME Typed, RestoreAt, NEW o \in ops, Finish(o)
  PROVE  Typed'
<1>1. ops' \subseteq Ops
  BY DEF Finish, Typed, RuntimeTyped
<1>2. o \in Ops /\ toUi \in Seq(Messages) /\ context \in Seq(Texts) /\ doubt \in BOOLEAN
  BY DEF Typed, RuntimeTyped, QueuesTyped, FlagsTyped
<1>3. doubt' \in BOOLEAN
  BY <1>2 DEF Finish
<1>4. context' \in Seq(Texts) /\ toUi' \in Seq(Messages)
  <2>1. CASE o.do = "restore"
    <3>1. PICK whole \in BOOLEAN, conversation \in {FALSE, o.at <= Len(context) + 1} :
              /\ context' = IF conversation THEN SubSeq(context, 1, o.at - 1) ELSE context
              /\ toUi' = Append(toUi, [do |-> "restored", whole |-> whole,
                                       conversation |-> conversation, text |-> {}])
      BY <2>1 DEF Finish
    <3>2. o.at = rewind.at /\ rewind.stage = "called"
      BY <2>1 DEF RestoreAt, Restoring
    <3>3. o.at \in 1 .. Len(turns) /\ Len(turns) \in Nat
      BY <3>2 DEF RestoreAt, Typed, QueuesTyped
    <3>4. o.at \in Nat /\ 1 <= o.at
      BY <3>3
    <3>5. (o.at <= Len(context) + 1) \in BOOLEAN /\ Len(context) \in Nat
      BY <1>2
    <3>6. [do |-> "restored", whole |-> whole, conversation |-> conversation, text |-> {}] \in Messages
      BY <3>5 DEF Messages
    <3>7. context' \in Seq(Texts)
      <4>1. CASE conversation
        <5>1. o.at <= Len(context) + 1
          BY <4>1
        <5>2. SubSeq(context, 1, o.at - 1) \in Seq(Texts)
          BY <5>1, <3>4, <1>2, CutTurns
        <5>3. QED
          BY <5>2, <4>1, <3>1
      <4>2. QED
        BY <4>1, <3>1, <1>2
    <3>8. QED
      BY <3>1, <3>6, <3>7, <1>2
  <2>2. CASE o.do # "restore"
    <3>1. PICK cleared \in (IF o.do = "clear" THEN BOOLEAN ELSE {FALSE}) :
              /\ context' = IF cleared THEN <<>> ELSE context
              /\ toUi' = Append(toUi, [do |-> "operated", id |-> o.id, cleared |-> cleared,
                                       text |-> {}])
      BY <2>2 DEF Finish
    <3>2. o.id \in Nat /\ cleared \in BOOLEAN
      BY <2>2, <1>2 DEF Ops
    <3>3. [do |-> "operated", id |-> o.id, cleared |-> cleared, text |-> {}] \in Messages
      BY <3>2 DEF Messages
    <3>4. QED
      BY <3>1, <3>3, <1>2
  <2>3. QED
    BY <2>1, <2>2
<1>5. /\ UNCHANGED <<composer, parked, slot, settled, typed, steer, inbox, toRt, turns>>
      /\ UNCHANGED <<running, admission, sent, pressed, asked, goals, drain, goal, cut, rewind, ctx, jobs>>
  BY DEF Finish, queues, fences, counts
<1>6. WordsTyped'
  BY <1>5 DEF Typed, WordsTyped
<1>7. QueuesTyped'
  BY <1>4, <1>5 DEF Typed, QueuesTyped
<1>8. FlagsTyped'
  BY <1>3, <1>5 DEF Typed, FlagsTyped, NoRewind, NoOp
<1>9. RuntimeTyped'
  BY <1>1, <1>5 DEF Typed, RuntimeTyped
<1>10. QED
  BY <1>6, <1>7, <1>8, <1>9 DEF Typed

LEMMA Moved ==
  ASSUME NEW j \in Jobs, NEW stage \in {"preflight", "begin", "turn", "closing"}
  PROVE  /\ [j EXCEPT !.stage = stage] \in Jobs
         /\ [j EXCEPT !.stage = stage].stage = stage
         /\ [j EXCEPT !.stage = stage].text = j.text
         /\ [j EXCEPT !.stage = stage].via = j.via
         /\ [j EXCEPT !.stage = stage].id = j.id
BY DEF Jobs

LEMMA Ended2 ==
  ASSUME NEW j \in Jobs, NEW ok \in BOOLEAN
  PROVE  /\ [j EXCEPT !.stage = "closing", !.ok = ok] \in Jobs
         /\ [j EXCEPT !.stage = "closing", !.ok = ok].stage = "closing"
         /\ [j EXCEPT !.stage = "closing", !.ok = ok].text = j.text
         /\ [j EXCEPT !.stage = "closing", !.ok = ok].via = j.via
         /\ [j EXCEPT !.stage = "closing", !.ok = ok].id = j.id
BY DEF Jobs

LEMMA TwoMessages ==
  ASSUME NEW q, NEW S, q \in Seq(S), NEW a \in S, NEW b \in S
  PROVE  q \o <<a, b>> = Append(Append(q, a), b)
<1>1. q \o <<a, b>> \in Seq(S) /\ Append(Append(q, a), b) \in Seq(S)
  OBVIOUS
<1>2. Len(q \o <<a, b>>) = Len(q) + 2 /\ Len(Append(Append(q, a), b)) = Len(q) + 2
  OBVIOUS
<1>3. \A i \in 1 .. (Len(q) + 2) : (q \o <<a, b>>)[i] = Append(Append(q, a), b)[i]
  OBVIOUS
<1>4. QED
  BY <1>1, <1>2, <1>3

LEMMA Appended == ASSUME NEW S, NEW q \in Seq(S), NEW m \in S PROVE Append(q, m) \in Seq(S)
OBVIOUS

LEMMA RefuseTyped ==
  ASSUME jobs \subseteq Jobs, toUi \in Seq(Messages), NEW j \in Jobs,
         NEW why \in {"recovery", "restoring", "executing", "checkpoint", "turn"},
         Refuse(j, why)
  PROVE  jobs' \subseteq Jobs /\ toUi' \in Seq(Messages)
<1>1. Returned(j, FALSE, why) \in Messages
  BY Refusal
<1>2. toUi' = Append(toUi, Returned(j, FALSE, why)) /\ jobs' = jobs \ {j}
  BY DEF Refuse
<1>3. toUi' \in Seq(Messages)
  BY <1>1, <1>2, Appended
<1>4. jobs' \subseteq Jobs
  BY <1>2
<1>5. QED
  BY <1>3, <1>4

LEMMA MoveTyped ==
  ASSUME jobs \subseteq Jobs, NEW j \in Jobs,
         NEW stage \in {"preflight", "begin", "turn", "closing"}, Move(j, stage)
  PROVE  jobs' \subseteq Jobs
<1>1. [j EXCEPT !.stage = stage] \in Jobs
  BY Moved
<1>2. jobs' = (jobs \ {j}) \cup {[j EXCEPT !.stage = stage]}
  BY DEF Move
<1>3. QED
  BY <1>1, <1>2

LEMMA TurnStepTyped ==
  ASSUME Typed, NEW j \in jobs, 
         Preflight(j) \/ Begin(j) \/ ApplySteer(j) \/ Execute(j) \/ CloseOut(j)
  PROVE  /\ jobs' \subseteq Jobs /\ toUi' \in Seq(Messages) /\ context' \in Seq(Texts)
         /\ steer' \in [text : Texts, for : Nat] /\ settled' \in Texts
<1>1. /\ j \in Jobs /\ jobs \subseteq Jobs /\ toUi \in Seq(Messages) /\ context \in Seq(Texts)
      /\ steer \in [text : Texts, for : Nat] /\ settled \in Texts
  BY DEF Typed, WordsTyped, QueuesTyped, RuntimeTyped
<1>2. ASSUME NEW why \in {"recovery", "restoring", "executing", "checkpoint", "turn"},
             Refuse(j, why)
      PROVE  jobs' \subseteq Jobs /\ toUi' \in Seq(Messages)
  BY <1>1, <1>2, RefuseTyped
<1>3. ASSUME NEW stage \in {"preflight", "begin", "turn", "closing"}, Move(j, stage)
      PROVE  jobs' \subseteq Jobs
  BY <1>1, <1>3, MoveTyped
<1>4. CASE Preflight(j)
  <2>1. steer' = steer /\ context' = context /\ settled' = settled
    BY <1>4 DEF Preflight
  <2>2. \/ \E why \in {"recovery", "restoring", "executing"} : Refuse(j, why)
        \/ Move(j, "begin") /\ toUi' = toUi
    BY <1>4 DEF Preflight
  <2>3. jobs' \subseteq Jobs /\ toUi' \in Seq(Messages)
    BY <2>2, <1>1, <1>2, <1>3
  <2>4. QED
    BY <2>1, <2>3, <1>1
<1>5. CASE Begin(j)
  <2>1. steer' = steer /\ context' = context /\ settled' = settled
    BY <1>5 DEF Begin
  <2>2. \/ Refuse(j, "checkpoint")
        \/ Move(j, "turn") /\ toUi' = Append(toUi, [do |-> "start", id |-> j.id, text |-> {}])
    BY <1>5 DEF Begin
  <2>3. [do |-> "start", id |-> j.id, text |-> {}] \in Messages
    BY <1>1 DEF Messages, Jobs
  <2>4. jobs' \subseteq Jobs /\ toUi' \in Seq(Messages)
    BY <2>2, <2>3, <1>1, <1>2, <1>3, Appended
  <2>5. QED
    BY <2>1, <2>4, <1>1
<1>6. CASE ApplySteer(j)
  BY <1>1, <1>6 DEF ApplySteer, NoSteer, Texts
<1>7. CASE Execute(j)
  <2>1. PICK ok \in BOOLEAN : jobs' = (jobs \ {j}) \cup {[j EXCEPT !.stage = "closing", !.ok = ok]}
    BY <1>7 DEF Execute
  <2>2. [j EXCEPT !.stage = "closing", !.ok = ok] \in Jobs
    BY <1>1, Ended2
  <2>3. jobs' \subseteq Jobs
    BY <2>1, <2>2, <1>1
  <2>4. j.text \in Texts
    BY <1>1 DEF Jobs
  <2>5. /\ context' = Append(context, j.text) /\ toUi' = toUi
        /\ steer' = steer /\ settled' = settled
    BY <1>7 DEF Execute
  <2>6. context' \in Seq(Texts)
    BY <2>4, <2>5, <1>1, Appended
  <2>7. QED
    BY <2>3, <2>5, <2>6, <1>1
<1>8. CASE CloseOut(j)
  <2>1. j.ok \in BOOLEAN /\ j.text \in Texts
    BY <1>1 DEF Jobs
  <2>2. [do |-> "complete", text |-> j.text] \in Messages /\ Returned(j, j.ok, "turn") \in Messages
    BY <2>1, <1>1, Answers DEF Messages
  <2>3. /\ toUi' = toUi \o << [do |-> "complete", text |-> j.text], Returned(j, j.ok, "turn") >>
        /\ jobs' = jobs \ {j} /\ context' = context /\ steer' = steer /\ settled' = settled
    BY <1>8 DEF CloseOut
  <2>4. toUi' \in Seq(Messages)
    BY <2>2, <2>3, <1>1, TwoMessages, Appended
  <2>5. QED
    BY <2>3, <2>4, <1>1
<1>9. QED
  BY <1>4, <1>5, <1>6, <1>7, <1>8

LEMMA TakeTyped ==
  ASSUME Typed, Take
  PROVE  /\ jobs' \subseteq Jobs /\ ops' \subseteq Ops
         /\ toRt' \in Seq(Calls) /\ toUi' \in Seq(Messages)
<1>1. /\ jobs \subseteq Jobs /\ ops \subseteq Ops
      /\ toRt \in Seq(Calls) /\ toUi \in Seq(Messages) /\ toRt # <<>>
  BY DEF Typed, QueuesTyped, RuntimeTyped, Take
<1>2. PICK c \in Calls : c = Head(toRt)
  BY <1>1, TailFacts
<1>3. toRt' \in Seq(Calls)
  BY <1>1, TailFacts DEF Take
<1>4. CASE c.do = "submit"
  <2>1. jobs' = jobs \cup {[id |-> c.id, text |-> c.text, via |-> c.via,
                            stage |-> "preflight", ok |-> TRUE]}
        /\ ops' = ops /\ toUi' = toUi
    BY <1>2, <1>4 DEF Take
  <2>2. [id |-> c.id, text |-> c.text, via |-> c.via, stage |-> "preflight", ok |-> TRUE] \in Jobs
    BY <1>4, CallIs DEF Jobs
  <2>3. QED
    BY <2>1, <2>2, <1>1, <1>3
<1>5. CASE c.do = "restore"
  <2>1. jobs' = jobs /\ ((toUi' = Append(toUi, [do |-> "restored", whole |-> FALSE,
                                 conversation |-> FALSE, text |-> {}]) /\ ops' = ops)
                         \/ (ops' = ops \cup {c} /\ toUi' = toUi))
    BY <1>2, <1>5 DEF Take
  <2>2. [do |-> "restored", whole |-> FALSE, conversation |-> FALSE, text |-> {}] \in Messages
    BY DEF Messages
  <2>3. c \in Ops
    BY <1>5, CallIs
  <2>4. toUi' \in Seq(Messages)
    BY <2>1, <2>2, <1>1, Appended
  <2>5. ops' \subseteq Ops
    BY <2>1, <2>3, <1>1
  <2>6. QED
    BY <2>1, <2>4, <2>5, <1>1, <1>3
<1>6. CASE c.do \in {"clear", "compact"}
  <2>1. jobs' = jobs /\ ops' = ops \cup {c} /\ toUi' = toUi
    BY <1>2, <1>6 DEF Take
  <2>2. c \in Ops
    BY <1>6, CallIs
  <2>3. QED
    BY <2>1, <2>2, <1>1, <1>3
<1>7. CASE c.do = "cancel"
  <2>1. jobs' = jobs /\ ops' \subseteq ops /\ toUi' = toUi
    BY <1>2, <1>7 DEF Take
  <2>2. QED
    BY <2>1, <1>1, <1>3
<1>8. QED
  BY <1>2, <1>4, <1>5, <1>6, <1>7, CallIs

LEMMA TypedStep ==
  ASSUME Typed, RestoreAt, [Next]_vars
  PROVE  Typed'
<1>w. /\ composer \in Texts /\ parked \in Texts /\ slot \in Texts /\ settled \in Texts
      /\ typed \in Texts /\ steer \in [text : Texts, for : Nat]
  BY DEF Typed, WordsTyped
<1>q. /\ inbox \in Seq(Inputs) /\ toRt \in Seq(Calls) /\ toUi \in Seq(Messages)
      /\ turns \in Seq(Texts) /\ context \in Seq(Texts)
  BY DEF Typed, QueuesTyped
<1>r. jobs \subseteq Jobs /\ ops \subseteq Ops
  BY DEF Typed, RuntimeTyped
<1>f. FlagsTyped
  BY DEF Typed
<1>h. /\ running \in Nat /\ admission \in Nat /\ sent \in Nat
      /\ pressed \in Nat /\ asked \in Nat /\ goals \in Nat
  BY <1>f DEF FlagsTyped
<1>u. ASSUME NEW w \in Words PROVE {w} \in Texts /\ typed \cup {w} \in Texts
  BY <1>w DEF Texts
<1>1. ASSUME NEW w \in Words, Type(w) PROVE Typed'
  <2>1. WordsTyped'
    BY <1>1, <1>w, <1>u DEF Type, WordsTyped, queues
  <2>2. QueuesTyped'
    BY <1>1, <1>q DEF Type, QueuesTyped, runtime
  <2>3. FlagsTyped'
    BY <1>1, <1>f DEF Type, FlagsTyped, fences, counts, NoRewind, NoOp
  <2>4. RuntimeTyped'
    BY <1>1, <1>r DEF Type, RuntimeTyped, runtime
  <2>5. QED
    BY <2>1, <2>2, <2>3, <2>4 DEF Typed
<1>2. ASSUME NEW w \in Words, Generate(w) PROVE Typed'
  <2>1. /\ composer' \in Texts /\ parked' \in Texts /\ slot' \in Texts /\ settled' \in Texts
        /\ toRt' \in Seq(Calls) /\ sent' \in Nat /\ admission' \in Nat
    <3>1. CASE Busy
      <4>1. Enqueue({w}) /\ UNCHANGED <<composer, parked, toRt, sent, admission>>
        BY <3>1, <1>2 DEF Generate
      <4>2. slot' \in Texts /\ settled' \in Texts
        BY <4>1, <1>u, EnqueueTyped
      <4>3. QED
        BY <4>1, <4>2, <1>w, <1>q, <1>h
    <3>2. CASE ~Busy
      <4>1. Submit({w})
        BY <3>2, <1>2 DEF Generate
      <4>2. QED
        BY <4>1, <1>u, SubmitTyped
    <3>3. QED
      BY <3>1, <3>2
  <2>2. /\ typed' = typed \cup {w} /\ pressed' = pressed + 1
        /\ UNCHANGED <<inbox, steer, running, drain, rewind, ctx, goal, turns, toUi, jobs, ops,
                       context, asked, goals, cut, doubt>>
    BY <1>2 DEF Generate, runtime
  <2>3. WordsTyped'
    BY <2>1, <2>2, <1>w, <1>u DEF WordsTyped
  <2>4. QueuesTyped'
    BY <2>1, <2>2, <1>q DEF QueuesTyped
  <2>5. FlagsTyped'
    BY <2>1, <2>2, <1>f DEF FlagsTyped, NoRewind, NoOp
  <2>6. RuntimeTyped'
    BY <2>2, <1>r DEF RuntimeTyped
  <2>7. QED
    BY <2>3, <2>4, <2>5, <2>6 DEF Typed
<1>3. ASSUME NEW w \in Words, StartGoal(w) PROVE Typed'
  <2>1. Submission({w}, "goal") \in Calls
    BY <1>u, <1>h, Said DEF Vias
  <2>2. toRt' \in Seq(Calls)
    BY <2>1, <1>3, <1>q, Appended DEF StartGoal
  <2>3. WordsTyped'
    BY <1>3, <1>w, <1>u DEF StartGoal, WordsTyped, queues
  <2>4. QueuesTyped'
    BY <2>2, <1>3, <1>q DEF StartGoal, QueuesTyped, runtime
  <2>5. FlagsTyped'
    BY <1>3, <1>f DEF StartGoal, FlagsTyped, NoRewind, NoOp
  <2>6. RuntimeTyped'
    BY <1>3, <1>r DEF StartGoal, RuntimeTyped, runtime
  <2>7. QED
    BY <2>3, <2>4, <2>5, <2>6 DEF Typed
<1>4. ASSUME NEW key \in {"enter", "queue"}, Press(key) PROVE Typed'
  <2>1. PICK m \in Inputs : inbox' = Append(inbox, m)
    <3>1. [key |-> IF key = "enter" /\ running # 0 THEN "steer"
                   ELSE IF key = "enter" THEN "submit" ELSE "queue",
           text |-> composer, for |-> running] \in Inputs
      BY <1>w, <1>h DEF Inputs
    <3>2. QED
      BY <3>1, <1>4 DEF Press
  <2>2. inbox' \in Seq(Inputs)
    BY <2>1, <1>q, Appended
  <2>3. WordsTyped'
    BY <1>4, <1>w DEF Press, WordsTyped, queues, Texts
  <2>4. QueuesTyped'
    BY <2>2, <1>4, <1>q DEF Press, QueuesTyped, runtime
  <2>5. FlagsTyped'
    BY <1>4, <1>f DEF Press, FlagsTyped, fences, NoRewind, NoOp
  <2>6. RuntimeTyped'
    BY <1>4, <1>r DEF Press, RuntimeTyped, runtime
  <2>7. QED
    BY <2>3, <2>4, <2>5, <2>6 DEF Typed
<1>5. CASE Recall
  <2>1. WordsTyped'
    BY <1>5, <1>w DEF Recall, WordsTyped, Texts
  <2>2. QueuesTyped'
    BY <1>5, <1>q DEF Recall, QueuesTyped, runtime
  <2>3. FlagsTyped'
    BY <1>5, <1>f DEF Recall, FlagsTyped, fences, NoRewind, NoOp
  <2>4. RuntimeTyped'
    BY <1>5, <1>r DEF Recall, RuntimeTyped, runtime
  <2>5. QED
    BY <2>1, <2>2, <2>3, <2>4 DEF Typed
<1>6. ASSUME NEW i \in Checkpoints, Restore(i) PROVE Typed'
  <2>1. i \in Nat
    BY <1>q DEF Checkpoints
  <2>2. WordsTyped'
    BY <1>6, <1>w DEF Restore, WordsTyped, queues
  <2>3. QueuesTyped'
    BY <1>6, <1>q DEF Restore, QueuesTyped, runtime
  <2>4. rewind' \in [stage : {"none", "wait", "called"}, at : Nat] /\ rewind'.stage = "wait"
    BY <2>1, <1>6 DEF Restore
  <2>5. (rewind'.stage = "none") = (rewind' = NoRewind)
    BY <2>4 DEF NoRewind
  <2>6. FlagsTyped'
    BY <2>4, <2>5, <1>6, <1>f DEF Restore, FlagsTyped, NoRewind, NoOp
  <2>7. RuntimeTyped'
    BY <1>6, <1>r DEF Restore, RuntimeTyped, runtime
  <2>8. QED
    BY <2>2, <2>3, <2>6, <2>7 DEF Typed
<1>7. ASSUME NEW do \in {"clear", "compact"}, Operate(do) PROVE Typed'
  <2>1. WordsTyped'
    BY <1>7, <1>w DEF Operate, WordsTyped, queues
  <2>2. QueuesTyped'
    BY <1>7, <1>q DEF Operate, QueuesTyped, runtime
  <2>3. /\ ctx' \in [do : {"none", "clear", "compact"}, stage : {"none", "wait", "call", "called"},
                     id : Nat]
        /\ ctx'.stage # "none" /\ ctx'.do # "none"
    BY <1>7, <1>h DEF Operate
  <2>4. (ctx'.stage = "none") = (ctx' = NoOp) /\ (ctx'.do = "none") = (ctx' = NoOp)
    BY <2>3 DEF NoOp
  <2>5. FlagsTyped'
    BY <2>3, <2>4, <1>7, <1>f DEF Operate, FlagsTyped, NoRewind, NoOp
  <2>6. RuntimeTyped'
    BY <1>7, <1>r DEF Operate, RuntimeTyped, runtime
  <2>7. QED
    BY <2>1, <2>2, <2>5, <2>6 DEF Typed
<1>8. CASE Deliver
  <2>1. PICK m \in Inputs : m = Head(inbox)
    BY <1>8, <1>q, TailFacts DEF Deliver
  <2>2. m.text \in Texts /\ m.for \in Nat
    BY DEF Inputs
  <2>3. inbox' \in Seq(Inputs)
    BY <1>8, <1>q, TailFacts DEF Deliver
  <2>4. /\ composer' \in Texts /\ parked' \in Texts /\ slot' \in Texts /\ settled' \in Texts
        /\ toRt' \in Seq(Calls) /\ sent' \in Nat /\ admission' \in Nat
        /\ steer' \in [text : Texts, for : Nat]
    <3>1. CASE m.key = "submit" /\ Submit(m.text) /\ UNCHANGED steer
      BY <3>1, <2>2, <1>w, SubmitTyped
    <3>2. CASE m.key = "queue" /\ OnQueue(m) /\ UNCHANGED steer
      <4>1. CASE Pending \/ running = 0
        <5>1. Submit(m.text)
          BY <4>1, <3>2 DEF OnQueue
        <5>2. QED
          BY <5>1, <3>2, <2>2, <1>w, SubmitTyped
      <4>2. CASE ~(Pending \/ running = 0)
        <5>1. Enqueue(m.text) /\ UNCHANGED <<composer, parked, toRt, sent, admission>>
          BY <4>2, <3>2 DEF OnQueue
        <5>2. slot' \in Texts /\ settled' \in Texts
          BY <5>1, <2>2, EnqueueTyped
        <5>3. QED
          BY <5>1, <5>2, <3>2, <1>w, <1>q, <1>h
      <4>3. QED
        BY <4>1, <4>2
    <3>3. CASE m.key = "steer" /\ OnSteer(m) /\ UNCHANGED <<toRt, sent, admission>>
      <4>1. CASE Pending
        <5>1. Return(m.text) /\ UNCHANGED <<slot, steer, settled>>
          BY <4>1, <3>3 DEF OnSteer, queues
        <5>2. composer' \in Texts /\ parked' \in Texts
          BY <5>1, <2>2, <1>w DEF Return, Texts
        <5>3. QED
          BY <5>1, <5>2, <3>3, <1>w, <1>q, <1>h
      <4>2. CASE ~Pending /\ steer # NoSteer
        <5>1. Enqueue(m.text) /\ UNCHANGED <<steer, composer, parked>>
          BY <4>2, <3>3 DEF OnSteer
        <5>2. slot' \in Texts /\ settled' \in Texts
          BY <5>1, <2>2, EnqueueTyped
        <5>3. QED
          BY <5>1, <5>2, <3>3, <1>w, <1>q, <1>h
      <4>3. CASE ~Pending /\ steer = NoSteer
        <5>1. steer' = [text |-> m.text, for |-> m.for] /\ UNCHANGED <<slot, composer, parked, settled>>
          BY <4>3, <3>3 DEF OnSteer
        <5>2. steer' \in [text : Texts, for : Nat]
          BY <5>1, <2>2
        <5>3. QED
          BY <5>1, <5>2, <3>3, <1>w, <1>q, <1>h
      <4>4. QED
        BY <4>1, <4>2, <4>3
    <3>4. QED
      BY <3>1, <3>2, <3>3, <2>1, <1>8 DEF Deliver
  <2>5. UNCHANGED <<running, drain, rewind, ctx, goal, turns, toUi, jobs, ops, context, pressed, asked,
                    goals, cut, doubt, typed>>
    BY <1>8 DEF Deliver, runtime, counts
  <2>6. WordsTyped'
    BY <2>4, <2>5, <1>w DEF WordsTyped
  <2>7. QueuesTyped'
    BY <2>3, <2>4, <2>5, <1>q DEF QueuesTyped
  <2>8. FlagsTyped'
    BY <2>4, <2>5, <1>f DEF FlagsTyped, NoRewind, NoOp
  <2>9. RuntimeTyped'
    BY <2>5, <1>r DEF RuntimeTyped
  <2>10. QED
    BY <2>6, <2>7, <2>8, <2>9 DEF Typed
<1>9. CASE CallRestore
  <2>1. /\ rewind' \in [stage : {"none", "wait", "called"}, at : Nat] /\ rewind'.stage = "called"
        /\ rewind.at \in Nat
    BY <1>9, <1>f DEF CallRestore, FlagsTyped
  <2>2. (rewind'.stage = "none") = (rewind' = NoRewind)
    BY <2>1 DEF NoRewind
  <2>3. [do |-> "restore", at |-> rewind.at, text |-> {}] \in Calls
    BY <2>1 DEF Calls
  <2>4. toRt' \in Seq(Calls)
    BY <2>3, <1>9, <1>q, Appended DEF CallRestore
  <2>5. WordsTyped'
    BY <1>9, <1>w DEF CallRestore, WordsTyped, queues
  <2>6. QueuesTyped'
    BY <2>4, <1>9, <1>q DEF CallRestore, QueuesTyped, runtime
  <2>7. FlagsTyped'
    BY <2>1, <2>2, <1>9, <1>f DEF CallRestore, FlagsTyped, counts, NoRewind, NoOp
  <2>8. RuntimeTyped'
    BY <1>9, <1>r DEF CallRestore, RuntimeTyped, runtime
  <2>9. QED
    BY <2>5, <2>6, <2>7, <2>8 DEF Typed
<1>10. CASE CallOperation
  <2>1. /\ ctx' \in [do : {"none", "clear", "compact"}, stage : {"none", "wait", "call", "called"},
                     id : Nat]
        /\ ctx'.stage = "called" /\ ctx'.do = ctx.do
        /\ ctx.id \in Nat /\ ctx.do \in {"clear", "compact", "none"}
    BY <1>10, <1>f DEF CallOperation, FlagsTyped
  <2>3. ctx.do # "none"
    BY <1>10, <1>f DEF CallOperation, FlagsTyped, NoOp
  <2>2. (ctx'.stage = "none") = (ctx' = NoOp) /\ (ctx'.do = "none") = (ctx' = NoOp)
    BY <2>1, <2>3 DEF NoOp
  <2>4. [do |-> ctx.do, id |-> ctx.id, text |-> {}] \in Calls
    BY <2>1, <2>3 DEF Calls
  <2>5. toRt' \in Seq(Calls)
    BY <2>4, <1>10, <1>q, Appended DEF CallOperation
  <2>6. WordsTyped'
    BY <1>10, <1>w DEF CallOperation, WordsTyped, queues
  <2>7. QueuesTyped'
    BY <2>5, <1>10, <1>q DEF CallOperation, QueuesTyped, runtime
  <2>8. FlagsTyped'
    BY <2>1, <2>2, <1>10, <1>f DEF CallOperation, FlagsTyped, counts, NoRewind, NoOp
  <2>9. RuntimeTyped'
    BY <1>10, <1>r DEF CallOperation, RuntimeTyped, runtime
  <2>10. QED
    BY <2>6, <2>7, <2>8, <2>9 DEF Typed
<1>11. CASE GiveUpClear
  <2>1. WordsTyped'
    BY <1>11, <1>w DEF GiveUpClear, WordsTyped, queues
  <2>2. QueuesTyped'
    BY <1>11, <1>q DEF GiveUpClear, QueuesTyped, runtime
  <2>3. FlagsTyped'
    BY <1>11, <1>f DEF GiveUpClear, FlagsTyped, counts, NoRewind, NoOp
  <2>4. RuntimeTyped'
    BY <1>11, <1>r DEF GiveUpClear, RuntimeTyped, runtime
  <2>5. QED
    BY <2>1, <2>2, <2>3, <2>4 DEF Typed
<1>12. CASE TimeOut
  <2>1. ctx.id \in Nat
    BY <1>f DEF FlagsTyped
  <2>2. [do |-> "cancel", id |-> ctx.id, text |-> {}] \in Calls
    BY <2>1 DEF Calls
  <2>3. toRt' \in Seq(Calls)
    BY <2>2, <1>12, <1>q, Appended DEF TimeOut
  <2>4. WordsTyped'
    BY <1>12, <1>w DEF TimeOut, WordsTyped, queues
  <2>5. QueuesTyped'
    BY <2>3, <1>12, <1>q DEF TimeOut, QueuesTyped, runtime
  <2>6. FlagsTyped'
    BY <1>12, <1>f DEF TimeOut, FlagsTyped, counts, NoRewind, NoOp
  <2>7. RuntimeTyped'
    BY <1>12, <1>r DEF TimeOut, RuntimeTyped, runtime
  <2>8. QED
    BY <2>4, <2>5, <2>6, <2>7 DEF Typed
<1>13. ASSUME toUi # <<>>
       PROVE  Head(toUi) \in Messages /\ Head(toUi) \in Range(toUi) /\ Tail(toUi) \in Seq(Messages)
  BY <1>13, <1>q, TailFacts
<1>14. CASE HearStart
  <2>1. toUi # <<>> /\ toUi' = Tail(toUi) /\ Head(toUi).do = "start"
    BY <1>14 DEF HearStart, Message
  <2>2. PICK m \in Messages : m = Head(toUi)
    BY <2>1, <1>13
  <2>3. running' \in Nat /\ admission' = 0 /\ goal' = FALSE
    BY <2>1, <2>2, <1>14, MessageIs DEF HearStart
  <2>4. toUi' \in Seq(Messages)
    BY <2>1, <1>13
  <2>5. WordsTyped'
    BY <1>14, <1>w DEF HearStart, WordsTyped, queues
  <2>6. QueuesTyped'
    BY <2>4, <1>14, <1>q DEF HearStart, QueuesTyped, runtime
  <2>a. UNCHANGED <<drain, rewind, ctx, sent, pressed, asked, goals, cut, doubt>>
    BY <1>14 DEF HearStart, counts
  <2>7. FlagsTyped'
    BY <2>3, <2>a, <1>f DEF FlagsTyped, NoRewind, NoOp
  <2>8. RuntimeTyped'
    BY <1>14, <1>r DEF HearStart, RuntimeTyped, runtime
  <2>9. QED
    BY <2>5, <2>6, <2>7, <2>8 DEF Typed
<1>15. CASE HearComplete
  <2>1. toUi # <<>> /\ toUi' = Tail(toUi) /\ running' = 0 /\ cut' = FALSE
        /\ turns' = Append(turns, Head(toUi).text)
    BY <1>15 DEF HearComplete, Message
  <2>2. PICK m \in Messages : m = Head(toUi)
    BY <2>1, <1>13
  <2>3. turns' \in Seq(Texts) /\ toUi' \in Seq(Messages)
    BY <2>1, <2>2, <1>13, <1>q, MessageIs, Appended
  <2>4. /\ slot' \in Texts /\ steer' \in [text : Texts, for : Nat] /\ drain' \in BOOLEAN
        /\ settled' \in Texts /\ toRt' \in Seq(Calls) /\ sent' \in Nat /\ admission' \in Nat
    <3>1. CASE DrainsNow /\ FinishTurnQueues(composer, FALSE) /\ settled' = settled \cup steer.text
      <4>1. settled' \in Texts
        BY <3>1, <1>w DEF Texts
      <4>2. QED
        BY <3>1, <4>1, DrainTyped
    <3>2. CASE drain' = TRUE /\ UNCHANGED <<queues, admission, toRt, sent, settled>>
      BY <3>2, <1>w, <1>q, <1>h DEF queues
    <3>3. QED
      BY <3>1, <3>2, <1>15 DEF HearComplete
  <2>5. UNCHANGED <<composer, parked, inbox, rewind, ctx, goal, jobs, ops, context, pressed, asked,
                    goals, doubt, typed>>
    BY <1>15 DEF HearComplete, runtime, counts
  <2>6. WordsTyped'
    BY <2>4, <2>5, <1>w DEF WordsTyped
  <2>7. QueuesTyped'
    BY <2>3, <2>4, <2>5, <1>q DEF QueuesTyped
  <2>8. FlagsTyped'
    BY <2>1, <2>4, <2>5, <1>f DEF FlagsTyped, NoRewind, NoOp
  <2>9. RuntimeTyped'
    BY <2>5, <1>r DEF RuntimeTyped
  <2>10. QED
    BY <2>6, <2>7, <2>8, <2>9 DEF Typed
<1>16. CASE HearOther
  <2>1. /\ slot' \in Texts /\ steer' \in [text : Texts, for : Nat] /\ drain' \in BOOLEAN
        /\ toRt' \in Seq(Calls) /\ sent' \in Nat /\ admission' \in Nat
    BY <1>16, DrainTyped DEF HearOther
  <2>2. settled' \in Texts
    BY <1>16, <1>w DEF HearOther, Texts
  <2>3. UNCHANGED <<composer, parked, inbox, running, rewind, ctx, goal, turns, toUi, jobs, ops,
                    context, pressed, asked, goals, cut, doubt, typed>>
    BY <1>16 DEF HearOther, runtime, counts
  <2>4. WordsTyped'
    BY <2>1, <2>2, <2>3, <1>w DEF WordsTyped
  <2>5. QueuesTyped'
    BY <2>1, <2>3, <1>q DEF QueuesTyped
  <2>6. FlagsTyped'
    BY <2>1, <2>3, <1>f DEF FlagsTyped, NoRewind, NoOp
  <2>7. RuntimeTyped'
    BY <2>3, <1>r DEF RuntimeTyped
  <2>8. QED
    BY <2>4, <2>5, <2>6, <2>7 DEF Typed
<1>17. CASE HearReturn
  <2>1. toUi # <<>> /\ toUi' = Tail(toUi) /\ Head(toUi).do = "returned"
    BY <1>17 DEF HearReturn, Message
  <2>2. PICK m \in Messages : m = Head(toUi)
    BY <2>1, <1>13
  <2>3. m.text \in Texts
    BY MessageIs
  <2>4. /\ admission' = IF Releases(m) THEN 0 ELSE admission
        /\ goal' = IF m.via = "goal" THEN FALSE ELSE goal
    BY <2>2, <1>17 DEF HearReturn
  <2>5. admission' \in Nat /\ goal' \in BOOLEAN
    BY <2>4, <1>f DEF FlagsTyped
  <2>6. composer' \in Texts /\ parked' \in Texts /\ slot' \in Texts /\ settled' \in Texts
    <3>1. CASE m.via = "goal"
      <4>1. /\ settled' = IF m.admitted THEN settled ELSE settled \cup m.text
            /\ UNCHANGED <<composer, parked, slot>>
        BY <3>1, <2>2, <1>17 DEF HearReturn
      <4>2. QED
        BY <4>1, <2>3, <1>w DEF Texts
    <3>2. CASE m.via # "goal" /\ ~TurnedAway(m)
      <4>1. UNCHANGED <<composer, parked, slot, settled>>
        BY <3>2, <2>2, <1>17 DEF HearReturn
      <4>2. QED
        BY <4>1, <1>w
    <3>3. CASE m.via # "goal" /\ TurnedAway(m) /\ m.via = "queue"
      <4>1. ReturnQueued(m.text) /\ UNCHANGED parked
        BY <3>3, <2>2, <1>17 DEF HearReturn
      <4>2. QED
        BY <4>1, <2>3, <1>w DEF ReturnQueued, Texts
    <3>4. CASE m.via # "goal" /\ TurnedAway(m) /\ m.via # "queue"
      <4>1. Return(m.text) /\ UNCHANGED <<slot, settled>>
        BY <3>4, <2>2, <1>17 DEF HearReturn
      <4>2. QED
        BY <4>1, <2>3, <1>w DEF Return, Texts
    <3>5. QED
      BY <3>1, <3>2, <3>3, <3>4
  <2>7. toUi' \in Seq(Messages)
    BY <2>1, <1>13
  <2>8. UNCHANGED <<inbox, steer, running, drain, rewind, ctx, turns, toRt, jobs, ops, context, sent,
                    pressed, asked, goals, cut, doubt, typed>>
    BY <1>17 DEF HearReturn, runtime, counts
  <2>9. WordsTyped'
    BY <2>6, <2>8, <1>w DEF WordsTyped
  <2>10. QueuesTyped'
    BY <2>7, <2>8, <1>q DEF QueuesTyped
  <2>11. FlagsTyped'
    BY <2>5, <2>8, <1>f DEF FlagsTyped, NoRewind, NoOp
  <2>12. RuntimeTyped'
    BY <2>8, <1>r DEF RuntimeTyped
  <2>13. QED
    BY <2>9, <2>10, <2>11, <2>12 DEF Typed
<1>18. CASE HearRestored
  <2>1. toUi # <<>> /\ toUi' = Tail(toUi) /\ Head(toUi).do = "restored"
    BY <1>18 DEF HearRestored, Message
  <2>2. PICK m \in Messages : m = Head(toUi)
    BY <2>1, <1>13
  <2>3. "restored" \in Kinds(toUi)
    BY <2>1, <2>2, <1>13, KindIn, MessageIs
  <2>4. rewind.at \in 1 .. Len(turns) /\ Len(turns) \in Nat
    BY <2>3, <1>q DEF RestoreAt
  <2>5. rewind.at \in Nat /\ 1 <= rewind.at /\ rewind.at <= Len(turns)
    BY <2>4
  <2>6. turns[rewind.at] \in Texts /\ SubSeq(turns, 1, rewind.at - 1) \in Seq(Texts)
    BY <2>4, <2>5, <1>q, CutTurns
  <2>7. WordsOf(SubSeq(turns, rewind.at + 1, Len(turns))) \in Texts
    BY <2>5, <1>q, LaterTurns, WordsAreWords
  <2> DEFINE draft == IF m.conversation THEN turns[rewind.at] ELSE composer
             gone == IF m.conversation
                       THEN WordsOf(SubSeq(turns, rewind.at + 1, Len(turns))) ELSE {}
  <2>8. draft \in Texts /\ gone \in Texts
    BY <2>6, <2>7, <1>w DEF Texts
  <2>9. /\ composer' = draft
        /\ parked' = IF m.conversation THEN parked \cup composer ELSE parked
        /\ turns' = IF m.conversation THEN SubSeq(turns, 1, rewind.at - 1) ELSE turns
        /\ IF m.whole /\ drain
              THEN /\ FinishTurnQueues(draft, running # 0)
                   /\ settled' = settled \cup gone \cup steer.text
                   /\ UNCHANGED cut
              ELSE /\ drain' = (drain /\ ~CancelsDrain(m))
                   /\ settled' = settled \cup gone
                   /\ cut' = (cut \/ ~m.whole)
                   /\ UNCHANGED <<queues, admission, toRt, sent>>
    BY <2>2, <1>18 DEF HearRestored
  <2> HIDE DEF draft, gone
  <2>10. composer' \in Texts /\ parked' \in Texts
    BY <2>8, <2>9, <1>w DEF Texts
  <2>11. turns' \in Seq(Texts)
    BY <2>6, <2>9, <1>q
  <2>12. /\ slot' \in Texts /\ steer' \in [text : Texts, for : Nat] /\ drain' \in BOOLEAN
         /\ toRt' \in Seq(Calls) /\ sent' \in Nat /\ admission' \in Nat
         /\ settled' \in Texts /\ cut' \in BOOLEAN
    <3>1. CASE m.whole /\ drain
      <4>1. settled' \in Texts
        BY <3>1, <2>8, <2>9, <1>w DEF Texts
      <4>2. cut' \in BOOLEAN
        BY <3>1, <2>9, <1>f DEF FlagsTyped
      <4>3. QED
        BY <3>1, <4>1, <4>2, <2>9, DrainTyped
    <3>2. CASE ~(m.whole /\ drain)
      <4>1. drain' \in BOOLEAN /\ cut' \in BOOLEAN
        BY <3>2, <2>9
      <4>2. settled' \in Texts
        BY <3>2, <2>8, <2>9, <1>w DEF Texts
      <4>3. UNCHANGED <<slot, steer, admission, toRt, sent>>
        BY <3>2, <2>9 DEF queues
      <4>4. QED
        BY <4>1, <4>2, <4>3, <1>w, <1>q, <1>h
    <3>3. QED
      BY <3>1, <3>2
  <2>13. UNCHANGED <<inbox, running, ctx, goal, jobs, ops, context, pressed, asked, goals, doubt, typed>>
         /\ rewind' = NoRewind
    BY <1>18 DEF HearRestored, runtime, counts
  <2>14. toUi' \in Seq(Messages)
    BY <2>1, <1>13
  <2>15. WordsTyped'
    BY <2>10, <2>12, <2>13, <1>w DEF WordsTyped
  <2>16. QueuesTyped'
    BY <2>11, <2>12, <2>13, <2>14, <1>q DEF QueuesTyped
  <2>17. FlagsTyped'
    BY <2>12, <2>13, <1>f DEF FlagsTyped, NoRewind, NoOp
  <2>18. RuntimeTyped'
    BY <2>13, <1>r DEF RuntimeTyped
  <2>19. QED
    BY <2>15, <2>16, <2>17, <2>18 DEF Typed
<1>19. CASE HearOperated
  <2>1. toUi # <<>> /\ toUi' = Tail(toUi)
    BY <1>19 DEF HearOperated, Message
  <2>2. toUi' \in Seq(Messages)
    BY <2>1, <1>13
  <2>3. /\ ctx' \in {NoOp, ctx}
        /\ \/ turns' = <<>> /\ settled' = settled \cup WordsOf(turns)
           \/ UNCHANGED <<turns, settled>>
    BY <1>19 DEF HearOperated
  <2>4. WordsOf(turns) \in Texts
    BY <1>q, WordsAreWords
  <2>5. settled' \in Texts
    BY <2>3, <2>4, <1>w DEF Texts
  <2>6. turns' \in Seq(Texts)
    <3>1. <<>> \in Seq(Texts)
      OBVIOUS
    <3>2. turns' = <<>> \/ turns' = turns
      BY <2>3
    <3>3. QED
      BY <3>1, <3>2, <1>q
  <2>7. UNCHANGED <<composer, parked, inbox, slot, steer, running, admission, drain, rewind, goal, toRt,
                    jobs, ops, context, sent, pressed, asked, goals, cut, doubt, typed>>
    BY <1>19 DEF HearOperated, queues, runtime, counts
  <2>8. WordsTyped'
    BY <2>5, <2>7, <1>w DEF WordsTyped
  <2>9. QueuesTyped'
    BY <2>2, <2>6, <2>7, <1>q DEF QueuesTyped
  <2>10. FlagsTyped'
    BY <2>3, <2>7, <1>f DEF FlagsTyped, NoRewind, NoOp
  <2>11. RuntimeTyped'
    BY <2>7, <1>r DEF RuntimeTyped
  <2>12. QED
    BY <2>8, <2>9, <2>10, <2>11 DEF Typed
<1>20. CASE Take
  <2>1. jobs' \subseteq Jobs /\ ops' \subseteq Ops /\ toRt' \in Seq(Calls) /\ toUi' \in Seq(Messages)
    BY <1>20, TakeTyped
  <2>2. WordsTyped'
    BY <1>20, <1>w DEF Take, WordsTyped, queues
  <2>3. QueuesTyped'
    BY <2>1, <1>20, <1>q DEF Take, QueuesTyped
  <2>4. FlagsTyped'
    BY <1>20, <1>f DEF Take, FlagsTyped, fences, counts, NoRewind, NoOp
  <2>5. QED
    BY <2>1, <2>2, <2>3, <2>4 DEF Typed, RuntimeTyped
<1>21. CASE TurnStep
  <2>1. PICK j \in jobs : Preflight(j) \/ Begin(j) \/ ApplySteer(j) \/ Execute(j) \/ CloseOut(j)
    BY <1>21 DEF TurnStep
  <2>2. /\ jobs' \subseteq Jobs /\ toUi' \in Seq(Messages) /\ context' \in Seq(Texts)
        /\ steer' \in [text : Texts, for : Nat] /\ settled' \in Texts
    BY <2>1, TurnStepTyped
  <2>3. WordsTyped'
    BY <2>2, <1>21, <1>w DEF TurnStep, WordsTyped
  <2>4. QueuesTyped'
    BY <2>2, <1>21, <1>q DEF TurnStep, QueuesTyped
  <2>5. FlagsTyped'
    BY <1>21, <1>f DEF TurnStep, FlagsTyped, fences, counts, NoRewind, NoOp
  <2>6. RuntimeTyped'
    BY <2>2, <1>21, <1>r DEF TurnStep, RuntimeTyped
  <2>7. QED
    BY <2>3, <2>4, <2>5, <2>6 DEF Typed
<1>22. CASE \E o \in ops : Finish(o)
  BY <1>22, FinishTyped
<1>23. CASE UNCHANGED vars
  <2>1. WordsTyped'
    BY <1>23, <1>w DEF WordsTyped, vars, queues
  <2>2. QueuesTyped'
    BY <1>23, <1>q DEF QueuesTyped, vars, runtime
  <2>3. FlagsTyped'
    BY <1>23, <1>f DEF FlagsTyped, vars, fences, counts, NoRewind, NoOp
  <2>4. RuntimeTyped'
    BY <1>23, <1>r DEF RuntimeTyped, vars, runtime
  <2>5. QED
    BY <2>1, <2>2, <2>3, <2>4 DEF Typed
<1>24. QED
  BY <1>1, <1>2, <1>3, <1>4, <1>5, <1>6, <1>7, <1>8, <1>9, <1>10, <1>11, <1>12, <1>14, <1>15,
     <1>16, <1>17, <1>18, <1>19, <1>20, <1>21, <1>22, <1>23
     DEF Next, User, Interface, Runtime

-----------------------------------------------------------------------------
(* One submission at a time.                                                *)

LEMMA Unmixed ==
  ASSUME NEW call \in BOOLEAN, NEW stages, NEW message, At(call, stages, message)
  PROVE  /\ call <=> "submit" \in Kinds(toRt)
         /\ call => Once(toRt, "submit")
         /\ stages = {} <=> jobs = {}
         /\ stages # {} => \E j \in jobs : jobs = {j} /\ j.stage \in stages
         /\ \A k \in {"start", "complete", "refused"} : k \in Kinds(toUi) => k = message /\ Once(toUi, k)
<1>1. \A q, k : Once(q, k) => k \in Kinds(q)
  BY KindIn
<1>2. QED
  BY <1>1 DEF At

LEMMA InCall ==
  ASSUME OneAtATime, "submit" \in Kinds(toRt)
  PROVE  Waiting /\ At(TRUE, {}, "none")
BY Unmixed DEF OneAtATime, Waiting, InTurn, Resting

LEMMA InJob ==
  ASSUME OneAtATime, NEW j \in jobs
  PROVE  /\ jobs = {j}
         /\ \/ j.stage \in {"preflight", "begin"} /\ Waiting /\ At(FALSE, {"preflight", "begin"}, "none")
            \/ j.stage = "turn" /\ Waiting /\ At(FALSE, {"turn"}, "start")
            \/ j.stage \in {"turn", "closing"} /\ InTurn /\ At(FALSE, {"turn", "closing"}, "none")
<1>1. \A call \in BOOLEAN : \A stages, message : At(call, stages, message) =>
        stages # {} /\ \E i \in jobs : jobs = {i} /\ i.stage \in stages
  BY Unmixed
<1>2. \A call \in BOOLEAN : \A stages, message : At(call, stages, message) =>
        stages # {} /\ jobs = {j} /\ j.stage \in stages
  BY <1>1
<1>3. QED
  BY <1>2 DEF OneAtATime, Waiting, InTurn, Resting

LEMMA InMessage ==
  ASSUME OneAtATime
  PROVE  /\ "start" \in Kinds(toUi) => Waiting /\ At(FALSE, {"turn"}, "start")
         /\ "refused" \in Kinds(toUi) => Waiting /\ At(FALSE, {}, "refused")
         /\ "complete" \in Kinds(toUi) => InTurn /\ At(FALSE, {}, "complete")
<1> DEFINE None(k) == k \notin Kinds(toUi)
           AllNone == None("start") /\ None("refused") /\ None("complete")
<1>1. \A call \in BOOLEAN : \A stages, message : At(call, stages, message) =>
        \A k \in {"start", "complete", "refused"} : k \in Kinds(toUi) => k = message
  BY Unmixed
<1>2. \A call \in BOOLEAN : \A stages : At(call, stages, "none") => AllNone
  BY <1>1
<1>3. At(FALSE, {"turn"}, "start") => None("refused") /\ None("complete")
  BY <1>1
<1>4. At(FALSE, {}, "refused") => None("start") /\ None("complete")
  BY <1>1
<1>5. At(FALSE, {}, "complete") => None("start") /\ None("refused")
  BY <1>1
<1> HIDE DEF None
<1>6. /\ At(TRUE, {}, "none") \/ At(FALSE, {"preflight", "begin"}, "none")
           \/ At(FALSE, {"turn", "closing"}, "none") \/ At(FALSE, {}, "none") => AllNone
  BY <1>2
<1>7. /\ ~None("start") => Waiting /\ At(FALSE, {"turn"}, "start")
      /\ ~None("refused") => Waiting /\ At(FALSE, {}, "refused")
      /\ ~None("complete") => InTurn /\ At(FALSE, {}, "complete")
  BY <1>3, <1>4, <1>5, <1>6, Zenon DEF OneAtATime, Waiting, InTurn, Resting
<1>8. QED
  BY <1>7 DEF None

LEMMA AtRest ==
  ASSUME OneAtATime, running = 0, admission = 0, ~goal
  PROVE  Resting
BY DEF OneAtATime, Waiting, InTurn

\* A step that leaves the submission where it is.
Neutral ==
  /\ UNCHANGED <<running, admission, sent, goal, goals, jobs>>
  /\ ("submit" \notin Kinds(toRt) => "submit" \notin Kinds(toRt'))
  /\ (Once(toRt, "submit") => Once(toRt', "submit"))
  /\ \A c \in Range(toRt') : c.do = "submit" => c \in Range(toRt)
  /\ \A k \in {"start", "complete", "refused"} :
       /\ k \notin Kinds(toUi) => k \notin Kinds(toUi')
       /\ Once(toUi, k) => Once(toUi', k)
  /\ \A m \in Range(toUi') :
       m \in Range(toUi) \/ (m.do # "returned" /\ Kind(m) \notin {"start", "refused", "returned"})

LEMMA NeutralStep ==
  ASSUME Submissions, Neutral
  PROVE  Submissions'
<1>1. \A call \in BOOLEAN : \A stages, message : At(call, stages, message) => At(call, stages, message)'
  BY DEF At, Neutral
<1>2. OneAtATime'
  BY <1>1 DEF Submissions, OneAtATime, Waiting, InTurn, Resting, Neutral
<1>3. Marked'
  BY DEF Submissions, Marked, Mine, Neutral
<1>4. OneGoal'
  BY DEF Submissions, OneGoal, Neutral
<1>5. QED
  BY <1>2, <1>3, <1>4 DEF Submissions

LEMMA Unsent ==
  ASSUME Submissions, UNCHANGED <<running, admission, sent, goal, goals, jobs, toRt, toUi>>
  PROVE  Submissions'
BY NeutralStep DEF Neutral

LEMMA CallMade ==
  ASSUME Submissions, toRt \in Seq(Calls), NEW c, c.do # "submit", Kind(c) # "submit",
         toRt' = Append(toRt, c),
         UNCHANGED <<running, admission, sent, goal, goals, jobs, toUi>>
  PROVE  Submissions'
<1>1. /\ Range(toRt') = Range(toRt) \cup {c} /\ Kinds(toRt') = Kinds(toRt) \cup {Kind(c)}
      /\ \A k : Kind(c) # k /\ Once(toRt, k) => Once(toRt', k)
  BY AppendFacts
<1>2. Neutral
  BY <1>1 DEF Neutral
<1>3. QED
  BY <1>2, NeutralStep

\* A message is heard that says nothing of the submission under way.
LEMMA OtherHeard ==
  ASSUME Submissions, toUi \in Seq(Messages), toUi # <<>>, toUi' = Tail(toUi),
         Kind(Head(toUi)) \notin {"start", "complete", "refused"},
         UNCHANGED <<running, admission, sent, goal, goals, jobs, toRt>>
  PROVE  Submissions'
<1>1. /\ Range(toUi) = Range(toUi') \cup {Head(toUi)}
      /\ Kinds(toUi) = Kinds(toUi') \cup {Kind(Head(toUi))}
      /\ \A k : Once(toUi, k) /\ Kind(Head(toUi)) # k => Once(toUi', k)
  BY TailFacts
<1>2. Neutral
  BY <1>1 DEF Neutral
<1>3. QED
  BY <1>2, NeutralStep

\* A submission is sent while nothing is under way.
LEMMA SendStep ==
  ASSUME Submissions, sent \in Nat, goals \in Nat, toRt \in Seq(Calls),
         toUi \in Seq(Messages), NEW c,
         jobs = {}, "submit" \notin Kinds(toRt), ~goal,
         \A k \in {"start", "complete", "refused"} : k \notin Kinds(toUi'),
         Range(toUi') \subseteq Range(toUi),
         toRt' = Append(toRt, c), c.do = "submit", Kind(c) = "submit", c.id = sent + 1,
         sent' = sent + 1, running' = 0, jobs' = {}, goal' \in BOOLEAN,
         goal' <=> c.via = "goal",
         IF c.via = "goal" THEN /\ admission' = 0 /\ goals = 0 /\ goals' = 1 /\ MaxGoals >= 1
                           ELSE /\ admission' = sent + 1 /\ goals' = goals
  PROVE  Submissions'
<1>1. /\ Range(toRt') = Range(toRt) \cup {c} /\ Kinds(toRt') = Kinds(toRt) \cup {"submit"}
      /\ Once(toRt', "submit")
  BY AppendFacts
<1>2. \A k \in {"start", "complete", "refused"} : k \notin Kinds(toUi')
  OBVIOUS
<1>3. sent + 1 # 0 /\ sent' # 0
  OBVIOUS
<1>4. OneAtATime'
  <2>1. At(TRUE, {}, "none")'
    BY <1>1, <1>2 DEF At
  <2>2. Waiting'
    BY <2>1, <1>3 DEF Waiting
  <2>3. QED
    BY <2>2 DEF OneAtATime
<1>5. Marked'
  <2>1. \A d \in Range(toRt) : d.do # "submit"
    <3>1. \A d \in Range(toRt) : d.do = "submit" => Kind(d) = "submit"
      BY DEF Kind
    <3>2. QED
      BY <3>1, KindIn
  <2>2. \A d \in Range(toRt') : d.do = "submit" => Mine(d)'
    BY <2>1, <1>1 DEF Mine
  <2>3. ASSUME NEW m \in Range(toUi')
        PROVE  /\ Kind(m) \notin {"start", "refused"}
               /\ Kind(m) = "returned" =>
                    m.id # 0 /\ m.id <= sent' /\ m.id # admission' /\ (m.via = "goal" => ~goal')
    <3>1. Kind(m) \notin {"start", "refused"}
      BY <1>2, KindIn
    <3>2. m \in Range(toUi)
      OBVIOUS
    <3>3. CASE Kind(m) = "returned"
      <4>1. m.id # 0 /\ m.id <= sent
        BY <3>2, <3>3 DEF Submissions, Marked
      <4>2. m.do = "returned"
        BY <3>3 DEF Kind
      <4>3. m.via = "goal" => goals # 0
        BY <3>2, <4>2 DEF Submissions, OneGoal
      <4>4. m.via = "goal" => ~goal'
        BY <4>3
      <4>5. m \in Messages
        BY <3>2 DEF Range
      <4>6. m.id \in Nat
        BY <4>2, <4>5, MessageIs
      <4>7. m.id <= sent' /\ m.id # admission'
        BY <4>1, <4>6
      <4>8. QED
        BY <3>1, <4>1, <4>4, <4>7
    <3>4. QED
      BY <3>1, <3>3
  <2>4. QED
    BY <2>2, <2>3 DEF Marked
<1>6. OneGoal'
  BY <1>1 DEF Submissions, OneGoal
<1>7. QED
  BY <1>4, <1>5, <1>6 DEF Submissions

LEMMA SentAtRest ==
  ASSUME Typed, Submissions, running = 0, admission = 0, ~goal,
         NEW text \in Texts, NEW via \in {"composer", "queue"}, Send(text, via),
         UNCHANGED <<running, goal, goals, jobs>>,
         Range(toUi') \subseteq Range(toUi), Kinds(toUi') \subseteq Kinds(toUi)
  PROVE  Submissions'
<1>1. At(FALSE, {}, "none")
  BY AtRest DEF Submissions, Resting
<1>2. /\ jobs = {} /\ "submit" \notin Kinds(toRt)
      /\ \A k \in {"start", "complete", "refused"} : k \notin Kinds(toUi')
  BY <1>1 DEF At
<1>3. /\ sent \in Nat /\ goals \in Nat /\ toRt \in Seq(Calls) /\ toUi \in Seq(Messages)
      /\ goal \in BOOLEAN
  BY DEF Typed, FlagsTyped, QueuesTyped
<1>4. via \in Vias /\ via # "goal"
  BY DEF Vias
<1>5. PICK c \in Calls : /\ c.do = "submit" /\ Kind(c) = "submit" /\ c.id = sent + 1 /\ c.via = via
                         /\ toRt' = Append(toRt, c)
  BY <1>3, <1>4, Said DEF Send
<1>6. sent' = sent + 1 /\ admission' = sent + 1 /\ running' = 0 /\ jobs' = {} /\ goals' = goals
      /\ goal' \in BOOLEAN /\ (goal' <=> c.via = "goal")
  BY <1>2, <1>3, <1>4, <1>5 DEF Send
<1>7. QED
  BY <1>2, <1>3, <1>4, <1>5, <1>6, SendStep

LEMMA SubmitKeeps ==
  ASSUME Typed, Submissions, NEW text \in Texts, Submit(text),
         UNCHANGED <<running, goal, goals, jobs, toUi>>
  PROVE  Submissions'
<1>1. CASE UNCHANGED <<toRt, sent, admission>>
  BY <1>1, Unsent
<1>2. CASE Send(text, "composer") /\ ~Pending /\ ~(Busy /\ ~Rewinding) /\ ~Rewinding
  <2>1. running = 0 /\ admission = 0 /\ ~goal
    BY <1>2 DEF Pending, Busy
  <2>2. QED
    BY <2>1, <1>2, SentAtRest
<1>3. QED
  BY <1>1, <1>2 DEF Submit

LEMMA DrainKeeps ==
  ASSUME Typed, Submissions, NEW draft, FinishTurnQueues(draft, running # 0),
         UNCHANGED <<running, goal, goals, jobs, toUi>>
  PROVE  Submissions'
<1>1. CASE PickedUp(draft, running # 0)
  <2>1. Send(slot, "queue") /\ slot \in Texts /\ running = 0 /\ admission = 0 /\ ~goal
    BY <1>1 DEF FinishTurnQueues, PickedUp, Pending, Typed, WordsTyped
  <2>2. QED
    BY <2>1, SentAtRest
<1>2. CASE ~PickedUp(draft, running # 0)
  BY <1>2, Unsent DEF FinishTurnQueues
<1>3. QED
  BY <1>1, <1>2

LEMMA HearStartKeeps ==
  ASSUME Typed, Submissions, HearStart
  PROVE  Submissions' /\ running' = sent /\ running = 0 /\ sent # 0
         /\ (\E j \in jobs : jobs = {j} /\ j.stage = "turn")
<1>1. /\ toUi # <<>> /\ toUi' = Tail(toUi) /\ toUi \in Seq(Messages) /\ Head(toUi).do = "start"
      /\ admission' = 0 /\ ~goal' /\ running' = Head(toUi).id
      /\ UNCHANGED <<sent, goals, jobs, toRt>>
  BY DEF HearStart, Message, Typed, QueuesTyped, runtime, counts
<1>2. PICK m \in Messages : m = Head(toUi)
  BY <1>1, TailFacts
<1>3. m \in Range(toUi) /\ Kind(m) = "start"
  BY <1>1, <1>2, TailFacts, MessageIs
<1>4. "start" \in Kinds(toUi)
  BY <1>3, KindIn
<1>5. Waiting /\ At(FALSE, {"turn"}, "start")
  BY <1>4, InMessage DEF Submissions
<1>6. running' = sent
  BY <1>1, <1>2, <1>3 DEF Submissions, Marked
<1>7. /\ Range(toUi') \subseteq Range(toUi) /\ Kinds(toUi') \subseteq Kinds(toUi)
      /\ (Once(toUi, "start") => "start" \notin Kinds(toUi'))
  BY <1>1, <1>2, <1>3, TailFacts
<1>8. At(FALSE, {"turn", "closing"}, "none")'
  BY <1>5, <1>7, <1>1 DEF At
<1>9. PICK j \in jobs : jobs = {j} /\ j.stage = "turn"
  BY <1>5 DEF At
<1>10. sent # 0 /\ running = 0
  BY <1>5 DEF Waiting
<1>11. OneAtATime'
  <2>1. InTurn'
    BY <1>1, <1>6, <1>8, <1>10 DEF InTurn
  <2>2. QED
    BY <2>1 DEF OneAtATime
<1>12. Marked'
  <2>1. "submit" \notin Kinds(toRt) /\ j.stage \notin {"preflight", "begin"}
    BY <1>5, <1>9 DEF At
  <2>2. \A c \in Range(toRt') : c.do # "submit"
    <3>1. \A c \in Range(toRt) : c.do = "submit" => Kind(c) = "submit"
      BY DEF Kind
    <3>2. QED
      BY <3>1, <2>1, <1>1, KindIn
  <2>3. \A i \in jobs' : i.id = sent' /\ i.stage \notin {"preflight", "begin"}
    BY <2>1, <1>1, <1>9 DEF Submissions, Marked
  <2>4. "start" \notin Kinds(toUi') /\ "refused" \notin Kinds(toUi')
    BY <1>5, <1>7 DEF At
  <2>5. \A n \in Range(toUi') : Kind(n) # "start" /\ Kind(n) # "refused"
    BY <2>4, KindIn
  <2>6. ASSUME NEW n \in Range(toUi'), Kind(n) = "returned"
        PROVE  n.id # 0 /\ n.id <= sent' /\ n.id # admission'
    BY <2>6, <1>1, <1>7 DEF Submissions, Marked
  <2>7. QED
    BY <2>2, <2>3, <2>5, <2>6, <1>1 DEF Marked
<1>13. OneGoal'
  BY <1>1, <1>7 DEF Submissions, OneGoal
<1>14. QED
  BY <1>6, <1>9, <1>10, <1>11, <1>12, <1>13 DEF Submissions

LEMMA HearCompleteKeeps ==
  ASSUME Typed, Submissions, HearComplete
  PROVE  Submissions' /\ jobs = {} /\ running # 0
<1>1. /\ toUi # <<>> /\ toUi' = Tail(toUi) /\ toUi \in Seq(Messages) /\ Head(toUi).do = "complete"
      /\ running' = 0
      /\ UNCHANGED <<goal, goals, jobs>>
  BY DEF HearComplete, Message, Typed, QueuesTyped, runtime, counts
<1>2. PICK m \in Messages : m = Head(toUi)
  BY <1>1, TailFacts
<1>3. m \in Range(toUi) /\ Kind(m) = "complete"
  BY <1>1, <1>2, TailFacts, MessageIs
<1>4. InTurn /\ At(FALSE, {}, "complete")
  BY <1>3, KindIn, InMessage DEF Submissions
<1>5. /\ Range(toUi') \subseteq Range(toUi) /\ Kinds(toUi') \subseteq Kinds(toUi)
      /\ (Once(toUi, "complete") => "complete" \notin Kinds(toUi'))
  BY <1>1, <1>2, <1>3, TailFacts
<1>6. /\ jobs = {} /\ "submit" \notin Kinds(toRt) /\ ~goal /\ running # 0 /\ admission = 0
      /\ \A k \in {"start", "complete", "refused"} : k \notin Kinds(toUi')
  BY <1>4, <1>5 DEF At, InTurn
<1>7. CASE UNCHANGED <<admission, toRt, sent>>
  <2>1. At(FALSE, {}, "none")'
    BY <1>1, <1>6, <1>7 DEF At
  <2>2. OneAtATime'
    BY <2>1, <1>1, <1>6, <1>7 DEF OneAtATime, Resting
  <2>3. Marked'
    <3>1. \A n \in Range(toUi') : Kind(n) # "start" /\ Kind(n) # "refused"
      BY <1>6, KindIn
    <3>2. \A c \in Range(toRt') : c.do # "submit"
      <4>1. \A c \in Range(toRt) : c.do = "submit" => Kind(c) = "submit"
        BY DEF Kind
      <4>2. QED
        BY <4>1, <1>6, <1>7, KindIn
    <3>3. jobs' = {}
      BY <1>1, <1>6
    <3>4. ASSUME NEW n \in Range(toUi'), Kind(n) = "returned"
          PROVE  n.id # 0 /\ n.id <= sent' /\ n.id # admission' /\ ~goal'
      BY <3>4, <1>1, <1>5, <1>6, <1>7 DEF Submissions, Marked
    <3>5. QED
      BY <3>1, <3>2, <3>3, <3>4 DEF Marked
  <2>4. OneGoal'
    BY <1>1, <1>5, <1>7 DEF Submissions, OneGoal
  <2>5. QED
    BY <2>2, <2>3, <2>4, <1>6 DEF Submissions
<1>8. CASE Send(slot, "queue")
  <2>1. /\ sent \in Nat /\ goals \in Nat /\ toRt \in Seq(Calls) /\ slot \in Texts /\ goal \in BOOLEAN
    BY DEF Typed, FlagsTyped, QueuesTyped, WordsTyped
  <2>2. PICK c \in Calls : /\ c.do = "submit" /\ Kind(c) = "submit" /\ c.id = sent + 1 /\ c.via = "queue"
                           /\ toRt' = Append(toRt, c)
    BY <1>8, <2>1, Said DEF Send, Vias
  <2>3. sent' = sent + 1 /\ admission' = sent + 1 /\ running' = 0 /\ jobs' = {} /\ goals' = goals
        /\ goal' \in BOOLEAN /\ (goal' <=> c.via = "goal")
    BY <1>1, <1>6, <1>8, <2>1, <2>2 DEF Send
  <2>4. Submissions'
    BY <1>1, <1>5, <1>6, <2>1, <2>2, <2>3, SendStep
  <2>5. QED
    BY <2>4, <1>6
<1>9. QED
  BY <1>7, <1>8 DEF HearComplete, FinishTurnQueues

LEMMA HearReturnKeeps ==
  ASSUME Typed, Submissions, HearReturn
  PROVE  /\ Submissions'
         /\ Head(toUi).admitted => admission' = admission /\ goal' = goal
                                   /\ (~TurnedAway(Head(toUi)) \/ Head(toUi).via = "goal")
         /\ ~Head(toUi).admitted => /\ jobs = {} /\ running = 0 /\ admission' = 0 /\ ~goal'
                                    /\ TurnedAway(Head(toUi)) \/ Head(toUi).via = "goal"
<1>1. /\ toUi # <<>> /\ toUi' = Tail(toUi) /\ toUi \in Seq(Messages) /\ Head(toUi).do = "returned"
      /\ UNCHANGED <<running, sent, goals, jobs, toRt>>
      /\ goal \in BOOLEAN
  BY DEF HearReturn, Message, Typed, QueuesTyped, FlagsTyped, runtime, counts
<1>2. PICK m \in Messages : m = Head(toUi)
  BY <1>1, TailFacts
<1>3. m \in Range(toUi) /\ Kind(m) = IF m.admitted THEN "returned" ELSE "refused"
  BY <1>1, <1>2, TailFacts, MessageIs
<1>4. /\ admission' = IF m.id = admission THEN 0 ELSE admission
      /\ goal' = IF m.via = "goal" THEN FALSE ELSE goal
  BY <1>2 DEF HearReturn, Releases
<1>5. CASE m.admitted
  <2>1. m.id # admission /\ (m.via = "goal" => ~goal)
    BY <1>3, <1>5 DEF Submissions, Marked
  <2>2. admission' = admission /\ goal' = goal
    BY <1>1, <1>4, <2>1
  <2>3. ~TurnedAway(m)
    BY <2>1 DEF TurnedAway
  <2>4. Submissions'
    BY <2>2, <1>1, <1>2, <1>3, <1>5, OtherHeard
  <2>5. QED
    BY <2>2, <2>3, <2>4, <1>2, <1>5
<1>6. CASE ~m.admitted
  <2>1. Kind(m) = "refused" /\ Mine(m) /\ ~m.ok
    BY <1>3, <1>6 DEF Submissions, Marked
  <2>2. Waiting /\ At(FALSE, {}, "refused")
    BY <1>3, <2>1, KindIn, InMessage DEF Submissions
  <2>3. admission' = 0 /\ ~goal'
    BY <1>4, <2>1, <2>2 DEF Waiting, Mine
  <2>4. m.via # "goal" => TurnedAway(m)
    BY <2>1, <2>2 DEF Waiting, Mine, TurnedAway
  <2>5. /\ Range(toUi') \subseteq Range(toUi) /\ Kinds(toUi') \subseteq Kinds(toUi)
        /\ (Once(toUi, "refused") => "refused" \notin Kinds(toUi'))
    BY <1>1, <1>2, <2>1, TailFacts
  <2>6. /\ jobs = {} /\ "submit" \notin Kinds(toRt) /\ running = 0
        /\ \A k \in {"start", "complete", "refused"} : k \notin Kinds(toUi')
    BY <2>2, <2>5 DEF At, Waiting
  <2>7. At(FALSE, {}, "none")'
    BY <2>6, <1>1 DEF At
  <2>8. OneAtATime'
    BY <2>3, <2>6, <2>7, <1>1 DEF OneAtATime, Resting
  <2>9. Marked'
    <3>1. \A n \in Range(toUi') : Kind(n) # "start" /\ Kind(n) # "refused"
      BY <2>6, KindIn
    <3>2. \A c \in Range(toRt') : c.do # "submit"
      <4>1. \A c \in Range(toRt) : c.do = "submit" => Kind(c) = "submit"
        BY DEF Kind
      <4>2. QED
        BY <4>1, <2>6, <1>1, KindIn
    <3>3. ASSUME NEW n \in Range(toUi'), Kind(n) = "returned"
          PROVE  n.id # 0 /\ n.id <= sent' /\ n.id # admission'
      BY <3>3, <2>3, <2>5, <1>1 DEF Submissions, Marked
    <3>4. jobs' = {}
      BY <1>1, <2>6
    <3>5. QED
      BY <3>1, <3>2, <3>3, <3>4, <2>3 DEF Marked
  <2>10. OneGoal'
    BY <2>3, <2>5, <1>1 DEF Submissions, OneGoal
  <2>11. QED
    BY <2>3, <2>4, <2>6, <2>8, <2>9, <2>10, <1>2, <1>6 DEF Submissions
<1>7. QED
  BY <1>5, <1>6

LEMMA TakeKeeps ==
  ASSUME Typed, Submissions, Take
  PROVE  Submissions'
<1>1. /\ toRt # <<>> /\ toRt' = Tail(toRt) /\ toRt \in Seq(Calls) /\ toUi \in Seq(Messages)
      /\ UNCHANGED <<running, admission, sent, goal, goals>>
  BY DEF Take, Typed, QueuesTyped, fences, counts
<1>2. PICK c \in Calls : c = Head(toRt)
  BY <1>1, TailFacts
<1>3. /\ Range(toRt) = Range(toRt') \cup {c} /\ Kinds(toRt) = Kinds(toRt') \cup {Kind(c)}
      /\ \A k : Once(toRt, k) /\ Kind(c) = k => k \notin Kinds(toRt')
      /\ \A k : Once(toRt, k) /\ Kind(c) # k => Once(toRt', k)
  BY <1>1, <1>2, TailFacts
<1>4. CASE c.do = "submit"
  <2> DEFINE new == [id |-> c.id, text |-> c.text, via |-> c.via, stage |-> "preflight", ok |-> TRUE]
  <2>1. jobs' = jobs \cup {new} /\ toUi' = toUi
    BY <1>2, <1>4 DEF Take
  <2>2. new.id = c.id /\ new.via = c.via /\ new.stage = "preflight"
    OBVIOUS
  <2> HIDE DEF new
  <2>3. Kind(c) = "submit"
    BY <1>4, CallIs
  <2>4. Waiting /\ At(TRUE, {}, "none") /\ Mine(c)
    BY <1>3, <1>4, <2>3, InCall DEF Submissions, Marked
  <2>5. jobs' = {new} /\ "submit" \notin Kinds(toRt')
    BY <1>3, <2>1, <2>3, <2>4 DEF At
  <2>6. At(FALSE, {"preflight", "begin"}, "none")'
    BY <2>1, <2>2, <2>4, <2>5 DEF At
  <2>7. OneAtATime'
    BY <2>4, <2>6, <1>1 DEF OneAtATime, Waiting
  <2>8. Marked'
    BY <1>1, <1>3, <2>1, <2>2, <2>4, <2>5 DEF Submissions, Marked, Mine
  <2>9. OneGoal'
    <3>1. goals = 0 => c.via # "goal"
      BY <1>3, <1>4 DEF Submissions, OneGoal
    <3>2. QED
      BY <3>1, <1>1, <1>3, <2>1, <2>2, <2>5 DEF Submissions, OneGoal
  <2>10. QED
    BY <2>7, <2>8, <2>9 DEF Submissions
<1>5. CASE c.do # "submit"
  <2>1. Kind(c) # "submit"
    BY <1>5, CallIs
  <2>2. PICK m : /\ m = [do |-> "restored", whole |-> FALSE, conversation |-> FALSE, text |-> {}]
                 /\ jobs' = jobs /\ (toUi' = toUi \/ toUi' = Append(toUi, m))
    BY <1>2, <1>5 DEF Take
  <2>3. m.do = "restored" /\ Kind(m) = "restored"
    BY <2>2 DEF Kind
  <2>4. CASE toUi' = toUi
    <3>1. Neutral
      BY <1>1, <1>3, <2>1, <2>2, <2>4 DEF Neutral
    <3>2. QED
      BY <3>1, NeutralStep
  <2>5. CASE toUi' = Append(toUi, m)
    <3>1. /\ Range(toUi') = Range(toUi) \cup {m} /\ Kinds(toUi') = Kinds(toUi) \cup {"restored"}
          /\ \A k : k # "restored" /\ Once(toUi, k) => Once(toUi', k)
      BY <1>1, <2>3, <2>5, AppendFacts
    <3>2. Neutral
      BY <1>1, <1>3, <2>1, <2>2, <2>3, <3>1 DEF Neutral
    <3>3. QED
      BY <3>2, NeutralStep
  <2>6. QED
    BY <2>2, <2>4, <2>5
<1>6. QED
  BY <1>4, <1>5

\* The job goes on without a message.
LEMMA JobMoves ==
  ASSUME Submissions, NEW j \in jobs, NEW k, jobs' = {k}, k.id = j.id, k.via = j.via,
         UNCHANGED <<running, admission, sent, goal, goals, toRt, toUi>>,
         \/ j.stage = "preflight" /\ k.stage = "begin"
         \/ j.stage = "turn" /\ k.stage = "closing" /\ toUi = <<>>
  PROVE  Submissions'
<1>1. CASE j.stage = "preflight" /\ k.stage = "begin"
  <2>1. Waiting /\ At(FALSE, {"preflight", "begin"}, "none")
    BY <1>1, InJob DEF Submissions
  <2>2. At(FALSE, {"preflight", "begin"}, "none")'
    BY <1>1, <2>1 DEF At
  <2>3. OneAtATime'
    BY <2>1, <2>2 DEF OneAtATime, Waiting
  <2>4. Marked'
    BY <1>1 DEF Submissions, Marked, Mine
  <2>5. OneGoal'
    BY DEF Submissions, OneGoal
  <2>6. QED
    BY <2>3, <2>4, <2>5 DEF Submissions
<1>2. CASE j.stage = "turn" /\ k.stage = "closing" /\ toUi = <<>>
  <2>1. ~At(FALSE, {"turn"}, "start")
    BY <1>2, EmptyFacts DEF At
  <2>2. InTurn /\ At(FALSE, {"turn", "closing"}, "none")
    BY <1>2, <2>1, InJob DEF Submissions
  <2>3. At(FALSE, {"turn", "closing"}, "none")'
    BY <1>2, <2>2 DEF At
  <2>4. OneAtATime'
    BY <2>2, <2>3 DEF OneAtATime, InTurn
  <2>5. Marked'
    BY <1>2 DEF Submissions, Marked, Mine
  <2>6. OneGoal'
    BY DEF Submissions, OneGoal
  <2>7. QED
    BY <2>4, <2>5, <2>6 DEF Submissions
<1>3. QED
  BY <1>1, <1>2

LEMMA RefuseKeeps ==
  ASSUME Typed, Submissions, NEW j \in jobs, j.stage \in {"preflight", "begin"},
         NEW why \in {"recovery", "restoring", "executing", "checkpoint"}, Refuse(j, why),
         UNCHANGED <<running, admission, sent, goal, goals, toRt>>
  PROVE  Submissions'
<1>1. j \in Jobs /\ toUi \in Seq(Messages)
  BY DEF Typed, RuntimeTyped, QueuesTyped
<1>2. PICK m : m = Returned(j, FALSE, why)
  OBVIOUS
<1>a. j.stage # "closing"
  OBVIOUS
<1>3. m.do = "returned" /\ m.id = j.id /\ m.via = j.via /\ ~m.ok /\ ~m.admitted /\ Kind(m) = "refused"
  BY <1>2, <1>a DEF Returned, Kind
<1>4. jobs' = jobs \ {j} /\ toUi' = Append(toUi, m)
  BY <1>2 DEF Refuse
<1>5. /\ Range(toUi') = Range(toUi) \cup {m} /\ Kinds(toUi') = Kinds(toUi) \cup {"refused"}
      /\ ("refused" \notin Kinds(toUi) => Once(toUi', "refused"))
  BY <1>1, <1>3, <1>4, AppendFacts
<1>6. jobs' = {} /\ Waiting /\ At(FALSE, {"preflight", "begin"}, "none")
  BY <1>4, InJob DEF Submissions
<1>7. At(FALSE, {}, "refused")'
  BY <1>5, <1>6 DEF At
<1>8. OneAtATime'
  BY <1>6, <1>7 DEF OneAtATime, Waiting
<1>9. Mine(j)
  BY DEF Submissions, Marked
<1>10. Marked'
  BY <1>3, <1>5, <1>6, <1>9 DEF Submissions, Marked, Mine
<1>11. OneGoal'
  <2>1. goals = 0 => m.via # "goal"
    BY <1>3 DEF Submissions, OneGoal
  <2>2. QED
    BY <2>1, <1>5, <1>6 DEF Submissions, OneGoal
<1>12. QED
  BY <1>8, <1>10, <1>11 DEF Submissions

LEMMA AnnounceKeeps ==
  ASSUME Typed, Submissions, NEW j \in jobs, j.stage = "begin", Move(j, "turn"),
         NEW m, m.do = "start", m.id = j.id, Kind(m) = "start", toUi' = Append(toUi, m),
         UNCHANGED <<running, admission, sent, goal, goals, toRt>>
  PROVE  Submissions'
<1>1. j \in Jobs /\ toUi \in Seq(Messages)
  BY DEF Typed, RuntimeTyped, QueuesTyped
<1>3. m.do = "start" /\ m.id = j.id /\ Kind(m) = "start"
  OBVIOUS
<1>4. PICK k : k = [j EXCEPT !.stage = "turn"]
  OBVIOUS
<1>5. k.stage = "turn" /\ k.id = j.id /\ k.via = j.via
  BY <1>1, <1>4, Moved
<1>6. /\ Waiting /\ At(FALSE, {"preflight", "begin"}, "none") /\ jobs = {j}
  BY InJob DEF Submissions
<1>7. jobs' = {k}
  BY <1>4, <1>6 DEF Move
<1>8. /\ Range(toUi') = Range(toUi) \cup {m} /\ Kinds(toUi') = Kinds(toUi) \cup {"start"}
      /\ ("start" \notin Kinds(toUi) => Once(toUi', "start"))
  BY <1>1, <1>3, AppendFacts
<1>9. At(FALSE, {"turn"}, "start")'
  BY <1>5, <1>6, <1>7, <1>8 DEF At
<1>10. OneAtATime'
  BY <1>6, <1>9 DEF OneAtATime, Waiting
<1>11. j.id = sent
  BY DEF Submissions, Marked
<1>12. Marked'
  BY <1>3, <1>5, <1>7, <1>8, <1>11 DEF Submissions, Marked, Mine
<1>13. OneGoal'
  BY <1>3, <1>5, <1>7, <1>8 DEF Submissions, OneGoal
<1>14. QED
  BY <1>10, <1>12, <1>13 DEF Submissions

LEMMA CloseOutKeeps ==
  ASSUME Typed, Submissions, NEW j \in jobs, CloseOut(j),
         UNCHANGED <<running, admission, sent, goal, goals, toRt>>
  PROVE  /\ Submissions'
         /\ \E a, b \in Messages :
              /\ toUi' = Append(Append(toUi, a), b)
              /\ a.do = "complete" /\ a.text = j.text /\ Kind(a) = "complete"
              /\ b.do = "returned" /\ b.admitted /\ Kind(b) = "returned" /\ b.why = "turn"
<1>1. j \in Jobs /\ toUi \in Seq(Messages) /\ j.stage = "closing" /\ j.text \in Texts /\ j.ok \in BOOLEAN
  BY DEF Typed, RuntimeTyped, QueuesTyped, CloseOut, Jobs
<1>2. PICK a : a = [do |-> "complete", text |-> j.text]
  OBVIOUS
<1>3. a.do = "complete" /\ Kind(a) = "complete" /\ a.text = j.text /\ a \in Messages
  BY <1>1, <1>2 DEF Kind, Messages
<1>4. PICK b : b = Returned(j, j.ok, "turn")
  OBVIOUS
<1>5. /\ b.do = "returned" /\ b.id = j.id /\ b.via = j.via /\ Kind(b) = "returned" /\ b \in Messages
      /\ b.admitted /\ b.why = "turn"
  BY <1>1, <1>4, Answers
<1>6. toUi' = Append(Append(toUi, a), b)
  <2>1. toUi' = toUi \o <<a, b>>
    BY <1>2, <1>4 DEF CloseOut
  <2>2. QED
    BY <2>1, <1>1, <1>3, <1>5, TwoMessages
<1>7. PICK q \in Seq(Messages) : q = Append(toUi, a)
  BY <1>1, <1>3, Appended
<1>8. /\ Range(q) = Range(toUi) \cup {a} /\ Kinds(q) = Kinds(toUi) \cup {"complete"}
      /\ ("complete" \notin Kinds(toUi) => Once(q, "complete"))
  BY <1>1, <1>3, <1>7, AppendFacts
<1>9. /\ Range(toUi') = Range(q) \cup {b} /\ Kinds(toUi') = Kinds(q) \cup {"returned"}
      /\ (Once(q, "complete") => Once(toUi', "complete"))
  <2>1. toUi' = Append(q, b)
    BY <1>6, <1>7
  <2>2. QED
    BY <2>1, <1>5, AppendFacts
<1>10. jobs' = {} /\ InTurn /\ At(FALSE, {"turn", "closing"}, "none")
  BY <1>1, InJob DEF Submissions, CloseOut
<1>11. At(FALSE, {}, "complete")'
  BY <1>8, <1>9, <1>10 DEF At
<1>12. OneAtATime'
  BY <1>10, <1>11 DEF OneAtATime, InTurn
<1>13. j.id = sent /\ sent \in Nat /\ sent # 0 /\ admission = 0 /\ ~goal
  BY <1>10 DEF Submissions, Marked, InTurn, Typed, FlagsTyped
<1>14. Range(toUi') = Range(toUi) \cup {a, b}
  BY <1>8, <1>9
<1>15. Marked'
  <2>1. \A c \in Range(toRt') : c.do = "submit" => Mine(c)'
    BY DEF Submissions, Marked, Mine
  <2>2. \A m \in Range(toUi) :
       /\ Kind(m) = "start" => m.id = sent
       /\ Kind(m) = "refused" => Mine(m)' /\ ~m.ok
       /\ Kind(m) = "returned" =>
            m.id # 0 /\ m.id <= sent /\ m.id # admission /\ (m.via = "goal" => ~goal)
    BY DEF Submissions, Marked, Mine
  <2>3. b.id # 0 /\ b.id <= sent /\ b.id # admission
    BY <1>5, <1>13
  <2>4. QED
    BY <2>1, <2>2, <2>3, <1>3, <1>5, <1>10, <1>13, <1>14 DEF Marked
<1>16. OneGoal'
  <2>1. goals = 0 => b.via # "goal"
    BY <1>5 DEF Submissions, OneGoal
  <2>2. QED
    BY <2>1, <1>3, <1>5, <1>10, <1>14 DEF Submissions, OneGoal
<1>17. QED
  BY <1>3, <1>5, <1>6, <1>12, <1>15, <1>16 DEF Submissions

LEMMA TurnStepKeeps ==
  ASSUME Typed, Submissions, TurnStep
  PROVE  Submissions'
<1>1. PICK j \in jobs : Preflight(j) \/ Begin(j) \/ ApplySteer(j) \/ Execute(j) \/ CloseOut(j)
  BY DEF TurnStep
<1>2. UNCHANGED <<running, admission, sent, goal, goals, toRt>>
  BY DEF TurnStep, fences, counts
<1>3. j \in Jobs /\ jobs = {j}
  BY InJob DEF Typed, RuntimeTyped, Submissions
<1>4. CASE Preflight(j)
  <2>1. j.stage = "preflight"
    BY <1>4 DEF Preflight
  <2>2. CASE \E why \in {"recovery", "restoring", "executing"} : Refuse(j, why)
    <3>1. PICK why \in {"recovery", "restoring", "executing", "checkpoint"} : Refuse(j, why)
      BY <2>2
    <3>2. j.stage \in {"preflight", "begin"}
      BY <2>1
    <3>3. QED
      BY <3>1, <3>2, <1>2, RefuseKeeps
  <2>3. CASE Move(j, "begin") /\ UNCHANGED toUi
    <3>1. PICK k : k = [j EXCEPT !.stage = "begin"]
      OBVIOUS
    <3>2. k.stage = "begin" /\ k.id = j.id /\ k.via = j.via
      BY <1>3, <3>1, Moved
    <3>3. jobs' = {k}
      BY <1>3, <2>3, <3>1 DEF Move
    <3>4. QED
      BY <3>2, <3>3, <2>1, <2>3, <1>2, JobMoves
  <2>4. QED
    BY <2>2, <2>3, <1>4 DEF Preflight
<1>5. CASE Begin(j)
  <2>1. j.stage = "begin"
    BY <1>5 DEF Begin
  <2>2. CASE Refuse(j, "checkpoint")
    BY <2>1, <2>2, <1>2, RefuseKeeps
  <2>3. CASE Move(j, "turn") /\ toUi' = Append(toUi, [do |-> "start", id |-> j.id, text |-> {}])
    <3>1. PICK m : m = [do |-> "start", id |-> j.id, text |-> {}]
      OBVIOUS
    <3>2. m.do = "start" /\ m.id = j.id /\ Kind(m) = "start" /\ toUi' = Append(toUi, m)
      BY <3>1, <2>3 DEF Kind
    <3>3. QED
      BY <3>2, <2>1, <2>3, <1>2, AnnounceKeeps
  <2>4. QED
    BY <2>2, <2>3, <1>5 DEF Begin
<1>6. CASE ApplySteer(j)
  <2>1. UNCHANGED <<jobs, toUi>>
    BY <1>6 DEF ApplySteer
  <2>2. QED
    BY <2>1, <1>2, Unsent
<1>7. CASE Execute(j)
  <2>1. PICK ok \in BOOLEAN : jobs' = (jobs \ {j}) \cup {[j EXCEPT !.stage = "closing", !.ok = ok]}
    BY <1>7 DEF Execute
  <2>2. PICK k : k = [j EXCEPT !.stage = "closing", !.ok = ok]
    OBVIOUS
  <2>3. k.stage = "closing" /\ k.id = j.id /\ k.via = j.via
    BY <1>3, <2>2, Ended2
  <2>4. jobs' = {k}
    BY <1>3, <2>1, <2>2
  <2>5. j.stage = "turn" /\ toUi = <<>> /\ toUi' = toUi
    BY <1>7 DEF Execute
  <2>6. QED
    BY <2>3, <2>4, <2>5, <1>2, JobMoves
<1>8. CASE CloseOut(j)
  BY <1>2, <1>8, CloseOutKeeps
<1>9. QED
  BY <1>1, <1>4, <1>5, <1>6, <1>7, <1>8

LEMMA SubmissionsStep ==
  ASSUME MaxGoals \in {0, 1}, Typed, Submissions, [Next]_vars
  PROVE  Submissions'
<1>t. /\ toRt \in Seq(Calls) /\ toUi \in Seq(Messages) /\ sent \in Nat /\ goals \in Nat
      /\ FlagsTyped /\ goal \in BOOLEAN
  BY DEF Typed, QueuesTyped, FlagsTyped
<1>m. toUi # <<>> => Head(toUi) \in Messages
  BY <1>t, TailFacts
<1>1. ASSUME NEW w \in Words, Type(w) PROVE Submissions'
  BY <1>1, Unsent DEF Type, fences, counts, runtime
<1>2. ASSUME NEW w \in Words, Generate(w) PROVE Submissions'
  <2>1. UNCHANGED <<running, goal, goals, jobs, toUi>>
    BY <1>2 DEF Generate, runtime
  <2>2. CASE Busy
    <3>1. UNCHANGED <<toRt, sent, admission>>
      BY <1>2, <2>2 DEF Generate
    <3>2. QED
      BY <2>1, <3>1, Unsent
  <2>3. CASE ~Busy
    <3>1. Submit({w}) /\ {w} \in Texts
      BY <1>2, <2>3 DEF Generate, Texts
    <3>2. QED
      BY <2>1, <3>1, SubmitKeeps
  <2>4. QED
    BY <2>2, <2>3
<1>3. ASSUME NEW w \in Words, StartGoal(w) PROVE Submissions'
  <2>1. /\ goals < MaxGoals /\ goals' = goals + 1 /\ ~Pending /\ Idle /\ goal' = TRUE
        /\ toRt' = Append(toRt, Submission({w}, "goal")) /\ sent' = sent + 1
        /\ UNCHANGED <<running, admission, jobs, toUi>>
    BY <1>3 DEF StartGoal, runtime
  <2>2. running = 0 /\ admission = 0 /\ ~goal
    BY <2>1 DEF Idle, Busy, Pending
  <2>3. goals = 0 /\ goals' = 1 /\ MaxGoals >= 1
    BY <2>1, <1>t
  <2>4. At(FALSE, {}, "none")
    BY <2>2, AtRest DEF Submissions, Resting
  <2>5. /\ jobs = {} /\ "submit" \notin Kinds(toRt)
        /\ \A k \in {"start", "complete", "refused"} : k \notin Kinds(toUi')
    BY <2>1, <2>4 DEF At
  <2>6. {w} \in Texts /\ "goal" \in Vias
    BY DEF Texts, Vias
  <2>7. PICK c \in Calls : /\ c.do = "submit" /\ Kind(c) = "submit" /\ c.id = sent + 1 /\ c.via = "goal"
                           /\ toRt' = Append(toRt, c)
    BY <2>1, <2>6, <1>t, Said
  <2>8. running' = 0 /\ jobs' = {} /\ goal' \in BOOLEAN /\ (goal' <=> c.via = "goal") /\ admission' = 0
    BY <2>1, <2>2, <2>5, <2>7
  <2>9. Range(toUi') \subseteq Range(toUi)
    BY <2>1
  <2>10. QED
    BY <2>1, <2>2, <2>3, <2>5, <2>7, <2>8, <2>9, <1>t, SendStep
<1>4. ASSUME NEW key \in {"enter", "queue"}, Press(key) PROVE Submissions'
  BY <1>4, Unsent DEF Press, fences, runtime
<1>5. CASE Recall
  BY <1>5, Unsent DEF Recall, fences, runtime
<1>6. ASSUME NEW i \in Checkpoints, Restore(i) PROVE Submissions'
  BY <1>6, Unsent DEF Restore, runtime
<1>7. ASSUME NEW do \in {"clear", "compact"}, Operate(do) PROVE Submissions'
  BY <1>7, Unsent DEF Operate, runtime
<1>8. CASE Deliver
  <2>1. PICK m \in Inputs : m = Head(inbox)
    BY <1>8, TailFacts DEF Deliver, Typed, QueuesTyped
  <2>2. m.text \in Texts
    BY DEF Inputs
  <2>3. UNCHANGED <<running, goal, goals, jobs, toUi>>
    BY <1>8 DEF Deliver, counts, runtime
  <2>4. Submit(m.text) \/ UNCHANGED <<toRt, sent, admission>>
    BY <1>8, <2>1 DEF Deliver, OnQueue
  <2>5. QED
    BY <2>2, <2>3, <2>4, SubmitKeeps, Unsent
<1>9. CASE CallRestore
  <2>1. PICK c : c = [do |-> "restore", at |-> rewind.at, text |-> {}]
    OBVIOUS
  <2>2. c.do # "submit" /\ Kind(c) # "submit" /\ toRt' = Append(toRt, c)
        /\ UNCHANGED <<running, admission, sent, goal, goals, jobs, toUi>>
    BY <1>9, <2>1 DEF CallRestore, Kind, counts, runtime
  <2>3. QED
    BY <2>2, <1>t, CallMade
<1>10. CASE CallOperation
  <2>1. PICK c : c = [do |-> ctx.do, id |-> ctx.id, text |-> {}]
    OBVIOUS
  <2>2. ctx.do \in {"clear", "compact", "none"}
    BY <1>t DEF FlagsTyped
  <2>3. c.do # "submit" /\ Kind(c) # "submit" /\ toRt' = Append(toRt, c)
        /\ UNCHANGED <<running, admission, sent, goal, goals, jobs, toUi>>
    BY <1>10, <2>1, <2>2 DEF CallOperation, Kind, counts, runtime
  <2>4. QED
    BY <2>3, <1>t, CallMade
<1>11. CASE GiveUpClear
  BY <1>11, Unsent DEF GiveUpClear, counts, runtime
<1>12. CASE TimeOut
  <2>1. PICK c : c = [do |-> "cancel", id |-> ctx.id, text |-> {}]
    OBVIOUS
  <2>2. c.do # "submit" /\ Kind(c) # "submit" /\ toRt' = Append(toRt, c)
        /\ UNCHANGED <<running, admission, sent, goal, goals, jobs, toUi>>
    BY <1>12, <2>1 DEF TimeOut, Kind, counts, runtime
  <2>3. QED
    BY <2>2, <1>t, CallMade
<1>13. CASE HearStart
  BY <1>13, HearStartKeeps
<1>14. CASE HearComplete
  BY <1>14, HearCompleteKeeps
<1>15. CASE HearOther
  <2>1. FinishTurnQueues(composer, running # 0) /\ UNCHANGED <<running, goal, goals, jobs, toUi>>
    BY <1>15 DEF HearOther, counts, runtime
  <2>2. QED
    BY <2>1, DrainKeeps
<1>16. CASE HearReturn
  BY <1>16, HearReturnKeeps
<1>17. CASE HearRestored
  <2>1. toUi # <<>> /\ toUi' = Tail(toUi) /\ Head(toUi).do = "restored"
        /\ UNCHANGED <<running, goal, goals, jobs>>
    BY <1>17 DEF HearRestored, Message, counts, runtime
  <2>2. PICK m \in Messages : m = Head(toUi)
    BY <2>1, <1>m
  <2>3. Kind(m) = "restored" /\ Kind(Head(toUi)) = "restored"
    BY <2>1, <2>2, MessageIs
  <2>4. Range(toUi') \subseteq Range(toUi) /\ Kinds(toUi') \subseteq Kinds(toUi)
    BY <2>1, <1>t, TailFacts
  <2>5. CASE UNCHANGED <<admission, toRt, sent>>
    BY <2>1, <2>3, <2>5, <1>t, OtherHeard
  <2>6. CASE \E draft : PickedUp(draft, running # 0) /\ Send(slot, "queue")
    <3>1. slot \in Texts /\ running = 0 /\ admission = 0 /\ ~goal
      BY <2>6 DEF PickedUp, Pending, Typed, WordsTyped
    <3>2. QED
      BY <3>1, <2>1, <2>4, <2>6, SentAtRest
  <2>7. QED
    BY <2>5, <2>6, <1>17 DEF HearRestored, FinishTurnQueues
<1>18. CASE HearOperated
  <2>1. toUi # <<>> /\ toUi' = Tail(toUi) /\ Head(toUi).do = "operated"
        /\ UNCHANGED <<running, admission, sent, goal, goals, jobs, toRt>>
    BY <1>18 DEF HearOperated, Message, counts, runtime
  <2>2. Kind(Head(toUi)) = "operated"
    BY <2>1 DEF Kind
  <2>3. QED
    BY <2>1, <2>2, <1>t, OtherHeard
<1>19. CASE Take
  BY <1>19, TakeKeeps
<1>20. CASE TurnStep
  BY <1>20, TurnStepKeeps
<1>21. ASSUME NEW o \in ops, Finish(o) PROVE Submissions'
  <2>1. UNCHANGED <<running, admission, sent, goal, goals, jobs, toRt>>
    BY <1>21 DEF Finish, fences, counts
  <2>2. PICK m : toUi' = Append(toUi, m) /\ m.do \in {"restored", "operated"}
    <3>1. CASE o.do = "restore"
      <4>1. PICK whole, conversation :
              toUi' = Append(toUi, [do |-> "restored", whole |-> whole,
                                    conversation |-> conversation, text |-> {}])
        BY <3>1, <1>21 DEF Finish
      <4>2. QED
        BY <4>1
    <3>2. CASE o.do # "restore"
      <4>1. PICK cleared :
              toUi' = Append(toUi, [do |-> "operated", id |-> o.id, cleared |-> cleared, text |-> {}])
        BY <3>2, <1>21 DEF Finish
      <4>2. QED
        BY <4>1
    <3>3. QED
      BY <3>1, <3>2
  <2>3. Kind(m) \in {"restored", "operated"}
    BY <2>2 DEF Kind
  <2>4. /\ Range(toUi') = Range(toUi) \cup {m} /\ Kinds(toUi') = Kinds(toUi) \cup {Kind(m)}
        /\ \A k : Kind(m) # k /\ Once(toUi, k) => Once(toUi', k)
    BY <2>2, <1>t, AppendFacts
  <2>5. Neutral
    BY <2>1, <2>2, <2>3, <2>4 DEF Neutral
  <2>6. QED
    BY <2>5, NeutralStep
<1>22. CASE UNCHANGED vars
  BY <1>22, Unsent DEF vars, fences, counts, runtime
<1>23. QED
  BY <1>1, <1>2, <1>3, <1>4, <1>5, <1>6, <1>7, <1>8, <1>9, <1>10, <1>11, <1>12, <1>13, <1>14, <1>15,
     <1>16, <1>17, <1>18, <1>19, <1>20, <1>21, <1>22
     DEF Next, User, Interface, Runtime

-----------------------------------------------------------------------------
(* A call is made or taken, a message is sent or heard.                     *)

Added(q, r, x) ==
  /\ Range(r) = Range(q) \cup {x} /\ Kinds(r) = Kinds(q) \cup {Kind(x)}
  /\ \A k : Kind(x) # k /\ Once(q, k) => Once(r, k)
  /\ \A k : Kind(x) = k /\ k \notin Kinds(q) => Once(r, k)
Removed(q, r, x) ==
  /\ Range(q) = Range(r) \cup {x} /\ Kinds(q) = Kinds(r) \cup {Kind(x)}
  /\ \A k : Once(q, k) /\ Kind(x) = k => k \notin Kinds(r)
  /\ \A k : Once(q, k) /\ Kind(x) # k => Once(r, k)

Put(c) == c \in Calls /\ toRt' = Append(toRt, c) /\ Added(toRt, toRt', c)
Taken(c) ==
  /\ c \in Calls /\ toRt # <<>> /\ c = Head(toRt) /\ toRt' = Tail(toRt)
  /\ Removed(toRt, toRt', c)
Told(m) == m \in Messages /\ toUi' = Append(toUi, m) /\ Added(toUi, toUi', m)
Heard(m) ==
  /\ m \in Messages /\ toUi # <<>> /\ m = Head(toUi) /\ toUi' = Tail(toUi)
  /\ Removed(toUi, toUi', m)

LEMMA PutIs ==
  ASSUME toRt \in Seq(Calls), NEW c \in Calls, toRt' = Append(toRt, c)
  PROVE  Put(c)
BY AppendFacts DEF Put, Added

LEMMA TakenIs ==
  ASSUME toRt \in Seq(Calls), toRt # <<>>, toRt' = Tail(toRt)
  PROVE  Taken(Head(toRt))
BY TailFacts DEF Taken, Removed

LEMMA ToldIs ==
  ASSUME toUi \in Seq(Messages), NEW m \in Messages, toUi' = Append(toUi, m)
  PROVE  Told(m)
BY AppendFacts DEF Told, Added

LEMMA HeardIs ==
  ASSUME Typed, NEW do, Message(do)
  PROVE  \E m \in Messages : Heard(m) /\ m.do = do /\ m = Head(toUi)
<1>1. toUi \in Seq(Messages) /\ toUi # <<>> /\ toUi' = Tail(toUi) /\ Head(toUi).do = do
  BY DEF Message, Typed, QueuesTyped
<1>2. Heard(Head(toUi))
  BY <1>1, TailFacts DEF Heard, Removed
<1>3. QED
  BY <1>1, <1>2 DEF Heard

LEMMA AppendAt ==
  ASSUME NEW S, NEW q \in Seq(S), NEW m
  PROVE  \E n \in Nat :
           /\ DOMAIN Append(q, m) = DOMAIN q \cup {n} /\ n \notin DOMAIN q
           /\ Append(q, m)[n] = m
           /\ \A i \in DOMAIN q : i \in Nat /\ 0 < i /\ i < n /\ Append(q, m)[i] = q[i]
<1> DEFINE a == Append(q, m)
           n == Len(q) + 1
<1>1. /\ DOMAIN a = 1 .. n /\ DOMAIN q = 1 .. Len(q) /\ Len(q) \in Nat
      /\ a[n] = m /\ \A i \in 1 .. Len(q) : a[i] = q[i]
  OBVIOUS
<1> HIDE DEF a
<1>2. /\ DOMAIN a = DOMAIN q \cup {n} /\ n \notin DOMAIN q /\ n \in Nat /\ a[n] = m
      /\ \A i \in DOMAIN q : i \in Nat /\ 0 < i /\ i < n /\ a[i] = q[i]
  BY <1>1
<1>3. QED
  BY <1>2 DEF a

LEMMA TailAt ==
  ASSUME NEW S, NEW q \in Seq(S), q # <<>>
  PROVE  /\ 1 \in DOMAIN q /\ q[1] = Head(q)
         /\ \A i \in DOMAIN Tail(q) :
              i \in Nat /\ 0 < i /\ i + 1 \in DOMAIN q /\ Tail(q)[i] = q[i + 1]
         /\ \A i \in DOMAIN q : i \in Nat /\ 0 < i
         /\ \A i \in DOMAIN q : i = 1 \/ (i - 1 \in DOMAIN Tail(q) /\ Tail(q)[i - 1] = q[i])
<1>1. /\ Len(q) \in Nat \ {0} /\ DOMAIN q = 1 .. Len(q) /\ DOMAIN Tail(q) = 1 .. (Len(q) - 1)
      /\ Head(q) = q[1] /\ \A i \in 1 .. (Len(q) - 1) : Tail(q)[i] = q[i + 1]
  OBVIOUS
<1>2. QED
  BY <1>1

-----------------------------------------------------------------------------
(* What each step changes.                                                  *)

\* A submission may have been sent, and then nothing was under way.
Sending ==
  \/ UNCHANGED <<toRt, sent, goal>>
  \/ /\ running' = 0 /\ ctx = NoOp /\ admission = 0 /\ ~goal
     /\ \E c \in Calls : Put(c) /\ c.do = "submit"
Quiet ==
  /\ Sending
  /\ UNCHANGED <<running, turns, rewind, ctx, asked, cut, doubt, toUi, jobs, ops, context>>
  /\ drain' => drain

LEMMA SendSent ==
  ASSUME Typed, NEW text \in Texts, NEW via \in Vias, Send(text, via), running' = 0, ~Pending,
         admission = 0
  PROVE  Sending
<1>1. toRt \in Seq(Calls) /\ sent \in Nat
  BY DEF Typed, QueuesTyped, FlagsTyped
<1>2. PICK c \in Calls : c.do = "submit" /\ toRt' = Append(toRt, c)
  BY <1>1, Said DEF Send
<1>3. ctx = NoOp /\ ~goal
  BY DEF Pending
<1>4. QED
  BY <1>1, <1>2, <1>3, PutIs DEF Sending

LEMMA SubmitSent ==
  ASSUME Typed, NEW text \in Texts, Submit(text), UNCHANGED <<running, goal>>
  PROVE  Sending
<1>1. CASE UNCHANGED <<toRt, sent, admission>>
  BY <1>1 DEF Sending
<1>2. CASE Send(text, "composer") /\ ~Pending /\ ~(Busy /\ ~Rewinding) /\ ~Rewinding
  <2>1. running' = 0 /\ admission = 0 /\ "composer" \in Vias
    BY <1>2 DEF Busy, Vias
  <2>2. QED
    BY <2>1, <1>2, SendSent
<1>3. QED
  BY <1>1, <1>2 DEF Submit

LEMMA DrainSent ==
  ASSUME Typed, NEW draft, NEW active, FinishTurnQueues(draft, active),
         ~active => running' = 0, UNCHANGED goal
  PROVE  Sending /\ drain' = FALSE
<1>1. CASE PickedUp(draft, active)
  <2>1. Send(slot, "queue") /\ slot \in Texts /\ running' = 0 /\ "queue" \in Vias
        /\ ~Pending /\ admission = 0
    BY <1>1 DEF FinishTurnQueues, PickedUp, Typed, WordsTyped, Vias
  <2>2. QED
    BY <2>1, SendSent DEF FinishTurnQueues
<1>2. CASE ~PickedUp(draft, active)
  BY <1>2 DEF FinishTurnQueues, Sending
<1>3. QED
  BY <1>1, <1>2

LEMMA UserQuiet ==
  ASSUME Typed, NEW w \in Words
  PROVE  /\ Type(w) => Quiet
         /\ Generate(w) => Quiet
         /\ StartGoal(w) => Quiet
<1>1. Type(w) => Quiet
  BY DEF Type, Quiet, Sending, fences, counts, runtime
<1>2. ASSUME Generate(w) PROVE Quiet
  <2>1. UNCHANGED <<running, turns, rewind, ctx, asked, cut, doubt, toUi, jobs, ops, context, drain, goal>>
    BY <1>2 DEF Generate, runtime
  <2>2. UNCHANGED <<toRt, sent, admission>> \/ Submit({w})
    BY <1>2 DEF Generate
  <2>3. {w} \in Texts
    BY DEF Texts
  <2>4. Sending
    BY <2>1, <2>2, <2>3, SubmitSent DEF Sending
  <2>5. QED
    BY <2>1, <2>4 DEF Quiet
<1>3. ASSUME StartGoal(w) PROVE Quiet
  <2>1. /\ UNCHANGED <<running, turns, rewind, ctx, asked, cut, doubt, toUi, jobs, ops, context, drain>>
        /\ toRt' = Append(toRt, Submission({w}, "goal")) /\ ~Pending /\ Idle
    BY <1>3 DEF StartGoal, runtime
  <2>2. running' = 0 /\ ctx = NoOp /\ ~goal /\ admission = 0 /\ {w} \in Texts /\ "goal" \in Vias
    BY <2>1 DEF Pending, Idle, Busy, Texts, Vias
  <2>3. toRt \in Seq(Calls) /\ sent \in Nat
    BY DEF Typed, QueuesTyped, FlagsTyped
  <2>4. PICK c \in Calls : c.do = "submit" /\ toRt' = Append(toRt, c)
    BY <2>1, <2>2, <2>3, Said
  <2>5. Put(c)
    BY <2>3, <2>4, PutIs
  <2>6. QED
    BY <2>1, <2>2, <2>4, <2>5 DEF Quiet, Sending
<1>4. QED
  BY <1>1, <1>2, <1>3

LEMMA OthersQuiet ==
  ASSUME Typed
  PROVE  /\ \A key \in {"enter", "queue"} : Press(key) => Quiet
         /\ Recall => Quiet
         /\ Deliver => Quiet
         /\ HearOther => Quiet
         /\ UNCHANGED vars => Quiet
<1>1. \A key \in {"enter", "queue"} : Press(key) => Quiet
  BY DEF Press, Quiet, Sending, fences, runtime
<1>2. Recall => Quiet
  BY DEF Recall, Quiet, Sending, fences, runtime
<1>3. ASSUME Deliver PROVE Quiet
  <2>1. PICK m \in Inputs : m = Head(inbox)
    BY <1>3, TailFacts DEF Deliver, Typed, QueuesTyped
  <2>2. m.text \in Texts
    BY DEF Inputs
  <2>3. UNCHANGED <<running, turns, rewind, ctx, asked, cut, doubt, toUi, jobs, ops, context, drain,
                    goal>>
    BY <1>3 DEF Deliver, counts, runtime
  <2>4. Submit(m.text) \/ UNCHANGED <<toRt, sent, admission>>
    BY <1>3, <2>1 DEF Deliver, OnQueue
  <2>5. QED
    BY <2>2, <2>3, <2>4, SubmitSent DEF Quiet, Sending
<1>4. ASSUME HearOther PROVE Quiet
  <2>1. /\ FinishTurnQueues(composer, running # 0)
        /\ UNCHANGED <<running, turns, rewind, ctx, asked, cut, doubt, toUi, jobs, ops, context,
                       goal>>
    BY <1>4 DEF HearOther, counts, runtime
  <2>2. QED
    BY <2>1, DrainSent DEF Quiet
<1>5. UNCHANGED vars => Quiet
  BY DEF vars, Quiet, Sending, fences, counts, runtime
<1>6. QED
  BY <1>1, <1>2, <1>3, <1>4, <1>5

Restores(i) ==
  /\ i \in Checkpoints /\ rewind = NoRewind /\ ctx = NoOp
  /\ rewind'.stage = "wait" /\ rewind'.at = i /\ asked' = asked + 1
  /\ UNCHANGED <<running, sent, goal, turns, ctx, cut, doubt, drain, toRt, toUi, jobs, ops, context>>
Operates ==
  /\ rewind = NoRewind /\ ctx = NoOp /\ admission = 0 /\ asked' = asked + 1
  /\ ctx'.id = asked + 1 /\ ctx'.stage = IF running # 0 THEN "wait" ELSE "call"
  /\ UNCHANGED <<running, sent, goal, turns, rewind, cut, doubt, drain, toRt, toUi, jobs, ops, context>>
CallsRestore(c) ==
  /\ Put(c) /\ c.do = "restore" /\ c.at = rewind.at /\ running = 0
  /\ rewind.stage = "wait" /\ rewind'.stage = "called" /\ rewind'.at = rewind.at
  /\ UNCHANGED <<running, sent, goal, turns, ctx, asked, cut, doubt, drain, toUi, jobs, ops, context>>
CallsOperation(c) ==
  /\ Put(c) /\ c.do \in {"clear", "compact"} /\ c.id = ctx.id /\ ctx # NoOp
  /\ ctx.stage = "call" \/ (ctx.stage = "wait" /\ running = 0)
  /\ ctx'.stage = "called" /\ ctx'.id = ctx.id
  /\ UNCHANGED <<running, sent, goal, turns, rewind, asked, cut, doubt, drain, toUi, jobs, ops, context>>
GivesUp ==
  /\ ctx.stage = "wait" /\ ctx' = NoOp
  /\ UNCHANGED <<running, sent, goal, turns, rewind, asked, cut, doubt, drain, toRt, toUi, jobs, ops,
                 context>>
TimesOut(c) ==
  /\ Put(c) /\ c.do = "cancel" /\ c.id = ctx.id /\ ctx.stage = "called" /\ ctx' = NoOp /\ doubt'
  /\ UNCHANGED <<running, sent, goal, turns, rewind, asked, cut, drain, toUi, jobs, ops, context>>
HearsStart(m) ==
  /\ Heard(m) /\ m.do = "start" /\ running' = m.id /\ running = 0 /\ running' # 0
  /\ UNCHANGED <<sent, turns, rewind, ctx, asked, cut, doubt, drain, toRt, jobs, ops, context>>
HearsComplete(m) ==
  /\ Heard(m) /\ m.do = "complete" /\ running # 0 /\ running' = 0 /\ jobs = {} /\ Sending
  /\ turns' = Append(turns, m.text) /\ ~cut'
  /\ UNCHANGED <<rewind, ctx, asked, doubt, jobs, ops, context>>
HearsReturn(m) ==
  /\ Heard(m) /\ m.do = "returned" /\ (m.admitted => goal' = goal) /\ (~m.admitted => jobs = {})
  /\ UNCHANGED <<running, sent, turns, rewind, ctx, asked, cut, doubt, drain, toRt, jobs, ops, context>>
HearsRestored(m) ==
  /\ Heard(m) /\ m.do = "restored" /\ rewind' = NoRewind /\ Sending
  /\ turns' = IF m.conversation THEN SubSeq(turns, 1, rewind.at - 1) ELSE turns
  /\ drain' => drain /\ cut' = cut
  /\ UNCHANGED <<running, ctx, asked, doubt, jobs, ops, context>>
HearsOperated(m) ==
  /\ Heard(m) /\ m.do = "operated" /\ ctx' = IF Called(m) THEN NoOp ELSE ctx
  /\ turns' = IF Called(m) /\ m.cleared THEN <<>> ELSE turns
  /\ UNCHANGED <<running, sent, goal, rewind, asked, cut, doubt, drain, toRt, jobs, ops, context>>
Interfaces ==
  UNCHANGED <<running, sent, goal, turns, rewind, ctx, asked, cut, drain>>
TakesSubmit(c, j) ==
  /\ Taken(c) /\ c.do = "submit" /\ jobs = {} /\ jobs' = {j} /\ j.id = c.id /\ j.via = c.via
  /\ j.stage = "preflight" /\ Interfaces /\ UNCHANGED <<doubt, toUi, ops, context>>
TurnsRestoreAway(c, m) ==
  /\ Taken(c) /\ c.do = "restore" /\ Told(m) /\ m.do = "restored" /\ ~m.conversation
  /\ Interfaces /\ UNCHANGED <<doubt, jobs, ops, context>>
TakesRestore(c) ==
  /\ Taken(c) /\ c.do = "restore" /\ ~Executing /\ ~Restoring /\ ops' = ops \cup {c}
  /\ Interfaces /\ UNCHANGED <<doubt, toUi, jobs, context>>
TakesOperation(c) ==
  /\ Taken(c) /\ c.do \in {"clear", "compact"} /\ ops' = ops \cup {c}
  /\ Interfaces /\ UNCHANGED <<doubt, toUi, jobs, context>>
TakesCancel(c) ==
  /\ Taken(c) /\ c.do = "cancel" /\ ops' = {o \in ops : o.do = "restore" \/ o.id # c.id}
  /\ Interfaces /\ UNCHANGED <<doubt, toUi, jobs, context>>
Refuses(j, m) ==
  /\ jobs = {j} /\ j.stage \in {"preflight", "begin"} /\ jobs' = {}
  /\ Told(m) /\ m.do = "returned" /\ m.why # "executing" /\ Kind(m) = "refused"
  /\ Interfaces /\ UNCHANGED <<doubt, toRt, ops, context>>
Begins(j, k) ==
  /\ jobs = {j} /\ j.stage = "preflight" /\ jobs' = {k} /\ k.stage = "begin"
  /\ k.id = j.id /\ k.via = j.via /\ ~Restoring
  /\ Interfaces /\ UNCHANGED <<doubt, toRt, toUi, ops, context>>
Announces(j, k, m) ==
  /\ jobs = {j} /\ j.stage = "begin" /\ jobs' = {k} /\ k.stage = "turn"
  /\ k.id = j.id /\ k.via = j.via /\ Told(m) /\ m.do = "start"
  /\ Interfaces /\ UNCHANGED <<doubt, toRt, ops, context>>
Executes(j, k) ==
  /\ jobs = {j} /\ j.stage = "turn" /\ jobs' = {k} /\ k.stage = "closing"
  /\ k.id = j.id /\ k.via = j.via /\ k.text = j.text /\ toRt = <<>> /\ toUi = <<>>
  /\ context' = Append(context, j.text)
  /\ Interfaces /\ UNCHANGED <<doubt, toRt, toUi, ops>>
Closes(j, a, b, q) ==
  /\ jobs = {j} /\ j.stage = "closing" /\ jobs' = {} /\ j.text \in Texts
  /\ a \in Messages /\ a.do = "complete" /\ a.text = j.text
  /\ b \in Messages /\ b.do = "returned" /\ b.admitted /\ b.why = "turn"
  /\ q \in Seq(Messages) /\ q = Append(toUi, a) /\ Added(toUi, q, a)
  /\ toUi' = Append(q, b) /\ Added(q, toUi', b)
  /\ Interfaces /\ UNCHANGED <<doubt, toRt, ops, context>>
FinishesRestore(o, m) ==
  /\ o \in ops /\ o.do = "restore" /\ ops' = ops \ {o} /\ Told(m) /\ m.do = "restored"
  /\ context' = IF m.conversation THEN SubSeq(context, 1, o.at - 1) ELSE context
  /\ Interfaces /\ UNCHANGED <<doubt, toRt, jobs>>
FinishesOperation(o, m) ==
  /\ o \in ops /\ o.do \in {"clear", "compact"} /\ ops' = ops \ {o}
  /\ Told(m) /\ m.do = "operated" /\ m.id = o.id /\ (m.cleared => o.do = "clear")
  /\ context' = IF m.cleared THEN <<>> ELSE context
  /\ doubt' = (doubt \/ (o.do = "clear" /\ jobs # {}))
  /\ Interfaces /\ UNCHANGED <<toRt, jobs>>

UserDoes == (\E i \in Nat : Restores(i)) \/ Operates
WorkerDoes == GivesUp \/ \E c \in Calls : CallsRestore(c) \/ CallsOperation(c) \/ TimesOut(c)
InterfaceHears ==
  \E m \in Messages :
    HearsStart(m) \/ HearsComplete(m) \/ HearsReturn(m) \/ HearsRestored(m) \/ HearsOperated(m)
RuntimeTakes ==
  \E c \in Calls :
    \/ \E j : TakesSubmit(c, j)
    \/ TakesRestore(c) \/ TakesOperation(c) \/ TakesCancel(c)
    \/ \E m \in Messages : TurnsRestoreAway(c, m)
TurnMoves ==
  \E j \in jobs :
    \/ \E m : Refuses(j, m)
    \/ \E k : Begins(j, k) \/ Executes(j, k)
    \/ \E k, m : Announces(j, k, m)
    \/ \E a, b, q : Closes(j, a, b, q)
OperationEnds == \E o \in ops : \E m \in Messages : FinishesRestore(o, m) \/ FinishesOperation(o, m)
Step ==
  Quiet \/ UserDoes \/ WorkerDoes \/ InterfaceHears \/ RuntimeTakes \/ TurnMoves \/ OperationEnds

LEMMA UserEffect ==
  ASSUME Typed
  PROVE  /\ \A i \in Checkpoints : Restore(i) => UserDoes
         /\ \A do \in {"clear", "compact"} : Operate(do) => UserDoes
<1>1. ASSUME NEW i \in Checkpoints, Restore(i)
      PROVE  UserDoes
  <2>1. Restores(i)
    BY <1>1 DEF Restore, Restores, Pending, Rewinding, runtime, queues
  <2>2. i \in Nat
    BY DEF Checkpoints
  <2>3. QED
    BY <2>1, <2>2 DEF UserDoes
<1>2. ASSUME NEW do \in {"clear", "compact"}, Operate(do)
      PROVE  UserDoes
  BY <1>2 DEF Operate, MayOperate, Operates, UserDoes, Rewinding, runtime, queues
<1>3. QED
  BY <1>1, <1>2

LEMMA WorkerEffect ==
  ASSUME Typed, CallRestore \/ CallOperation \/ GiveUpClear \/ TimeOut
  PROVE  WorkerDoes
<1>t. /\ toRt \in Seq(Calls) /\ rewind \in [stage : {"none", "wait", "called"}, at : Nat]
      /\ ctx \in [do : {"none", "clear", "compact"}, stage : {"none", "wait", "call", "called"}, id : Nat]
      /\ (ctx.stage = "none" <=> ctx = NoOp) /\ (ctx.do = "none" <=> ctx = NoOp)
  BY DEF Typed, QueuesTyped, FlagsTyped
<1>1. CASE CallRestore
  <2>1. PICK c : c = [do |-> "restore", at |-> rewind.at, text |-> {}]
    OBVIOUS
  <2>2. c \in Calls /\ c.do = "restore" /\ c.at = rewind.at
    BY <2>1, <1>t DEF Calls
  <2>3. toRt' = Append(toRt, c) /\ rewind' = [rewind EXCEPT !.stage = "called"]
    BY <1>1, <2>1 DEF CallRestore
  <2>4. Put(c) /\ rewind'.stage = "called" /\ rewind'.at = rewind.at
    BY <2>2, <2>3, <1>t, PutIs
  <2>5. CallsRestore(c)
    BY <2>2, <2>4, <1>1 DEF CallRestore, CallsRestore, counts, runtime
  <2>6. QED
    BY <2>2, <2>5 DEF WorkerDoes
<1>2. CASE CallOperation
  <2>1. PICK c : c = [do |-> ctx.do, id |-> ctx.id, text |-> {}]
    OBVIOUS
  <2>2. ctx # NoOp
    BY <1>2, <1>t DEF CallOperation
  <2>3. ctx.do \in {"clear", "compact"}
    BY <2>2, <1>t
  <2>4. c \in Calls /\ c.do \in {"clear", "compact"} /\ c.id = ctx.id
    BY <2>1, <2>3, <1>t DEF Calls
  <2>5. toRt' = Append(toRt, c) /\ ctx' = [ctx EXCEPT !.stage = "called"]
    BY <1>2, <2>1 DEF CallOperation
  <2>6. Put(c) /\ ctx'.stage = "called" /\ ctx'.id = ctx.id
    BY <2>4, <2>5, <1>t, PutIs
  <2>7. CallsOperation(c)
    BY <2>2, <2>4, <2>6, <1>2 DEF CallOperation, CallsOperation, counts, runtime
  <2>8. QED
    BY <2>4, <2>7 DEF WorkerDoes
<1>3. CASE GiveUpClear
  BY <1>3 DEF GiveUpClear, GivesUp, WorkerDoes, counts, runtime
<1>4. CASE TimeOut
  <2>1. PICK c : c = [do |-> "cancel", id |-> ctx.id, text |-> {}]
    OBVIOUS
  <2>2. c \in Calls /\ c.do = "cancel" /\ c.id = ctx.id
    BY <2>1, <1>t DEF Calls
  <2>3. Put(c)
    BY <2>1, <2>2, <1>4, <1>t, PutIs DEF TimeOut
  <2>4. TimesOut(c)
    BY <2>2, <2>3, <1>4 DEF TimeOut, TimesOut, counts, runtime
  <2>5. QED
    BY <2>2, <2>4 DEF WorkerDoes
<1>5. QED
  BY <1>1, <1>2, <1>3, <1>4

LEMMA HearEffect ==
  ASSUME Typed, Submissions,
         HearStart \/ HearComplete \/ HearReturn \/ HearRestored \/ HearOperated
  PROVE  InterfaceHears
<1>1. CASE HearStart
  <2>1. PICK m \in Messages : Heard(m) /\ m.do = "start" /\ m = Head(toUi)
    BY <1>1, HeardIs DEF HearStart
  <2>2. running' = sent /\ running = 0 /\ sent # 0
    BY <1>1, HearStartKeeps
  <2>3. HearsStart(m)
    BY <2>1, <2>2, <1>1 DEF HearStart, HearsStart, counts, runtime
  <2>4. QED
    BY <2>3 DEF InterfaceHears
<1>2. CASE HearComplete
  <2>1. PICK m \in Messages : Heard(m) /\ m.do = "complete" /\ m = Head(toUi)
    BY <1>2, HeardIs DEF HearComplete
  <2>2. jobs = {} /\ running # 0
    BY <1>2, HearCompleteKeeps
  <2>3. /\ running' = 0 /\ cut' = FALSE /\ turns' = Append(turns, m.text)
        /\ UNCHANGED <<rewind, ctx, asked, goal, doubt, jobs, ops, context>>
    BY <1>2, <2>1 DEF HearComplete, counts, runtime
  <2>4. Sending
    <3>1. CASE FinishTurnQueues(composer, FALSE)
      BY <3>1, <2>3, DrainSent
    <3>2. CASE UNCHANGED <<queues, admission, toRt, sent, settled>>
      BY <3>2, <2>3 DEF Sending
    <3>3. QED
      BY <3>1, <3>2, <1>2 DEF HearComplete
  <2>5. HearsComplete(m)
    BY <2>1, <2>2, <2>3, <2>4 DEF HearsComplete
  <2>6. QED
    BY <2>5 DEF InterfaceHears
<1>3. CASE HearReturn
  <2>1. PICK m \in Messages : Heard(m) /\ m.do = "returned" /\ m = Head(toUi)
    BY <1>3, HeardIs DEF HearReturn
  <2>2. (m.admitted => goal' = goal) /\ (~m.admitted => jobs = {})
    BY <1>3, <2>1, HearReturnKeeps
  <2>3. HearsReturn(m)
    BY <2>1, <2>2, <1>3 DEF HearReturn, HearsReturn, counts, runtime
  <2>4. QED
    BY <2>3 DEF InterfaceHears
<1>4. CASE HearRestored
  <2>1. PICK m \in Messages : Heard(m) /\ m.do = "restored" /\ m = Head(toUi)
    BY <1>4, HeardIs DEF HearRestored
  <2>2. /\ rewind' = NoRewind
        /\ turns' = IF m.conversation THEN SubSeq(turns, 1, rewind.at - 1) ELSE turns
        /\ UNCHANGED <<running, ctx, asked, goal, doubt, jobs, ops, context>>
    BY <1>4, <2>1 DEF HearRestored, counts, runtime
  <2>3. CASE m.whole /\ drain
    <3>1. PICK draft : FinishTurnQueues(draft, running # 0) /\ UNCHANGED cut
      BY <1>4, <2>1, <2>3 DEF HearRestored
    <3>2. Sending /\ drain' = FALSE
      BY <3>1, <2>2, DrainSent
    <3>3. HearsRestored(m)
      BY <2>1, <2>2, <3>1, <3>2 DEF HearsRestored
    <3>4. QED
      BY <3>3 DEF InterfaceHears
  <2>4. CASE ~(m.whole /\ drain)
    <3>1. /\ drain' = (drain /\ ~CancelsDrain(m)) /\ cut' = (cut \/ ~m.whole)
          /\ UNCHANGED <<queues, admission, toRt, sent>>
      BY <1>4, <2>1, <2>4 DEF HearRestored
    <3>2. drain' => drain /\ cut' = cut
      <4>1. drain \in BOOLEAN /\ cut \in BOOLEAN /\ m.whole \in BOOLEAN
        BY <2>1, MessageIs DEF Typed, FlagsTyped
      <4>2. QED
        BY <4>1, <3>1, <2>4 DEF CancelsDrain
    <3>3. Sending
      BY <3>1, <2>2 DEF Sending
    <3>4. HearsRestored(m)
      BY <2>1, <2>2, <3>2, <3>3 DEF HearsRestored
    <3>5. QED
      BY <3>4 DEF InterfaceHears
  <2>5. QED
    BY <2>3, <2>4
<1>5. CASE HearOperated
  <2>1. PICK m \in Messages : Heard(m) /\ m.do = "operated" /\ m = Head(toUi)
    BY <1>5, HeardIs DEF HearOperated
  <2>2. /\ ctx' = IF Called(m) THEN NoOp ELSE ctx
        /\ turns' = IF Called(m) /\ m.cleared THEN <<>> ELSE turns
    BY <1>5, <2>1 DEF HearOperated, Called
  <2>3. UNCHANGED <<running, sent, goal, rewind, asked, cut, doubt, drain, toRt, jobs, ops, context>>
    BY <1>5 DEF HearOperated, counts, runtime
  <2>4. QED
    BY <2>1, <2>2, <2>3 DEF HearsOperated, InterfaceHears
<1>6. QED
  BY <1>1, <1>2, <1>3, <1>4, <1>5

LEMMA TakeEffect ==
  ASSUME Typed, Submissions, Take
  PROVE  RuntimeTakes
<1>t. toRt \in Seq(Calls) /\ toUi \in Seq(Messages) /\ toRt # <<>> /\ toRt' = Tail(toRt)
  BY DEF Typed, QueuesTyped, Take
<1>1. PICK c \in Calls : c = Head(toRt) /\ Taken(c)
  BY <1>t, TakenIs DEF Taken
<1>2. Interfaces /\ UNCHANGED <<doubt, context>>
  BY DEF Take, Interfaces, fences, counts
<1>3. CASE c.do = "submit"
  <2>1. PICK j : /\ j = [id |-> c.id, text |-> c.text, via |-> c.via, stage |-> "preflight", ok |-> TRUE]
                 /\ jobs' = jobs \cup {j} /\ UNCHANGED <<ops, toUi>>
    BY <1>1, <1>3 DEF Take
  <2>2. j.id = c.id /\ j.via = c.via /\ j.stage = "preflight"
    BY <2>1
  <2>3. jobs = {}
    <3>1. c \in Range(toRt) /\ Kind(c) = "submit"
      BY <1>1, <1>3, CallIs DEF Taken, Removed
    <3>2. At(TRUE, {}, "none")
      BY <3>1, KindIn, InCall DEF Submissions
    <3>3. QED
      BY <3>2 DEF At
  <2>4. TakesSubmit(c, j)
    BY <2>1, <2>2, <2>3, <1>1, <1>2, <1>3 DEF TakesSubmit
  <2>5. QED
    BY <2>4 DEF RuntimeTakes
<1>4. CASE c.do = "restore"
  <2>1. CASE Executing \/ Restoring
    <3>1. PICK m : /\ m = [do |-> "restored", whole |-> FALSE, conversation |-> FALSE, text |-> {}]
                   /\ toUi' = Append(toUi, m) /\ UNCHANGED <<ops, jobs>>
      BY <1>1, <1>4, <2>1 DEF Take
    <3>2. m \in Messages /\ m.do = "restored" /\ ~m.conversation
      BY <3>1 DEF Messages
    <3>3. TurnsRestoreAway(c, m)
      BY <3>1, <3>2, <1>t, <1>1, <1>2, <1>4, ToldIs DEF TurnsRestoreAway
    <3>4. QED
      BY <3>2, <3>3 DEF RuntimeTakes
  <2>2. CASE ~(Executing \/ Restoring)
    <3>1. TakesRestore(c)
      BY <1>1, <1>2, <1>4, <2>2 DEF Take, TakesRestore
    <3>2. QED
      BY <3>1 DEF RuntimeTakes
  <2>3. QED
    BY <2>1, <2>2
<1>5. CASE c.do \in {"clear", "compact"}
  <2>1. TakesOperation(c)
    BY <1>1, <1>2, <1>5 DEF Take, TakesOperation
  <2>2. QED
    BY <2>1 DEF RuntimeTakes
<1>6. CASE c.do = "cancel"
  <2>1. TakesCancel(c)
    BY <1>1, <1>2, <1>6 DEF Take, TakesCancel
  <2>2. QED
    BY <2>1 DEF RuntimeTakes
<1>7. QED
  BY <1>3, <1>4, <1>5, <1>6, CallIs

LEMMA RefuseEffect ==
  ASSUME Typed, NEW j \in jobs, jobs = {j}, j.stage \in {"preflight", "begin"},
         NEW why \in {"recovery", "restoring", "checkpoint"}, Refuse(j, why),
         Interfaces, UNCHANGED <<doubt, toRt, ops, context>>
  PROVE  TurnMoves
<1>1. j \in Jobs /\ toUi \in Seq(Messages) /\ j.stage # "closing"
  BY DEF Typed, RuntimeTyped, QueuesTyped
<1>2. PICK m : m = Returned(j, FALSE, why)
  OBVIOUS
<1>3. m \in Messages /\ m.do = "returned" /\ m.why = why /\ Kind(m) = "refused"
  <2>1. m.do = "returned" /\ m.why = why /\ Kind(m) = "refused"
    BY <1>1, <1>2 DEF Returned, Kind
  <2>2. why \in {"recovery", "restoring", "executing", "checkpoint", "turn"}
    OBVIOUS
  <2>3. m \in Messages
    BY <2>2, <1>1, <1>2, Refusal
  <2>4. QED
    BY <2>1, <2>3
<1>4. toUi' = Append(toUi, m) /\ jobs' = {}
  BY <1>2 DEF Refuse
<1>5. Told(m)
  BY <1>1, <1>3, <1>4, ToldIs
<1>6. Refuses(j, m)
  BY <1>3, <1>4, <1>5 DEF Refuses
<1>7. QED
  BY <1>6 DEF TurnMoves

LEMMA TurnEffect ==
  ASSUME Typed, Submissions, TurnStep
  PROVE  Quiet \/ TurnMoves
<1>1. PICK j \in jobs : Preflight(j) \/ Begin(j) \/ ApplySteer(j) \/ Execute(j) \/ CloseOut(j)
  BY DEF TurnStep
<1>2. Interfaces /\ UNCHANGED <<doubt, toRt, ops>>
  BY DEF TurnStep, Interfaces, fences, counts
<1>3. j \in Jobs /\ jobs = {j} /\ toUi \in Seq(Messages) /\ j.text \in Texts
  BY InJob DEF Typed, RuntimeTyped, Submissions, QueuesTyped, Jobs
<1>4. CASE Preflight(j)
  <2>1. j.stage = "preflight" /\ ~Executing /\ UNCHANGED context
    BY <1>3, <1>4 DEF Preflight, Executing
  <2>2. CASE \E why \in {"recovery", "restoring"} : Refuse(j, why)
    <3>1. PICK why \in {"recovery", "restoring", "checkpoint"} : Refuse(j, why)
      BY <2>2
    <3>2. j.stage \in {"preflight", "begin"}
      BY <2>1
    <3>3. QED
      BY <3>1, <3>2, <2>1, <1>2, <1>3, RefuseEffect
  <2>3. CASE ~Restoring /\ Move(j, "begin") /\ UNCHANGED toUi
    <3>1. PICK k : k = [j EXCEPT !.stage = "begin"]
      OBVIOUS
    <3>2. k.stage = "begin" /\ k.id = j.id /\ k.via = j.via
      BY <1>3, <3>1, Moved
    <3>3. jobs' = {k}
      BY <1>3, <2>3, <3>1 DEF Move
    <3>4. Begins(j, k)
      BY <3>2, <3>3, <2>1, <2>3, <1>2, <1>3 DEF Begins
    <3>5. QED
      BY <3>4 DEF TurnMoves
  <2>4. QED
    BY <2>1, <2>2, <2>3, <1>4 DEF Preflight
<1>5. CASE Begin(j)
  <2>1. j.stage = "begin" /\ UNCHANGED context
    BY <1>5 DEF Begin
  <2>2. CASE Refuse(j, "checkpoint")
    BY <2>1, <2>2, <1>2, <1>3, RefuseEffect
  <2>3. CASE Move(j, "turn") /\ toUi' = Append(toUi, [do |-> "start", id |-> j.id, text |-> {}])
    <3>1. PICK k : k = [j EXCEPT !.stage = "turn"]
      OBVIOUS
    <3>2. k.stage = "turn" /\ k.id = j.id /\ k.via = j.via
      BY <1>3, <3>1, Moved
    <3>3. jobs' = {k}
      BY <1>3, <2>3, <3>1 DEF Move
    <3>4. PICK m : m = [do |-> "start", id |-> j.id, text |-> {}]
      OBVIOUS
    <3>5. m \in Messages /\ m.do = "start"
      <4>1. j.id \in Nat
        BY <1>3 DEF Jobs
      <4>2. QED
        BY <4>1, <3>4 DEF Messages
    <3>6. Told(m)
      BY <3>4, <3>5, <2>3, <1>3, ToldIs
    <3>7. Announces(j, k, m)
      BY <3>2, <3>3, <3>5, <3>6, <2>1, <1>2, <1>3 DEF Announces
    <3>8. QED
      BY <3>7 DEF TurnMoves
  <2>4. QED
    BY <2>2, <2>3, <1>5 DEF Begin
<1>6. CASE ApplySteer(j)
  <2>1. UNCHANGED <<jobs, toUi, context>>
    BY <1>6 DEF ApplySteer
  <2>2. QED
    BY <2>1, <1>2 DEF Quiet, Interfaces, Sending
<1>7. CASE Execute(j)
  <2>1. PICK ok \in BOOLEAN : jobs' = (jobs \ {j}) \cup {[j EXCEPT !.stage = "closing", !.ok = ok]}
    BY <1>7 DEF Execute
  <2>2. PICK k : k = [j EXCEPT !.stage = "closing", !.ok = ok]
    OBVIOUS
  <2>3. k.stage = "closing" /\ k.id = j.id /\ k.via = j.via /\ k.text = j.text
    BY <1>3, <2>2 DEF Jobs
  <2>4. jobs' = {k}
    BY <1>3, <2>1, <2>2
  <2>5. /\ j.stage = "turn" /\ toRt = <<>> /\ toUi = <<>> /\ toUi' = toUi
        /\ context' = Append(context, j.text)
    BY <1>7 DEF Execute
  <2>6. Executes(j, k)
    BY <2>3, <2>4, <2>5, <1>2, <1>3 DEF Executes
  <2>7. QED
    BY <2>6 DEF TurnMoves
<1>8. CASE CloseOut(j)
  <2>1. PICK a, b \in Messages :
              /\ toUi' = Append(Append(toUi, a), b)
              /\ a.do = "complete" /\ a.text = j.text /\ Kind(a) = "complete"
              /\ b.do = "returned" /\ b.admitted /\ Kind(b) = "returned" /\ b.why = "turn"
    BY <1>2, <1>8, CloseOutKeeps DEF Interfaces, TurnStep, fences, counts
  <2>2. PICK q \in Seq(Messages) : q = Append(toUi, a)
    BY <2>1, <1>3, Appended
  <2>3. Added(toUi, q, a)
    BY <2>2, <1>3, AppendFacts DEF Added
  <2>4. toUi' = Append(q, b)
    BY <2>1, <2>2
  <2>5. Added(q, toUi', b)
    BY <2>2, <2>4, AppendFacts DEF Added
  <2>6. j.stage = "closing" /\ jobs' = {} /\ UNCHANGED context
    BY <1>3, <1>8 DEF CloseOut
  <2>7. Closes(j, a, b, q)
    BY <2>1, <2>2, <2>3, <2>4, <2>5, <2>6, <1>2, <1>3 DEF Closes
  <2>8. QED
    BY <2>7 DEF TurnMoves
<1>9. QED
  BY <1>1, <1>4, <1>5, <1>6, <1>7, <1>8

LEMMA FinishEffect ==
  ASSUME Typed, NEW o \in ops, Finish(o)
  PROVE  OperationEnds
<1>1. o \in Ops /\ toUi \in Seq(Messages)
  BY DEF Typed, RuntimeTyped, QueuesTyped
<1>2. Interfaces /\ ops' = ops \ {o} /\ UNCHANGED <<toRt, jobs>>
      /\ doubt' = (doubt \/ (o.do = "clear" /\ jobs # {}))
  BY DEF Finish, Interfaces, fences, counts
<1>3. CASE o.do = "restore"
  <2>1. PICK whole \in BOOLEAN, conversation \in {FALSE, o.at <= Len(context) + 1} :
              /\ context' = IF conversation THEN SubSeq(context, 1, o.at - 1) ELSE context
              /\ toUi' = Append(toUi, [do |-> "restored", whole |-> whole,
                                       conversation |-> conversation, text |-> {}])
    BY <1>3 DEF Finish
  <2>2. conversation \in BOOLEAN
    <3>1. (o.at <= Len(context) + 1) \in BOOLEAN
      OBVIOUS
    <3>2. QED
      BY <3>1, <2>1
  <2>3. PICK m : m = [do |-> "restored", whole |-> whole, conversation |-> conversation, text |-> {}]
    OBVIOUS
  <2>4. m \in Messages /\ m.do = "restored" /\ (m.conversation <=> conversation)
    BY <2>2, <2>3 DEF Messages
  <2>5. Told(m)
    BY <2>1, <2>3, <2>4, <1>1, ToldIs
  <2>6. doubt' = doubt
    <3>1. doubt \in BOOLEAN
      BY DEF Typed, FlagsTyped
    <3>2. QED
      BY <3>1, <1>2, <1>3
  <2>7. FinishesRestore(o, m)
    BY <2>1, <2>4, <2>5, <2>6, <1>2, <1>3 DEF FinishesRestore
  <2>8. QED
    BY <2>4, <2>7 DEF OperationEnds
<1>4. CASE o.do # "restore"
  <2>1. o.do \in {"clear", "compact"} /\ o.id \in Nat
    BY <1>1, <1>4 DEF Ops
  <2>2. PICK cleared \in (IF o.do = "clear" THEN BOOLEAN ELSE {FALSE}) :
              /\ context' = IF cleared THEN <<>> ELSE context
              /\ toUi' = Append(toUi, [do |-> "operated", id |-> o.id, cleared |-> cleared,
                                       text |-> {}])
    BY <1>4 DEF Finish
  <2>3. cleared \in BOOLEAN /\ (cleared => o.do = "clear")
    BY <2>2
  <2>4. PICK m : m = [do |-> "operated", id |-> o.id, cleared |-> cleared, text |-> {}]
    OBVIOUS
  <2>5. m \in Messages /\ m.do = "operated" /\ (m.cleared <=> cleared) /\ m.id = o.id
    BY <2>1, <2>3, <2>4 DEF Messages
  <2>6. Told(m)
    BY <2>2, <2>4, <2>5, <1>1, ToldIs
  <2>7. FinishesOperation(o, m)
    BY <2>1, <2>2, <2>3, <2>5, <2>6, <1>2 DEF FinishesOperation
  <2>8. QED
    BY <2>5, <2>7 DEF OperationEnds
<1>5. QED
  BY <1>3, <1>4

\* Every step, as far as the fences are concerned.
LEMMA Steps ==
  ASSUME Typed, Submissions, [Next]_vars
  PROVE  Step
<1>1. \A w \in Words : Type(w) \/ Generate(w) \/ StartGoal(w) => Quiet
  BY UserQuiet
<1>2. /\ \A key \in {"enter", "queue"} : Press(key) => Quiet
      /\ Recall \/ Deliver \/ HearOther \/ UNCHANGED vars => Quiet
  BY OthersQuiet
<1>3. /\ \A i \in Checkpoints : Restore(i) => UserDoes
      /\ \A do \in {"clear", "compact"} : Operate(do) => UserDoes
  BY UserEffect
<1>4. CallRestore \/ CallOperation \/ GiveUpClear \/ TimeOut => WorkerDoes
  BY WorkerEffect
<1>5. HearStart \/ HearComplete \/ HearReturn \/ HearRestored \/ HearOperated => InterfaceHears
  BY HearEffect
<1>6. /\ Take => RuntimeTakes
      /\ TurnStep => Quiet \/ TurnMoves
      /\ \A o \in ops : Finish(o) => OperationEnds
  BY TakeEffect, TurnEffect, FinishEffect
<1>7. QED
  BY <1>1, <1>2, <1>3, <1>4, <1>5, <1>6, Zenon DEF Next, User, Interface, Runtime, Step

-----------------------------------------------------------------------------
(* The restore.                                                             *)

\* Nothing was said about the restore.
NoRestoreCall ==
  /\ ("restore" \notin Kinds(toRt) => "restore" \notin Kinds(toRt'))
  /\ (Once(toRt, "restore") => Once(toRt', "restore"))
  /\ \A c \in Range(toRt') : c.do = "restore" => c \in Range(toRt)
NoRestoreNews ==
  /\ ("restored" \notin Kinds(toUi) => "restored" \notin Kinds(toUi'))
  /\ (Once(toUi, "restored") => Once(toUi', "restored"))
SameRestores == \A o : o.do = "restore" => (o \in ops' <=> o \in ops)

LEMMA CallFrames ==
  /\ UNCHANGED toRt => NoRestoreCall
  /\ Sending => NoRestoreCall
  /\ \A c : Put(c) /\ c.do # "restore" => NoRestoreCall
  /\ \A c : Taken(c) /\ c.do # "restore" => NoRestoreCall
<1>1. \A c : Put(c) /\ c.do # "restore" => NoRestoreCall
  BY DEF Put, Added, NoRestoreCall, Kind, Calls
<1>2. \A c : Taken(c) /\ c.do # "restore" => NoRestoreCall
  BY DEF Taken, Removed, NoRestoreCall, Kind, Calls
<1>3. UNCHANGED toRt => NoRestoreCall
  BY DEF NoRestoreCall
<1>4. QED
  BY <1>1, <1>2, <1>3 DEF Sending

LEMMA NewsFrames ==
  /\ UNCHANGED toUi => NoRestoreNews
  /\ \A m : Told(m) /\ m.do # "restored" => NoRestoreNews
  /\ \A m : Heard(m) /\ m.do # "restored" => NoRestoreNews
<1>1. \A m : Told(m) /\ m.do # "restored" => NoRestoreNews
  BY DEF Told, Added, NoRestoreNews, Kind, Messages
<1>2. \A m : Heard(m) /\ m.do # "restored" => NoRestoreNews
  BY DEF Heard, Removed, NoRestoreNews, Kind, Messages
<1>3. QED
  BY <1>1, <1>2 DEF NoRestoreNews

\* The position of the restore is a turn that is there.
RestoreInRange ==
  /\ rewind.stage = "wait" => rewind.at \in 1..(Len(turns) + (IF running # 0 THEN 1 ELSE 0))
  /\ rewind.stage = "called" => rewind.at \in 1..Len(turns)
RestorePlace ==
  /\ \A c \in Range(toRt) : c.do = "restore" => c.at = rewind.at
  /\ \A o \in ops : o.do = "restore" => o.at = rewind.at
  /\ \/ /\ rewind.stage = "called" /\ Once(toRt, "restore")
        /\ ~Restoring /\ "restored" \notin Kinds(toUi)
     \/ /\ rewind.stage = "called" /\ "restore" \notin Kinds(toRt)
        /\ Restoring /\ "restored" \notin Kinds(toUi)
     \/ /\ rewind.stage = "called" /\ "restore" \notin Kinds(toRt)
        /\ ~Restoring /\ Once(toUi, "restored")
     \/ /\ rewind.stage # "called" /\ "restore" \notin Kinds(toRt)
        /\ ~Restoring /\ "restored" \notin Kinds(toUi)

LEMMA RestoreSplit == /\ RestoreAt <=> RestoreInRange /\ RestorePlace
BY DEF RestoreAt, RestoreInRange, RestorePlace

LEMMA RestoreStays ==
  ASSUME RestorePlace, NoRestoreCall, NoRestoreNews, SameRestores,
         rewind'.at = rewind.at, rewind'.stage = "called" <=> rewind.stage = "called"
  PROVE  RestorePlace'
<1>1. Restoring' <=> Restoring
  BY DEF Restoring, SameRestores
<1>2. QED
  BY <1>1 DEF RestorePlace, NoRestoreCall, NoRestoreNews, SameRestores

LEMMA RestoreKinds ==
  /\ \A c \in Range(toRt) : c.do = "restore" => "restore" \in Kinds(toRt)
  /\ \A m \in Range(toUi) : m.do = "restored" => "restored" \in Kinds(toUi)
<1>1. \A c : c.do = "restore" \/ c.do = "restored" => Kind(c) = c.do
  BY DEF Kind
<1>2. QED
  BY <1>1, KindIn

LEMMA RestorePlaceStep ==
  ASSUME Typed, RestorePlace, RestoreApart, Step
  PROVE  RestorePlace'
<1>o. ops \subseteq Ops
  BY DEF Typed, RuntimeTyped
<1>k. \A k : Once(toRt, k) => k \in Kinds(toRt)
  BY KindIn
<1>l. \A k : Once(toUi, k) => k \in Kinds(toUi)
  BY KindIn
<1>1. CASE Quiet
  <2>1. NoRestoreCall /\ NoRestoreNews /\ SameRestores
    BY <1>1, CallFrames, NewsFrames DEF Quiet, SameRestores
  <2>2. QED
    BY <2>1, <1>1, RestoreStays DEF Quiet
<1>2. CASE UserDoes
  <2>1. ASSUME NEW i, Restores(i)
        PROVE  RestorePlace'
    <3>1. /\ rewind.stage = "none" /\ rewind'.stage = "wait"
          /\ UNCHANGED <<toRt, toUi, ops>>
      BY <2>1 DEF Restores, NoRewind
    <3>2. "restore" \notin Kinds(toRt) /\ ~Restoring /\ "restored" \notin Kinds(toUi)
      BY <3>1 DEF RestorePlace
    <3>3. (\A c \in Range(toRt) : c.do # "restore") /\ \A o \in ops : o.do # "restore"
      BY <3>2, RestoreKinds DEF Restoring
    <3>4. ~Restoring'
      BY <3>1, <3>3 DEF Restoring
    <3>5. QED
      BY <3>1, <3>2, <3>3, <3>4 DEF RestorePlace
  <2>2. CASE Operates
    <3>1. NoRestoreCall /\ NoRestoreNews /\ SameRestores
      BY <2>2, CallFrames, NewsFrames DEF Operates, SameRestores
    <3>2. QED
      BY <3>1, <2>2, RestoreStays DEF Operates
  <2>3. QED
    BY <1>2, <2>1, <2>2 DEF UserDoes
<1>3. CASE WorkerDoes
  <2>1. CASE GivesUp
    <3>1. NoRestoreCall /\ NoRestoreNews /\ SameRestores
      BY <2>1, CallFrames, NewsFrames DEF GivesUp, SameRestores
    <3>2. QED
      BY <3>1, <2>1, RestoreStays DEF GivesUp
  <2>2. ASSUME NEW c \in Calls, CallsRestore(c)
        PROVE  RestorePlace'
    <3>1. /\ rewind.stage = "wait" /\ rewind'.stage = "called" /\ rewind'.at = rewind.at
          /\ c.at = rewind.at /\ c.do = "restore" /\ Put(c) /\ UNCHANGED <<toUi, ops>>
      BY <2>2 DEF CallsRestore
    <3>2. "restore" \notin Kinds(toRt) /\ ~Restoring /\ "restored" \notin Kinds(toUi)
      BY <3>1 DEF RestorePlace
    <3>3. Kind(c) = "restore"
      BY <3>1 DEF Kind
    <3>4. Once(toRt', "restore") /\ Range(toRt') = Range(toRt) \cup {c}
      BY <3>1, <3>2, <3>3 DEF Put, Added
    <3>5. ~Restoring'
      BY <3>1, <3>2 DEF Restoring
    <3>6. QED
      BY <3>1, <3>2, <3>4, <3>5 DEF RestorePlace
  <2>3. ASSUME NEW c \in Calls, CallsOperation(c) \/ TimesOut(c)
        PROVE  RestorePlace'
    <3>1. Put(c) /\ c.do # "restore" /\ UNCHANGED <<toUi, ops, rewind>>
      BY <2>3 DEF CallsOperation, TimesOut
    <3>2. NoRestoreCall /\ NoRestoreNews /\ SameRestores
      BY <3>1, CallFrames, NewsFrames DEF SameRestores
    <3>3. QED
      BY <3>1, <3>2, RestoreStays
  <2>4. QED
    BY <1>3, <2>1, <2>2, <2>3 DEF WorkerDoes
<1>4. CASE InterfaceHears
  <2>1. ASSUME NEW m \in Messages,
               HearsStart(m) \/ HearsComplete(m) \/ HearsReturn(m) \/ HearsOperated(m)
        PROVE  RestorePlace'
    <3>1. Heard(m) /\ m.do # "restored" /\ UNCHANGED <<ops, rewind>>
      BY <2>1 DEF HearsStart, HearsComplete, HearsReturn, HearsOperated
    <3>2. UNCHANGED toRt \/ Sending
      BY <2>1 DEF HearsStart, HearsComplete, HearsReturn, HearsOperated
    <3>3. NoRestoreCall /\ NoRestoreNews /\ SameRestores
      BY <3>1, <3>2, CallFrames, NewsFrames DEF SameRestores
    <3>4. QED
      BY <3>1, <3>3, RestoreStays
  <2>2. ASSUME NEW m \in Messages, HearsRestored(m)
        PROVE  RestorePlace'
    <3>1. Heard(m) /\ m.do = "restored" /\ Sending /\ rewind' = NoRewind /\ UNCHANGED ops
      BY <2>2 DEF HearsRestored
    <3>2. Kind(m) = "restored" /\ rewind'.stage = "none"
      BY <3>1 DEF Kind, NoRewind
    <3>3. "restored" \in Kinds(toUi)
      BY <3>1, <3>2 DEF Heard, Removed
    <3>4. "restore" \notin Kinds(toRt) /\ ~Restoring /\ Once(toUi, "restored")
      BY <3>3 DEF RestorePlace
    <3>5. "restored" \notin Kinds(toUi')
      BY <3>1, <3>2, <3>4 DEF Heard, Removed
    <3>6. "restore" \notin Kinds(toRt') /\ \A c \in Range(toRt') : c.do = "restore" => c \in Range(toRt)
      BY <3>1, <3>4, CallFrames DEF NoRestoreCall
    <3>7. (\A c \in Range(toRt) : c.do # "restore") /\ \A o \in ops : o.do # "restore"
      BY <3>4, RestoreKinds DEF Restoring
    <3>8. ~Restoring'
      BY <3>1, <3>7 DEF Restoring
    <3>9. QED
      BY <3>1, <3>2, <3>5, <3>6, <3>7, <3>8 DEF RestorePlace
  <2>3. QED
    BY <1>4, <2>1, <2>2 DEF InterfaceHears
<1>5. CASE RuntimeTakes
  <2>r. UNCHANGED rewind
    BY <1>5 DEF RuntimeTakes, TakesSubmit, TakesRestore, TakesOperation, TakesCancel,
               TurnsRestoreAway, Interfaces
  <2>1. ASSUME NEW c \in Calls, Taken(c), c.do # "restore", UNCHANGED toUi, SameRestores
        PROVE  RestorePlace'
    <3>1. NoRestoreCall /\ NoRestoreNews
      BY <2>1, CallFrames, NewsFrames
    <3>2. QED
      BY <3>1, <2>1, <2>r, RestoreStays
  <2>2. ASSUME NEW c \in Calls, NEW j, TakesSubmit(c, j)
        PROVE  RestorePlace'
    BY <2>2, <2>1 DEF TakesSubmit, SameRestores
  <2>3. ASSUME NEW c \in Calls, TakesOperation(c)
        PROVE  RestorePlace'
    <3>1. SameRestores /\ c.do # "restore" /\ Taken(c) /\ UNCHANGED toUi
      BY <2>3 DEF TakesOperation, SameRestores
    <3>2. QED
      BY <3>1, <2>1
  <2>4. ASSUME NEW c \in Calls, TakesCancel(c)
        PROVE  RestorePlace'
    <3>1. SameRestores /\ c.do # "restore" /\ Taken(c) /\ UNCHANGED toUi
      BY <2>4 DEF TakesCancel, SameRestores
    <3>2. QED
      BY <3>1, <2>1
  <2>5. ASSUME NEW c \in Calls, Taken(c), c.do = "restore"
        PROVE  /\ rewind.stage = "called" /\ ~Restoring /\ "restored" \notin Kinds(toUi)
               /\ "restore" \notin Kinds(toRt') /\ c.at = rewind.at
               /\ Range(toRt') \subseteq Range(toRt)
    <3>1. Kind(c) = "restore"
      BY <2>5 DEF Kind
    <3>2. "restore" \in Kinds(toRt) /\ c \in Range(toRt)
      BY <3>1, <2>5 DEF Taken, Removed
    <3>3. rewind.stage = "called" /\ ~Restoring /\ "restored" \notin Kinds(toUi) /\ Once(toRt, "restore")
      BY <3>2 DEF RestorePlace
    <3>4. QED
      BY <3>1, <3>2, <3>3, <2>5 DEF Taken, Removed, RestorePlace
  <2>6. ASSUME NEW c \in Calls, TakesRestore(c)
        PROVE  RestorePlace'
    <3>1. Taken(c) /\ c.do = "restore" /\ ops' = ops \cup {c} /\ UNCHANGED toUi
      BY <2>6 DEF TakesRestore
    <3>2. Restoring'
      BY <3>1 DEF Restoring
    <3>3. QED
      BY <3>1, <3>2, <2>5, <2>r DEF RestorePlace
  <2>7. ASSUME NEW c \in Calls, NEW m, TurnsRestoreAway(c, m)
        PROVE  RestorePlace'
    <3>1. Taken(c) /\ c.do = "restore" /\ Told(m) /\ m.do = "restored" /\ UNCHANGED ops
      BY <2>7 DEF TurnsRestoreAway
    <3>2. Kind(m) = "restored"
      BY <3>1 DEF Kind
    <3>3. Once(toUi', "restored")
      BY <3>1, <3>2, <2>5 DEF Told, Added
    <3>4. ~Restoring'
      BY <3>1, <2>5 DEF Restoring
    <3>5. QED
      BY <3>1, <3>3, <3>4, <2>5, <2>r DEF RestorePlace
  <2>8. QED
    BY <1>5, <2>2, <2>3, <2>4, <2>6, <2>7 DEF RuntimeTakes
<1>6. CASE TurnMoves
  <2>1. ASSUME NEW j, NEW m, Refuses(j, m)
        PROVE  RestorePlace'
    <3>1. Told(m) /\ m.do # "restored" /\ UNCHANGED <<toRt, ops, rewind>>
      BY <2>1 DEF Refuses, Interfaces
    <3>2. QED
      BY <3>1, CallFrames, NewsFrames, RestoreStays DEF SameRestores
  <2>2. ASSUME NEW j, NEW k, Begins(j, k) \/ Executes(j, k)
        PROVE  RestorePlace'
    <3>1. UNCHANGED <<toRt, toUi, ops, rewind>>
      BY <2>2 DEF Begins, Executes, Interfaces
    <3>2. QED
      BY <3>1, CallFrames, NewsFrames, RestoreStays DEF SameRestores
  <2>3. ASSUME NEW j, NEW k, NEW m, Announces(j, k, m)
        PROVE  RestorePlace'
    <3>1. Told(m) /\ m.do # "restored" /\ UNCHANGED <<toRt, ops, rewind>>
      BY <2>3 DEF Announces, Interfaces
    <3>2. QED
      BY <3>1, CallFrames, NewsFrames, RestoreStays DEF SameRestores
  <2>4. ASSUME NEW j, NEW a, NEW b, NEW q, Closes(j, a, b, q)
        PROVE  RestorePlace'
    <3>1. Kind(a) # "restored" /\ Kind(b) # "restored" /\ UNCHANGED <<toRt, ops, rewind>>
      BY <2>4 DEF Closes, Interfaces, Kind
    <3>2. /\ ("restored" \notin Kinds(toUi) => "restored" \notin Kinds(q))
          /\ (Once(toUi, "restored") => Once(q, "restored"))
      BY <2>4, <3>1 DEF Closes, Added
    <3>3. NoRestoreNews
      BY <2>4, <3>1, <3>2 DEF Closes, Added, NoRestoreNews
    <3>4. QED
      BY <3>1, <3>3, CallFrames, RestoreStays DEF SameRestores
  <2>5. QED
    BY <1>6, <2>1, <2>2, <2>3, <2>4 DEF TurnMoves
<1>7. CASE OperationEnds
  <2>1. ASSUME NEW o \in ops, NEW m \in Messages, FinishesRestore(o, m)
        PROVE  RestorePlace'
    <3>1. /\ o.do = "restore" /\ ops' = ops \ {o} /\ Told(m) /\ m.do = "restored"
          /\ UNCHANGED <<toRt, rewind>>
      BY <2>1 DEF FinishesRestore, Interfaces
    <3>2. \A p \in ops : p.do = "restore" => p = [do |-> "restore", at |-> rewind.at, text |-> {}]
      <4>1. \A p \in Ops : p.do = "restore" => p = [do |-> "restore", at |-> p.at, text |-> {}]
        BY DEF Ops
      <4>2. QED
        BY <4>1, <1>o DEF RestorePlace
    <3>3. ~Restoring'
      BY <3>1, <3>2 DEF Restoring
    <3>4. Restoring
      BY <3>1 DEF Restoring
    <3>5. rewind.stage = "called" /\ "restore" \notin Kinds(toRt) /\ "restored" \notin Kinds(toUi)
      BY <3>4, <1>k, <1>l DEF RestorePlace
    <3>6. Kind(m) = "restored"
      BY <3>1 DEF Kind
    <3>7. Once(toUi', "restored")
      BY <3>1, <3>5, <3>6 DEF Told, Added
    <3>8. QED
      BY <3>1, <3>3, <3>5, <3>7 DEF RestorePlace
  <2>2. ASSUME NEW o \in ops, NEW m \in Messages, FinishesOperation(o, m)
        PROVE  RestorePlace'
    <3>1. Told(m) /\ m.do # "restored" /\ UNCHANGED <<toRt, rewind>> /\ SameRestores
      BY <2>2 DEF FinishesOperation, Interfaces, SameRestores
    <3>2. QED
      BY <3>1, CallFrames, NewsFrames, RestoreStays
  <2>3. QED
    BY <1>7, <2>1, <2>2 DEF OperationEnds
<1>8. QED
  BY <1>1, <1>2, <1>3, <1>4, <1>5, <1>6, <1>7 DEF Step

LEMMA RestoreInRangeStep ==
  ASSUME Typed, RestoreInRange, RestoreApart, Step
  PROVE  RestoreInRange'
<1>t. /\ turns \in Seq(Texts) /\ Len(turns) \in Nat
      /\ (rewind.stage = "none" <=> rewind = NoRewind) /\ (ctx.stage = "none" <=> ctx = NoOp)
  BY DEF Typed, QueuesTyped, FlagsTyped
<1>1. CASE Quiet
  BY <1>1 DEF Quiet, RestoreInRange
<1>2. CASE UserDoes
  <2>1. ASSUME NEW i, Restores(i)
        PROVE  RestoreInRange'
    BY <2>1 DEF Restores, RestoreInRange, Checkpoints
  <2>2. CASE Operates
    BY <2>2 DEF Operates, RestoreInRange
  <2>3. QED
    BY <1>2, <2>1, <2>2 DEF UserDoes
<1>3. CASE WorkerDoes
  <2>1. CASE GivesUp
    BY <2>1 DEF GivesUp, RestoreInRange
  <2>2. ASSUME NEW c \in Calls, CallsRestore(c)
        PROVE  RestoreInRange'
    BY <2>2 DEF CallsRestore, RestoreInRange
  <2>3. ASSUME NEW c \in Calls, CallsOperation(c) \/ TimesOut(c)
        PROVE  RestoreInRange'
    BY <2>3 DEF CallsOperation, TimesOut, RestoreInRange
  <2>4. QED
    BY <1>3, <2>1, <2>2, <2>3 DEF WorkerDoes
<1>4. CASE InterfaceHears
  <2>1. ASSUME NEW m \in Messages, HearsStart(m)
        PROVE  RestoreInRange'
    <3>1. running = 0 /\ running' # 0 /\ UNCHANGED <<turns, rewind>>
      BY <2>1 DEF HearsStart
    <3>2. QED
      BY <3>1, <1>t DEF RestoreInRange
  <2>2. ASSUME NEW m \in Messages, HearsComplete(m)
        PROVE  RestoreInRange'
    <3>1. running # 0 /\ running' = 0 /\ turns' = Append(turns, m.text) /\ UNCHANGED rewind
      BY <2>2 DEF HearsComplete
    <3>2. Len(turns') = Len(turns) + 1
      BY <3>1, <1>t
    <3>3. QED
      BY <3>1, <3>2, <1>t DEF RestoreInRange
  <2>3. ASSUME NEW m \in Messages, HearsReturn(m)
        PROVE  RestoreInRange'
    BY <2>3 DEF HearsReturn, RestoreInRange
  <2>4. ASSUME NEW m \in Messages, HearsRestored(m)
        PROVE  RestoreInRange'
    <3>1. rewind'.stage = "none"
      BY <2>4 DEF HearsRestored, NoRewind
    <3>2. QED
      BY <3>1 DEF RestoreInRange
  <2>5. ASSUME NEW m \in Messages, HearsOperated(m)
        PROVE  RestoreInRange'
    <3>1. UNCHANGED <<running, rewind>> /\ (turns' = turns \/ ctx.stage = "called")
      BY <2>5 DEF HearsOperated, Called
    <3>2. CASE turns' = turns
      BY <3>1, <3>2 DEF RestoreInRange
    <3>3. CASE ctx.stage = "called"
      <4>1. rewind.stage = "none"
        BY <3>3, <1>t DEF RestoreApart, Rewinding
      <4>2. QED
        BY <3>1, <4>1 DEF RestoreInRange
    <3>4. QED
      BY <3>1, <3>2, <3>3
  <2>6. QED
    BY <1>4, <2>1, <2>2, <2>3, <2>4, <2>5 DEF InterfaceHears
<1>5. CASE RuntimeTakes \/ TurnMoves \/ OperationEnds
  <2>1. Interfaces
    BY <1>5 DEF RuntimeTakes, TakesSubmit, TakesRestore, TakesOperation, TakesCancel, TurnsRestoreAway,
                TurnMoves, Refuses, Begins, Executes, Announces, Closes, OperationEnds,
                FinishesRestore, FinishesOperation
  <2>2. QED
    BY <2>1 DEF Interfaces, RestoreInRange
<1>6. QED
  BY <1>1, <1>2, <1>3, <1>4, <1>5 DEF Step

\* What a step may do to the jobs and the answers, seen from the restore.
ClosingOrComplete == (\E j \in jobs : j.stage = "closing") \/ "complete" \in Kinds(toUi)

LEMMA RestoreApartStep ==
  ASSUME Typed, Submissions, RestorePlace, RestoreApart, Step
  PROVE  RestoreApart'
<1>t. /\ (rewind.stage = "none" <=> rewind = NoRewind) /\ (ctx.stage = "none" <=> ctx = NoOp)
  BY DEF Typed, FlagsTyped
<1>a. /\ Rewinding => ctx = NoOp
      /\ \A j \in jobs : j.stage # "preflight" => ~Restoring
      /\ ClosingOrComplete => rewind.stage # "called"
  BY DEF RestoreApart, ClosingOrComplete
<1>q. /\ (Rewinding' => ctx' = NoOp)
      /\ (\A j \in jobs' : j.stage # "preflight" => ~Restoring')
      /\ (ClosingOrComplete' => rewind'.stage # "called")
      => RestoreApart'
  BY DEF RestoreApart, ClosingOrComplete
<1>s. ASSUME UNCHANGED <<rewind, ctx>>
      PROVE  Rewinding' => ctx' = NoOp
  BY <1>s, <1>a DEF Rewinding
<1>k. ASSUME NEW c, Kind(c) # "complete", Told(c) \/ Heard(c)
      PROVE  "complete" \in Kinds(toUi') => "complete" \in Kinds(toUi)
  BY <1>k DEF Told, Heard, Added, Removed
<1>0. ASSUME UNCHANGED <<jobs, ops, toUi>>
      PROVE  (Restoring' <=> Restoring) /\ (ClosingOrComplete' <=> ClosingOrComplete)
  BY <1>0 DEF Restoring, ClosingOrComplete
<1>1. CASE Quiet
  <2>1. UNCHANGED <<jobs, ops, toUi, rewind, ctx>>
    BY <1>1 DEF Quiet
  <2>2. QED
    BY <2>1, <1>0, <1>a, <1>q DEF Rewinding
<1>2. CASE UserDoes
  <2>1. ASSUME NEW i, Restores(i)
        PROVE  RestoreApart'
    <3>1. UNCHANGED <<jobs, ops, toUi>> /\ ctx' = NoOp /\ rewind'.stage = "wait"
      BY <2>1 DEF Restores
    <3>2. QED
      BY <3>1, <1>0, <1>a, <1>q
  <2>2. CASE Operates
    <3>1. UNCHANGED <<jobs, ops, toUi, rewind>> /\ rewind = NoRewind
      BY <2>2 DEF Operates
    <3>2. QED
      BY <3>1, <1>0, <1>a, <1>q DEF Rewinding
  <2>3. QED
    BY <1>2, <2>1, <2>2 DEF UserDoes
<1>3. CASE WorkerDoes
  <2>1. CASE GivesUp
    <3>1. UNCHANGED <<jobs, ops, toUi, rewind>> /\ ctx' = NoOp
      BY <2>1 DEF GivesUp
    <3>2. QED
      BY <3>1, <1>0, <1>a, <1>q DEF Rewinding
  <2>2. ASSUME NEW c \in Calls, CallsRestore(c)
        PROVE  RestoreApart'
    <3>1. UNCHANGED <<jobs, ops, toUi, ctx>> /\ running = 0 /\ rewind.stage = "wait"
      BY <2>2 DEF CallsRestore
    <3>2. ctx = NoOp
      BY <3>1, <1>a, <1>t DEF Rewinding
    <3>3. ~ClosingOrComplete
      <4>1. ~InTurn
        BY <3>1 DEF InTurn
      <4>2. "complete" \notin Kinds(toUi)
        BY <4>1, InMessage DEF Submissions
      <4>3. \A j \in jobs : j.stage # "closing"
        BY <4>1, InJob DEF Submissions
      <4>4. QED
        BY <4>2, <4>3 DEF ClosingOrComplete
    <3>4. QED
      BY <3>1, <3>2, <3>3, <1>0, <1>a, <1>q
  <2>3. ASSUME NEW c \in Calls, CallsOperation(c) \/ TimesOut(c)
        PROVE  RestoreApart'
    <3>1. UNCHANGED <<jobs, ops, toUi, rewind>> /\ ctx # NoOp
      BY <2>3, <1>t DEF CallsOperation, TimesOut
    <3>2. QED
      BY <3>1, <1>0, <1>a, <1>q DEF Rewinding
  <2>4. QED
    BY <1>3, <2>1, <2>2, <2>3 DEF WorkerDoes
<1>4. CASE InterfaceHears
  <2>1. ASSUME NEW m \in Messages,
               HearsStart(m) \/ HearsComplete(m) \/ HearsReturn(m) \/ HearsOperated(m) \/ HearsRestored(m)
        PROVE  RestoreApart'
    <3>1. Heard(m) /\ UNCHANGED <<jobs, ops>> /\ rewind' \in {rewind, NoRewind} /\ ctx' \in {ctx, NoOp}
      BY <2>1 DEF HearsStart, HearsComplete, HearsReturn, HearsOperated, HearsRestored
    <3>2. Restoring' <=> Restoring
      BY <3>1 DEF Restoring
    <3>3. ClosingOrComplete' => ClosingOrComplete
      BY <3>1 DEF ClosingOrComplete, Heard, Removed
    <3>4. (rewind'.stage = "called" => rewind.stage = "called") /\ (Rewinding' => Rewinding)
      BY <3>1 DEF NoRewind, Rewinding
    <3>5. QED
      BY <3>1, <3>2, <3>3, <3>4, <1>a, <1>q
  <2>2. QED
    BY <1>4, <2>1 DEF InterfaceHears
<1>5. CASE RuntimeTakes
  <2>1. UNCHANGED <<rewind, ctx>>
    BY <1>5 DEF RuntimeTakes, TakesSubmit, TakesRestore, TakesOperation, TakesCancel,
               TurnsRestoreAway, Interfaces
  <2>2. ASSUME NEW c \in Calls, NEW j, TakesSubmit(c, j)
        PROVE  RestoreApart'
    <3>1. jobs' = {j} /\ j.stage = "preflight" /\ UNCHANGED <<ops, toUi>>
      BY <2>2 DEF TakesSubmit
    <3>2. ClosingOrComplete' => ClosingOrComplete
      BY <3>1 DEF ClosingOrComplete
    <3>3. QED
      BY <3>1, <3>2, <2>1, <1>a, <1>q, <1>s
  <2>3. ASSUME NEW c \in Calls, TakesRestore(c)
        PROVE  RestoreApart'
    <3>1. Taken(c) /\ c.do = "restore" /\ ~Executing /\ UNCHANGED <<jobs, toUi>>
      BY <2>3 DEF TakesRestore
    <3>2. Kind(c) = "restore"
      BY <3>1 DEF Kind
    <3>3. rewind.stage = "called"
      BY <3>1, <3>2 DEF RestorePlace, Taken, Removed
    <3>4. ~ClosingOrComplete
      BY <3>3, <1>a
    <3>5. \A j \in jobs : j.stage = "preflight"
      <4>1. \A j \in jobs : j.stage \in {"preflight", "begin", "turn", "closing"}
        BY DEF Typed, RuntimeTyped, Jobs
      <4>2. QED
        BY <4>1, <3>1, <3>4 DEF Executing, ClosingOrComplete
    <3>6. ~ClosingOrComplete'
      BY <3>1, <3>4 DEF ClosingOrComplete
    <3>7. QED
      BY <3>1, <3>5, <3>6, <2>1, <1>q, <1>s
  <2>4. ASSUME NEW c \in Calls, TakesOperation(c) \/ TakesCancel(c)
        PROVE  RestoreApart'
    <3>1. UNCHANGED <<jobs, toUi>> /\ \A o \in ops' : o.do = "restore" => o \in ops
      BY <2>4 DEF TakesOperation, TakesCancel
    <3>2. (ClosingOrComplete' => ClosingOrComplete) /\ (Restoring' => Restoring)
      BY <3>1 DEF ClosingOrComplete, Restoring
    <3>3. QED
      BY <3>1, <3>2, <2>1, <1>a, <1>q, <1>s
  <2>5. ASSUME NEW c \in Calls, NEW m \in Messages, TurnsRestoreAway(c, m)
        PROVE  RestoreApart'
    <3>1. UNCHANGED <<jobs, ops>> /\ Told(m) /\ Kind(m) # "complete"
      BY <2>5 DEF TurnsRestoreAway, Kind
    <3>2. (ClosingOrComplete' => ClosingOrComplete) /\ (Restoring' => Restoring)
      BY <3>1, <1>k DEF ClosingOrComplete, Restoring
    <3>3. QED
      BY <3>1, <3>2, <2>1, <1>a, <1>q, <1>s
  <2>6. QED
    BY <1>5, <2>2, <2>3, <2>4, <2>5 DEF RuntimeTakes
<1>6. CASE TurnMoves
  <2>1. UNCHANGED <<rewind, ctx, ops>>
    BY <1>6 DEF TurnMoves, Refuses, Begins, Executes, Announces, Closes, Interfaces
  <2>r. Restoring' <=> Restoring
    BY <2>1 DEF Restoring
  <2>2. ASSUME NEW j \in jobs, NEW m, Refuses(j, m)
        PROVE  RestoreApart'
    <3>1. jobs' = {} /\ Told(m) /\ Kind(m) # "complete"
      BY <2>2 DEF Refuses
    <3>2. ClosingOrComplete' => ClosingOrComplete
      BY <3>1, <1>k DEF ClosingOrComplete
    <3>3. QED
      BY <3>1, <3>2, <2>1, <1>a, <1>q, <1>s
  <2>3. ASSUME NEW j \in jobs, NEW k, Begins(j, k)
        PROVE  RestoreApart'
    <3>1. jobs' = {k} /\ k.stage = "begin" /\ ~Restoring /\ UNCHANGED toUi
      BY <2>3 DEF Begins
    <3>2. ClosingOrComplete' => ClosingOrComplete
      BY <3>1 DEF ClosingOrComplete
    <3>3. QED
      BY <3>1, <3>2, <2>1, <2>r, <1>a, <1>q, <1>s
  <2>4. ASSUME NEW j \in jobs, NEW k, NEW m, Announces(j, k, m)
        PROVE  RestoreApart'
    <3>1. jobs' = {k} /\ k.stage = "turn" /\ j.stage = "begin" /\ Told(m) /\ Kind(m) # "complete"
      BY <2>4 DEF Announces, Kind
    <3>2. ClosingOrComplete' => ClosingOrComplete
      BY <3>1, <1>k DEF ClosingOrComplete
    <3>3. QED
      BY <3>1, <3>2, <2>1, <2>r, <1>a, <1>q, <1>s
  <2>5. ASSUME NEW j \in jobs, NEW k, Executes(j, k)
        PROVE  RestoreApart'
    <3>1. jobs' = {k} /\ j.stage = "turn" /\ toRt = <<>> /\ toUi = <<>> /\ UNCHANGED toUi
      BY <2>5 DEF Executes
    <3>2. ~Restoring
      BY <3>1, <1>a
    <3>3. rewind.stage # "called"
      BY <3>1, <3>2, EmptyFacts DEF RestorePlace
    <3>4. QED
      BY <3>1, <3>2, <3>3, <2>1, <2>r, <1>q, <1>s
  <2>6. ASSUME NEW j \in jobs, NEW a, NEW b, NEW q, Closes(j, a, b, q)
        PROVE  RestoreApart'
    <3>1. jobs' = {} /\ j.stage = "closing"
      BY <2>6 DEF Closes
    <3>2. rewind.stage # "called"
      BY <3>1, <1>a DEF ClosingOrComplete
    <3>3. QED
      BY <3>1, <3>2, <2>1, <1>q, <1>s
  <2>7. QED
    BY <1>6, <2>2, <2>3, <2>4, <2>5, <2>6 DEF TurnMoves
<1>7. CASE OperationEnds
  <2>1. PICK o \in ops, m \in Messages : FinishesRestore(o, m) \/ FinishesOperation(o, m)
    BY <1>7 DEF OperationEnds
  <2>2. /\ UNCHANGED <<rewind, ctx, jobs>> /\ ops' \subseteq ops /\ Told(m)
        /\ Kind(m) # "complete"
    BY <2>1 DEF FinishesRestore, FinishesOperation, Interfaces, Kind
  <2>3. (ClosingOrComplete' => ClosingOrComplete) /\ (Restoring' => Restoring)
    BY <2>2, <1>k DEF ClosingOrComplete, Restoring
  <2>4. QED
    BY <2>2, <2>3, <1>a, <1>q, <1>s
<1>8. QED
  BY <1>1, <1>2, <1>3, <1>4, <1>5, <1>6, <1>7 DEF Step

-----------------------------------------------------------------------------
(* Clears and compactions.                                                  *)

LEMMA SingleAppend ==
  ASSUME NEW S, NEW q \in Seq(S), Single(q), NEW m,
         \A x \in Range(q) : Numbered(x) /\ Numbered(m) => x.id # m.id
  PROVE  Single(Append(q, m))
<1>1. PICK n \in Nat :
           /\ DOMAIN Append(q, m) = DOMAIN q \cup {n} /\ n \notin DOMAIN q
           /\ Append(q, m)[n] = m
           /\ \A i \in DOMAIN q : Append(q, m)[i] = q[i]
  BY AppendAt
<1>2. PICK r : r = Append(q, m)
  OBVIOUS
<1>3. \A i \in DOMAIN q : q[i] \in Range(q)
  BY DEF Range
<1>4. Single(r)
  BY <1>1, <1>2, <1>3 DEF Single
<1>5. QED
  BY <1>2, <1>4

LEMMA SingleTail ==
  ASSUME NEW S, NEW q \in Seq(S), q # <<>>, Single(q)
  PROVE  /\ Single(Tail(q))
         /\ \A x \in Range(Tail(q)) : Numbered(x) /\ Numbered(Head(q)) => x.id # Head(q).id
<1>1. /\ 1 \in DOMAIN q /\ q[1] = Head(q)
      /\ \A i \in DOMAIN Tail(q) : i \in Nat /\ 0 < i /\ i + 1 \in DOMAIN q /\ Tail(q)[i] = q[i + 1]
  BY TailAt
<1>2. PICK r, h : r = Tail(q) /\ h = Head(q)
  OBVIOUS
<1>3. \A i \in DOMAIN r : i \in Nat /\ 0 < i /\ i + 1 \in DOMAIN q /\ r[i] = q[i + 1]
  BY <1>1, <1>2
<1>4. Single(r)
  <2>1. ASSUME NEW i \in DOMAIN r, NEW k \in DOMAIN r, Numbered(r[i]), Numbered(r[k]), r[i].id = r[k].id
        PROVE  i = k
    <3>1. i + 1 = k + 1
      BY <2>1, <1>3 DEF Single
    <3>2. QED
      BY <3>1, <1>3
  <2>2. QED
    BY <2>1 DEF Single
<1>5. ASSUME NEW x \in Range(r), Numbered(x), Numbered(h)
      PROVE  x.id # h.id
  <2>1. PICK i \in DOMAIN r : x = r[i]
    BY DEF Range
  <2>2. i + 1 \in DOMAIN q /\ i + 1 # 1 /\ x = q[i + 1]
    BY <2>1, <1>3
  <2>3. QED
    BY <2>2, <1>1, <1>2, <1>5 DEF Single
<1>6. QED
  BY <1>2, <1>4, <1>5

NoNewCall == Single(toRt') /\ \A x \in Range(toRt') : Numbered(x) => x \in Range(toRt)
NoNewAnswer == Single(toUi') /\ \A x \in Range(toUi') : Numbered(x) => x \in Range(toUi)
NoNewOperation == \A x \in ops' : Numbered(x) => x \in ops

LEMMA NoNewCallFrames ==
  ASSUME toRt \in Seq(Calls), Single(toRt)
  PROVE  /\ UNCHANGED toRt => NoNewCall
         /\ Sending => NoNewCall
         /\ \A c : Put(c) /\ ~Numbered(c) => NoNewCall
         /\ \A c : Taken(c) => NoNewCall
<1>1. ASSUME NEW c, Put(c), ~Numbered(c)
      PROVE  NoNewCall
  <2>1. Single(Append(toRt, c))
    BY <1>1, SingleAppend
  <2>2. QED
    BY <2>1, <1>1 DEF NoNewCall, Put, Added
<1>2. ASSUME NEW c, Taken(c)
      PROVE  NoNewCall
  <2>1. Single(Tail(toRt))
    BY <1>2, SingleTail DEF Taken
  <2>2. QED
    BY <2>1, <1>2 DEF NoNewCall, Taken, Removed
<1>3. UNCHANGED toRt => NoNewCall
  BY DEF NoNewCall, Single
<1>4. \A c : c.do = "submit" => ~Numbered(c)
  BY DEF Numbered
<1>5. QED
  BY <1>1, <1>2, <1>3, <1>4 DEF Sending

LEMMA NoNewAnswerFrames ==
  ASSUME toUi \in Seq(Messages), Single(toUi)
  PROVE  /\ UNCHANGED toUi => NoNewAnswer
         /\ \A m : Told(m) /\ ~Numbered(m) => NoNewAnswer
         /\ \A m : Heard(m) => NoNewAnswer
<1>1. ASSUME NEW c, Told(c), ~Numbered(c)
      PROVE  NoNewAnswer
  <2>1. Single(Append(toUi, c))
    BY <1>1, SingleAppend
  <2>2. QED
    BY <2>1, <1>1 DEF NoNewAnswer, Told, Added
<1>2. ASSUME NEW c, Heard(c)
      PROVE  NoNewAnswer
  <2>1. Single(Tail(toUi))
    BY <1>2, SingleTail DEF Heard
  <2>2. QED
    BY <2>1, <1>2 DEF NoNewAnswer, Heard, Removed
<1>3. UNCHANGED toUi => NoNewAnswer
  BY DEF NoNewAnswer, Single
<1>4. QED
  BY <1>1, <1>2, <1>3

LEMMA NumberedTyped ==
  ASSUME Typed
  PROVE  \A x \in Range(toRt) \cup ops \cup Range(toUi) : Numbered(x) => x.id \in Nat
<1>1. Range(toRt) \subseteq Calls /\ ops \subseteq Ops /\ Range(toUi) \subseteq Messages
  BY DEF Typed, QueuesTyped, RuntimeTyped, Range
<1>2. \A x \in Calls : Numbered(x) => x.id \in Nat
  BY CallIs DEF Numbered
<1>3. \A x \in Ops : Numbered(x) => x.id \in Nat
  BY DEF Numbered, Ops
<1>4. \A x \in Messages : Numbered(x) => x.id \in Nat
  BY MessageIs DEF Numbered
<1>5. QED
  BY <1>1, <1>2, <1>3, <1>4

\* Nothing new is numbered, and what was issued stays issued.
LEMMA OnceStays ==
  ASSUME Typed, OperationsOnce, NoNewCall, NoNewAnswer, NoNewOperation,
         \A x : x.id \in Nat /\ Issued(x) => Issued(x)',
         ctx'.id <= asked' /\ (ctx' # NoOp => ctx'.id # 0)
  PROVE  OperationsOnce'
<1>1. \A x \in Range(toRt) \cup ops \cup Range(toUi) : Numbered(x) => x.id \in Nat
  BY NumberedTyped
<1>2. \A o, p \in ops' : Numbered(o) /\ Numbered(p) /\ o.id = p.id => o = p
  BY DEF OperationsOnce, NoNewOperation
<1>3. \A c \in Range(toRt') : Numbered(c) => Issued(c)'
  BY <1>1 DEF OperationsOnce, NoNewCall
<1>4. \A c \in ops' : Numbered(c) => Issued(c)'
  BY <1>1 DEF OperationsOnce, NoNewOperation
<1>5. \A c \in Range(toUi') : Numbered(c) => Issued(c)'
  BY <1>1 DEF OperationsOnce, NoNewAnswer
<1>6. \A c \in Range(toRt') : Numbered(c) =>
         \A x \in ops' \cup Range(toUi') : Numbered(x) => x.id # c.id
  BY DEF OperationsOnce, NoNewCall, NoNewAnswer, NoNewOperation
<1>7. \A c \in ops' : Numbered(c) => \A x \in Range(toUi') : Numbered(x) => x.id # c.id
  BY DEF OperationsOnce, NoNewAnswer, NoNewOperation
<1>8. Single(toRt') /\ Single(toUi')
  BY DEF NoNewCall, NoNewAnswer
<1>9. QED
  BY <1>2, <1>3, <1>4, <1>5, <1>6, <1>7, <1>8 DEF OperationsOnce

LEMMA OperationsOnceStep ==
  ASSUME Typed, OperationsOnce, Step
  PROVE  OperationsOnce'
<1>t. /\ toRt \in Seq(Calls) /\ toUi \in Seq(Messages) /\ ops \subseteq Ops /\ asked \in Nat /\ ctx.id \in Nat
      /\ (ctx.stage = "none" <=> ctx = NoOp)
  BY DEF Typed, QueuesTyped, RuntimeTyped, FlagsTyped
<1>o. /\ Single(toRt) /\ Single(toUi) /\ ctx.id <= asked /\ (ctx # NoOp => ctx.id # 0)
  BY DEF OperationsOnce
<1>i. UNCHANGED <<ctx, asked>> =>
        /\ \A x : x.id \in Nat /\ Issued(x) => Issued(x)'
        /\ ctx'.id <= asked' /\ (ctx' # NoOp => ctx'.id # 0)
  BY <1>o DEF Issued
<1>n. ctx' = NoOp /\ asked' = asked =>
        /\ \A x : x.id \in Nat /\ Issued(x) => Issued(x)'
        /\ ctx'.id <= asked' /\ (ctx' # NoOp => ctx'.id # 0)
  BY <1>t DEF Issued, NoOp
<1>r. UNCHANGED toRt => NoNewCall
  BY <1>t, <1>o, NoNewCallFrames
<1>u. UNCHANGED toUi => NoNewAnswer
  BY <1>t, <1>o, NoNewAnswerFrames
<1>p. UNCHANGED ops => NoNewOperation
  BY DEF NoNewOperation
<1>1. CASE Quiet
  <2>1. Sending /\ UNCHANGED <<toUi, ops, ctx, asked>>
    BY <1>1 DEF Quiet
  <2>2. NoNewCall
    BY <2>1, <1>t, <1>o, NoNewCallFrames
  <2>3. QED
    BY <2>1, <2>2, <1>i, <1>u, <1>p, OnceStays
<1>2. CASE UserDoes
  <2>1. /\ UNCHANGED <<toRt, toUi, ops>> /\ asked' = asked + 1
        /\ (ctx' = ctx \/ ctx'.id = asked + 1)
    BY <1>2 DEF UserDoes, Restores, Operates
  <2>2. \A x : x.id \in Nat /\ Issued(x) => Issued(x)'
    BY <2>1, <1>t DEF Issued
  <2>3. ctx'.id <= asked' /\ (ctx' # NoOp => ctx'.id # 0)
    BY <2>1, <1>t, <1>o
  <2>4. QED
    BY <2>1, <2>2, <2>3, <1>r, <1>u, <1>p, OnceStays
<1>3. CASE WorkerDoes
  <2>1. CASE GivesUp
    <3>1. UNCHANGED <<toRt, toUi, ops, asked>> /\ ctx' = NoOp
      BY <2>1 DEF GivesUp
    <3>2. QED
      BY <3>1, <1>n, <1>r, <1>u, <1>p, OnceStays
  <2>2. ASSUME NEW c \in Calls, CallsRestore(c) \/ TimesOut(c)
        PROVE  OperationsOnce'
    <3>1. Put(c) /\ ~Numbered(c) /\ UNCHANGED <<toUi, ops, asked>> /\ ctx' \in {ctx, NoOp}
      BY <2>2 DEF CallsRestore, TimesOut, Numbered
    <3>2. NoNewCall
      BY <3>1, <1>t, <1>o, NoNewCallFrames
    <3>3. QED
      BY <3>1, <3>2, <1>i, <1>n, <1>u, <1>p, OnceStays
  <2>3. ASSUME NEW c \in Calls, CallsOperation(c)
        PROVE  OperationsOnce'
    <3>1. /\ Put(c) /\ Numbered(c) /\ c.id = ctx.id /\ ctx # NoOp /\ ctx.stage # "called"
          /\ ctx'.stage = "called" /\ ctx'.id = ctx.id /\ UNCHANGED <<toUi, ops, asked>>
      BY <2>3 DEF CallsOperation, Numbered
    <3>2. \A x : Issued(x) => x.id # c.id /\ Issued(x)'
      BY <3>1 DEF Issued
    <3>3. \A x \in Range(toRt) \cup ops \cup Range(toUi) : Numbered(x) => x.id # c.id /\ Issued(x)'
      BY <3>2 DEF OperationsOnce
    <3>4. Issued(c)'
      BY <3>1, <1>o DEF Issued
    <3>5. Range(toRt') = Range(toRt) \cup {c} /\ toRt' = Append(toRt, c)
      BY <3>1 DEF Put, Added
    <3>6. Single(toRt')
      <4>1. Single(Append(toRt, c))
        BY <3>3, <1>t, <1>o, SingleAppend
      <4>2. QED
        BY <4>1, <3>5
    <3>7. Single(toUi')
      BY <3>1, <1>o DEF Single
    <3>8. \A x \in Range(toRt') : Numbered(x) =>
            Issued(x)' /\ \A y \in ops \cup Range(toUi) : Numbered(y) => y.id # x.id
      BY <3>3, <3>4, <3>5 DEF OperationsOnce
    <3>9. ctx'.id <= asked' /\ (ctx' # NoOp => ctx'.id # 0)
      BY <3>1, <1>o
    <3>10. QED
      BY <3>1, <3>3, <3>6, <3>7, <3>8, <3>9 DEF OperationsOnce
  <2>4. QED
    BY <1>3, <2>1, <2>2, <2>3 DEF WorkerDoes
<1>4. CASE InterfaceHears
  <2>1. PICK m \in Messages :
          HearsStart(m) \/ HearsComplete(m) \/ HearsReturn(m) \/ HearsRestored(m) \/ HearsOperated(m)
    BY <1>4 DEF InterfaceHears
  <2>2. /\ Heard(m) /\ UNCHANGED <<ops, asked>> /\ ctx' \in {ctx, NoOp}
        /\ (UNCHANGED toRt \/ Sending)
    BY <2>1 DEF HearsStart, HearsComplete, HearsReturn, HearsRestored, HearsOperated
  <2>3. NoNewCall /\ NoNewAnswer
    BY <2>2, <1>t, <1>o, NoNewCallFrames, NoNewAnswerFrames
  <2>4. QED
    BY <2>2, <2>3, <1>i, <1>n, <1>p, OnceStays
<1>5. CASE RuntimeTakes
  <2>1. UNCHANGED <<ctx, asked>>
    BY <1>5 DEF RuntimeTakes, TakesSubmit, TakesRestore, TakesOperation, TakesCancel,
               TurnsRestoreAway, Interfaces
  <2>2. ASSUME NEW c \in Calls, Taken(c), NoNewOperation, NoNewAnswer
        PROVE  OperationsOnce'
    BY <2>1, <2>2, <1>t, <1>o, <1>i, NoNewCallFrames, OnceStays
  <2>3. ASSUME NEW c \in Calls, NEW j, TakesSubmit(c, j)
        PROVE  OperationsOnce'
    <3>1. Taken(c) /\ UNCHANGED <<ops, toUi>>
      BY <2>3 DEF TakesSubmit
    <3>2. QED
      BY <3>1, <2>2, <1>u, <1>p
  <2>4. ASSUME NEW c \in Calls, TakesRestore(c) \/ TakesCancel(c)
        PROVE  OperationsOnce'
    <3>1. Taken(c) /\ UNCHANGED toUi /\ NoNewOperation
      BY <2>4 DEF TakesRestore, TakesCancel, NoNewOperation, Numbered
    <3>2. QED
      BY <3>1, <2>2, <1>u
  <2>5. ASSUME NEW c \in Calls, NEW m \in Messages, TurnsRestoreAway(c, m)
        PROVE  OperationsOnce'
    <3>1. Taken(c) /\ UNCHANGED ops /\ Told(m) /\ ~Numbered(m)
      BY <2>5 DEF TurnsRestoreAway, Numbered
    <3>2. NoNewAnswer
      BY <3>1, <1>t, <1>o, NoNewAnswerFrames
    <3>3. QED
      BY <3>1, <3>2, <2>2, <1>p
  <2>6. ASSUME NEW c \in Calls, TakesOperation(c)
        PROVE  OperationsOnce'
    <3>1. Taken(c) /\ Numbered(c) /\ ops' = ops \cup {c} /\ UNCHANGED toUi
      BY <2>6 DEF TakesOperation, Numbered
    <3>2. NoNewCall /\ c \in Range(toRt) /\ c = Head(toRt) /\ toRt # <<>> /\ toRt' = Tail(toRt)
      BY <3>1, <1>t, <1>o, NoNewCallFrames DEF Taken, Removed
    <3>3. \A x \in Range(toRt') : Numbered(x) => x.id # c.id /\ x \in Range(toRt)
      BY <3>1, <3>2, <1>t, <1>o, SingleTail DEF NoNewCall
    <3>4. Issued(c) /\ \A x \in ops \cup Range(toUi) : Numbered(x) => x.id # c.id
      BY <3>1, <3>2 DEF OperationsOnce
    <3>5. \A x : Issued(x)' <=> Issued(x)
      BY <2>1 DEF Issued
    <3>6. \A o, p \in ops' : Numbered(o) /\ Numbered(p) /\ o.id = p.id => o = p
      BY <3>1, <3>4 DEF OperationsOnce
    <3>7. \A x \in ops' : Numbered(x) =>
            Issued(x) /\ \A y \in Range(toUi') : Numbered(y) => y.id # x.id
      BY <3>1, <3>4 DEF OperationsOnce
    <3>8. \A x \in Range(toRt') : Numbered(x) =>
            Issued(x) /\ \A y \in ops' \cup Range(toUi') : Numbered(y) => y.id # x.id
      BY <3>1, <3>3 DEF OperationsOnce
    <3>9. \A x \in Range(toUi') : Numbered(x) => Issued(x)
      BY <3>1 DEF OperationsOnce
    <3>10. Single(toRt') /\ Single(toUi')
      BY <3>1, <3>2, <1>u DEF NoNewCall, NoNewAnswer
    <3>11. ctx'.id <= asked' /\ (ctx' # NoOp => ctx'.id # 0)
      BY <2>1, <1>o
    <3>12. QED
      BY <3>5, <3>6, <3>7, <3>8, <3>9, <3>10, <3>11 DEF OperationsOnce
  <2>7. QED
    BY <1>5, <2>3, <2>4, <2>5, <2>6 DEF RuntimeTakes
<1>6. CASE TurnMoves
  <2>1. UNCHANGED <<toRt, ops, ctx, asked>>
    BY <1>6 DEF TurnMoves, Refuses, Begins, Executes, Announces, Closes, Interfaces
  <2>2. NoNewAnswer
    <3>1. ASSUME NEW j, NEW m, Refuses(j, m)
          PROVE  NoNewAnswer
      BY <3>1, <1>t, <1>o, NoNewAnswerFrames DEF Refuses, Numbered
    <3>2. ASSUME NEW j, NEW k, NEW m, Announces(j, k, m)
          PROVE  NoNewAnswer
      BY <3>2, <1>t, <1>o, NoNewAnswerFrames DEF Announces, Numbered
    <3>3. ASSUME NEW j, NEW k, Begins(j, k) \/ Executes(j, k)
          PROVE  NoNewAnswer
      BY <3>3, <1>u DEF Begins, Executes
    <3>4. ASSUME NEW j, NEW a, NEW b, NEW q, Closes(j, a, b, q)
          PROVE  NoNewAnswer
      <4>1. /\ q = Append(toUi, a) /\ toUi' = Append(q, b) /\ q \in Seq(Messages)
            /\ ~Numbered(a) /\ ~Numbered(b)
            /\ Range(q) = Range(toUi) \cup {a} /\ Range(toUi') = Range(q) \cup {b}
        BY <3>4 DEF Closes, Numbered, Added
      <4>2. Single(q)
        BY <4>1, <1>t, <1>o, SingleAppend
      <4>3. Single(Append(q, b))
        BY <4>1, <4>2, SingleAppend
      <4>4. QED
        BY <4>1, <4>3 DEF NoNewAnswer
    <3>5. QED
      BY <1>6, <3>1, <3>2, <3>3, <3>4 DEF TurnMoves
  <2>3. QED
    BY <2>1, <2>2, <1>i, <1>r, <1>p, OnceStays
<1>7. CASE OperationEnds
  <2>1. ASSUME NEW o \in ops, NEW m \in Messages, FinishesRestore(o, m)
        PROVE  OperationsOnce'
    <3>1. UNCHANGED <<ctx, asked, toRt>> /\ NoNewOperation /\ Told(m) /\ ~Numbered(m)
      BY <2>1 DEF FinishesRestore, Interfaces, NoNewOperation, Numbered
    <3>2. NoNewAnswer
      BY <3>1, <1>t, <1>o, NoNewAnswerFrames
    <3>3. QED
      BY <3>1, <3>2, <1>i, <1>r, OnceStays
  <2>2. ASSUME NEW o \in ops, NEW m \in Messages, FinishesOperation(o, m)
        PROVE  OperationsOnce'
    <3>1. /\ Numbered(o) /\ ops' = ops \ {o} /\ Told(m) /\ Numbered(m) /\ m.id = o.id
          /\ UNCHANGED <<ctx, asked, toRt>>
      BY <2>2 DEF FinishesOperation, Interfaces, Numbered
    <3>2. Range(toUi') = Range(toUi) \cup {m} /\ toUi' = Append(toUi, m)
      BY <3>1 DEF Told, Added
    <3>3. /\ Issued(o) /\ (\A x \in Range(toUi) : Numbered(x) => x.id # m.id)
          /\ (\A x \in Range(toRt) : Numbered(x) => x.id # m.id)
          /\ (\A x \in ops' : Numbered(x) => x.id # m.id /\ x \in ops)
      BY <3>1 DEF OperationsOnce
    <3>4. Single(Append(toUi, m))
      BY <3>3, <1>t, <1>o, SingleAppend
    <3>5. Single(toUi') /\ Single(toRt')
      BY <3>1, <3>2, <3>4, <1>r DEF NoNewCall
    <3>6. Issued(m)
      BY <3>1, <3>3 DEF Issued
    <3>7. \A x : Issued(x)' <=> Issued(x)
      BY <3>1 DEF Issued
    <3>8. \A x \in Range(toRt') : Numbered(x) =>
            Issued(x) /\ \A y \in ops' \cup Range(toUi') : Numbered(y) => y.id # x.id
      BY <3>1, <3>2, <3>3 DEF OperationsOnce
    <3>9. \A x \in ops' : Numbered(x) =>
            Issued(x) /\ \A y \in Range(toUi') : Numbered(y) => y.id # x.id
      BY <3>1, <3>2, <3>3 DEF OperationsOnce
    <3>10. \A x \in Range(toUi') : Numbered(x) => Issued(x)
      BY <3>2, <3>6 DEF OperationsOnce
    <3>11. \A p, x \in ops' : Numbered(p) /\ Numbered(x) /\ p.id = x.id => p = x
      BY <3>1 DEF OperationsOnce
    <3>12. ctx'.id <= asked' /\ (ctx' # NoOp => ctx'.id # 0)
      BY <3>1, <1>o
    <3>13. QED
      BY <3>5, <3>7, <3>8, <3>9, <3>10, <3>11, <3>12 DEF OperationsOnce
  <2>3. QED
    BY <1>7, <2>1, <2>2 DEF OperationEnds
<1>8. QED
  BY <1>1, <1>2, <1>3, <1>4, <1>5, <1>6, <1>7 DEF Step

LEMMA OneOperationStep ==
  ASSUME Typed, OperationsOnce, OneOperation, Step
  PROVE  OneOperation'
<1>t. /\ toRt \in Seq(Calls) /\ toUi \in Seq(Messages) /\ ops \subseteq Ops
      /\ (ctx.stage = "none" <=> ctx = NoOp)
  BY DEF Typed, QueuesTyped, RuntimeTyped, FlagsTyped
<1>o. Single(toUi)
  BY DEF OperationsOnce
<1> DEFINE All == Range(toRt) \cup ops \cup Range(toUi)
<1>a. ~doubt => "cancel" \notin Kinds(toRt) /\ \A x \in All : Numbered(x) => Called(x)
  BY DEF OneOperation
<1>q. (~doubt' => "cancel" \notin Kinds(toRt') /\ \A x \in All' : Numbered(x) => Called(x)')
        => OneOperation'
  BY DEF OneOperation
<1>n. \A c : c.do = "submit" \/ c.do = "restore" => ~Numbered(c) /\ Kind(c) = c.do
  BY DEF Numbered, Kind
<1>s. Sending => /\ \A x \in Range(toRt') : Numbered(x) => x \in Range(toRt)
                 /\ ("cancel" \in Kinds(toRt') => "cancel" \in Kinds(toRt))
  BY <1>n DEF Sending, Put, Added
<1>1. CASE Quiet
  <2>1. Sending /\ UNCHANGED <<toUi, ops, ctx, doubt>>
    BY <1>1 DEF Quiet
  <2>2. \A x : Called(x)' <=> Called(x)
    BY <2>1 DEF Called
  <2>3. QED
    BY <2>1, <2>2, <1>s, <1>a, <1>q
<1>2. CASE UserDoes
  <2>1. /\ UNCHANGED <<toRt, toUi, ops, doubt>>
        /\ (ctx' = ctx \/ ctx = NoOp)
    BY <1>2 DEF UserDoes, Restores, Operates
  <2>2. \A x : Called(x) => Called(x)'
    BY <2>1, <1>t DEF Called
  <2>3. QED
    BY <2>1, <2>2, <1>a, <1>q
<1>3. CASE WorkerDoes
  <2>1. CASE GivesUp
    <3>1. UNCHANGED <<toRt, toUi, ops, doubt>> /\ ctx.stage = "wait"
      BY <2>1 DEF GivesUp
    <3>2. \A x : Called(x) => Called(x)'
      BY <3>1 DEF Called
    <3>3. QED
      BY <3>1, <3>2, <1>a, <1>q
  <2>2. ASSUME NEW c \in Calls, CallsRestore(c)
        PROVE  OneOperation'
    <3>1. Put(c) /\ c.do = "restore" /\ UNCHANGED <<toUi, ops, ctx, doubt>>
      BY <2>2 DEF CallsRestore
    <3>2. Range(toRt') = Range(toRt) \cup {c} /\ Kinds(toRt') = Kinds(toRt) \cup {"restore"}
      BY <3>1, <1>n DEF Put, Added
    <3>3. \A x : Called(x)' <=> Called(x)
      BY <3>1 DEF Called
    <3>4. QED
      BY <3>1, <3>2, <3>3, <1>a, <1>n, <1>q
  <2>3. ASSUME NEW c \in Calls, CallsOperation(c)
        PROVE  OneOperation'
    <3>1. /\ Put(c) /\ c.do \in {"clear", "compact"} /\ c.id = ctx.id /\ ctx.stage # "called"
          /\ ctx'.stage = "called" /\ ctx'.id = ctx.id /\ UNCHANGED <<toUi, ops, doubt>>
      BY <2>3 DEF CallsOperation
    <3>2. Range(toRt') = Range(toRt) \cup {c} /\ Kinds(toRt') = Kinds(toRt) \cup {"operation"}
      <4>1. Kind(c) = "operation"
        BY <3>1 DEF Kind
      <4>2. QED
        BY <4>1, <3>1 DEF Put, Added
    <3>3. \A x : ~Called(x)
      BY <3>1 DEF Called
    <3>4. Called(c)'
      BY <3>1 DEF Called
    <3>5. QED
      BY <3>1, <3>2, <3>3, <3>4, <1>a, <1>q
  <2>4. ASSUME NEW c \in Calls, TimesOut(c)
        PROVE  OneOperation'
    BY <2>4, <1>q DEF TimesOut
  <2>5. QED
    BY <1>3, <2>1, <2>2, <2>3, <2>4 DEF WorkerDoes
<1>4. CASE InterfaceHears
  <2>1. ASSUME NEW m \in Messages,
               HearsStart(m) \/ HearsComplete(m) \/ HearsReturn(m) \/ HearsRestored(m)
        PROVE  OneOperation'
    <3>1. Heard(m) /\ UNCHANGED <<ops, ctx, doubt>> /\ (UNCHANGED toRt \/ Sending)
      BY <2>1 DEF HearsStart, HearsComplete, HearsReturn, HearsRestored
    <3>2. \A x : Called(x)' <=> Called(x)
      BY <3>1 DEF Called
    <3>3. /\ \A x \in Range(toRt') : Numbered(x) => x \in Range(toRt)
          /\ ("cancel" \in Kinds(toRt') => "cancel" \in Kinds(toRt))
          /\ Range(toUi') \subseteq Range(toUi)
      BY <3>1, <1>s DEF Heard, Removed
    <3>4. QED
      BY <3>1, <3>2, <3>3, <1>a, <1>q
  <2>2. ASSUME NEW m \in Messages, HearsOperated(m), ~doubt
        PROVE  OneOperation'
    <3>1. /\ Heard(m) /\ Numbered(m) /\ UNCHANGED <<toRt, ops, doubt>>
          /\ toUi # <<>> /\ m = Head(toUi) /\ toUi' = Tail(toUi)
      BY <2>2 DEF HearsOperated, Numbered, Heard
    <3>2. m \in Range(toUi) /\ Range(toUi') \subseteq Range(toUi)
      BY <3>1 DEF Heard, Removed
    <3>3. Called(m)
      BY <3>1, <3>2, <2>2, <1>a
    <3>4. \A x \in Range(toUi') : Numbered(x) => x.id # m.id
      BY <3>1, <1>t, <1>o, SingleTail
    <3>5. \A x \in Range(toRt) \cup ops : Numbered(x) => x.id # m.id
      BY <3>1, <3>2 DEF OperationsOnce
    <3>6. \A x \in All : Numbered(x) => x.id = m.id
      BY <3>3, <2>2, <1>a DEF Called
    <3>7. \A x \in All' : ~Numbered(x)
      BY <3>1, <3>2, <3>4, <3>5, <3>6
    <3>8. QED
      BY <3>1, <3>7, <2>2, <1>a, <1>q
  <2>3. ASSUME NEW m \in Messages, HearsOperated(m), doubt
        PROVE  OneOperation'
    BY <2>3, <1>q DEF HearsOperated
  <2>4. QED
    BY <1>4, <2>1, <2>2, <2>3 DEF InterfaceHears
<1>5. CASE RuntimeTakes
  <2>1. UNCHANGED <<ctx, doubt>>
    BY <1>5 DEF RuntimeTakes, TakesSubmit, TakesRestore, TakesOperation, TakesCancel,
               TurnsRestoreAway, Interfaces
  <2>2. \A x : Called(x)' <=> Called(x)
    BY <2>1 DEF Called
  <2>3. ASSUME NEW c \in Calls, Taken(c), c.do # "cancel",
               \A x \in ops' : Numbered(x) => x \in ops \cup {c},
               \A x \in Range(toUi') : Numbered(x) => x \in Range(toUi)
        PROVE  OneOperation'
    <3>1. /\ c \in Range(toRt) /\ Range(toRt') \subseteq Range(toRt)
          /\ ("cancel" \in Kinds(toRt') => "cancel" \in Kinds(toRt))
      BY <2>3 DEF Taken, Removed
    <3>2. QED
      BY <3>1, <2>1, <2>2, <2>3, <1>a, <1>q
  <2>4. ASSUME NEW c \in Calls, NEW j, TakesSubmit(c, j)
        PROVE  OneOperation'
    BY <2>3, <2>4 DEF TakesSubmit
  <2>5. ASSUME NEW c \in Calls, TakesRestore(c) \/ TakesOperation(c)
        PROVE  OneOperation'
    BY <2>3, <2>5 DEF TakesRestore, TakesOperation
  <2>6. ASSUME NEW c \in Calls, TakesCancel(c)
        PROVE  OneOperation'
    <3>1. Taken(c) /\ Kind(c) = "cancel"
      BY <2>6 DEF TakesCancel, Kind
    <3>2. doubt'
      BY <3>1, <2>1, <1>a DEF Taken, Removed
    <3>3. QED
      BY <3>2, <1>q
  <2>7. ASSUME NEW c \in Calls, NEW m \in Messages, TurnsRestoreAway(c, m)
        PROVE  OneOperation'
    <3>1. Taken(c) /\ c.do = "restore" /\ ops' = ops /\ Told(m) /\ ~Numbered(m)
      BY <2>7 DEF TurnsRestoreAway, Numbered
    <3>2. \A x \in Range(toUi') : Numbered(x) => x \in Range(toUi)
      BY <3>1 DEF Told, Added
    <3>3. QED
      BY <3>1, <3>2, <2>3
  <2>8. QED
    BY <1>5, <2>4, <2>5, <2>6, <2>7 DEF RuntimeTakes
<1>6. CASE TurnMoves
  <2>1. UNCHANGED <<toRt, ops, ctx, doubt>>
    BY <1>6 DEF TurnMoves, Refuses, Begins, Executes, Announces, Closes, Interfaces
  <2>2. \A x : Called(x)' <=> Called(x)
    BY <2>1 DEF Called
  <2>3. \A x \in Range(toUi') : Numbered(x) => x \in Range(toUi)
    <3>1. \A m : Numbered(m) => m.do # "returned" /\ m.do # "start" /\ m.do # "complete"
      BY DEF Numbered
    <3>2. QED
      BY <1>6, <3>1 DEF TurnMoves, Refuses, Begins, Executes, Announces, Closes, Told, Added
  <2>4. QED
    BY <2>1, <2>2, <2>3, <1>a, <1>q
<1>7. CASE OperationEnds
  <2>1. PICK o \in ops, m \in Messages : FinishesRestore(o, m) \/ FinishesOperation(o, m)
    BY <1>7 DEF OperationEnds
  <2>2. UNCHANGED <<toRt, ctx>> /\ ops' \subseteq ops /\ Range(toUi') = Range(toUi) \cup {m}
        /\ (~doubt' => ~doubt)
    <3>1. CASE FinishesRestore(o, m)
      BY <3>1 DEF FinishesRestore, Interfaces, Told, Added
    <3>2. CASE FinishesOperation(o, m)
      <4>1. UNCHANGED <<toRt, ctx>> /\ ops' \subseteq ops /\ Told(m)
            /\ doubt' = (doubt \/ (o.do = "clear" /\ jobs # {}))
        BY <3>2 DEF FinishesOperation, Interfaces
      <4>2. doubt \in BOOLEAN
        BY DEF Typed, FlagsTyped
      <4>3. QED
        BY <4>1, <4>2 DEF Told, Added
    <3>3. QED
      BY <2>1, <3>1, <3>2
  <2>3. \A x : Called(x)' <=> Called(x)
    BY <2>2 DEF Called
  <2>4. Numbered(m) => Numbered(o) /\ (Called(o) => Called(m))
    BY <2>1 DEF FinishesRestore, FinishesOperation, Numbered, Called
  <2>5. QED
    BY <2>2, <2>3, <2>4, <1>a, <1>q
<1>8. QED
  BY <1>1, <1>2, <1>3, <1>4, <1>5, <1>6, <1>7 DEF Step

LEMMA EndedPut ==
  ASSUME toRt \in Seq(Calls), NEW c, Put(c)
  PROVE  \E n \in Nat :
           /\ DOMAIN toRt' = DOMAIN toRt \cup {n} /\ toRt'[n] = c /\ n \notin DOMAIN toRt
           /\ \A i \in DOMAIN toRt : toRt'[i] = toRt[i] /\ i \in Nat /\ 0 < i /\ i < n
           /\ \A x, k : Ended(x, k) => Ended(x, k)'
           /\ \A x, k : c.do = "cancel" /\ c.id = x.id /\ k < n => Ended(x, k)'
<1>1. PICK n \in Nat :
           /\ DOMAIN toRt' = DOMAIN toRt \cup {n} /\ n \notin DOMAIN toRt
           /\ toRt'[n] = c
           /\ \A i \in DOMAIN toRt : i \in Nat /\ 0 < i /\ i < n /\ toRt'[i] = toRt[i]
  BY AppendAt DEF Put
<1>2. \A x, k : Ended(x, k) => Ended(x, k)'
  BY <1>1 DEF Ended
<1>3. \A x, k : c.do = "cancel" /\ c.id = x.id /\ k < n => Ended(x, k)'
  BY <1>1 DEF Ended
<1>4. QED
  BY <1>1, <1>2, <1>3

LEMMA EndedTaken ==
  ASSUME toRt \in Seq(Calls), NEW c, Taken(c)
  PROVE  /\ 1 \in DOMAIN toRt /\ toRt[1] = c
         /\ \A i \in DOMAIN toRt' :
              i \in Nat /\ 0 < i /\ i + 1 \in DOMAIN toRt /\ toRt'[i] = toRt[i + 1]
         /\ \A x : \A i \in Nat : Ended(x, i + 1) => Ended(x, i)'
         /\ \A x : Ended(x, 0) => Ended(x, 0)' \/ (c.do = "cancel" /\ c.id = x.id)
<1>1. /\ 1 \in DOMAIN toRt /\ toRt[1] = c
      /\ \A i \in DOMAIN toRt' :
           i \in Nat /\ 0 < i /\ i + 1 \in DOMAIN toRt /\ toRt'[i] = toRt[i + 1]
      /\ \A i \in DOMAIN toRt : i \in Nat /\ 0 < i
      /\ \A i \in DOMAIN toRt : i = 1 \/ (i - 1 \in DOMAIN toRt' /\ toRt'[i - 1] = toRt[i])
  <2>1. toRt # <<>> /\ c = Head(toRt) /\ toRt' = Tail(toRt)
    BY DEF Taken
  <2>2. QED
    BY <2>1, TailAt
<1>2. ASSUME NEW x, NEW i \in Nat, Ended(x, i + 1)
      PROVE  Ended(x, i)'
  <2>1. PICK k \in DOMAIN toRt : i + 1 < k /\ toRt[k].do = "cancel" /\ toRt[k].id = x.id
    BY <1>2 DEF Ended
  <2>2. k # 1 /\ k \in Nat
    BY <2>1, <1>1
  <2>3. k - 1 \in DOMAIN toRt' /\ toRt'[k - 1] = toRt[k] /\ i < k - 1
    BY <2>1, <2>2, <1>1
  <2>4. QED
    BY <2>1, <2>3 DEF Ended
<1>3. ASSUME NEW x, Ended(x, 0), ~(c.do = "cancel" /\ c.id = x.id)
      PROVE  Ended(x, 0)'
  <2>1. PICK k \in DOMAIN toRt : 0 < k /\ toRt[k].do = "cancel" /\ toRt[k].id = x.id
    BY <1>3 DEF Ended
  <2>2. k # 1 /\ k \in Nat
    BY <2>1, <1>1, <1>3
  <2>3. k - 1 \in DOMAIN toRt' /\ toRt'[k - 1] = toRt[k] /\ 0 < k - 1
    BY <2>1, <2>2, <1>1
  <2>4. QED
    BY <2>1, <2>3 DEF Ended
<1>4. QED
  BY <1>1, <1>2, <1>3

\* A step that calls no operation and takes none.
LEMMA HeldStays ==
  ASSUME OperationsHeld, toRt \in Seq(Calls),
         UNCHANGED toRt \/ \E c : Put(c) /\ ~IsOperation(c),
         \A o \in ops' : IsOperation(o) => o \in ops,
         \A x \in Range(toRt) \cup ops : IsOperation(x) /\ Called(x) => Called(x)'
  PROVE  OperationsHeld'
<1>r. \A i \in DOMAIN toRt : toRt[i] \in Range(toRt)
  BY DEF Range
<1>1. CASE UNCHANGED toRt
  <2>1. \A x, k : Ended(x, k)' <=> Ended(x, k)
    BY <1>1 DEF Ended
  <2>2. QED
    BY <2>1, <1>1, <1>r DEF OperationsHeld
<1>2. ASSUME NEW c, Put(c), ~IsOperation(c)
      PROVE  OperationsHeld'
  <2>1. PICK n \in Nat :
           /\ DOMAIN toRt' = DOMAIN toRt \cup {n} /\ toRt'[n] = c /\ n \notin DOMAIN toRt
           /\ \A i \in DOMAIN toRt : toRt'[i] = toRt[i]
           /\ \A x, k : Ended(x, k) => Ended(x, k)'
    BY <1>2, EndedPut
  <2>2. \A o \in ops' : IsOperation(o) => Called(o)' \/ Ended(o, 0)'
    BY <2>1 DEF OperationsHeld
  <2>3. \A i \in DOMAIN toRt' : \A x : x = toRt'[i] /\ IsOperation(x) => Called(x)' \/ Ended(x, i)'
    <3>1. \A i \in DOMAIN toRt : \A x : x = toRt[i] /\ IsOperation(x) => Called(x)' \/ Ended(x, i)'
      BY <2>1, <1>r DEF OperationsHeld
    <3>2. QED
      BY <3>1, <2>1, <1>2
  <2>4. QED
    BY <2>2, <2>3 DEF OperationsHeld, Called, Ended
<1>3. QED
  BY <1>1, <1>2

LEMMA HeldTaken ==
  ASSUME OperationsHeld, toRt \in Seq(Calls), NEW c, Taken(c), UNCHANGED ctx,
         \A o \in ops' : IsOperation(o) =>
            (o \in ops \/ o = c) /\ ~(c.do = "cancel" /\ c.id = o.id)
  PROVE  OperationsHeld'
<1>1. /\ 1 \in DOMAIN toRt /\ toRt[1] = c
      /\ \A i \in DOMAIN toRt' :
           i \in Nat /\ 0 < i /\ i + 1 \in DOMAIN toRt /\ toRt'[i] = toRt[i + 1]
      /\ \A x : \A i \in Nat : Ended(x, i + 1) => Ended(x, i)'
      /\ \A x : Ended(x, 0) => Ended(x, 0)' \/ (c.do = "cancel" /\ c.id = x.id)
  BY EndedTaken
<1>2. \A x : Called(x)' <=> Called(x)
  BY DEF Called
<1>3. Ended(c, 1) => Ended(c, 0)'
  <2>1. Ended(c, 0 + 1) => Ended(c, 0)'
    BY <1>1
  <2>2. QED
    BY <2>1
<1>4. \A o \in ops' : IsOperation(o) => Called(o)' \/ Ended(o, 0)'
  BY <1>1, <1>2, <1>3 DEF OperationsHeld
<1>5. \A i \in DOMAIN toRt' : \A x : x = toRt'[i] /\ IsOperation(x) => Called(x)' \/ Ended(x, i)'
  BY <1>1, <1>2 DEF OperationsHeld
<1>6. QED
  BY <1>4, <1>5 DEF OperationsHeld, Called, Ended

LEMMA OperationsHeldStep ==
  ASSUME Typed, OperationsOnce, OperationsHeld, Step
  PROVE  OperationsHeld'
<1>t. /\ toRt \in Seq(Calls) /\ ops \subseteq Ops
      /\ (ctx.stage = "none" <=> ctx = NoOp)
  BY DEF Typed, QueuesTyped, RuntimeTyped, FlagsTyped
<1>c. UNCHANGED ctx \/ ctx.stage # "called" => \A x : Called(x) => Called(x)'
  BY DEF Called
<1>s. Sending => UNCHANGED toRt \/ \E c : Put(c) /\ ~IsOperation(c)
  BY DEF Sending, IsOperation
<1>1. CASE Quiet
  <2>1. Sending /\ UNCHANGED <<ops, ctx>>
    BY <1>1 DEF Quiet
  <2>2. QED
    BY <2>1, <1>c, <1>s, <1>t, HeldStays
<1>2. CASE UserDoes
  <2>1. UNCHANGED <<toRt, ops>> /\ (ctx' = ctx \/ ctx = NoOp)
    BY <1>2 DEF UserDoes, Restores, Operates
  <2>2. \A x : Called(x) => Called(x)'
    BY <2>1, <1>t, <1>c DEF Called
  <2>3. QED
    BY <2>1, <2>2, <1>t, HeldStays
<1>3. CASE WorkerDoes
  <2>1. CASE GivesUp
    <3>1. UNCHANGED <<toRt, ops>> /\ ctx.stage = "wait"
      BY <2>1 DEF GivesUp
    <3>2. QED
      BY <3>1, <1>c, <1>t, HeldStays
  <2>2. ASSUME NEW c \in Calls, CallsRestore(c)
        PROVE  OperationsHeld'
    <3>1. Put(c) /\ ~IsOperation(c) /\ UNCHANGED <<ops, ctx>>
      BY <2>2 DEF CallsRestore, IsOperation
    <3>2. QED
      BY <3>1, <1>c, <1>t, HeldStays
  <2>3. ASSUME NEW c \in Calls, CallsOperation(c)
        PROVE  OperationsHeld'
    <3>1. /\ Put(c) /\ c.id = ctx.id /\ ctx.stage # "called"
          /\ ctx'.stage = "called" /\ ctx'.id = ctx.id /\ UNCHANGED ops
      BY <2>3, <1>t DEF CallsOperation
    <3>2. PICK n \in Nat :
             /\ DOMAIN toRt' = DOMAIN toRt \cup {n} /\ toRt'[n] = c
             /\ \A i \in DOMAIN toRt : toRt'[i] = toRt[i]
             /\ \A x, k : Ended(x, k) => Ended(x, k)'
      BY <3>1, <1>t, EndedPut
    <3>3. Called(c)' /\ \A x : ~Called(x)
      BY <3>1 DEF Called
    <3>4. \A o \in ops' : IsOperation(o) => Called(o)' \/ Ended(o, 0)'
      BY <3>1, <3>2, <3>3 DEF OperationsHeld
    <3>5. \A i \in DOMAIN toRt : \A x : x = toRt[i] /\ IsOperation(x) => Ended(x, i)'
      BY <3>2, <3>3 DEF OperationsHeld
    <3>6. \A i \in DOMAIN toRt' : \A x : x = toRt'[i] /\ IsOperation(x) => Called(x)' \/ Ended(x, i)'
      BY <3>2, <3>3, <3>5
    <3>7. QED
      BY <3>4, <3>6 DEF OperationsHeld, Called, Ended
  <2>4. ASSUME NEW c \in Calls, TimesOut(c)
        PROVE  OperationsHeld'
    <3>1. /\ Put(c) /\ c.do = "cancel" /\ c.id = ctx.id /\ UNCHANGED ops
      BY <2>4 DEF TimesOut
    <3>2. PICK n \in Nat :
             /\ DOMAIN toRt' = DOMAIN toRt \cup {n} /\ toRt'[n] = c
             /\ \A i \in DOMAIN toRt : toRt'[i] = toRt[i] /\ i \in Nat /\ 0 < i /\ i < n
             /\ \A x, k : Ended(x, k) => Ended(x, k)'
             /\ \A x, k : c.do = "cancel" /\ c.id = x.id /\ k < n => Ended(x, k)'
      BY <3>1, <1>t, EndedPut
    <3>3. \A x, k : Called(x) /\ k < n => Ended(x, k)'
      BY <3>1, <3>2 DEF Called
    <3>4. 0 < n
      <4>1. DOMAIN toRt' = 1 .. Len(toRt')
        BY <1>t, <3>1 DEF Put
      <4>2. n \in DOMAIN toRt'
        BY <3>2
      <4>3. QED
        BY <4>1, <4>2
    <3>5. \A o \in ops' : IsOperation(o) => Ended(o, 0)'
      BY <3>1, <3>2, <3>3, <3>4 DEF OperationsHeld
    <3>6. \A i \in DOMAIN toRt : \A x : x = toRt[i] /\ IsOperation(x) => Ended(x, i)'
      BY <3>2, <3>3 DEF OperationsHeld
    <3>7. ~IsOperation(c)
      BY <3>1 DEF IsOperation
    <3>8. \A i \in DOMAIN toRt' : \A x : x = toRt'[i] /\ IsOperation(x) => Ended(x, i)'
      BY <3>2, <3>6, <3>7
    <3>9. QED
      BY <3>5, <3>8 DEF OperationsHeld, Called, Ended
  <2>5. QED
    BY <1>3, <2>1, <2>2, <2>3, <2>4 DEF WorkerDoes
<1>4. CASE InterfaceHears
  <2>1. ASSUME NEW m \in Messages,
               HearsStart(m) \/ HearsComplete(m) \/ HearsReturn(m) \/ HearsRestored(m)
        PROVE  OperationsHeld'
    <3>1. UNCHANGED <<ops, ctx>> /\ (UNCHANGED toRt \/ Sending)
      BY <2>1 DEF HearsStart, HearsComplete, HearsReturn, HearsRestored
    <3>2. QED
      BY <3>1, <1>c, <1>s, <1>t, HeldStays
  <2>2. ASSUME NEW m \in Messages, HearsOperated(m)
        PROVE  OperationsHeld'
    <3>1. /\ Heard(m) /\ m.do = "operated" /\ Numbered(m) /\ UNCHANGED <<toRt, ops>>
          /\ ctx' = IF Called(m) THEN NoOp ELSE ctx
      BY <2>2 DEF HearsOperated, Numbered
    <3>2. m \in Range(toUi)
      BY <3>1 DEF Heard, Removed
    <3>3. \A x \in Range(toRt) \cup ops : IsOperation(x) => x.id # m.id
      BY <3>1, <3>2 DEF OperationsOnce, Numbered, IsOperation
    <3>4. \A x \in Range(toRt) \cup ops : IsOperation(x) /\ Called(x) => Called(x)'
      BY <3>1, <3>3 DEF Called
    <3>5. QED
      BY <3>1, <3>4, <1>t, HeldStays
  <2>3. QED
    BY <1>4, <2>1, <2>2 DEF InterfaceHears
<1>5. CASE RuntimeTakes
  <2>1. UNCHANGED ctx
    BY <1>5 DEF RuntimeTakes, TakesSubmit, TakesRestore, TakesOperation, TakesCancel,
               TurnsRestoreAway, Interfaces
  <2>2. PICK c \in Calls :
          \/ \E j : TakesSubmit(c, j)
          \/ TakesRestore(c) \/ TakesOperation(c) \/ TakesCancel(c)
          \/ \E m \in Messages : TurnsRestoreAway(c, m)
    BY <1>5 DEF RuntimeTakes
  <2>3. /\ Taken(c)
        /\ \A o \in ops' : IsOperation(o) =>
             (o \in ops \/ o = c) /\ ~(c.do = "cancel" /\ c.id = o.id)
    BY <2>2 DEF TakesSubmit, TakesRestore, TakesOperation, TakesCancel, TurnsRestoreAway, IsOperation
  <2>4. QED
    BY <2>1, <2>3, <1>t, HeldTaken
<1>6. CASE TurnMoves
  <2>1. UNCHANGED <<toRt, ops, ctx>>
    BY <1>6 DEF TurnMoves, Refuses, Begins, Executes, Announces, Closes, Interfaces
  <2>2. QED
    BY <2>1, <1>c, <1>t, HeldStays
<1>7. CASE OperationEnds
  <2>1. UNCHANGED <<toRt, ctx>> /\ ops' \subseteq ops
    BY <1>7 DEF OperationEnds, FinishesRestore, FinishesOperation, Interfaces
  <2>2. QED
    BY <2>1, <1>c, <1>t, HeldStays
<1>8. QED
  BY <1>1, <1>2, <1>3, <1>4, <1>5, <1>6, <1>7 DEF Step

LEMMA AnnouncedStep ==
  ASSUME Typed, Submissions, Announced, Step
  PROVE  Announced'
<1>u. UNCHANGED <<sent, goal>> => \A x : Mine(x)' <=> Mine(x)
  BY DEF Mine
<1>f. ASSUME UNCHANGED <<jobs, sent, goal>>, "start" \in Kinds(toUi') => "start" \in Kinds(toUi)
      PROVE  Announced'
  BY <1>f, <1>u DEF Announced
<1>w. "start" \in Kinds(toUi) => Waiting /\ At(FALSE, {"turn"}, "start")
  BY InMessage DEF Submissions
<1>s. ASSUME Sending, UNCHANGED jobs, "start" \in Kinds(toUi') => "start" \in Kinds(toUi)
      PROVE  Announced'
  <2>1. CASE "start" \in Kinds(toUi)
    <3>1. ~(admission = 0 /\ ~goal)
      BY <2>1, <1>w DEF Waiting
    <3>2. UNCHANGED <<sent, goal>>
      BY <3>1, <1>s DEF Sending
    <3>3. QED
      BY <3>2, <1>s, <1>f
  <2>2. CASE "start" \notin Kinds(toUi)
    BY <2>2, <1>s DEF Announced
  <2>3. QED
    BY <2>1, <2>2
<1>h. \A m : Heard(m) => Kinds(toUi') \subseteq Kinds(toUi)
  BY DEF Heard, Removed
<1>t. \A m : Told(m) /\ m.do # "start" => ("start" \in Kinds(toUi') => "start" \in Kinds(toUi))
  BY DEF Told, Added, Kind
<1>1. CASE Quiet
  BY <1>1, <1>s DEF Quiet
<1>2. CASE UserDoes \/ WorkerDoes
  <2>1. UNCHANGED <<jobs, sent, goal, toUi>>
    BY <1>2 DEF UserDoes, Restores, Operates, WorkerDoes, GivesUp, CallsRestore, CallsOperation, TimesOut
  <2>2. QED
    BY <2>1, <1>f
<1>3. CASE InterfaceHears
  <2>1. ASSUME NEW m \in Messages, HearsStart(m)
        PROVE  Announced'
    <3>1. Heard(m) /\ Kind(m) = "start"
      BY <2>1 DEF HearsStart, Kind
    <3>2. Once(toUi, "start")
      BY <3>1, <1>w DEF Heard, Removed, At
    <3>3. "start" \notin Kinds(toUi')
      BY <3>1, <3>2 DEF Heard, Removed
    <3>4. QED
      BY <3>3 DEF Announced
  <2>2. ASSUME NEW m \in Messages, HearsComplete(m)
        PROVE  Announced'
    <3>1. Heard(m) /\ running # 0
      BY <2>2 DEF HearsComplete
    <3>2. "start" \notin Kinds(toUi)
      BY <3>1, <1>w DEF Waiting
    <3>3. QED
      BY <3>1, <3>2, <1>h DEF Announced
  <2>3. ASSUME NEW m \in Messages, HearsReturn(m)
        PROVE  Announced'
    <3>1. Heard(m) /\ UNCHANGED <<jobs, sent>> /\ (m.admitted => goal' = goal) /\ (~m.admitted => jobs = {})
      BY <2>3 DEF HearsReturn
    <3>2. CASE m.admitted
      BY <3>1, <3>2, <1>f, <1>h
    <3>3. CASE ~m.admitted
      BY <3>1, <3>3 DEF Announced
    <3>4. QED
      BY <3>2, <3>3
  <2>4. ASSUME NEW m \in Messages, HearsRestored(m)
        PROVE  Announced'
    BY <2>4, <1>s, <1>h DEF HearsRestored
  <2>5. ASSUME NEW m \in Messages, HearsOperated(m)
        PROVE  Announced'
    BY <2>5, <1>f, <1>h DEF HearsOperated
  <2>6. QED
    BY <1>3, <2>1, <2>2, <2>3, <2>4, <2>5 DEF InterfaceHears
<1>4. CASE RuntimeTakes
  <2>1. UNCHANGED <<sent, goal>>
    BY <1>4 DEF RuntimeTakes, TakesSubmit, TakesRestore, TakesOperation, TakesCancel,
               TurnsRestoreAway, Interfaces
  <2>2. ASSUME NEW c \in Calls, NEW j, TakesSubmit(c, j)
        PROVE  Announced'
    <3>1. jobs = {} /\ UNCHANGED toUi
      BY <2>2 DEF TakesSubmit
    <3>2. "start" \notin Kinds(toUi)
      BY <3>1, <1>w DEF At
    <3>3. QED
      BY <3>1, <3>2 DEF Announced
  <2>3. ASSUME NEW c \in Calls, TakesRestore(c) \/ TakesOperation(c) \/ TakesCancel(c)
        PROVE  Announced'
    BY <2>3, <2>1, <1>f DEF TakesRestore, TakesOperation, TakesCancel
  <2>4. ASSUME NEW c \in Calls, NEW m \in Messages, TurnsRestoreAway(c, m)
        PROVE  Announced'
    BY <2>4, <2>1, <1>f, <1>t DEF TurnsRestoreAway
  <2>5. QED
    BY <1>4, <2>2, <2>3, <2>4 DEF RuntimeTakes
<1>5. CASE TurnMoves
  <2>1. UNCHANGED <<sent, goal>>
    BY <1>5 DEF TurnMoves, Refuses, Begins, Executes, Announces, Closes, Interfaces
  <2>2. ASSUME jobs' = {}
        PROVE  Announced'
    BY <2>2 DEF Announced
  <2>3. ASSUME NEW j \in jobs, NEW k, Begins(j, k)
        PROVE  Announced'
    <3>1. jobs' = {k} /\ k.id = j.id /\ k.via = j.via /\ UNCHANGED toUi
      BY <2>3 DEF Begins
    <3>2. QED
      BY <3>1, <2>1 DEF Announced, Mine
  <2>4. ASSUME NEW j \in jobs, NEW k, Executes(j, k)
        PROVE  Announced'
    BY <2>4, EmptyFacts DEF Executes, Announced
  <2>5. ASSUME NEW j \in jobs, NEW k, NEW m, Announces(j, k, m)
        PROVE  Announced'
    <3>1. jobs' = {k} /\ k.id = j.id /\ k.via = j.via /\ j.stage = "begin"
      BY <2>5 DEF Announces
    <3>2. Mine(j)
      BY <3>1 DEF Submissions, Marked
    <3>3. QED
      BY <3>1, <3>2, <2>1 DEF Announced, Mine
  <2>6. QED
    BY <1>5, <2>2, <2>3, <2>4, <2>5 DEF TurnMoves, Refuses, Closes
<1>6. CASE OperationEnds
  <2>1. PICK o \in ops, m \in Messages : FinishesRestore(o, m) \/ FinishesOperation(o, m)
    BY <1>6 DEF OperationEnds
  <2>2. UNCHANGED <<jobs, sent, goal>> /\ Told(m) /\ m.do # "start"
    BY <2>1 DEF FinishesRestore, FinishesOperation, Interfaces
  <2>3. QED
    BY <2>2, <1>f, <1>t
<1>7. QED
  BY <1>1, <1>2, <1>3, <1>4, <1>5, <1>6 DEF Step

LEMMA NeverExecutingStep ==
  ASSUME NeverExecuting, Step
  PROVE  NeverExecuting'
<1>0. ASSUME \A m \in Range(toUi') : m \in Range(toUi) \/ (m.do = "returned" => m.why # "executing")
      PROVE  NeverExecuting'
  BY <1>0 DEF NeverExecuting
<1>1. CASE Quiet \/ UserDoes \/ WorkerDoes
  <2>1. UNCHANGED toUi
    BY <1>1 DEF Quiet, UserDoes, Restores, Operates, WorkerDoes, GivesUp, CallsRestore, CallsOperation,
                TimesOut
  <2>2. QED
    BY <2>1, <1>0
<1>2. CASE InterfaceHears
  <2>1. PICK m \in Messages : Heard(m)
    BY <1>2 DEF InterfaceHears, HearsStart, HearsComplete, HearsReturn, HearsRestored, HearsOperated
  <2>2. QED
    BY <2>1, <1>0 DEF Heard, Removed
<1>3. CASE RuntimeTakes
  <2>1. UNCHANGED toUi \/ \E m : Told(m) /\ m.do = "restored"
    BY <1>3 DEF RuntimeTakes, TakesSubmit, TakesRestore, TakesOperation, TakesCancel, TurnsRestoreAway
  <2>2. QED
    BY <2>1, <1>0 DEF Told, Added
<1>4. CASE TurnMoves
  <2>1. ASSUME NEW j \in jobs, NEW a, NEW b, NEW q, Closes(j, a, b, q)
        PROVE  NeverExecuting'
    BY <2>1, <1>0 DEF Closes, Added
  <2>2. ASSUME UNCHANGED toUi \/ \E m : Told(m) /\ (m.do = "returned" => m.why # "executing")
        PROVE  NeverExecuting'
    BY <2>2, <1>0 DEF Told, Added
  <2>3. QED
    BY <1>4, <2>1, <2>2 DEF TurnMoves, Refuses, Begins, Announces, Executes
<1>5. CASE OperationEnds
  <2>1. PICK m \in Messages : Told(m) /\ m.do # "returned"
    BY <1>5 DEF OperationEnds, FinishesRestore, FinishesOperation
  <2>2. QED
    BY <2>1, <1>0 DEF Told, Added
<1>6. QED
  BY <1>1, <1>2, <1>3, <1>4, <1>5 DEF Step

LEMMA DrainedNext ==
  ASSUME Drained, [Next]_vars
  PROVE  Drained'
<1>1. CASE UNCHANGED <<drain, cut>>
  BY <1>1 DEF Drained
<1>2. CASE HearComplete
  BY <1>2 DEF HearComplete, Drained
<1>3. CASE HearOther
  BY <1>3 DEF HearOther, FinishTurnQueues, Drained
<1>4. CASE HearRestored
  <2>1. PICK m : m = Head(toUi)
    OBVIOUS
  <2>2. \/ drain' = FALSE
        \/ drain' = (drain /\ ~CancelsDrain(m)) /\ cut' = (cut \/ ~m.whole)
    BY <2>1, <1>4 DEF HearRestored, FinishTurnQueues
  <2>3. QED
    BY <2>2 DEF Drained, CancelsDrain
<1>5. UNCHANGED <<drain, cut>> \/ HearComplete \/ HearOther \/ HearRestored
  <2>1. ASSUME NEW w \in Words, Type(w) \/ Generate(w) \/ StartGoal(w)
        PROVE  UNCHANGED <<drain, cut>>
    BY <2>1 DEF Type, Generate, StartGoal, fences
  <2>2. ASSUME NEW key, Press(key) PROVE UNCHANGED <<drain, cut>>
    BY <2>2 DEF Press, fences
  <2>3. ASSUME NEW i, Restore(i) PROVE UNCHANGED <<drain, cut>>
    BY <2>3 DEF Restore
  <2>4. ASSUME NEW do, Operate(do) PROVE UNCHANGED <<drain, cut>>
    BY <2>4 DEF Operate
  <2>5. CASE Recall \/ Deliver \/ CallRestore \/ CallOperation \/ GiveUpClear \/ TimeOut
    BY <2>5 DEF Recall, Deliver, CallRestore, CallOperation, GiveUpClear, TimeOut, fences
  <2>6. CASE HearStart \/ HearReturn \/ HearOperated \/ Take \/ TurnStep
    BY <2>6 DEF HearStart, HearReturn, HearOperated, Take, TurnStep, fences
  <2>7. ASSUME NEW o, Finish(o) PROVE UNCHANGED <<drain, cut>>
    BY <2>7 DEF Finish, fences
  <2>8. CASE UNCHANGED vars
    BY <2>8 DEF vars, fences
  <2>9. QED
    BY <2>1, <2>2, <2>3, <2>4, <2>5, <2>6, <2>7, <2>8 DEF Next, User, Interface, Runtime
<1>6. QED
  BY <1>1, <1>2, <1>3, <1>4, <1>5

JobsApart ==
  \A j \in jobs : j.via # "goal" =>
    /\ Unfenced
    /\ \A o \in ops : ~IsOperation(o)
    /\ Kinds(toRt) \cap {"operation", "cancel"} = {}
CallsApart ==
  \A i \in DOMAIN toRt : toRt[i].do = "submit" /\ toRt[i].via # "goal" =>
    /\ Unfenced
    /\ \A k \in DOMAIN toRt : Kind(toRt[k]) \in {"operation", "cancel"} => k < i

LEMMA ApartSplit == OperationsApart <=> JobsApart /\ CallsApart
BY DEF OperationsApart, JobsApart, CallsApart

\* A step that asks for no operation, and lifts no fence.
LEMMA ApartStays ==
  ASSUME OperationsApart, toRt \in Seq(Calls),
         UNCHANGED toRt \/ \E c : Put(c) /\ c.do \in {"restore", "submit"} /\
                                   (c.do = "submit" => Unfenced'),
         \A j \in jobs' : \E i \in jobs : i.via = j.via,
         \A o \in ops' : IsOperation(o) => o \in ops,
         Unfenced => Unfenced'
  PROVE  OperationsApart'
<1>1. CASE UNCHANGED toRt
  <2>1. JobsApart'
    BY <1>1, ApartSplit DEF JobsApart
  <2>2. CallsApart'
    BY <1>1, ApartSplit DEF CallsApart
  <2>3. QED
    BY <2>1, <2>2 DEF OperationsApart, JobsApart, CallsApart
<1>2. ASSUME NEW c, Put(c), c.do \in {"restore", "submit"}, c.do = "submit" => Unfenced'
      PROVE  OperationsApart'
  <2>1. PICK n \in Nat :
           /\ DOMAIN toRt' = DOMAIN toRt \cup {n} /\ toRt'[n] = c /\ n \notin DOMAIN toRt
           /\ \A i \in DOMAIN toRt : toRt'[i] = toRt[i] /\ i \in Nat /\ 0 < i /\ i < n
    BY <1>2, EndedPut
  <2>2. Kind(c) = c.do
    BY <1>2 DEF Kind
  <2>3. Kinds(toRt') = Kinds(toRt) \cup {c.do}
    BY <1>2, <2>2 DEF Put, Added
  <2>4. JobsApart'
    BY <1>2, <2>3, ApartSplit DEF JobsApart
  <2>5. CallsApart'
    <3>1. ASSUME NEW i \in DOMAIN toRt', toRt'[i].do = "submit", toRt'[i].via # "goal"
          PROVE  Unfenced' /\ \A k \in DOMAIN toRt' : Kind(toRt'[k]) \in {"operation", "cancel"} => k < i
      <4>1. CASE i = n
        BY <4>1, <3>1, <2>1, <2>2, <1>2
      <4>2. CASE i \in DOMAIN toRt
        BY <4>2, <3>1, <2>1, <2>2, <1>2, ApartSplit DEF CallsApart
      <4>3. QED
        BY <4>1, <4>2, <2>1
    <3>2. QED
      BY <3>1 DEF CallsApart
  <2>6. QED
    BY <2>4, <2>5 DEF OperationsApart, JobsApart, CallsApart
<1>3. QED
  BY <1>1, <1>2

LEMMA CallsApartTaken ==
  ASSUME OperationsApart, toRt \in Seq(Calls), NEW c, Taken(c), Unfenced => Unfenced'
  PROVE  CallsApart'
<1>1. \A i \in DOMAIN toRt' :
        i \in Nat /\ 0 < i /\ i + 1 \in DOMAIN toRt /\ toRt'[i] = toRt[i + 1]
  BY EndedTaken
<1>2. ASSUME NEW i \in DOMAIN toRt', toRt'[i].do = "submit", toRt'[i].via # "goal"
      PROVE  Unfenced' /\ \A k \in DOMAIN toRt' : Kind(toRt'[k]) \in {"operation", "cancel"} => k < i
  <2>1. i + 1 \in DOMAIN toRt /\ toRt[i + 1].do = "submit" /\ toRt[i + 1].via # "goal"
    BY <1>1, <1>2
  <2>2. Unfenced /\ \A k \in DOMAIN toRt : Kind(toRt[k]) \in {"operation", "cancel"} => k < i + 1
    BY <2>1, ApartSplit DEF CallsApart
  <2>3. ASSUME NEW k \in DOMAIN toRt', Kind(toRt'[k]) \in {"operation", "cancel"}
        PROVE  k < i
    <3>1. k + 1 < i + 1
      BY <2>2, <2>3, <1>1
    <3>2. QED
      BY <3>1, <1>1
  <2>4. QED
    BY <2>2, <2>3
<1>3. QED
  BY <1>2 DEF CallsApart

\* A submission of the composer or the queue that has not begun its turn keeps
\* its admission.
LEMMA Admitted ==
  ASSUME Submissions, Announced, admission = 0
  PROVE  /\ \A j \in jobs : j.via # "goal" => running # 0
         /\ \A i \in DOMAIN toRt : toRt[i].do = "submit" => toRt[i].via = "goal"
<1>1. ASSUME NEW j \in jobs, j.via # "goal"
      PROVE  running # 0
  <2>1. CASE InTurn
    BY <2>1 DEF InTurn
  <2>2. CASE Waiting /\ Mine(j)
    BY <2>2, <1>1 DEF Waiting, Mine
  <2>3. Waiting => Mine(j) \/ InTurn
    <3>1. CASE j.stage \in {"preflight", "begin"}
      BY <3>1 DEF Submissions, Marked
    <3>2. CASE At(FALSE, {"turn"}, "start")
      <4>1. "start" \in Kinds(toUi)
        BY <3>2, KindIn DEF At
      <4>2. QED
        BY <4>1 DEF Announced
    <3>3. QED
      BY <3>1, <3>2, InJob DEF Submissions
  <2>4. QED
    BY <2>1, <2>2, <2>3, InJob DEF Submissions
<1>2. ASSUME NEW i \in DOMAIN toRt, toRt[i].do = "submit", toRt[i].via # "goal"
      PROVE  FALSE
  <2>1. PICK c \in Range(toRt) : c = toRt[i]
    BY DEF Range
  <2>2. Mine(c) /\ Kind(c) = "submit"
    BY <2>1, <1>2 DEF Submissions, Marked, Kind
  <2>3. Waiting
    BY <2>2, KindIn, InCall DEF Submissions
  <2>4. QED
    BY <2>1, <2>2, <2>3, <1>2 DEF Waiting, Mine
<1>3. QED
  BY <1>1, <1>2

LEMMA OperationsApartStep ==
  ASSUME Typed, Submissions, Announced, OperationsHeld, OperationsApart, Step
  PROVE  OperationsApart'
<1>t. /\ toRt \in Seq(Calls) /\ ops \subseteq Ops /\ (ctx.stage = "none" <=> ctx = NoOp)
  BY DEF Typed, QueuesTyped, RuntimeTyped, FlagsTyped
<1>c. JobsApart /\ CallsApart
  BY ApartSplit
<1>q. JobsApart' /\ CallsApart' => OperationsApart'
  BY DEF OperationsApart, JobsApart, CallsApart
<1>u. UNCHANGED <<ctx, running>> => (Unfenced => Unfenced')
  BY DEF Unfenced
<1>j. UNCHANGED jobs => \A j \in jobs' : \E i \in jobs : i.via = j.via
  OBVIOUS
<1>s. Sending /\ ctx' = ctx =>
        UNCHANGED toRt \/ \E c : Put(c) /\ c.do \in {"restore", "submit"} /\ (c.do = "submit" => Unfenced')
  BY DEF Sending, Unfenced
<1>1. CASE Quiet
  <2>1. Sending /\ UNCHANGED <<jobs, ops, ctx, running>>
    BY <1>1 DEF Quiet
  <2>2. QED
    BY <2>1, <1>t, <1>u, <1>j, <1>s, ApartStays
<1>2. CASE UserDoes
  <2>1. ASSUME NEW i, Restores(i)
        PROVE  OperationsApart'
    <3>1. UNCHANGED <<jobs, ops, ctx, running, toRt>>
      BY <2>1 DEF Restores
    <3>2. QED
      BY <3>1, <1>t, <1>u, <1>j, ApartStays
  <2>2. CASE Operates
    <3>1. /\ UNCHANGED <<jobs, ops, running, toRt>> /\ admission = 0
          /\ ctx'.stage = IF running # 0 THEN "wait" ELSE "call"
      BY <2>2 DEF Operates
    <3>2. /\ \A j \in jobs : j.via # "goal" => running # 0
          /\ \A i \in DOMAIN toRt : toRt[i].do = "submit" => toRt[i].via = "goal"
      BY <3>1, Admitted
    <3>3. running # 0 => Unfenced'
      BY <3>1 DEF Unfenced
    <3>4. JobsApart'
      BY <3>1, <3>2, <3>3, <1>c DEF JobsApart
    <3>5. CallsApart'
      BY <3>1, <3>2 DEF CallsApart
    <3>6. QED
      BY <3>4, <3>5, <1>q
  <2>3. QED
    BY <1>2, <2>1, <2>2 DEF UserDoes
<1>3. CASE WorkerDoes
  <2>1. CASE GivesUp
    <3>1. UNCHANGED <<jobs, ops, running, toRt>> /\ ctx' = NoOp
      BY <2>1 DEF GivesUp
    <3>2. Unfenced'
      BY <3>1 DEF Unfenced
    <3>3. QED
      BY <3>1, <3>2, <1>t, <1>j, ApartStays
  <2>2. ASSUME NEW c \in Calls, CallsRestore(c)
        PROVE  OperationsApart'
    <3>1. Put(c) /\ c.do = "restore" /\ UNCHANGED <<jobs, ops, ctx, running>>
      BY <2>2 DEF CallsRestore
    <3>2. QED
      BY <3>1, <1>t, <1>u, <1>j, ApartStays
  <2>3. ASSUME NEW c \in Calls, CallsOperation(c) \/ TimesOut(c)
        PROVE  OperationsApart'
    <3>1. Put(c) /\ c.do # "submit" /\ UNCHANGED jobs
      BY <2>3 DEF CallsOperation, TimesOut
    <3>2. ~Unfenced
      <4>1. CASE CallsOperation(c)
        BY <4>1, <1>t DEF CallsOperation, Unfenced
      <4>2. CASE TimesOut(c)
        BY <4>2, <1>t DEF TimesOut, Unfenced
      <4>3. QED
        BY <2>3, <4>1, <4>2
    <3>3. /\ \A j \in jobs : j.via = "goal"
          /\ \A i \in DOMAIN toRt : toRt[i].do = "submit" => toRt[i].via = "goal"
      BY <3>2, <1>c DEF JobsApart, CallsApart
    <3>4. PICK n \in Nat :
             /\ DOMAIN toRt' = DOMAIN toRt \cup {n} /\ toRt'[n] = c
             /\ \A i \in DOMAIN toRt : toRt'[i] = toRt[i]
      BY <3>1, <1>t, EndedPut
    <3>5. JobsApart'
      BY <3>1, <3>3 DEF JobsApart
    <3>6. CallsApart'
      BY <3>1, <3>3, <3>4 DEF CallsApart
    <3>7. QED
      BY <3>5, <3>6, <1>q
  <2>4. QED
    BY <1>3, <2>1, <2>2, <2>3 DEF WorkerDoes
<1>4. CASE InterfaceHears
  <2>1. ASSUME NEW m \in Messages, HearsStart(m)
        PROVE  OperationsApart'
    <3>1. UNCHANGED <<jobs, ops, toRt, ctx>> /\ running' # 0
      BY <2>1 DEF HearsStart
    <3>2. Unfenced => Unfenced'
      BY <3>1 DEF Unfenced
    <3>3. QED
      BY <3>1, <3>2, <1>t, <1>j, ApartStays
  <2>2. ASSUME NEW m \in Messages, HearsComplete(m)
        PROVE  OperationsApart'
    <3>1. Heard(m) /\ m.do = "complete" /\ jobs = {} /\ jobs' = jobs /\ Sending /\ ctx' = ctx
      BY <2>2 DEF HearsComplete
    <3>2. "complete" \in Kinds(toUi)
      BY <3>1 DEF Heard, Removed, Kind
    <3>3. "submit" \notin Kinds(toRt)
      BY <3>2, InMessage DEF Submissions, At
    <3>4. \A i \in DOMAIN toRt : toRt[i].do # "submit"
      BY <3>3 DEF Kinds, Kind
    <3>5. JobsApart'
      BY <3>1 DEF JobsApart
    <3>6. CallsApart'
      <4>1. CASE UNCHANGED toRt
        BY <4>1, <3>4 DEF CallsApart
      <4>2. ASSUME NEW c, Put(c), c.do = "submit", ctx = NoOp
            PROVE  CallsApart'
        <5>1. PICK n \in Nat :
                 /\ DOMAIN toRt' = DOMAIN toRt \cup {n} /\ toRt'[n] = c
                 /\ \A i \in DOMAIN toRt : toRt'[i] = toRt[i] /\ i < n
          BY <4>2, <1>t, EndedPut
        <5>2. Unfenced' /\ Kind(c) = "submit"
          BY <3>1, <4>2 DEF Unfenced, Kind
        <5>3. QED
          BY <5>1, <5>2, <3>4 DEF CallsApart
      <4>3. QED
        BY <4>1, <4>2, <3>1 DEF Sending
    <3>7. QED
      BY <3>5, <3>6, <1>q
  <2>3. ASSUME NEW m \in Messages, HearsReturn(m)
        PROVE  OperationsApart'
    <3>1. UNCHANGED <<jobs, ops, toRt, ctx, running>>
      BY <2>3 DEF HearsReturn
    <3>2. QED
      BY <3>1, <1>t, <1>u, <1>j, ApartStays
  <2>4. ASSUME NEW m \in Messages, HearsRestored(m)
        PROVE  OperationsApart'
    <3>1. UNCHANGED <<jobs, ops, ctx, running>> /\ Sending
      BY <2>4 DEF HearsRestored
    <3>2. QED
      BY <3>1, <1>t, <1>u, <1>j, <1>s, ApartStays
  <2>5. ASSUME NEW m \in Messages, HearsOperated(m)
        PROVE  OperationsApart'
    <3>1. UNCHANGED <<jobs, ops, toRt, running>> /\ ctx' \in {ctx, NoOp}
      BY <2>5 DEF HearsOperated
    <3>2. Unfenced => Unfenced'
      BY <3>1 DEF Unfenced
    <3>3. QED
      BY <3>1, <3>2, <1>t, <1>j, ApartStays
  <2>6. QED
    BY <1>4, <2>1, <2>2, <2>3, <2>4, <2>5 DEF InterfaceHears
<1>5. CASE RuntimeTakes
  <2>1. UNCHANGED <<ctx, running>>
    BY <1>5 DEF RuntimeTakes, TakesSubmit, TakesRestore, TakesOperation, TakesCancel,
               TurnsRestoreAway, Interfaces
  <2>2. \A c : Taken(c) => CallsApart'
    BY <2>1, <1>t, <1>u, CallsApartTaken
  <2>3. ASSUME NEW c \in Calls, NEW j, TakesSubmit(c, j)
        PROVE  OperationsApart'
    <3>1. Taken(c) /\ c.do = "submit" /\ jobs' = {j} /\ j.via = c.via /\ UNCHANGED ops
      BY <2>3 DEF TakesSubmit
    <3>2. /\ 1 \in DOMAIN toRt /\ toRt[1] = c
          /\ \A i \in DOMAIN toRt' :
               i \in Nat /\ 0 < i /\ i + 1 \in DOMAIN toRt /\ toRt'[i] = toRt[i + 1]
      BY <3>1, <1>t, EndedTaken
    <3>3. ASSUME c.via # "goal"
          PROVE  /\ Unfenced /\ \A k \in DOMAIN toRt' : Kind(toRt'[k]) \notin {"operation", "cancel"}
                 /\ \A o \in ops : ~IsOperation(o)
      <4>1. Unfenced /\ \A k \in DOMAIN toRt : Kind(toRt[k]) \in {"operation", "cancel"} => k < 1
        BY <3>1, <3>2, <3>3, <1>c DEF CallsApart
      <4>2. \A k \in DOMAIN toRt' : Kind(toRt'[k]) \notin {"operation", "cancel"}
        BY <4>1, <3>2
      <4>3. ASSUME NEW o \in ops, IsOperation(o)
            PROVE  FALSE
        <5>1. ~Called(o)
          BY <4>1, <1>t DEF Unfenced, Called
        <5>2. PICK k \in DOMAIN toRt : 0 < k /\ toRt[k].do = "cancel"
          BY <5>1, <4>3 DEF OperationsHeld, Ended
        <5>3. Kind(toRt[k]) = "cancel" /\ k \in Nat
          <6>1. DOMAIN toRt = 1 .. Len(toRt)
            BY <1>t
          <6>2. k \in Nat
            BY <6>1
          <6>3. QED
            BY <6>2, <5>2 DEF Kind
        <5>4. QED
          BY <5>2, <5>3, <4>1
      <4>4. QED
        BY <4>1, <4>2, <4>3
    <3>4. JobsApart'
      <4>1. c.via # "goal" => Unfenced' /\ Kinds(toRt') \cap {"operation", "cancel"} = {}
        BY <3>3, <2>1, <1>u DEF Kinds
      <4>2. QED
        BY <4>1, <3>1, <3>3 DEF JobsApart
    <3>5. QED
      BY <3>1, <3>4, <2>2, <1>q
  <2>4. ASSUME NEW c \in Calls, Taken(c), UNCHANGED jobs, \A o \in ops' : IsOperation(o) => o \in ops
        PROVE  OperationsApart'
    <3>1. Kinds(toRt') \subseteq Kinds(toRt)
      BY <2>4 DEF Taken, Removed
    <3>2. JobsApart'
      BY <3>1, <2>4, <2>1, <1>u, <1>c DEF JobsApart
    <3>3. QED
      BY <3>2, <2>2, <2>4, <1>q
  <2>5. ASSUME NEW c \in Calls, TakesRestore(c) \/ TakesCancel(c)
        PROVE  OperationsApart'
    <3>1. Taken(c) /\ UNCHANGED jobs /\ \A o \in ops' : IsOperation(o) => o \in ops
      BY <2>5 DEF TakesRestore, TakesCancel, IsOperation
    <3>2. QED
      BY <3>1, <2>4
  <2>6. ASSUME NEW c \in Calls, NEW m \in Messages, TurnsRestoreAway(c, m)
        PROVE  OperationsApart'
    BY <2>6, <2>4 DEF TurnsRestoreAway
  <2>7. ASSUME NEW c \in Calls, TakesOperation(c)
        PROVE  OperationsApart'
    <3>1. Taken(c) /\ UNCHANGED jobs /\ Kind(c) = "operation"
      BY <2>7 DEF TakesOperation, Kind
    <3>2. \A j \in jobs : j.via = "goal"
      BY <3>1, <1>c DEF Taken, Removed, JobsApart
    <3>3. JobsApart'
      BY <3>1, <3>2 DEF JobsApart
    <3>4. QED
      BY <3>1, <3>3, <2>2, <1>q
  <2>8. QED
    BY <1>5, <2>3, <2>5, <2>6, <2>7 DEF RuntimeTakes
<1>6. CASE TurnMoves
  <2>1. UNCHANGED <<toRt, ops, ctx, running>>
    BY <1>6 DEF TurnMoves, Refuses, Begins, Executes, Announces, Closes, Interfaces
  <2>2. \A j \in jobs' : \E i \in jobs : i.via = j.via
    BY <1>6 DEF TurnMoves, Refuses, Begins, Executes, Announces, Closes
  <2>3. QED
    BY <2>1, <2>2, <1>t, <1>u, ApartStays
<1>7. CASE OperationEnds
  <2>1. UNCHANGED <<toRt, jobs, ctx, running>> /\ ops' \subseteq ops
    BY <1>7 DEF OperationEnds, FinishesRestore, FinishesOperation, Interfaces
  <2>2. QED
    BY <2>1, <1>t, <1>u, <1>j, ApartStays
<1>8. QED
  BY <1>1, <1>2, <1>3, <1>4, <1>5, <1>6, <1>7 DEF Step

-----------------------------------------------------------------------------
(* What the user sees and what the model has.                               *)

ClearsLast == \A i, k \in DOMAIN toUi : Cleared(toUi[i]) /\ toUi[k].do = "complete" => k < i
Clearing == \E m \in Range(toUi) : Cleared(m)
NoClosing == \A j \in jobs : j.stage # "closing"
NoEnd == \A m \in Range(toUi) : m.do # "complete"
NoCut == \A m \in Range(toUi) : ~Cut(m)
Shown ==
  /\ \A j \in jobs : j.stage = "closing" => context = Append(turns, j.text)
  /\ \A m \in Range(toUi) : m.do = "complete" => context = Append(turns, m.text)
  /\ \A m \in Range(toUi) : Cut(m) => context = SubSeq(turns, 1, rewind.at - 1)
  /\ NoClosing /\ NoEnd /\ NoCut => context = turns
Matters(m) == Cleared(m) \/ Cut(m) \/ m.do = "complete"

LEMMA InStepIs ==
  /\ InStep /\ ~doubt =>
       ClearsLast /\ (Clearing => context = <<>> /\ NoClosing) /\ (~Clearing => Shown)
  /\ ClearsLast /\ (Clearing => context = <<>> /\ NoClosing) /\ (~Clearing => Shown) => InStep
BY DEF InStep, ClearsLast, Clearing, Shown, NoClosing, NoEnd, NoCut

LEMMA ClearsLastStays ==
  ASSUME toUi \in Seq(Messages), ClearsLast
  PROVE  /\ UNCHANGED toUi => ClearsLast'
         /\ \A m : Told(m) /\ m.do # "complete" => ClearsLast'
         /\ \A m : Heard(m) => ClearsLast'
<1>1. ASSUME NEW m, Told(m), m.do # "complete" PROVE ClearsLast'
  <2>1. PICK n \in Nat :
           /\ DOMAIN toUi' = DOMAIN toUi \cup {n} /\ n \notin DOMAIN toUi /\ toUi'[n] = m
           /\ \A i \in DOMAIN toUi : i \in Nat /\ 0 < i /\ i < n /\ toUi'[i] = toUi[i]
    BY <1>1, AppendAt DEF Told
  <2>2. \A i, k \in DOMAIN toUi' : \A x, y :
           x = toUi'[i] /\ y = toUi'[k] /\ Cleared(x) /\ y.do = "complete" => k < i
    BY <2>1, <1>1 DEF ClearsLast
  <2>3. QED
    BY <2>2 DEF ClearsLast, Cleared
<1>2. ASSUME NEW m, Heard(m) PROVE ClearsLast'
  <2>1. \A i \in DOMAIN toUi' : i \in Nat /\ i + 1 \in DOMAIN toUi /\ toUi'[i] = toUi[i + 1]
    BY <1>2, TailAt DEF Heard
  <2>2. \A i, k \in DOMAIN toUi' : \A x, y :
           x = toUi'[i] /\ y = toUi'[k] /\ Cleared(x) /\ y.do = "complete" => k < i
    BY <2>1 DEF ClearsLast
  <2>3. QED
    BY <2>2 DEF ClearsLast, Cleared
<1>3. UNCHANGED toUi => ClearsLast'
  BY DEF ClearsLast, Cleared
<1>4. QED
  BY <1>1, <1>2, <1>3

SameNews == \A m : Matters(m) => (m \in Range(toUi') <=> m \in Range(toUi))
SameClosing == \A j : j.stage = "closing" => (j \in jobs' <=> j \in jobs)

LEMMA MatterFrames ==
  /\ UNCHANGED toUi => SameNews
  /\ \A m : Told(m) /\ ~Matters(m) => SameNews
  /\ \A m : Heard(m) /\ ~Matters(m) => SameNews
BY DEF Told, Heard, Added, Removed, SameNews

LEMMA InStepStays ==
  ASSUME toUi \in Seq(Messages), InStep, doubt => doubt', UNCHANGED <<turns, context>>,
         SameClosing, UNCHANGED toUi \/ \E m : (Told(m) \/ Heard(m)) /\ ~Matters(m),
         rewind'.at = rewind.at \/ NoCut
  PROVE  InStep'
<1>1. SUFFICES ASSUME ~doubt'
               PROVE  InStep'
  BY DEF InStep
<1>2. ClearsLast /\ (Clearing => context = <<>> /\ NoClosing) /\ (~Clearing => Shown)
  BY <1>1, InStepIs
<1>3. SameNews
  BY MatterFrames
<1>4. ClearsLast'
  BY <1>2, ClearsLastStays DEF Matters
<1>5. (Clearing' <=> Clearing) /\ (NoClosing' <=> NoClosing) /\ (NoEnd' <=> NoEnd) /\ (NoCut' <=> NoCut)
  <2>1. Clearing' <=> Clearing
    BY <1>3 DEF SameNews, Matters, Clearing
  <2>2. NoClosing' <=> NoClosing
    BY DEF SameClosing, NoClosing
  <2>3. NoEnd' <=> NoEnd
    BY <1>3 DEF SameNews, Matters, NoEnd
  <2>4. NoCut' <=> NoCut
    BY <1>3 DEF SameNews, Matters, NoCut
  <2>5. QED
    BY <2>1, <2>2, <2>3, <2>4
<1>6. Shown => Shown'
  <2>1. ASSUME Shown PROVE \A j \in jobs' : j.stage = "closing" => context' = Append(turns', j.text)
    BY <2>1 DEF Shown, SameClosing
  <2>2. ASSUME Shown PROVE \A m \in Range(toUi') : m.do = "complete" => context' = Append(turns', m.text)
    BY <2>2, <1>3 DEF Shown, SameNews, Matters
  <2>3. ASSUME Shown PROVE \A m \in Range(toUi') : Cut(m) => context' = SubSeq(turns', 1, rewind'.at - 1)
    BY <2>3, <1>3 DEF Shown, SameNews, Matters, NoCut
  <2>4. QED
    BY <1>5, <2>1, <2>2, <2>3 DEF Shown, Cut
<1>7. (Clearing' => context' = <<>> /\ NoClosing') /\ (~Clearing' => Shown')
  BY <1>2, <1>5, <1>6
<1>8. QED
  BY <1>4, <1>7 DEF InStep, ClearsLast, Clearing, Shown, NoClosing, NoEnd, NoCut

\* The same facts after the step.
LEMMA InStepNext ==
  ASSUME ClearsLast', Clearing' => context' = <<>> /\ NoClosing', ~Clearing' => Shown'
  PROVE  InStep'
BY DEF InStep, ClearsLast, Clearing, Shown, NoClosing, NoEnd, NoCut

LEMMA InStepStep ==
  ASSUME Typed, Submissions, RestorePlace, RestoreApart, OperationsOnce, OneOperation, InStep, Step
  PROVE  InStep'
<1>t. /\ toUi \in Seq(Messages) /\ turns \in Seq(Texts) /\ context \in Seq(Texts)
      /\ (rewind.stage = "none" <=> rewind = NoRewind) /\ (ctx.stage = "none" <=> ctx = NoOp)
  BY DEF Typed, QueuesTyped, FlagsTyped
<1>k. /\ \A m \in Range(toUi) : m.do = "restored" => "restored" \in Kinds(toUi)
      /\ \A m \in Range(toUi) : m.do = "complete" => "complete" \in Kinds(toUi)
      /\ \A m : m.do = "restored" \/ m.do = "complete" => Kind(m) = m.do
  <2>1. \A m : m.do = "restored" \/ m.do = "complete" => Kind(m) = m.do
    BY DEF Kind
  <2>2. QED
    BY <2>1, KindIn
\* A restore that was called has the context for itself.
<1>r. ASSUME rewind.stage = "called"
      PROVE  NoClosing /\ NoEnd /\ (~doubt => ~Clearing)
  <2>1. ~ClosingOrComplete /\ ctx = NoOp
    BY <1>r, <1>t DEF RestoreApart, ClosingOrComplete, Rewinding, NoRewind
  <2>2. NoClosing /\ NoEnd
    BY <2>1, <1>k DEF ClosingOrComplete, NoClosing, NoEnd
  <2>3. ~doubt => ~Clearing
    BY <2>1, <1>t DEF OneOperation, Clearing, Cleared, Numbered, Called
  <2>4. QED
    BY <2>2, <2>3
<1>c. rewind.stage # "called" => NoCut
  BY <1>k DEF RestorePlace, NoCut, Cut
<1>j. ASSUME jobs' = {} \/ \E j : jobs' = {j} /\ j.stage # "closing",
             jobs = {} \/ \E j : jobs = {j} /\ j.stage # "closing"
      PROVE  SameClosing
  BY <1>j DEF SameClosing
<1>g. UNCHANGED jobs => SameClosing
  BY DEF SameClosing
<1>1. CASE Quiet
  BY <1>1, <1>t, <1>g, InStepStays DEF Quiet
<1>2. CASE UserDoes
  <2>1. ASSUME NEW i, Restores(i)
        PROVE  InStep'
    <3>1. NoCut /\ UNCHANGED <<turns, context, toUi, jobs, doubt>>
      BY <2>1, <1>t, <1>c DEF Restores
    <3>2. QED
      BY <3>1, <1>t, <1>g, InStepStays
  <2>2. CASE Operates
    BY <2>2, <1>t, <1>g, InStepStays DEF Operates
  <2>3. QED
    BY <1>2, <2>1, <2>2 DEF UserDoes
<1>3. CASE WorkerDoes
  <2>1. UNCHANGED <<turns, context, toUi, jobs>> /\ rewind'.at = rewind.at /\ (doubt => doubt')
    BY <1>3 DEF WorkerDoes, GivesUp, CallsRestore, CallsOperation, TimesOut
  <2>2. QED
    BY <2>1, <1>t, <1>g, InStepStays
<1>4. CASE InterfaceHears
  <2>1. ASSUME NEW m \in Messages, HearsStart(m) \/ HearsReturn(m)
        PROVE  InStep'
    <3>1. /\ Heard(m) /\ ~Matters(m) /\ UNCHANGED <<turns, context, jobs, doubt, rewind>>
      BY <2>1 DEF HearsStart, HearsReturn, Matters, Cleared, Cut
    <3>2. QED
      BY <3>1, <1>t, <1>g, InStepStays
  <2>2. ASSUME NEW m \in Messages, HearsComplete(m)
        PROVE  InStep'
    <3>1. /\ Heard(m) /\ m.do = "complete" /\ jobs = {} /\ turns' = Append(turns, m.text)
          /\ UNCHANGED <<rewind, doubt, jobs, context>>
      BY <2>2 DEF HearsComplete
    <3>2. SUFFICES ASSUME ~doubt PROVE InStep'
      BY <3>1 DEF InStep
    <3>3. ClearsLast /\ (Clearing => context = <<>> /\ NoClosing) /\ (~Clearing => Shown)
      BY <3>2, InStepIs
    <3>4. m \in Range(toUi) /\ "complete" \in Kinds(toUi) /\ Kind(m) = "complete"
      BY <3>1, <1>k DEF Heard, Removed
    <3>5. NoCut
      BY <3>4, <1>c DEF RestoreApart
    <3>6. Once(toUi, "complete")
      BY <3>4, InMessage DEF Submissions, At
    <3>7. "complete" \notin Kinds(toUi')
      BY <3>1, <3>4, <3>6 DEF Heard, Removed
    <3>8. NoEnd' /\ NoCut' /\ NoClosing'
      <4>1. \A x \in Range(toUi') : x.do # "complete"
        <5>1. \A x \in Range(toUi') : Kind(x) \in Kinds(toUi')
          BY DEF Range, Kinds
        <5>2. QED
          BY <5>1, <3>7, <1>k
      <4>2. \A x \in Range(toUi') : ~Cut(x)
        BY <3>1, <3>5 DEF NoCut, Heard, Removed
      <4>3. QED
        BY <4>1, <4>2, <3>1 DEF NoEnd, NoCut, NoClosing, Cut
    <3>9. Clearing' <=> Clearing
      <4>1. ~Cleared(m)
        BY <3>1 DEF Cleared
      <4>2. \A x : Cleared(x) => (x \in Range(toUi') <=> x \in Range(toUi))
        BY <3>1, <4>1 DEF Heard, Removed
      <4>3. QED
        BY <4>2 DEF Clearing, Cleared
    <3>10. ~Clearing => context = turns'
      BY <3>1, <3>3, <3>4 DEF Shown
    <3>11. ~Clearing' => Shown'
      BY <3>1, <3>8, <3>9, <3>10 DEF Shown, NoEnd, NoCut, NoClosing, Cut
    <3>12. ClearsLast'
      BY <3>1, <3>3, <1>t, ClearsLastStays
    <3>13. QED
      BY <3>1, <3>3, <3>8, <3>9, <3>11, <3>12, InStepNext
  <2>3. ASSUME NEW m \in Messages, HearsRestored(m)
        PROVE  InStep'
    <3>1. /\ Heard(m) /\ m.do = "restored" /\ UNCHANGED <<doubt, jobs, context>>
          /\ turns' = IF m.conversation THEN SubSeq(turns, 1, rewind.at - 1) ELSE turns
      BY <2>3 DEF HearsRestored
    <3>2. SUFFICES ASSUME ~doubt PROVE InStep'
      BY <3>1 DEF InStep
    <3>3. ClearsLast /\ (Clearing => context = <<>> /\ NoClosing) /\ (~Clearing => Shown)
      BY <3>2, InStepIs
    <3>4. m \in Range(toUi) /\ "restored" \in Kinds(toUi) /\ Kind(m) = "restored"
      BY <3>1, <1>k DEF Heard, Removed
    <3>5. rewind.stage = "called" /\ Once(toUi, "restored")
      BY <3>4 DEF RestorePlace
    <3>6. NoClosing /\ NoEnd /\ ~Clearing
      BY <3>2, <3>5, <1>r
    <3>7. "restored" \notin Kinds(toUi')
      BY <3>1, <3>4, <3>5 DEF Heard, Removed
    <3>8. NoEnd' /\ NoCut' /\ NoClosing' /\ ~Clearing'
      <4>1. \A x \in Range(toUi') : x.do # "restored"
        <5>1. \A x \in Range(toUi') : Kind(x) \in Kinds(toUi')
          BY DEF Range, Kinds
        <5>2. QED
          BY <5>1, <3>7, <1>k
      <4>2. \A x \in Range(toUi') : x.do # "complete" /\ ~Cleared(x)
        BY <3>1, <3>6 DEF NoEnd, Clearing, Heard, Removed
      <4>3. QED
        BY <4>1, <4>2, <3>1, <3>6 DEF NoEnd, NoCut, NoClosing, Clearing, Cut, Cleared
    <3>9. context = turns'
      <4>1. CASE m.conversation
        BY <4>1, <3>1, <3>3, <3>4, <3>6 DEF Shown, Cut
      <4>2. CASE ~m.conversation
        <5>1. NoCut
          <6>1. \A x \in Range(toUi) : x = m \/ x \in Range(toUi')
            BY <3>1 DEF Heard, Removed
          <6>2. QED
            BY <6>1, <3>8, <4>2 DEF NoCut, Cut
        <5>2. QED
          BY <5>1, <4>2, <3>1, <3>3, <3>6 DEF Shown
      <4>3. QED
        BY <4>1, <4>2
    <3>10. Shown'
      BY <3>1, <3>8, <3>9 DEF Shown, NoEnd, NoCut, NoClosing, Cut
    <3>11. ClearsLast'
      BY <3>1, <3>3, <1>t, ClearsLastStays
    <3>12. QED
      BY <3>8, <3>10, <3>11, InStepNext
  <2>4. ASSUME NEW m \in Messages, HearsOperated(m)
        PROVE  InStep'
    <3>1. /\ Heard(m) /\ m.do = "operated" /\ UNCHANGED <<doubt, jobs, context, rewind>>
          /\ turns' = IF Called(m) /\ m.cleared THEN <<>> ELSE turns
      BY <2>4 DEF HearsOperated
    <3>2. CASE ~m.cleared
      <4>1. ~Matters(m) /\ turns' = turns
        BY <3>1, <3>2 DEF Matters, Cleared, Cut
      <4>2. QED
        BY <3>1, <4>1, <1>t, <1>g, InStepStays
    <3>3. CASE m.cleared
      <4>1. SUFFICES ASSUME ~doubt PROVE InStep'
        BY <3>1 DEF InStep
      <4>2. m \in Range(toUi) /\ Numbered(m) /\ Cleared(m)
        BY <3>1, <3>3 DEF Heard, Removed, Numbered, Cleared
      <4>3. ClearsLast /\ context = <<>> /\ NoClosing
        BY <4>1, <4>2, InStepIs DEF Clearing
      <4>4. \A x \in Range(toUi) : Numbered(x) => Called(x)
        BY <4>1 DEF OneOperation
      <4>5. Called(m) /\ turns' = <<>>
        BY <4>2, <4>4, <3>1, <3>3
      <4>6. NoCut
        <5>1. ctx # NoOp
          BY <4>5, <1>t DEF Called
        <5>2. rewind.stage # "called"
          BY <5>1, <1>t DEF RestoreApart, Rewinding, NoRewind
        <5>3. QED
          BY <5>2, <1>c
      <4>7. /\ 1 \in DOMAIN toUi /\ toUi[1] = m
            /\ \A i \in DOMAIN toUi' : i \in Nat /\ 0 < i /\ i + 1 \in DOMAIN toUi /\ toUi'[i] = toUi[i + 1]
        BY <3>1, TailAt, <1>t DEF Heard
      <4>8. \A i \in DOMAIN toUi' : \A x : x = toUi'[i] => x.do # "complete" /\ ~Cleared(x) /\ ~Cut(x)
        <5>1. TAKE i \in DOMAIN toUi'
        <5>2. PICK x : x = toUi'[i]
          OBVIOUS
        <5>3. i + 1 \in DOMAIN toUi /\ toUi[i + 1] = x /\ i \in Nat /\ 0 < i /\ x \in Range(toUi)
          BY <5>2, <4>7 DEF Range
        <5>4. x.do # "complete"
          <6>1. x.do = "complete" => i + 1 < 1
            BY <5>3, <4>7, <4>2, <4>3 DEF ClearsLast
          <6>2. QED
            BY <6>1, <5>3
        <5>5. ~Cleared(x)
          <6>1. SUFFICES ASSUME Cleared(x) PROVE FALSE
            OBVIOUS
          <6>2. Numbered(x) /\ x.id = m.id
            BY <6>1, <5>3, <4>4, <4>5 DEF Cleared, Numbered, Called
          <6>3. i + 1 = 1
            BY <6>2, <5>3, <4>7, <4>2 DEF OperationsOnce, Single
          <6>4. QED
            BY <6>3, <5>3
        <5>6. ~Cut(x)
          BY <5>3, <4>6 DEF NoCut
        <5>7. QED
          BY <5>2, <5>4, <5>5, <5>6
      <4>9. NoEnd' /\ NoCut' /\ NoClosing' /\ ~Clearing'
        <5>1. \A x \in Range(toUi') : x.do # "complete" /\ ~Cleared(x) /\ ~Cut(x)
          BY <4>8 DEF Range
        <5>2. QED
          BY <5>1, <4>3, <3>1 DEF NoEnd, NoCut, NoClosing, Clearing, Cut, Cleared
      <4>10. Shown'
        BY <3>1, <4>3, <4>5, <4>9 DEF Shown, NoEnd, NoCut, NoClosing, Cut
      <4>11. ClearsLast'
        BY <3>1, <4>3, <1>t, ClearsLastStays
      <4>12. QED
        BY <4>9, <4>10, <4>11, InStepNext
    <3>4. QED
      BY <3>2, <3>3
  <2>5. QED
    BY <1>4, <2>1, <2>2, <2>3, <2>4 DEF InterfaceHears
<1>5. CASE RuntimeTakes
  <2>1. UNCHANGED <<turns, rewind, context, doubt>>
    BY <1>5 DEF RuntimeTakes, TakesSubmit, TakesRestore, TakesOperation, TakesCancel,
               TurnsRestoreAway, Interfaces
  <2>2. ASSUME NEW c \in Calls, NEW j, TakesSubmit(c, j)
        PROVE  InStep'
    <3>1. jobs = {} /\ jobs' = {j} /\ j.stage # "closing" /\ UNCHANGED toUi
      BY <2>2 DEF TakesSubmit
    <3>2. QED
      BY <3>1, <2>1, <1>t, <1>j, InStepStays
  <2>3. ASSUME NEW c \in Calls, TakesRestore(c) \/ TakesOperation(c) \/ TakesCancel(c)
        PROVE  InStep'
    BY <2>3, <2>1, <1>t, <1>g, InStepStays DEF TakesRestore, TakesOperation, TakesCancel
  <2>4. ASSUME NEW c \in Calls, NEW m \in Messages, TurnsRestoreAway(c, m)
        PROVE  InStep'
    <3>1. Told(m) /\ ~Matters(m) /\ UNCHANGED jobs
      BY <2>4 DEF TurnsRestoreAway, Matters, Cut, Cleared
    <3>2. QED
      BY <3>1, <2>1, <1>t, <1>g, InStepStays
  <2>5. QED
    BY <1>5, <2>2, <2>3, <2>4 DEF RuntimeTakes
<1>6. CASE TurnMoves
  <2>1. UNCHANGED <<turns, rewind, doubt>>
    BY <1>6 DEF TurnMoves, Refuses, Begins, Executes, Announces, Closes, Interfaces
  <2>2. ASSUME NEW j \in jobs, NEW m, Refuses(j, m)
        PROVE  InStep'
    <3>1. /\ jobs = {j} /\ j.stage # "closing" /\ jobs' = {} /\ Told(m) /\ ~Matters(m)
          /\ UNCHANGED context
      BY <2>2 DEF Refuses, Matters, Cut, Cleared
    <3>2. QED
      BY <3>1, <2>1, <1>t, <1>j, InStepStays
  <2>3. ASSUME NEW j \in jobs, NEW k, Begins(j, k)
        PROVE  InStep'
    <3>1. /\ jobs = {j} /\ j.stage # "closing" /\ jobs' = {k} /\ k.stage # "closing"
          /\ UNCHANGED <<context, toUi>>
      BY <2>3 DEF Begins
    <3>2. QED
      BY <3>1, <2>1, <1>t, <1>j, InStepStays
  <2>4. ASSUME NEW j \in jobs, NEW k, NEW m, Announces(j, k, m)
        PROVE  InStep'
    <3>1. /\ jobs = {j} /\ j.stage # "closing" /\ jobs' = {k} /\ k.stage # "closing"
          /\ Told(m) /\ ~Matters(m) /\ UNCHANGED context
      BY <2>4 DEF Announces, Matters, Cut, Cleared
    <3>2. QED
      BY <3>1, <2>1, <1>t, <1>j, InStepStays
  <2>5. ASSUME NEW j \in jobs, NEW k, Executes(j, k)
        PROVE  InStep'
    <3>1. /\ jobs = {j} /\ j.stage = "turn" /\ jobs' = {k} /\ k.text = j.text /\ toUi = <<>> /\ toUi' = <<>>
          /\ context' = Append(context, j.text)
      BY <2>5 DEF Executes
    <3>2. SUFFICES ASSUME ~doubt PROVE InStep'
      BY <2>1 DEF InStep
    <3>3. Range(toUi) = {} /\ Range(toUi') = {}
      BY <3>1, EmptyFacts
    <3>4. ~Clearing /\ NoEnd /\ NoCut /\ NoClosing
      BY <3>1, <3>3 DEF Clearing, NoEnd, NoCut, NoClosing
    <3>5. context = turns
      BY <3>2, <3>4, InStepIs DEF Shown
    <3>6. ~Clearing'
      BY <3>3 DEF Clearing
    <3>7. ~NoClosing' \/ k.stage # "closing"
      BY <3>1 DEF NoClosing
    <3>8. k.stage = "closing"
      BY <2>5 DEF Executes
    <3>9. Shown'
      BY <3>1, <3>3, <3>5, <3>7, <3>8, <2>1 DEF Shown
    <3>10. ClearsLast'
      BY <3>2, InStepIs, ClearsLastStays, <1>t, <3>1
    <3>11. QED
      BY <3>6, <3>9, <3>10, InStepNext
  <2>6. ASSUME NEW j \in jobs, NEW a, NEW b, NEW q, Closes(j, a, b, q)
        PROVE  InStep'
    <3>1. /\ jobs = {j} /\ j.stage = "closing" /\ jobs' = {} /\ a.do = "complete" /\ a.text = j.text
          /\ b.do = "returned" /\ Range(toUi') = Range(toUi) \cup {a, b} /\ UNCHANGED context
      BY <2>6 DEF Closes, Added
    <3>2. SUFFICES ASSUME ~doubt PROVE InStep'
      BY <2>1 DEF InStep
    <3>3. ~NoClosing
      BY <3>1 DEF NoClosing
    <3>4. ~Clearing /\ Shown
      BY <3>2, <3>3, InStepIs
    <3>5. NoCut
      BY <3>1, <1>c DEF RestoreApart
    <3>6. ~Clearing' /\ NoCut'
      BY <3>1, <3>4, <3>5 DEF Clearing, Cleared, NoCut, Cut
    <3>7. ~NoEnd'
      BY <3>1 DEF NoEnd
    <3>8. \A m \in Range(toUi') : m.do = "complete" => context = Append(turns, m.text)
      BY <3>1, <3>4 DEF Shown
    <3>9. Shown'
      BY <3>1, <3>6, <3>7, <3>8, <2>1 DEF Shown, NoCut, Cut
    <3>10. ClearsLast'
      <4>1. \A i \in DOMAIN toUi' : \A x : x = toUi'[i] => ~Cleared(x)
        BY <3>6 DEF Clearing, Range, Cleared
      <4>2. QED
        BY <4>1 DEF ClearsLast, Cleared
    <3>11. QED
      BY <3>6, <3>9, <3>10, InStepNext
  <2>7. QED
    BY <1>6, <2>2, <2>3, <2>4, <2>5, <2>6 DEF TurnMoves
<1>7. CASE OperationEnds
  <2>1. ASSUME NEW o \in ops, NEW m \in Messages, FinishesRestore(o, m)
        PROVE  InStep'
    <3>1. /\ o.do = "restore" /\ Told(m) /\ m.do = "restored" /\ UNCHANGED <<turns, rewind, jobs>>
          /\ context' = IF m.conversation THEN SubSeq(context, 1, o.at - 1) ELSE context
          /\ (doubt => doubt')
      BY <2>1 DEF FinishesRestore, Interfaces
    <3>2. /\ Restoring /\ o.at = rewind.at
      BY <3>1 DEF Restoring, RestorePlace
    <3>3. rewind.stage = "called" /\ "restored" \notin Kinds(toUi)
      BY <3>2 DEF RestorePlace
    <3>4. SUFFICES ASSUME ~doubt PROVE InStep'
      BY <3>1 DEF InStep
    <3>5. NoClosing /\ NoEnd /\ ~Clearing
      BY <3>3, <3>4, <1>r
    <3>6. NoCut
      BY <3>3, <1>k DEF NoCut, Cut
    <3>7. context = turns
      BY <3>4, <3>5, <3>6, InStepIs DEF Shown
    <3>8. Range(toUi') = Range(toUi) \cup {m}
      BY <3>1 DEF Told, Added
    <3>9. ~Clearing' /\ NoEnd' /\ NoClosing'
      BY <3>1, <3>5, <3>8 DEF Clearing, Cleared, NoEnd, NoClosing
    <3>10. Shown'
      <4>1. \A x \in Range(toUi') : Cut(x) => x = m
        BY <3>6, <3>8 DEF NoCut
      <4>2. CASE m.conversation
        <5>1. Cut(m) /\ m \in Range(toUi')
          BY <4>2, <3>1, <3>8 DEF Cut
        <5>2. ~NoCut'
          BY <5>1 DEF NoCut, Cut
        <5>3. context' = SubSeq(turns', 1, rewind'.at - 1)
          BY <4>2, <3>1, <3>2, <3>7
        <5>4. QED
          BY <5>2, <5>3, <3>9 DEF Shown, NoClosing, NoEnd
      <4>3. CASE ~m.conversation
        <5>1. NoCut' /\ context' = turns'
          BY <4>1, <4>3, <3>1, <3>7 DEF NoCut, Cut
        <5>2. QED
          BY <5>1, <3>9 DEF Shown, NoClosing, NoEnd, NoCut, Cut
      <4>4. QED
        BY <4>2, <4>3
    <3>11. ClearsLast'
      BY <3>1, <3>4, <1>t, InStepIs, ClearsLastStays
    <3>12. QED
      BY <3>9, <3>10, <3>11, InStepNext
  <2>2. ASSUME NEW o \in ops, NEW m \in Messages, FinishesOperation(o, m)
        PROVE  InStep'
    <3>1. /\ Told(m) /\ m.do = "operated" /\ (m.cleared => o.do = "clear")
          /\ context' = IF m.cleared THEN <<>> ELSE context
          /\ doubt' = (doubt \/ (o.do = "clear" /\ jobs # {})) /\ UNCHANGED <<turns, rewind, jobs>>
      BY <2>2 DEF FinishesOperation, Interfaces
    <3>2. CASE ~m.cleared
      <4>1. ~Matters(m) /\ UNCHANGED context /\ (doubt => doubt')
        BY <3>1, <3>2 DEF Matters, Cleared, Cut
      <4>2. QED
        BY <3>1, <4>1, <1>t, <1>g, InStepStays
    <3>3. CASE m.cleared
      <4>1. SUFFICES ASSUME ~doubt' PROVE InStep'
        BY DEF InStep
      <4>2. ~doubt /\ jobs' = {} /\ context' = <<>>
        BY <4>1, <3>1, <3>3
      <4>3. NoClosing' /\ Clearing'
        <5>1. m \in Range(toUi') /\ Cleared(m)
          BY <3>1, <3>3 DEF Told, Added, Cleared
        <5>2. QED
          BY <5>1, <4>2 DEF NoClosing, Clearing, Cleared
      <4>4. ClearsLast'
        BY <3>1, <4>2, <1>t, InStepIs, ClearsLastStays
      <4>5. QED
        BY <4>2, <4>3, <4>4, InStepNext
    <3>4. QED
      BY <3>2, <3>3
  <2>3. QED
    BY <1>7, <2>1, <2>2 DEF OperationEnds
<1>8. QED
  BY <1>1, <1>2, <1>3, <1>4, <1>5, <1>6, <1>7 DEF Step

-----------------------------------------------------------------------------
(* The inductive invariant.                                                 *)

LEMMA InvInit ==
  ASSUME FlowAssumption, Init
  PROVE  IInv
<1>1. /\ Range(toRt) = {} /\ Range(toUi) = {} /\ Kinds(toRt) = {} /\ Kinds(toUi) = {}
      /\ DOMAIN toRt = {} /\ DOMAIN toUi = {}
  <2>1. toRt = <<>> /\ toUi = <<>>
    BY DEF Init
  <2>2. QED
    BY <2>1, EmptyFacts
<1>2. Typed
  <2>1. WordsTyped
    BY DEF Init, WordsTyped, Texts, NoSteer
  <2>2. QueuesTyped
    <3>1. \A S : <<>> \in Seq(S)
      OBVIOUS
    <3>2. QED
      BY <3>1 DEF Init, QueuesTyped
  <2>3. FlagsTyped
    BY DEF Init, FlagsTyped, NoRewind, NoOp
  <2>4. RuntimeTyped
    BY DEF Init, RuntimeTyped
  <2>5. QED
    BY <2>1, <2>2, <2>3, <2>4 DEF Typed
<1>3. Submissions
  <2>1. OneAtATime
    BY <1>1 DEF Init, OneAtATime, Resting, At
  <2>2. Marked
    BY <1>1 DEF Init, Marked
  <2>3. OneGoal
    BY <1>1 DEF Init, OneGoal, FlowAssumption
  <2>4. QED
    BY <2>1, <2>2, <2>3 DEF Submissions
<1>4. Announced
  BY <1>1 DEF Announced
<1>5. RestoreAt
  BY <1>1 DEF Init, RestoreAt, NoRewind, Restoring
<1>6. RestoreApart
  BY <1>1 DEF Init, RestoreApart, Rewinding
<1>7. OperationsHeld
  BY <1>1 DEF Init, OperationsHeld
<1>8. OperationsApart
  BY <1>1 DEF Init, OperationsApart
<1>9. OperationsOnce
  BY <1>1 DEF Init, OperationsOnce, NoOp, Single
<1>10. OneOperation
  BY <1>1 DEF Init, OneOperation
<1>11. NeverExecuting
  BY <1>1 DEF NeverExecuting
<1>12. InStep
  BY <1>1 DEF Init, InStep
<1>13. Drained
  BY DEF Init, Drained
<1>14. QED
  BY <1>2, <1>3, <1>4, <1>5, <1>6, <1>7, <1>8, <1>9, <1>10, <1>11, <1>12, <1>13 DEF IInv

LEMMA InvStep ==
  ASSUME FlowAssumption, MaxGoals \in {0, 1}, IInv, [Next]_vars
  PROVE  IInv'
<1>1. /\ Typed /\ Submissions /\ Announced /\ RestoreAt /\ RestoreApart
      /\ OperationsHeld /\ OperationsApart /\ OperationsOnce /\ OneOperation
      /\ NeverExecuting /\ InStep /\ Drained
  BY DEF IInv
<1>2. Step
  BY <1>1, Steps
<1>3. RestoreInRange /\ RestorePlace
  BY <1>1, RestoreSplit
<1>4. Typed'
  BY <1>1, TypedStep
<1>5. Submissions'
  BY <1>1, SubmissionsStep
<1>6. RestoreInRange' /\ RestorePlace'
  BY <1>1, <1>2, <1>3, RestoreInRangeStep, RestorePlaceStep
<1>7. RestoreAt'
  BY <1>6 DEF RestoreAt, RestoreInRange, RestorePlace
<1>8. RestoreApart' /\ OperationsHeld' /\ OperationsApart'
  BY <1>1, <1>2, <1>3, RestoreApartStep, OperationsHeldStep, OperationsApartStep
<1>9. Announced' /\ OperationsOnce' /\ OneOperation'
  BY <1>1, <1>2, AnnouncedStep, OperationsOnceStep, OneOperationStep
<1>10. NeverExecuting' /\ Drained'
  BY <1>1, <1>2, NeverExecutingStep, DrainedNext
<1>11. InStep'
  BY <1>1, <1>2, <1>3, InStepStep
<1>12. QED
  BY <1>4, <1>5, <1>7, <1>8, <1>9, <1>10, <1>11 DEF IInv

\* While at most one goal is started, the interface's fences (admission,
\* rewind, context operation, goal) keep everything under way where IInv says.
THEOREM Inductive ==
  ASSUME MaxGoals \in {0, 1}
  PROVE  Spec => []IInv
<1>1. Init => IInv
  BY FlowAssumption, InvInit
<1>2. IInv /\ [Next]_vars => IInv'
  BY FlowAssumption, InvStep
<1>3. QED
  BY <1>1, <1>2, PTL DEF Spec

LEMMA InvFences ==
  ASSUME IInv
  PROVE  ContextIsFenced
<1>1. ASSUME NEW j \in jobs, j.stage # "preflight", j.via # "goal"
      PROVE  ops = {}
  <2>1. ~Restoring /\ \A o \in ops : ~IsOperation(o)
    BY <1>1 DEF IInv, RestoreApart, OperationsApart
  <2>2. ops \subseteq Ops
    BY DEF IInv, Typed, RuntimeTyped
  <2>3. QED
    BY <2>1, <2>2 DEF Restoring, IsOperation, Ops
<1>2. \A m \in Range(toUi) : m.do = "returned" => m.why # "executing"
  BY DEF IInv, NeverExecuting
<1>3. ASSUME toUi = <<>>, jobs = {}, ~doubt
      PROVE  turns = context
  <2>1. Range(toUi) = {}
    BY <1>3, EmptyFacts
  <2>2. QED
    BY <2>1, <1>3 DEF IInv, InStep
<1>4. QED
  BY <1>1, <1>2, <1>3 DEF ContextIsFenced

\* While at most one goal is started, a prompt's turn is never in the runtime
\* together with a restore, a clear or a compaction, the runtime never has to
\* turn a prompt away as already executing, and once everything is heard the
\* user sees the turns the model has, or knows that he may not.
THEOREM ContextSafe ==
  ASSUME MaxGoals \in {0, 1}
  PROVE  Spec => []ContextIsFenced
<1>1. IInv => ContextIsFenced
  BY InvFences
<1>2. QED
  BY <1>1, Inductive, PTL

LEMMA InvTypes ==
  ASSUME IInv
  PROVE  TypeOK
<1>1. WordsTyped /\ QueuesTyped /\ FlagsTyped
  BY DEF IInv, Typed
<1>2. {composer, parked, slot, steer.text, settled} \subseteq SUBSET Words
  BY <1>1 DEF WordsTyped, Texts
<1>3. {running, admission, sent} \subseteq Nat
  BY <1>1 DEF FlagsTyped
<1>4. {drain, goal, cut, doubt} \subseteq BOOLEAN
  BY <1>1, Zenon DEF FlagsTyped
<1>5. /\ rewind.stage \in {"none", "wait", "called"}
      /\ ctx.stage \in {"none", "wait", "call", "called"}
  BY <1>1 DEF FlagsTyped
<1>6. turns \in Seq(SUBSET Words) /\ context \in Seq(SUBSET Words)
  BY <1>1 DEF QueuesTyped, Texts
<1>7. QED
  BY <1>2, <1>3, <1>4, <1>5, <1>6 DEF TypeOK

\* What the interface keeps has its types: words in its places, one stage for
\* each fence.
THEOREM TypeCorrect ==
  ASSUME MaxGoals \in {0, 1}
  PROVE  Spec => []TypeOK
<1>1. IInv => TypeOK
  BY InvTypes
<1>2. QED
  BY <1>1, Inductive, PTL

-----------------------------------------------------------------------------
(* The queued message.                                                      *)

QueueTurn ==
  (slot # {} /\ slot' = {} /\ toRt' # toRt) =>
     composer' = {} /\ ~cut' /\ ~(rewind # NoRewind)' /\ ctx = NoOp

LEMMA QueueStep ==
  ASSUME Drained, [Next]_vars
  PROVE  QueueTurn
<1>1. CASE UNCHANGED slot \/ UNCHANGED toRt
  BY <1>1 DEF QueueTurn
<1>2. ASSUME NEW draft, NEW active, FinishTurnQueues(draft, active), slot # {}, slot' = {}
      PROVE  draft = {} /\ ctx = NoOp
  BY <1>2 DEF FinishTurnQueues, PickedUp, Pending
<1>3. CASE HearComplete
  <2>1. UNCHANGED composer /\ UNCHANGED rewind /\ cut' = FALSE
    BY <1>3 DEF HearComplete
  <2>2. CASE DrainsNow /\ FinishTurnQueues(composer, FALSE)
    BY <2>1, <2>2, <1>2 DEF QueueTurn, DrainsNow, Rewinding
  <2>3. CASE UNCHANGED queues
    BY <2>3, <1>1 DEF queues
  <2>4. QED
    BY <2>2, <2>3, <1>3 DEF HearComplete
<1>4. CASE HearOther
  <2>1. /\ drain /\ DrainsNow /\ FinishTurnQueues(composer, running # 0)
        /\ UNCHANGED <<composer, rewind, cut>>
    BY <1>4 DEF HearOther
  <2>2. QED
    BY <2>1, <1>2 DEF QueueTurn, DrainsNow, Rewinding, Drained
<1>5. CASE HearRestored
  <2>1. PICK m : m = Head(toUi)
    OBVIOUS
  <2>2. PICK draft : draft = IF m.conversation THEN turns[rewind.at] ELSE composer
    OBVIOUS
  <2>3. /\ rewind' = NoRewind /\ composer' = draft
        /\ \/ m.whole /\ drain /\ FinishTurnQueues(draft, running # 0) /\ UNCHANGED cut
           \/ UNCHANGED queues
    BY <2>1, <2>2, <1>5 DEF HearRestored
  <2>4. CASE UNCHANGED queues
    BY <2>4, <1>1 DEF queues
  <2>5. CASE drain /\ FinishTurnQueues(draft, running # 0) /\ UNCHANGED cut
    BY <2>3, <2>5, <1>2 DEF QueueTurn, Drained
  <2>6. QED
    BY <2>3, <2>4, <2>5
<1>6. ASSUME NEW w \in Words, Generate(w)
      PROVE  QueueTurn
  <2>1. slot' = {w} \/ UNCHANGED slot
    BY <1>6 DEF Generate, Enqueue, Submit
  <2>2. QED
    BY <2>1, <1>1 DEF QueueTurn
<1>7. CASE Deliver
  <2>1. UNCHANGED slot \/ UNCHANGED toRt
    BY <1>7 DEF Deliver, Submit, OnQueue, OnSteer, Enqueue, Return, queues
  <2>2. QED
    BY <2>1, <1>1
<1>8. \/ UNCHANGED slot \/ UNCHANGED toRt \/ HearComplete \/ HearOther \/ HearRestored
      \/ Deliver \/ \E w \in Words : Generate(w)
  <2>1. ASSUME NEW w \in Words, Type(w) \/ StartGoal(w)
        PROVE  UNCHANGED slot
    BY <2>1 DEF Type, StartGoal, queues
  <2>2. ASSUME NEW key, Press(key) PROVE UNCHANGED slot
    BY <2>2 DEF Press, queues
  <2>3. ASSUME NEW i, Restore(i) PROVE UNCHANGED slot
    BY <2>3 DEF Restore, queues
  <2>4. ASSUME NEW do, Operate(do) PROVE UNCHANGED slot
    BY <2>4 DEF Operate, queues
  <2>5. CASE CallRestore \/ CallOperation \/ GiveUpClear \/ TimeOut
    BY <2>5 DEF CallRestore, CallOperation, GiveUpClear, TimeOut, queues
  <2>6. CASE HearStart \/ HearOperated \/ Take \/ TurnStep
    BY <2>6 DEF HearStart, HearOperated, Take, TurnStep, queues
  <2>7. ASSUME NEW o, Finish(o) PROVE UNCHANGED slot
    BY <2>7 DEF Finish, queues
  <2>8. CASE UNCHANGED vars
    BY <2>8 DEF vars, queues
  <2>9. CASE Recall \/ HearReturn
    BY <2>9 DEF Recall, HearReturn
  <2>10. QED
    BY <2>1, <2>2, <2>3, <2>4, <2>5, <2>6, <2>7, <2>8, <2>9 DEF Next, User, Interface, Runtime
<1>9. QED
  BY <1>1, <1>3, <1>4, <1>5, <1>6, <1>7, <1>8

\* The queued message is sent only at the end of a turn, whatever is pressed,
\* turned away, restored or timed out before, and however many goals are started.
THEOREM QueueWaits == Spec => QueueWaitsForItsTurn
<1>1. Init => Drained
  BY DEF Init, Drained
<1>2. Drained /\ [Next]_vars => Drained'
  BY DrainedNext
<1>3. Drained /\ [Next]_vars => QueueTurn
  BY QueueStep
<1>4. Drained /\ [Next]_vars => [(slot # {} /\ slot' = {} /\ toRt' # toRt) =>
        composer' = {} /\ ~cut' /\ ~(rewind # NoRewind)' /\ ctx = NoOp]_vars
  BY <1>3 DEF QueueTurn
<1>5. QED
  BY <1>1, <1>2, <1>4, PTL DEF Spec, QueueWaitsForItsTurn

-----------------------------------------------------------------------------
(* The words in a queue.                                                    *)

LEMMA WithinAppend ==
  ASSUME NEW S, NEW q \in Seq(S), NEW m
  PROVE  /\ Within(Append(q, m)) = Within(q) \cup Held(m)
         /\ Apart(q) /\ Held(m) \cap Within(q) = {} => Apart(Append(q, m))
<1>1. PICK n \in Nat :
           /\ DOMAIN Append(q, m) = DOMAIN q \cup {n} /\ n \notin DOMAIN q
           /\ Append(q, m)[n] = m
           /\ \A i \in DOMAIN q : i \in Nat /\ 0 < i /\ i < n /\ Append(q, m)[i] = q[i]
  BY AppendAt
<1>2. PICK a : a = Append(q, m)
  OBVIOUS
<1>3. /\ DOMAIN a = DOMAIN q \cup {n} /\ n \notin DOMAIN q /\ a[n] = m
      /\ \A i \in DOMAIN q : a[i] = q[i]
  BY <1>1, <1>2
<1>4. Within(a) = Within(q) \cup Held(m)
  BY <1>3 DEF Within
<1>5. ASSUME Apart(q), Held(m) \cap Within(q) = {}
      PROVE  Apart(a)
  <2>1. \A i \in DOMAIN q : Held(q[i]) \cap Held(m) = {}
    BY <1>5 DEF Within
  <2>2. QED
    BY <1>3, <1>5, <2>1 DEF Apart
<1>6. QED
  BY <1>2, <1>4, <1>5

LEMMA WithinTail ==
  ASSUME NEW S, NEW q \in Seq(S), q # <<>>
  PROVE  /\ Within(q) = Within(Tail(q)) \cup Held(Head(q))
         /\ Apart(q) => Apart(Tail(q)) /\ Held(Head(q)) \cap Within(Tail(q)) = {}
<1>1. PICK b, h : b = Tail(q) /\ h = Head(q)
  OBVIOUS
<1>2. /\ 1 \in DOMAIN q /\ q[1] = h
      /\ \A i \in DOMAIN b : i \in Nat /\ 0 < i /\ i + 1 \in DOMAIN q /\ b[i] = q[i + 1]
      /\ \A i \in DOMAIN q : i = 1 \/ (i - 1 \in DOMAIN b /\ b[i - 1] = q[i])
  BY <1>1, TailAt
<1>3. Within(q) = Within(b) \cup Held(h)
  <2>1. ASSUME NEW i \in DOMAIN q
        PROVE  Held(q[i]) \subseteq Within(b) \cup Held(h)
    <3>1. CASE i = 1
      BY <3>1, <1>2
    <3>2. CASE i - 1 \in DOMAIN b /\ b[i - 1] = q[i]
      <4>1. PICK k \in DOMAIN b : b[k] = q[i]
        BY <3>2
      <4>2. QED
        BY <4>1 DEF Within
    <3>3. QED
      BY <3>1, <3>2, <1>2
  <2>2. \A i \in DOMAIN b : Held(b[i]) \subseteq Within(q)
    BY <1>2 DEF Within
  <2>3. Held(h) \subseteq Within(q)
    BY <1>2 DEF Within
  <2>4. Within(q) \subseteq Within(b) \cup Held(h)
    BY <2>1 DEF Within
  <2>5. Within(b) \subseteq Within(q)
    BY <2>2 DEF Within
  <2>6. QED
    BY <2>3, <2>4, <2>5
<1>4. ASSUME Apart(q) PROVE Apart(b) /\ Held(h) \cap Within(b) = {}
  <2>1. ASSUME NEW i \in DOMAIN b, NEW k \in DOMAIN b, i # k
        PROVE  Held(b[i]) \cap Held(b[k]) = {}
    <3>1. i + 1 \in DOMAIN q /\ k + 1 \in DOMAIN q /\ i + 1 # k + 1
      BY <1>2, <2>1
    <3>2. QED
      BY <3>1, <1>2, <1>4 DEF Apart
  <2>2. ASSUME NEW i \in DOMAIN b PROVE Held(h) \cap Held(b[i]) = {}
    <3>1. i + 1 \in DOMAIN q /\ 1 # i + 1
      BY <1>2, <2>2
    <3>2. QED
      BY <3>1, <1>2, <1>4 DEF Apart
  <2>3. QED
    BY <2>1, <2>2 DEF Apart, Within
<1>5. QED
  BY <1>1, <1>3, <1>4

LEMMA InboxFacts ==
  ASSUME inbox \in Seq(Inputs), InboxApart
  PROVE  /\ \A m : inbox' = Append(inbox, m) =>
              /\ InInbox' = InInbox \cup m.text
              /\ m.text \cap InInbox = {} => InboxApart'
         /\ inbox # <<>> /\ inbox' = Tail(inbox) =>
              /\ InInbox = InInbox' \cup Head(inbox).text
              /\ InboxApart' /\ Head(inbox).text \cap InInbox' = {}
         /\ UNCHANGED inbox => InInbox' = InInbox /\ InboxApart'
<1>1. ASSUME NEW m, inbox' = Append(inbox, m)
      PROVE  /\ InInbox' = InInbox \cup m.text
             /\ m.text \cap InInbox = {} => InboxApart'
  <2>1. PICK n \in Nat :
           /\ DOMAIN inbox' = DOMAIN inbox \cup {n} /\ n \notin DOMAIN inbox /\ inbox'[n] = m
           /\ \A i \in DOMAIN inbox : i \in Nat /\ 0 < i /\ i < n /\ inbox'[i] = inbox[i]
    BY <1>1, AppendAt
  <2>2. InInbox' = InInbox \cup m.text
    BY <2>1 DEF InInbox
  <2>3. ASSUME m.text \cap InInbox = {} PROVE InboxApart'
    <3>1. \A i \in DOMAIN inbox : inbox[i].text \cap m.text = {}
      BY <2>3 DEF InInbox
    <3>2. QED
      BY <3>1, <2>1 DEF InboxApart
  <2>4. QED
    BY <2>2, <2>3
<1>2. ASSUME inbox # <<>>, inbox' = Tail(inbox)
      PROVE  /\ InInbox = InInbox' \cup Head(inbox).text
             /\ InboxApart' /\ Head(inbox).text \cap InInbox' = {}
  <2>1. PICK h : h = Head(inbox)
    OBVIOUS
  <2>2. /\ 1 \in DOMAIN inbox /\ inbox[1] = h
        /\ \A i \in DOMAIN inbox' :
             i \in Nat /\ 0 < i /\ i + 1 \in DOMAIN inbox /\ inbox'[i] = inbox[i + 1]
        /\ \A i \in DOMAIN inbox : i = 1 \/ (i - 1 \in DOMAIN inbox' /\ inbox'[i - 1] = inbox[i])
    BY <1>2, <2>1, TailAt
  <2>3. InInbox = InInbox' \cup h.text
    <3>1. ASSUME NEW i \in DOMAIN inbox
          PROVE  inbox[i].text \subseteq InInbox' \cup h.text
      <4>1. CASE i = 1
        BY <4>1, <2>2
      <4>2. CASE i - 1 \in DOMAIN inbox' /\ inbox'[i - 1] = inbox[i]
        <5>1. PICK k \in DOMAIN inbox' : inbox'[k] = inbox[i]
          BY <4>2
        <5>2. QED
          BY <5>1 DEF InInbox
      <4>3. QED
        BY <4>1, <4>2, <2>2
    <3>2. \A i \in DOMAIN inbox' : inbox'[i].text \subseteq InInbox
      BY <2>2 DEF InInbox
    <3>3. h.text \subseteq InInbox
      BY <2>2 DEF InInbox
    <3>4. InInbox \subseteq InInbox' \cup h.text
      BY <3>1 DEF InInbox
    <3>5. InInbox' \subseteq InInbox
      BY <3>2 DEF InInbox
    <3>6. QED
      BY <3>3, <3>4, <3>5
  <2>4. ASSUME NEW i \in DOMAIN inbox', NEW k \in DOMAIN inbox', i # k
        PROVE  inbox'[i].text \cap inbox'[k].text = {}
    <3>1. i + 1 \in DOMAIN inbox /\ k + 1 \in DOMAIN inbox /\ i + 1 # k + 1
      BY <2>2, <2>4
    <3>2. QED
      BY <3>1, <2>2 DEF InboxApart
  <2>5. ASSUME NEW i \in DOMAIN inbox' PROVE h.text \cap inbox'[i].text = {}
    <3>1. i + 1 \in DOMAIN inbox /\ 1 # i + 1
      BY <2>2, <2>5
    <3>2. QED
      BY <3>1, <2>2 DEF InboxApart
  <2>6. QED
    BY <2>1, <2>3, <2>4, <2>5 DEF InboxApart, InInbox
<1>3. UNCHANGED inbox => InInbox' = InInbox /\ InboxApart'
  BY DEF InInbox, InboxApart
<1>4. QED
  BY <1>1, <1>2, <1>3

LEMMA TurnsFacts ==
  ASSUME turns \in Seq(Texts), TurnsApart
  PROVE  /\ \A text : turns' = Append(turns, text) =>
              /\ WordsOf(turns') = WordsOf(turns) \cup text
              /\ text \cap WordsOf(turns) = {} => TurnsApart'
         /\ turns' = <<>> => WordsOf(turns') = {} /\ TurnsApart'
         /\ UNCHANGED turns => TurnsApart'
         /\ \A n \in 1 .. Len(turns) : turns' = SubSeq(turns, 1, n - 1) =>
              \E later : /\ later = WordsOf(SubSeq(turns, n + 1, Len(turns)))
                         /\ WordsOf(turns) = WordsOf(turns') \cup turns[n] \cup later
                         /\ WordsOf(turns') \cap turns[n] = {} /\ WordsOf(turns') \cap later = {}
                         /\ later \cap turns[n] = {} /\ TurnsApart'
<1>1. ASSUME NEW text, turns' = Append(turns, text)
      PROVE  /\ WordsOf(turns') = WordsOf(turns) \cup text
             /\ text \cap WordsOf(turns) = {} => TurnsApart'
  <2>1. PICK n \in Nat :
           /\ DOMAIN turns' = DOMAIN turns \cup {n} /\ n \notin DOMAIN turns /\ turns'[n] = text
           /\ \A i \in DOMAIN turns : i \in Nat /\ 0 < i /\ i < n /\ turns'[i] = turns[i]
    BY <1>1, AppendAt
  <2>2. WordsOf(turns') = WordsOf(turns) \cup text
    BY <2>1 DEF WordsOf, Range
  <2>3. ASSUME text \cap WordsOf(turns) = {} PROVE TurnsApart'
    <3>1. \A i \in DOMAIN turns : turns[i] \cap text = {}
      BY <2>3 DEF WordsOf, Range
    <3>2. QED
      BY <3>1, <2>1 DEF TurnsApart
  <2>4. QED
    BY <2>2, <2>3
<1>2. turns' = <<>> => WordsOf(turns') = {} /\ TurnsApart'
  BY DEF WordsOf, Range, TurnsApart
<1>3. UNCHANGED turns => TurnsApart'
  BY DEF TurnsApart
<1>4. ASSUME NEW n \in 1 .. Len(turns), turns' = SubSeq(turns, 1, n - 1)
      PROVE  \E later : /\ later = WordsOf(SubSeq(turns, n + 1, Len(turns)))
                         /\ WordsOf(turns) = WordsOf(turns') \cup turns[n] \cup later
                         /\ WordsOf(turns') \cap turns[n] = {} /\ WordsOf(turns') \cap later = {}
                         /\ later \cap turns[n] = {} /\ TurnsApart'
  <2>1. n \in Nat /\ 1 <= n /\ n <= Len(turns) /\ Len(turns) \in Nat /\ DOMAIN turns = 1 .. Len(turns)
    OBVIOUS
  <2>2. /\ turns' \in Seq(Texts) /\ Len(turns') = n - 1
        /\ \A i \in 1 .. (n - 1) : turns'[i] = turns[i]
    BY <1>4, <2>1, CutTurns
  <2>3. DOMAIN turns' = 1 .. (n - 1)
    BY <2>2
  <2>4. PICK later : later = WordsOf(SubSeq(turns, n + 1, Len(turns)))
    OBVIOUS
  <2>5. later = UNION {turns[i] : i \in (n + 1) .. Len(turns)}
    BY <2>1, <2>4, LaterTurns DEF WordsOf
  <2>6. WordsOf(turns') = UNION {turns[i] : i \in 1 .. (n - 1)}
    BY <2>2, <2>3 DEF WordsOf, Range
  <2>7. WordsOf(turns) = UNION {turns[i] : i \in 1 .. Len(turns)}
    BY <2>1 DEF WordsOf, Range
  <2>8. \A i, k \in 1 .. Len(turns) : i # k => turns[i] \cap turns[k] = {}
    BY <2>1 DEF TurnsApart
  <2>9. WordsOf(turns) = WordsOf(turns') \cup turns[n] \cup later
    <3>1. \A i : i \in 1 .. Len(turns) <=> i \in 1 .. (n - 1) \/ i = n \/ i \in (n + 1) .. Len(turns)
      BY <2>1
    <3>2. QED
      BY <3>1, <2>5, <2>6, <2>7
  <2>10. WordsOf(turns') \cap turns[n] = {}
    <3>1. \A i \in 1 .. (n - 1) : i \in 1 .. Len(turns) /\ i # n
      BY <2>1
    <3>2. QED
      BY <3>1, <2>6, <2>8
  <2>11. later \cap turns[n] = {}
    <3>1. \A i \in (n + 1) .. Len(turns) : i \in 1 .. Len(turns) /\ i # n
      BY <2>1
    <3>2. QED
      BY <3>1, <2>5, <2>8
  <2>12. WordsOf(turns') \cap later = {}
    <3>1. \A i \in 1 .. (n - 1), k \in (n + 1) .. Len(turns) :
             i \in 1 .. Len(turns) /\ k \in 1 .. Len(turns) /\ i # k
      BY <2>1
    <3>2. QED
      BY <3>1, <2>5, <2>6, <2>8
  <2>13. TurnsApart'
    <3>1. \A i \in 1 .. (n - 1) : i \in 1 .. Len(turns)
      BY <2>1
    <3>2. QED
      BY <3>1, <2>2, <2>3, <2>8 DEF TurnsApart
  <2>14. QED
    BY <2>4, <2>9, <2>10, <2>11, <2>12, <2>13
<1>5. QED
  BY <1>1, <1>2, <1>3, <1>4

-----------------------------------------------------------------------------
(* Every word is kept.                                                      *)

LEMMA Counted ==
  /\ \A w : Loose(w) \in Nat /\ Passing(w) \in Nat
  /\ \A w : Loose(w)' \in Nat /\ Passing(w)' \in Nat
  /\ \A p : One(p) \in {0, 1}
<1>1. \A p : One(p) \in {0, 1}
  BY DEF One
<1>2. \A w : Loose(w) \in Nat /\ Passing(w) \in Nat
  BY DEF Loose, Passing, One
<1>3. \A w : Loose(w)' \in Nat /\ Passing(w)' \in Nat
  BY DEF Loose, Passing, One
<1>4. QED
  BY <1>1, <1>2, <1>3

LEMMA HeldIs ==
  /\ \A m : m.text = {} => Held(m) = {}
  /\ \A m : Kind(m) = "returned" => Held(m) = {}
  /\ \A m : Kind(m) # "returned" => Held(m) = m.text
  /\ \A m : m.do # "returned" => Held(m) = m.text
BY DEF Held, Kind

LEMMA KeptSplit ==
  ASSUME Kept
  PROVE  /\ TurnsApart /\ InboxApart /\ Apart(toRt) /\ Apart(toUi)
         /\ \A w \in Words : Loose(w) + Passing(w) = One(w \in typed)
         /\ \A w \in Words : Loose(w) + Passing(w) <= 1
BY Counted DEF Kept

\* No word is in two places.
LEMMA Disjoint ==
  ASSUME Typed, Kept
  PROVE  /\ slot \cap Within(toRt) = {}
         /\ composer \cap InInbox = {}
         /\ \A w \in Words : ~(w \in settled /\ w \in WordsOf(turns))
         /\ \A text \in Texts : text \subseteq Within(toUi) => text \cap WordsOf(turns) = {}
         /\ \A text \in Texts : text \subseteq InJobs => text \cap Within(toUi) = {}
<1>1. \A w \in Words : Loose(w) + Passing(w) <= 1
  BY KeptSplit
<1>2. slot \in Texts /\ composer \in Texts
  BY DEF Typed, WordsTyped
<1>3. ASSUME NEW w \in Words PROVE ~(w \in slot /\ w \in Within(toRt))
  BY <1>1 DEF Loose, Passing, One
<1>4. ASSUME NEW w \in Words PROVE ~(w \in composer /\ w \in InInbox)
  BY <1>1 DEF Loose, Passing, One
<1>5. ASSUME NEW w \in Words PROVE ~(w \in Within(toUi) /\ w \in WordsOf(turns))
  BY <1>1 DEF Loose, Passing, One
<1>6. ASSUME NEW w \in Words PROVE ~(w \in InJobs /\ w \in Within(toUi))
  BY <1>1 DEF Loose, Passing, One
<1>7. ASSUME NEW w \in Words PROVE ~(w \in settled /\ w \in WordsOf(turns))
  BY <1>1 DEF Loose, Passing, One
<1>8. QED
  BY <1>2, <1>3, <1>4, <1>5, <1>6, <1>7 DEF Texts

Gains(text) ==
  /\ Apart(toRt)'
  /\ \A w \in Words : Loose(w)' = Loose(w) + One(w \in text)
Gives(text) ==
  /\ TurnsApart' /\ InboxApart' /\ Apart(toUi)'
  /\ \A w \in Words : Passing(w) = Passing(w)' + One(w \in text)

\* A text the interface takes from elsewhere.
LEMMA Exchange ==
  ASSUME Kept, NEW text, Gains(text), Gives(text), UNCHANGED typed
  PROVE  Kept'
<1>1. \A w \in Words : Loose(w) + Passing(w) = One(w \in typed)
  BY DEF Kept
<1>2. ASSUME NEW w \in Words
      PROVE  Loose(w)' + Passing(w)' = One(w \in typed)'
  <2>1. Loose(w)' = Loose(w) + One(w \in text) /\ Passing(w) = Passing(w)' + One(w \in text)
    BY DEF Gains, Gives
  <2>2. One(w \in typed)' = One(w \in typed)
    BY DEF One
  <2>3. /\ Loose(w) \in Nat /\ Passing(w)' \in Nat /\ One(w \in text) \in {0, 1}
        /\ Loose(w) + Passing(w) = One(w \in typed)
    BY <1>1, Counted
  <2>4. QED
    BY <2>1, <2>2, <2>3
<1>3. QED
  BY <1>2 DEF Kept, Gains, Gives

\* A word the user has not used before.
LEMMA NewWord ==
  ASSUME Kept, NEW x \in Unused, typed' = typed \cup {x}, Gains({x}), Gives({})
  PROVE  Kept'
<1>1. \A w \in Words : Loose(w) + Passing(w) = One(w \in typed)
  BY DEF Kept
<1>2. ASSUME NEW w \in Words
      PROVE  Loose(w)' + Passing(w)' = One(w \in typed)'
  <2>1. Loose(w)' = Loose(w) + One(w \in {x}) /\ Passing(w) = Passing(w)' + One(w \in {})
    BY DEF Gains, Gives
  <2>2. One(w \in typed)' = One(w \in typed) + One(w \in {x}) /\ One(w \in {}) = 0
    BY DEF One, Unused
  <2>3. /\ Loose(w) \in Nat /\ Passing(w)' \in Nat /\ One(w \in {x}) \in {0, 1}
        /\ Loose(w) + Passing(w) = One(w \in typed)
    BY <1>1, Counted
  <2>4. QED
    BY <2>1, <2>2, <2>3
<1>3. QED
  BY <1>2 DEF Kept, Gains, Gives

LEMMA GainsNothing ==
  ASSUME UNCHANGED <<composer, parked, slot, steer, settled>>,
         Within(toRt') = Within(toRt), Apart(toRt')
  PROVE  Gains({})
BY DEF Gains, Loose, One

LEMMA SameCalls ==
  ASSUME Apart(toRt)
  PROVE  /\ UNCHANGED toRt => Within(toRt') = Within(toRt) /\ Apart(toRt')
         /\ \A c : Put(c) /\ c.text = {} /\ toRt \in Seq(Calls)
                     => Within(toRt') = Within(toRt) /\ Apart(toRt')
         /\ \A c : Taken(c) /\ c.text = {} /\ toRt \in Seq(Calls)
                     => Within(toRt') = Within(toRt) /\ Apart(toRt')
<1>1. ASSUME NEW c, Put(c), c.text = {}, toRt \in Seq(Calls)
      PROVE  Within(toRt') = Within(toRt) /\ Apart(toRt')
  <2>1. Held(c) = {} /\ toRt' = Append(toRt, c)
    BY <1>1, HeldIs DEF Put
  <2>2. QED
    BY <2>1, <1>1, WithinAppend
<1>2. ASSUME NEW c, Taken(c), c.text = {}, toRt \in Seq(Calls)
      PROVE  Within(toRt') = Within(toRt) /\ Apart(toRt')
  <2>1. Held(c) = {} /\ toRt' = Tail(toRt) /\ c = Head(toRt) /\ toRt # <<>>
    BY <1>2, HeldIs DEF Taken
  <2>2. Within(toRt) = Within(Tail(toRt)) \cup Held(Head(toRt)) /\ Apart(Tail(toRt))
    BY <2>1, <1>2, WithinTail
  <2>3. QED
    BY <2>1, <2>2, <1>2
<1>3. UNCHANGED toRt => Within(toRt') = Within(toRt) /\ Apart(toRt')
  OBVIOUS
<1>4. QED
  BY <1>1, <1>2, <1>3

LEMMA SameNewsWords ==
  ASSUME Apart(toUi)
  PROVE  /\ UNCHANGED toUi => Within(toUi') = Within(toUi) /\ Apart(toUi')
         /\ \A m : Told(m) /\ Held(m) = {} /\ toUi \in Seq(Messages)
                     => Within(toUi') = Within(toUi) /\ Apart(toUi')
         /\ \A m : Heard(m) /\ Held(m) = {} /\ toUi \in Seq(Messages)
                     => Within(toUi') = Within(toUi) /\ Apart(toUi')
<1>1. ASSUME NEW m, Told(m), Held(m) = {}, toUi \in Seq(Messages)
      PROVE  Within(toUi') = Within(toUi) /\ Apart(toUi')
  <2>1. toUi' = Append(toUi, m)
    BY <1>1 DEF Told
  <2>2. QED
    BY <2>1, <1>1, WithinAppend
<1>2. ASSUME NEW m, Heard(m), Held(m) = {}, toUi \in Seq(Messages)
      PROVE  Within(toUi') = Within(toUi) /\ Apart(toUi')
  <2>1. toUi' = Tail(toUi) /\ m = Head(toUi) /\ toUi # <<>>
    BY <1>2 DEF Heard
  <2>2. Within(toUi) = Within(Tail(toUi)) \cup Held(Head(toUi)) /\ Apart(Tail(toUi))
    BY <2>1, <1>2, WithinTail
  <2>3. QED
    BY <2>1, <2>2, <1>2
<1>3. UNCHANGED toUi => Within(toUi') = Within(toUi) /\ Apart(toUi')
  OBVIOUS
<1>4. QED
  BY <1>1, <1>2, <1>3

LEMMA GivesNothing ==
  ASSUME Typed, Kept, UNCHANGED <<turns, inbox>>, InJobs' = InJobs,
         Within(toUi') = Within(toUi), Apart(toUi')
  PROVE  Gives({})
<1>1. TurnsApart' /\ InboxApart' /\ InInbox' = InInbox
  BY TurnsFacts, InboxFacts DEF Typed, QueuesTyped, Kept
<1>2. QED
  BY <1>1 DEF Gives, Passing, One

LEMMA SendMoves ==
  ASSUME Typed, Apart(toRt), NEW text \in Texts, NEW via \in Vias,
         toRt' = Append(toRt, Submission(text, via)), text \cap Within(toRt) = {}
  PROVE  Within(toRt') = Within(toRt) \cup text /\ Apart(toRt')
<1>1. toRt \in Seq(Calls) /\ sent \in Nat
  BY DEF Typed, QueuesTyped, FlagsTyped
<1>2. PICK c : c = Submission(text, via)
  OBVIOUS
<1>3. c.text = text /\ Kind(c) = "submit"
  BY <1>1, <1>2, Said
<1>4. Held(c) = text
  BY <1>3, HeldIs
<1>5. QED
  BY <1>1, <1>2, <1>4, WithinAppend

Fits(text) == \A w \in Words : Loose(w) + One(w \in text) <= 1

LEMMA FitsApart ==
  ASSUME NEW text \in Texts, Fits(text)
  PROVE  text \cap Within(toRt) = {}
<1>1. ASSUME NEW w \in Words PROVE ~(w \in text /\ w \in Within(toRt))
  BY DEF Fits, Loose, One
<1>2. QED
  BY <1>1 DEF Texts

LEMMA ReturnMoves ==
  ASSUME NEW text, Return(text), Fits(text), Apart(toRt),
         UNCHANGED <<toRt, slot, steer, settled>>
  PROVE  Gains(text)
<1>1. ASSUME NEW w \in Words PROVE Loose(w)' = Loose(w) + One(w \in text)
  BY DEF Return, Fits, Loose, One
<1>2. QED
  BY <1>1 DEF Gains

LEMMA EnqueueMoves ==
  ASSUME NEW text, Enqueue(text), Fits(text), Apart(toRt),
         UNCHANGED <<toRt, composer, parked, steer>>
  PROVE  Gains(text)
<1>1. ASSUME NEW w \in Words PROVE Loose(w)' = Loose(w) + One(w \in text)
  BY DEF Enqueue, Fits, Loose, One
<1>2. QED
  BY <1>1 DEF Gains

LEMMA SubmitMoves ==
  ASSUME Typed, Apart(toRt), NEW text \in Texts, Submit(text), Fits(text), UNCHANGED steer
  PROVE  Gains(text)
<1>1. UNCHANGED <<slot, settled>>
  BY DEF Submit
<1>2. CASE Return(text) /\ UNCHANGED toRt
  BY <1>1, <1>2, ReturnMoves
<1>3. CASE composer' = composer \cup text /\ UNCHANGED <<parked, toRt>>
  <2>1. ASSUME NEW w \in Words PROVE Loose(w)' = Loose(w) + One(w \in text)
    BY <1>1, <1>3 DEF Fits, Loose, One
  <2>2. QED
    BY <2>1, <1>3 DEF Gains
<1>4. CASE Send(text, "composer") /\ UNCHANGED <<composer, parked>>
  <2>1. "composer" \in Vias /\ toRt' = Append(toRt, Submission(text, "composer"))
    BY <1>4 DEF Send, Vias
  <2>2. Within(toRt') = Within(toRt) \cup text /\ Apart(toRt')
    BY <2>1, SendMoves, FitsApart
  <2>3. ASSUME NEW w \in Words PROVE Loose(w)' = Loose(w) + One(w \in text)
    BY <2>2, <1>1, <1>4 DEF Fits, Loose, One
  <2>4. QED
    BY <2>2, <2>3 DEF Gains
<1>5. QED
  BY <1>2, <1>3, <1>4 DEF Submit

LEMMA DrainMoves ==
  ASSUME Typed, Kept, NEW draft, NEW active, FinishTurnQueues(draft, active)
  PROVE  /\ steer'.text = {} /\ Apart(toRt')
         /\ slot' \cup Within(toRt') = slot \cup Within(toRt)
         /\ slot' \cap Within(toRt') = {} /\ slot \cap Within(toRt) = {}
<1>1. slot \cap Within(toRt) = {} /\ Apart(toRt) /\ slot \in Texts
  BY Disjoint DEF Kept, Typed, WordsTyped
<1>2. steer'.text = {}
  BY DEF FinishTurnQueues, NoSteer
<1>3. CASE slot' = {} /\ Send(slot, "queue")
  <2>1. "queue" \in Vias /\ toRt' = Append(toRt, Submission(slot, "queue"))
    BY <1>3 DEF Send, Vias
  <2>2. Within(toRt') = Within(toRt) \cup slot /\ Apart(toRt')
    BY <2>1, <1>1, SendMoves
  <2>3. QED
    BY <2>2, <1>1, <1>2, <1>3
<1>4. CASE UNCHANGED <<slot, toRt>>
  BY <1>1, <1>2, <1>4
<1>5. QED
  BY <1>3, <1>4 DEF FinishTurnQueues

-----------------------------------------------------------------------------
(* The user and the composer.                                               *)

LEMMA UserKeeps ==
  ASSUME Typed, Kept, NEW x \in Words, Type(x) \/ Generate(x) \/ StartGoal(x)
  PROVE  Kept'
<1>1. x \in Unused /\ typed' = typed \cup {x} /\ {x} \in Texts
  BY DEF Type, Generate, StartGoal, Texts
<1>2. Gives({})
  <2>1. UNCHANGED <<turns, inbox, jobs, toUi>>
    BY DEF Type, Generate, StartGoal, runtime
  <2>2. InJobs' = InJobs /\ Apart(toUi') /\ Within(toUi') = Within(toUi)
    BY <2>1 DEF InJobs, Kept
  <2>3. QED
    BY <2>1, <2>2, GivesNothing
<1>3. Apart(toRt)
  BY DEF Kept
<1>4. Fits({x})
  <2>1. ASSUME NEW w \in Words
        PROVE  Loose(w) + One(w \in {x}) <= 1
    <3>1. Loose(w) + Passing(w) = One(w \in typed) /\ Loose(w) \in Nat /\ Passing(w) \in Nat
      BY Counted DEF Kept
    <3>2. One(w \in typed) + One(w \in {x}) <= 1
      BY <1>1 DEF One, Unused
    <3>3. One(w \in typed) \in {0, 1} /\ One(w \in {x}) \in {0, 1}
      BY Counted
    <3>4. QED
      BY <3>1, <3>2, <3>3
  <2>2. QED
    BY <2>1 DEF Fits
<1>5. Gains({x})
  <2>1. CASE Type(x)
    <3>1. /\ composer = {} /\ composer' = {x} /\ UNCHANGED <<parked, slot, steer, settled, toRt>>
      BY <2>1 DEF Type, queues
    <3>2. ASSUME NEW w \in Words PROVE Loose(w)' = Loose(w) + One(w \in {x})
      BY <3>1 DEF Loose, One
    <3>3. QED
      BY <3>1, <3>2, <1>3 DEF Gains
  <2>2. CASE Generate(x)
    <3>1. /\ UNCHANGED steer
          /\ \/ Enqueue({x}) /\ UNCHANGED <<composer, parked, toRt>>
             \/ Submit({x})
      BY <2>2 DEF Generate
    <3>2. QED
      BY <3>1, <1>1, <1>3, <1>4, SubmitMoves, EnqueueMoves
  <2>3. CASE StartGoal(x)
    <3>1. /\ UNCHANGED <<composer, parked, slot, steer, settled>>
          /\ toRt' = Append(toRt, Submission({x}, "goal")) /\ "goal" \in Vias
      BY <2>3 DEF StartGoal, Vias, queues
    <3>0. {x} \cap Within(toRt) = {}
      BY <1>1, <1>4, FitsApart
    <3>2. Within(toRt') = Within(toRt) \cup {x} /\ Apart(toRt')
      BY <3>0, <3>1, <1>1, <1>3, SendMoves
    <3>3. ASSUME NEW w \in Words PROVE Loose(w)' = Loose(w) + One(w \in {x})
      <4>1. One(w \in Within(toRt')) = One(w \in Within(toRt)) + One(w \in {x})
        BY <3>0, <3>2 DEF One
      <4>2. QED
        BY <3>1, <4>1 DEF Loose, One
    <3>4. QED
      BY <3>2, <3>3 DEF Gains
  <2>4. QED
    BY <2>1, <2>2, <2>3
<1>6. QED
  BY <1>1, <1>2, <1>5, NewWord

LEMMA PressKeeps ==
  ASSUME Typed, Kept, NEW key, Press(key)
  PROVE  Kept'
<1>1. PICK m : inbox' = Append(inbox, m) /\ m.text = composer
  BY DEF Press
<1>2. /\ composer' = {} /\ UNCHANGED <<parked, slot, steer, settled, turns, toRt, toUi, jobs, typed>>
  BY DEF Press, queues, runtime
<1>3. inbox \in Seq(Inputs) /\ InboxApart /\ composer \cap InInbox = {}
  BY Disjoint DEF Typed, QueuesTyped, Kept
<1>4. InInbox' = InInbox \cup composer /\ InboxApart'
  BY <1>1, <1>3, InboxFacts
<1>5. TurnsApart' /\ InJobs' = InJobs
  BY <1>2 DEF TurnsApart, InJobs, Kept
<1>6. ASSUME NEW w \in Words
      PROVE  Loose(w)' + Passing(w)' = One(w \in typed')
  <2>1. Loose(w) + Passing(w) = One(w \in typed) /\ Loose(w) + Passing(w) <= 1
    BY KeptSplit
  <2>2. Loose(w) = Loose(w)' + One(w \in composer)
    BY <1>2 DEF Loose, One
  <2>3. Passing(w)' = Passing(w) + One(w \in composer)
    BY <1>2, <1>3, <1>4, <1>5 DEF Passing, One
  <2>4. Loose(w)' \in Nat /\ Passing(w) \in Nat /\ One(w \in composer) \in {0, 1}
    BY Counted
  <2>5. QED
    BY <1>2, <2>1, <2>2, <2>3, <2>4
<1>7. QED
  BY <1>2, <1>4, <1>5, <1>6 DEF Kept

LEMMA RecallKeeps ==
  ASSUME Typed, Kept, Recall
  PROVE  Kept'
<1>1. /\ composer = {} /\ composer' = slot /\ slot' = {}
      /\ UNCHANGED <<parked, inbox, steer, settled, turns, toRt, toUi, jobs, typed>>
  BY DEF Recall, runtime
<1>2. Gives({})
  <2>1. InJobs' = InJobs /\ Apart(toUi') /\ Within(toUi') = Within(toUi)
    BY <1>1 DEF InJobs, Kept
  <2>2. QED
    BY <1>1, <2>1, GivesNothing
<1>3. Gains({})
  <2>1. ASSUME NEW w \in Words PROVE Loose(w)' = Loose(w) + One(w \in {})
    BY <1>1 DEF Loose, One
  <2>2. QED
    BY <1>1, <2>1 DEF Gains, Kept
<1>4. QED
  BY <1>1, <1>2, <1>3, Exchange

LEMMA DeliverKeeps ==
  ASSUME Typed, Kept, Deliver
  PROVE  Kept'
<1>1. /\ inbox \in Seq(Inputs) /\ inbox # <<>> /\ inbox' = Tail(inbox)
      /\ UNCHANGED <<turns, toUi, jobs, typed>>
  BY DEF Deliver, Typed, QueuesTyped, runtime
<1>2. PICK m \in Inputs : m = Head(inbox)
  BY <1>1, TailFacts
<1>3. m.text \in Texts
  BY DEF Inputs
<1>4. InInbox = InInbox' \cup m.text /\ InboxApart' /\ m.text \cap InInbox' = {}
  BY <1>1, <1>2, InboxFacts DEF Kept
<1>5. Gives(m.text)
  <2>1. TurnsApart' /\ InJobs' = InJobs /\ Apart(toUi)'
    BY <1>1 DEF TurnsApart, InJobs, Kept
  <2>2. ASSUME NEW w \in Words PROVE Passing(w) = Passing(w)' + One(w \in m.text)
    BY <1>1, <1>4, <2>1 DEF Passing, One
  <2>3. QED
    BY <1>4, <2>1, <2>2 DEF Gives
<1>6. Fits(m.text)
  <2>1. ASSUME NEW w \in Words PROVE Loose(w) + One(w \in m.text) <= 1
    <3>1. Loose(w) + Passing(w) <= 1 /\ Passing(w) = Passing(w)' + One(w \in m.text)
      BY <1>5, KeptSplit DEF Gives
    <3>2. Loose(w) \in Nat /\ Passing(w)' \in Nat /\ One(w \in m.text) \in {0, 1}
      BY Counted
    <3>3. QED
      BY <3>1, <3>2
  <2>2. QED
    BY <2>1 DEF Fits
<1>7. Gains(m.text)
  <2>a. Apart(toRt)
    BY DEF Kept
  <2>1. CASE Submit(m.text) /\ UNCHANGED steer
    BY <2>1, <2>a, <1>3, <1>6, SubmitMoves
  <2>2. CASE Enqueue(m.text) /\ UNCHANGED <<steer, composer, parked, toRt>>
    BY <2>2, <2>a, <1>6, EnqueueMoves
  <2>3. CASE Return(m.text) /\ UNCHANGED <<queues, settled, toRt>>
    BY <2>3, <2>a, <1>6, ReturnMoves DEF queues
  <2>4. CASE /\ steer = NoSteer /\ steer' = [text |-> m.text, for |-> m.for]
             /\ UNCHANGED <<slot, composer, parked, settled, toRt>>
    <3>1. steer.text = {} /\ steer'.text = m.text
      BY <2>4 DEF NoSteer
    <3>2. ASSUME NEW w \in Words PROVE Loose(w)' = Loose(w) + One(w \in m.text)
      BY <2>4, <3>1 DEF Loose, One
    <3>3. QED
      BY <2>4, <2>a, <3>2 DEF Gains
  <2>5. \/ m.key = "submit" /\ Submit(m.text) /\ UNCHANGED steer
        \/ m.key = "queue" /\ OnQueue(m) /\ UNCHANGED steer
        \/ m.key = "steer" /\ OnSteer(m) /\ UNCHANGED <<toRt, sent, admission>>
    BY <1>2 DEF Deliver
  <2>6. QED
    BY <2>1, <2>2, <2>3, <2>4, <2>5 DEF OnQueue, OnSteer
<1>8. QED
  BY <1>1, <1>5, <1>7, Exchange

\* No text moves.
LEMMA StillKept ==
  ASSUME Typed, Kept,
         UNCHANGED <<composer, parked, inbox, slot, steer, settled, turns, typed>>,
         InJobs' = InJobs,
         UNCHANGED toRt \/ \E c : (Put(c) \/ Taken(c)) /\ c.text = {},
         UNCHANGED toUi \/ \E m : (Told(m) \/ Heard(m)) /\ Held(m) = {}
  PROVE  Kept'
<1>1. Within(toRt') = Within(toRt) /\ Apart(toRt')
  BY SameCalls DEF Typed, QueuesTyped, Kept
<1>2. Within(toUi') = Within(toUi) /\ Apart(toUi')
  BY SameNewsWords DEF Typed, QueuesTyped, Kept
<1>3. Gains({})
  BY <1>1, GainsNothing
<1>4. Gives({})
  BY <1>2, GivesNothing
<1>5. QED
  BY <1>3, <1>4, Exchange

LEMMA WorkersKeep ==
  ASSUME Typed, Kept,
         \/ \E i : Restore(i) \/ \E do : Operate(do)
         \/ CallRestore \/ CallOperation \/ GiveUpClear \/ TimeOut
  PROVE  Kept'
<1>1. /\ UNCHANGED <<composer, parked, inbox, slot, steer, settled, turns, typed, toUi, jobs>>
  BY DEF Restore, Operate, CallRestore, CallOperation, GiveUpClear, TimeOut, queues, runtime
<1>2. UNCHANGED toRt \/ \E c : Put(c) /\ c.text = {}
  <2>0. toRt \in Seq(Calls) /\ FlagsTyped
    BY DEF Typed, QueuesTyped
  <2>1. CASE CallRestore
    <3>1. PICK c : c = [do |-> "restore", at |-> rewind.at, text |-> {}]
      OBVIOUS
    <3>2. c \in Calls /\ c.text = {}
      BY <3>1, <2>0 DEF Calls, FlagsTyped
    <3>3. QED
      BY <2>0, <2>1, <3>1, <3>2, PutIs DEF CallRestore
  <2>2. CASE CallOperation
    <3>1. PICK c : c = [do |-> ctx.do, id |-> ctx.id, text |-> {}]
      OBVIOUS
    <3>2. ctx.do \in {"clear", "compact"} /\ ctx.id \in Nat
      BY <2>0, <2>2 DEF FlagsTyped, CallOperation
    <3>3. c \in Calls /\ c.text = {}
      BY <3>1, <3>2 DEF Calls
    <3>4. QED
      BY <2>0, <2>2, <3>1, <3>3, PutIs DEF CallOperation
  <2>3. CASE TimeOut
    <3>1. PICK c : c = [do |-> "cancel", id |-> ctx.id, text |-> {}]
      OBVIOUS
    <3>2. c \in Calls /\ c.text = {}
      BY <3>1, <2>0 DEF Calls, FlagsTyped
    <3>3. QED
      BY <2>0, <2>3, <3>1, <3>2, PutIs DEF TimeOut
  <2>4. CASE (\E i : Restore(i) \/ \E do : Operate(do)) \/ GiveUpClear
    BY <2>4 DEF Restore, Operate, GiveUpClear
  <2>5. QED
    BY <2>1, <2>2, <2>3, <2>4
<1>3. InJobs' = InJobs
  BY <1>1 DEF InJobs
<1>4. QED
  BY <1>1, <1>2, <1>3, StillKept

-----------------------------------------------------------------------------
(* What the interface hears.                                                *)

\* A text leaves the messages.
LEMMA HeardText ==
  ASSUME Typed, Kept, NEW m, Heard(m), Held(m) = m.text, UNCHANGED <<inbox, jobs>>
  PROVE  /\ Apart(toUi)' /\ InboxApart' /\ InInbox' = InInbox /\ InJobs' = InJobs
         /\ Within(toUi) = Within(toUi') \cup m.text /\ m.text \cap Within(toUi') = {}
         /\ m.text \in Texts /\ m.text \cap WordsOf(turns) = {}
<1>1. toUi \in Seq(Messages) /\ toUi # <<>> /\ toUi' = Tail(toUi) /\ m = Head(toUi)
  BY DEF Heard, Typed, QueuesTyped
<1>2. /\ Within(toUi) = Within(toUi') \cup m.text /\ Apart(toUi)'
      /\ m.text \cap Within(toUi') = {}
  <2>1. Within(toUi) = Within(Tail(toUi)) \cup Held(Head(toUi))
    BY <1>1, WithinTail
  <2>2. Apart(Tail(toUi)) /\ Held(Head(toUi)) \cap Within(Tail(toUi)) = {}
    BY <1>1, WithinTail DEF Kept
  <2>3. QED
    BY <1>1, <2>1, <2>2
<1>3. InboxApart' /\ InInbox' = InInbox /\ InJobs' = InJobs
  BY InboxFacts DEF InJobs, Kept, Typed, QueuesTyped
<1>4. m.text \in Texts
  BY MessageIs DEF Heard
<1>5. m.text \cap WordsOf(turns) = {}
  BY <1>2, <1>4, Disjoint
<1>6. QED
  BY <1>2, <1>3, <1>4, <1>5

\* The texts of a drain: the queue, the steer and the calls.
LEMMA DrainGains ==
  ASSUME Typed, Kept, NEW draft, NEW active, FinishTurnQueues(draft, active),
         UNCHANGED <<composer, parked>>, settled' = settled \cup steer.text
  PROVE  Gains({})
<1>1. /\ steer'.text = {} /\ Apart(toRt')
      /\ slot' \cup Within(toRt') = slot \cup Within(toRt)
      /\ slot' \cap Within(toRt') = {} /\ slot \cap Within(toRt) = {}
  BY DrainMoves
<1>2. ASSUME NEW w \in Words PROVE Loose(w)' = Loose(w) + One(w \in {})
  <2>1. One(w \in slot') + One(w \in Within(toRt')) = One(w \in slot) + One(w \in Within(toRt))
    BY <1>1 DEF One
  <2>2. Loose(w) <= 1
    <3>1. Loose(w) + Passing(w) <= 1 /\ Loose(w) \in Nat /\ Passing(w) \in Nat
      BY KeptSplit, Counted
    <3>2. QED
      BY <3>1
  <2>3. One(w \in settled') + One(w \in steer'.text) = One(w \in settled) + One(w \in steer.text)
    BY <1>1, <2>2 DEF Loose, One
  <2>4. QED
    BY <2>1, <2>3 DEF Loose, One
<1>3. QED
  BY <1>1, <1>2 DEF Gains

LEMMA HearCompleteKept ==
  ASSUME Typed, Kept, HearComplete
  PROVE  Kept'
<1>1. PICK m \in Messages : Heard(m) /\ m.do = "complete" /\ m = Head(toUi)
  BY HeardIs DEF HearComplete
<1>2. /\ turns' = Append(turns, m.text)
      /\ UNCHANGED <<composer, parked, inbox, jobs, typed>>
  BY <1>1 DEF HearComplete, runtime
<1>3. Held(m) = m.text
  BY <1>1, HeldIs
<1>4. /\ Apart(toUi)' /\ InboxApart' /\ InInbox' = InInbox /\ InJobs' = InJobs
      /\ Within(toUi) = Within(toUi') \cup m.text /\ m.text \cap Within(toUi') = {}
      /\ m.text \in Texts /\ m.text \cap WordsOf(turns) = {}
  BY <1>1, <1>2, <1>3, HeardText
<1>5. WordsOf(turns') = WordsOf(turns) \cup m.text /\ TurnsApart'
  BY <1>2, <1>4, TurnsFacts DEF Kept, Typed, QueuesTyped
<1>6. Gives({})
  <2>1. ASSUME NEW w \in Words PROVE Passing(w) = Passing(w)' + One(w \in {})
    <3>1. One(w \in WordsOf(turns')) = One(w \in WordsOf(turns)) + One(w \in m.text)
      BY <1>4, <1>5 DEF One
    <3>2. One(w \in Within(toUi)) = One(w \in Within(toUi')) + One(w \in m.text)
      BY <1>4 DEF One
    <3>3. One(w \in m.text) \in {0, 1} /\ One(w \in {}) = 0
      BY DEF One
    <3>4. QED
      BY <3>1, <3>2, <3>3, <1>4 DEF Passing, One
  <2>2. QED
    BY <1>4, <1>5, <2>1 DEF Gives
<1>7. Gains({})
  <2>1. CASE FinishTurnQueues(composer, FALSE) /\ settled' = settled \cup steer.text
    BY <2>1, <1>2, DrainGains
  <2>2. CASE UNCHANGED <<queues, admission, toRt, sent, settled>>
    BY <2>2, <1>2, GainsNothing DEF queues, Kept
  <2>3. QED
    BY <2>1, <2>2 DEF HearComplete
<1>8. QED
  BY <1>2, <1>6, <1>7, Exchange

LEMMA HearOtherKept ==
  ASSUME Typed, Kept, HearOther
  PROVE  Kept'
<1>1. /\ FinishTurnQueues(composer, running # 0) /\ settled' = settled \cup steer.text
      /\ UNCHANGED <<composer, parked, inbox, turns, toUi, jobs, typed>>
  BY DEF HearOther, runtime
<1>2. Gains({})
  BY <1>1, DrainGains
<1>3. Gives({})
  <2>1. InJobs' = InJobs /\ Apart(toUi') /\ Within(toUi') = Within(toUi)
    BY <1>1 DEF InJobs, Kept
  <2>2. QED
    BY <1>1, <2>1, GivesNothing
<1>4. QED
  BY <1>1, <1>2, <1>3, Exchange

\* A prompt that was turned away goes back to one place.
LEMMA HearReturnKept ==
  ASSUME Typed, Submissions, Kept, HearReturn
  PROVE  Kept'
<1>1. PICK m \in Messages : Heard(m) /\ m.do = "returned" /\ m = Head(toUi)
  BY HeardIs DEF HearReturn
<1>2. UNCHANGED <<inbox, steer, turns, toRt, jobs, typed>>
  BY DEF HearReturn, runtime
<1>3. /\ m.admitted => ~TurnedAway(m) \/ m.via = "goal"
      /\ ~m.admitted => TurnedAway(m) \/ m.via = "goal"
  BY <1>1, HearReturnKeeps
<1>4. IF m.via = "goal"
        THEN /\ settled' = IF m.admitted THEN settled ELSE settled \cup m.text
             /\ UNCHANGED <<composer, parked, slot>>
      ELSE IF ~TurnedAway(m) THEN UNCHANGED <<composer, parked, slot, settled>>
      ELSE IF m.via = "queue" THEN ReturnQueued(m.text) /\ UNCHANGED parked
      ELSE Return(m.text) /\ UNCHANGED <<slot, settled>>
  BY <1>1 DEF HearReturn
<1>5. CASE m.admitted
  <2>1. UNCHANGED <<composer, parked, slot, settled>>
    BY <1>3, <1>4, <1>5
  <2>2. Held(m) = {}
    BY <1>1, <1>5, HeldIs DEF Kind
  <2>3. InJobs' = InJobs
    BY <1>2 DEF InJobs
  <2>4. QED
    BY <1>1, <1>2, <2>1, <2>2, <2>3, StillKept
<1>6. CASE ~m.admitted
  <2>1. Held(m) = m.text
    BY <1>1, <1>6, HeldIs DEF Kind
  <2>2. /\ Apart(toUi)' /\ InboxApart' /\ InInbox' = InInbox /\ InJobs' = InJobs
        /\ Within(toUi) = Within(toUi') \cup m.text /\ m.text \cap Within(toUi') = {}
        /\ m.text \in Texts
    BY <1>1, <1>2, <2>1, HeardText
  <2>3. Gives(m.text)
    <3>1. ASSUME NEW w \in Words PROVE Passing(w) = Passing(w)' + One(w \in m.text)
      <4>1. One(w \in Within(toUi)) = One(w \in Within(toUi')) + One(w \in m.text)
        BY <2>2 DEF One
      <4>2. QED
        BY <4>1, <2>2, <1>2 DEF Passing, One
    <3>2. QED
      BY <1>2, <2>2, <3>1 DEF Gives, TurnsApart, Kept
  <2>4. Fits(m.text)
    <3>1. ASSUME NEW w \in Words PROVE Loose(w) + One(w \in m.text) <= 1
      <4>1. Loose(w) + Passing(w) <= 1 /\ Passing(w) = Passing(w)' + One(w \in m.text)
        BY <2>3, KeptSplit DEF Gives
      <4>2. Loose(w) \in Nat /\ Passing(w)' \in Nat /\ One(w \in m.text) \in {0, 1}
        BY Counted
      <4>3. QED
        BY <4>1, <4>2
    <3>2. QED
      BY <3>1 DEF Fits
  <2>5. Apart(toRt)
    BY DEF Kept
  <2>6. CASE settled' = settled \cup m.text /\ UNCHANGED <<composer, parked, slot>>
    <3>1. ASSUME NEW w \in Words PROVE Loose(w)' = Loose(w) + One(w \in m.text)
      BY <2>6, <2>4, <1>2 DEF Fits, Loose, One
    <3>2. QED
      BY <3>1, <2>3, <2>5, <1>2, Exchange DEF Gains
  <2>7. CASE ReturnQueued(m.text) /\ UNCHANGED parked
    <3>1. ASSUME NEW w \in Words PROVE Loose(w)' = Loose(w) + One(w \in m.text)
      BY <2>7, <2>4, <1>2 DEF ReturnQueued, Fits, Loose, One
    <3>2. QED
      BY <3>1, <2>3, <2>5, <1>2, Exchange DEF Gains
  <2>8. CASE Return(m.text) /\ UNCHANGED <<slot, settled>>
    <3>1. Gains(m.text)
      BY <2>8, <2>4, <2>5, <1>2, ReturnMoves
    <3>2. QED
      BY <3>1, <2>3, <1>2, Exchange
  <2>9. QED
    BY <1>3, <1>4, <1>6, <2>6, <2>7, <2>8
<1>7. QED
  BY <1>5, <1>6

LEMMA HearStartKept ==
  ASSUME Typed, Kept, HearStart
  PROVE  Kept'
<1>1. PICK m \in Messages : Heard(m) /\ m.do = "start"
  BY HeardIs DEF HearStart
<1>2. Held(m) = {}
  BY <1>1, MessageIs, HeldIs
<1>3. UNCHANGED <<composer, parked, inbox, slot, steer, settled, turns, typed, toRt, jobs>>
  BY DEF HearStart, queues, runtime
<1>4. InJobs' = InJobs
  BY <1>3 DEF InJobs
<1>5. QED
  BY <1>1, <1>2, <1>3, <1>4, StillKept

LEMMA HearOperatedKept ==
  ASSUME Typed, Kept, HearOperated
  PROVE  Kept'
<1>1. PICK m \in Messages : Heard(m) /\ m.do = "operated"
  BY HeardIs DEF HearOperated
<1>2. Held(m) = {}
  BY <1>1, MessageIs, HeldIs
<1>3. UNCHANGED <<composer, parked, inbox, slot, steer, typed, toRt, jobs>>
  BY DEF HearOperated, queues, runtime
<1>4. InJobs' = InJobs
  BY <1>3 DEF InJobs
<1>5. CASE UNCHANGED <<turns, settled>>
  BY <1>1, <1>2, <1>3, <1>4, <1>5, StillKept
<1>6. CASE turns' = <<>> /\ settled' = settled \cup WordsOf(turns)
  <2>1. WordsOf(turns') = {} /\ TurnsApart'
    BY <1>6, TurnsFacts DEF Kept, Typed, QueuesTyped
  <2>2. Within(toUi') = Within(toUi) /\ Apart(toUi')
    BY <1>1, <1>2, SameNewsWords DEF Kept, Typed, QueuesTyped
  <2>3. InInbox' = InInbox /\ InboxApart'
    BY <1>3, InboxFacts DEF Kept, Typed, QueuesTyped
  <2>4. Gives(WordsOf(turns))
    <3>1. ASSUME NEW w \in Words PROVE Passing(w) = Passing(w)' + One(w \in WordsOf(turns))
      BY <1>4, <2>1, <2>2, <2>3 DEF Passing, One
    <3>2. QED
      BY <2>1, <2>2, <2>3, <3>1 DEF Gives
  <2>5. Gains(WordsOf(turns))
    <3>1. ASSUME NEW w \in Words PROVE Loose(w)' = Loose(w) + One(w \in WordsOf(turns))
      <4>1. Loose(w) + Passing(w) <= 1
        BY KeptSplit
      <4>2. ~(w \in settled /\ w \in WordsOf(turns))
        BY Disjoint
      <4>3. One(w \in settled') = One(w \in settled) + One(w \in WordsOf(turns))
        BY <1>6, <4>2 DEF One
      <4>4. QED
        BY <1>3, <4>3, Counted DEF Loose
    <3>2. QED
      BY <1>3, <3>1 DEF Gains, Kept
  <2>6. QED
    BY <1>3, <2>4, <2>5, Exchange
<1>7. QED
  BY <1>5, <1>6 DEF HearOperated

\* The restored prompt takes the composer, the turns after it are gone.
LEMMA HearRestoredKept ==
  ASSUME Typed, RestoreAt, Kept, HearRestored
  PROVE  Kept'
<1>1. PICK m \in Messages : Heard(m) /\ m.do = "restored" /\ m = Head(toUi)
  BY HeardIs DEF HearRestored
<1>2. Held(m) = {} /\ Kind(m) = "restored"
  BY <1>1, MessageIs, HeldIs
<1>3. UNCHANGED <<inbox, typed, jobs>>
  BY DEF HearRestored, runtime
<1>4. Within(toUi') = Within(toUi) /\ Apart(toUi') /\ InInbox' = InInbox /\ InboxApart' /\ InJobs' = InJobs
  <2>1. Within(toUi') = Within(toUi) /\ Apart(toUi')
    BY <1>1, <1>2, SameNewsWords DEF Kept, Typed, QueuesTyped
  <2>2. InInbox' = InInbox /\ InboxApart'
    BY <1>3, InboxFacts DEF Kept, Typed, QueuesTyped
  <2>3. QED
    BY <1>3, <2>1, <2>2 DEF InJobs
<1>5. rewind.at \in 1 .. Len(turns)
  <2>1. "restored" \in Kinds(toUi)
    BY <1>1, <1>2 DEF Heard, Removed
  <2>2. QED
    BY <2>1 DEF RestoreAt
<1>6. PICK draft, gone :
        /\ draft = IF m.conversation THEN turns[rewind.at] ELSE composer
        /\ gone = IF m.conversation THEN WordsOf(SubSeq(turns, rewind.at + 1, Len(turns))) ELSE {}
  OBVIOUS
<1>7. /\ composer' = draft
      /\ parked' = IF m.conversation THEN parked \cup composer ELSE parked
      /\ turns' = IF m.conversation THEN SubSeq(turns, 1, rewind.at - 1) ELSE turns
      /\ \/ FinishTurnQueues(draft, running # 0) /\ settled' = settled \cup gone \cup steer.text
         \/ settled' = settled \cup gone /\ UNCHANGED <<queues, toRt>>
  BY <1>1, <1>6 DEF HearRestored
<1>8. PICK out : out = IF m.conversation THEN turns[rewind.at] \cup gone ELSE {}
  OBVIOUS
<1>9. /\ TurnsApart' /\ WordsOf(turns) = WordsOf(turns') \cup out /\ WordsOf(turns') \cap out = {}
      /\ m.conversation => turns[rewind.at] \cap gone = {}
  <2>1. CASE m.conversation
    <3>1. turns' = SubSeq(turns, 1, rewind.at - 1)
      BY <1>7, <2>1
    <3>2. /\ WordsOf(turns) = WordsOf(turns') \cup turns[rewind.at] \cup gone
          /\ WordsOf(turns') \cap turns[rewind.at] = {} /\ WordsOf(turns') \cap gone = {}
          /\ gone \cap turns[rewind.at] = {} /\ TurnsApart'
      BY <3>1, <2>1, <1>5, <1>6, TurnsFacts DEF Kept, Typed, QueuesTyped
    <3>3. QED
      BY <3>2, <2>1, <1>8
  <2>2. CASE ~m.conversation
    BY <2>2, <1>7, <1>8 DEF TurnsApart, Kept
  <2>3. QED
    BY <2>1, <2>2
<1>10. Gives(out)
  <2>1. ASSUME NEW w \in Words PROVE Passing(w) = Passing(w)' + One(w \in out)
    <3>1. One(w \in WordsOf(turns)) = One(w \in WordsOf(turns')) + One(w \in out)
      BY <1>9 DEF One
    <3>2. QED
      BY <3>1, <1>4 DEF Passing, One
  <2>2. QED
    BY <1>4, <1>9, <2>1 DEF Gives
<1>11. \A w \in Words : Loose(w) + One(w \in out) <= 1
  <2>1. TAKE w \in Words
  <2>2. Loose(w) + Passing(w) <= 1 /\ Passing(w) = Passing(w)' + One(w \in out)
    BY <1>10, KeptSplit DEF Gives
  <2>3. Loose(w) \in Nat /\ Passing(w)' \in Nat /\ One(w \in out) \in {0, 1}
    BY Counted
  <2>4. QED
    BY <2>2, <2>3
\* The draft, the history and the restored prompt.
<1>12. ASSUME NEW w \in Words
       PROVE  One(w \in composer') + One(w \in parked') + One(w \in gone)
                = One(w \in composer) + One(w \in parked) + One(w \in out)
  <2>1. CASE m.conversation
    <3>1. composer' = turns[rewind.at] /\ parked' = parked \cup composer
      BY <2>1, <1>6, <1>7
    <3>2. One(w \in out) = One(w \in turns[rewind.at]) + One(w \in gone)
      BY <2>1, <1>8, <1>9 DEF One
    <3>3. Loose(w) + One(w \in out) <= 1
      BY <1>11
    <3>4. One(w \in parked') = One(w \in parked) + One(w \in composer)
      BY <3>1, <3>3 DEF Loose, One
    <3>5. QED
      BY <3>1, <3>2, <3>4, Counted
  <2>2. CASE ~m.conversation
    BY <2>2, <1>6, <1>7, <1>8 DEF One
  <2>3. QED
    BY <2>1, <2>2
<1>13. ASSUME NEW w \in Words
       PROVE  w \in gone => w \in out
  BY <1>6, <1>8
<1>14. CASE FinishTurnQueues(draft, running # 0) /\ settled' = settled \cup gone \cup steer.text
  <2>1. /\ steer'.text = {} /\ Apart(toRt')
        /\ slot' \cup Within(toRt') = slot \cup Within(toRt)
        /\ slot' \cap Within(toRt') = {} /\ slot \cap Within(toRt) = {}
    BY <1>14, DrainMoves
  <2>2. ASSUME NEW w \in Words PROVE Loose(w)' = Loose(w) + One(w \in out)
    <3>1. One(w \in slot') + One(w \in Within(toRt')) = One(w \in slot) + One(w \in Within(toRt))
      BY <2>1 DEF One
    <3>2. Loose(w) + One(w \in out) <= 1 /\ (w \in gone => w \in out)
      BY <1>11, <1>13
    <3>3. One(w \in settled') + One(w \in steer'.text)
            = One(w \in settled) + One(w \in steer.text) + One(w \in gone)
      BY <1>14, <2>1, <3>2 DEF Loose, One
    <3>4. One(w \in composer') + One(w \in parked') + One(w \in gone)
                = One(w \in composer) + One(w \in parked) + One(w \in out)
      BY <1>12
    <3>5. QED
      BY <3>1, <3>3, <3>4, Counted DEF Loose
  <2>3. QED
    BY <1>3, <1>10, <2>1, <2>2, Exchange DEF Gains
<1>15. CASE settled' = settled \cup gone /\ UNCHANGED <<queues, toRt>>
  <2>1. ASSUME NEW w \in Words PROVE Loose(w)' = Loose(w) + One(w \in out)
    <3>2. Loose(w) + One(w \in out) <= 1 /\ (w \in gone => w \in out)
      BY <1>11, <1>13
    <3>3. One(w \in settled') = One(w \in settled) + One(w \in gone)
      BY <1>15, <3>2 DEF Loose, One
    <3>4. One(w \in composer') + One(w \in parked') + One(w \in gone)
                = One(w \in composer) + One(w \in parked) + One(w \in out)
      BY <1>12
    <3>5. slot' = slot /\ steer' = steer /\ toRt' = toRt
      BY <1>15 DEF queues
    <3>6. QED
      BY <3>3, <3>4, <3>5, Counted DEF Loose
  <2>2. Apart(toRt')
    BY <1>15 DEF Kept
  <2>3. QED
    BY <1>3, <1>10, <2>1, <2>2, Exchange DEF Gains
<1>16. QED
  BY <1>7, <1>14, <1>15

-----------------------------------------------------------------------------
(* The runtime.                                                             *)

LEMMA TakeKept ==
  ASSUME Typed, Submissions, Kept, Take
  PROVE  Kept'
<1>t. toRt \in Seq(Calls) /\ toUi \in Seq(Messages) /\ toRt # <<>> /\ toRt' = Tail(toRt)
  BY DEF Typed, QueuesTyped, Take
<1>1. PICK c \in Calls : c = Head(toRt) /\ Taken(c)
  BY <1>t, TakenIs DEF Taken
<1>2. UNCHANGED <<composer, parked, inbox, slot, steer, settled, turns, typed>>
  BY DEF Take, queues
<1>3. CASE c.do = "submit"
  <2>1. PICK j : /\ j.text = c.text /\ jobs' = jobs \cup {j} /\ UNCHANGED toUi
    BY <1>1, <1>3 DEF Take
  <2>2. jobs = {}
    <3>1. c \in Range(toRt) /\ Kind(c) = "submit"
      BY <1>1, <1>3, CallIs DEF Taken, Removed
    <3>2. At(TRUE, {}, "none")
      BY <3>1, KindIn, InCall DEF Submissions
    <3>3. QED
      BY <3>2 DEF At
  <2>3. InJobs = {} /\ InJobs' = c.text
    BY <2>1, <2>2 DEF InJobs
  <2>4. Held(c) = c.text
    BY <1>3, HeldIs
  <2>5. Within(toRt) = Within(toRt') \cup c.text
    BY <1>t, <1>1, <2>4, WithinTail
  <2>6. Apart(toRt') /\ c.text \cap Within(toRt') = {}
    BY <1>t, <1>1, <2>4, WithinTail DEF Kept
  <2>7. TurnsApart' /\ InboxApart' /\ InInbox' = InInbox
    BY <1>2 DEF TurnsApart, InboxApart, InInbox, Kept
  <2>8. ASSUME NEW w \in Words PROVE Loose(w)' + Passing(w)' = One(w \in typed')
    <3>1. Loose(w) = Loose(w)' + One(w \in c.text)
      BY <1>2, <2>5, <2>6 DEF Loose, One
    <3>2. Passing(w)' = Passing(w) + One(w \in c.text)
      BY <1>2, <2>1, <2>3, <2>7 DEF Passing, One
    <3>3. Loose(w) + Passing(w) = One(w \in typed)
      BY DEF Kept
    <3>4. Loose(w)' \in Nat /\ Passing(w) \in Nat /\ One(w \in c.text) \in {0, 1}
      BY Counted
    <3>5. QED
      BY <1>2, <3>1, <3>2, <3>3, <3>4
  <2>9. QED
    BY <2>1, <2>6, <2>7, <2>8 DEF Kept
<1>4. CASE c.do # "submit"
  <2>1. c.text = {}
    BY <1>4, CallIs
  <2>2. UNCHANGED jobs
    BY <1>1, <1>4 DEF Take
  <2>3. UNCHANGED toUi \/ \E m : Told(m) /\ Held(m) = {}
    <3>1. CASE UNCHANGED toUi
      BY <3>1
    <3>2. CASE toUi' = Append(toUi, [do |-> "restored", whole |-> FALSE, conversation |-> FALSE, text |-> {}])
      <4>1. PICK m : m = [do |-> "restored", whole |-> FALSE, conversation |-> FALSE, text |-> {}]
        OBVIOUS
      <4>2. m \in Messages /\ m.text = {}
        BY <4>1 DEF Messages
      <4>3. Told(m) /\ Held(m) = {}
        BY <3>2, <4>1, <4>2, <1>t, ToldIs, HeldIs
      <4>4. QED
        BY <4>3
    <3>3. QED
      BY <1>1, <1>4, <3>1, <3>2 DEF Take
  <2>4. InJobs' = InJobs
    BY <2>2 DEF InJobs
  <2>5. QED
    BY <1>1, <1>2, <2>1, <2>3, <2>4, StillKept
<1>5. QED
  BY <1>3, <1>4

LEMMA FinishKept ==
  ASSUME Typed, Kept, NEW o \in ops, Finish(o)
  PROVE  Kept'
<1>1. PICK m \in Messages : Told(m) /\ m.do \in {"restored", "operated"}
  BY FinishEffect DEF OperationEnds, FinishesRestore, FinishesOperation
<1>2. Held(m) = {}
  BY <1>1, MessageIs, HeldIs
<1>3. UNCHANGED <<composer, parked, inbox, slot, steer, settled, turns, typed, toRt, jobs>>
  BY DEF Finish, queues
<1>4. InJobs' = InJobs
  BY <1>3 DEF InJobs
<1>5. QED
  BY <1>1, <1>2, <1>3, <1>4, StillKept

\* A text leaves the job for a message.
LEMMA JobTold ==
  ASSUME Typed, Kept, NEW j, jobs = {j}, jobs' = {}, NEW m, Told(m), Held(m) = j.text,
         j.text \in Texts,
         UNCHANGED <<composer, parked, inbox, slot, steer, settled, turns, typed, toRt>>
  PROVE  Kept'
<1>1. InJobs = j.text /\ InJobs' = {}
  BY DEF InJobs
<1>2. toUi \in Seq(Messages) /\ toUi' = Append(toUi, m)
  BY DEF Told, Typed, QueuesTyped
<1>3. j.text \cap Within(toUi) = {}
  BY <1>1, Disjoint
<1>4. Within(toUi') = Within(toUi) \cup j.text /\ Apart(toUi')
  BY <1>2, <1>3, WithinAppend DEF Kept
<1>5. TurnsApart' /\ InboxApart' /\ InInbox' = InInbox
  BY DEF TurnsApart, InboxApart, InInbox, Kept
<1>6. ASSUME NEW w \in Words PROVE Passing(w) = Passing(w)' + One(w \in {})
  <2>1. /\ One(w \in Within(toUi')) = One(w \in Within(toUi)) + One(w \in j.text)
        /\ One(w \in InJobs) = One(w \in j.text) /\ One(w \in InJobs') = 0 /\ One(w \in {}) = 0
    BY <1>1, <1>3, <1>4 DEF One
  <2>2. QED
    BY <2>1, <1>5, Counted DEF Passing
<1>7. Gives({})
  BY <1>4, <1>5, <1>6 DEF Gives
<1>8. Gains({})
  BY GainsNothing DEF Kept
<1>9. QED
  BY <1>7, <1>8, Exchange

LEMMA TurnStepKept ==
  ASSUME Typed, Submissions, Kept, TurnStep
  PROVE  Kept'
<1>1. PICK j \in jobs : Preflight(j) \/ Begin(j) \/ ApplySteer(j) \/ Execute(j) \/ CloseOut(j)
  BY DEF TurnStep
<1>2. UNCHANGED <<composer, parked, inbox, slot, turns, typed, toRt>>
  BY DEF TurnStep
<1>3. j \in Jobs /\ jobs = {j} /\ toUi \in Seq(Messages) /\ j.text \in Texts
  BY InJob DEF Typed, RuntimeTyped, Submissions, QueuesTyped, Jobs
<1>m. ASSUME NEW k, jobs' = {k}, k.text = j.text, UNCHANGED <<steer, settled>>,
             UNCHANGED toUi \/ \E m : Told(m) /\ Held(m) = {}
      PROVE  Kept'
  <2>1. InJobs' = InJobs
    BY <1>m, <1>3 DEF InJobs
  <2>2. QED
    BY <1>m, <1>2, <2>1, StillKept
<1>r. ASSUME NEW why, Refuse(j, why), UNCHANGED <<steer, settled>>, j.stage # "closing",
             why \in {"recovery", "restoring", "executing", "checkpoint"}
      PROVE  Kept'
  <2>1. PICK m : m = Returned(j, FALSE, why)
    OBVIOUS
  <2>2. why \in {"recovery", "restoring", "executing", "checkpoint", "turn"}
    BY <1>r
  <2>3. m \in Messages /\ m.text = j.text /\ Kind(m) = "refused"
    BY <1>3, <1>r, <2>1, <2>2, Refusal
  <2>4. jobs' = {} /\ Told(m) /\ Held(m) = j.text
    <3>1. jobs' = {} /\ toUi' = Append(toUi, m)
      BY <1>3, <1>r, <2>1 DEF Refuse
    <3>2. Told(m)
      BY <1>3, <2>3, <3>1, ToldIs
    <3>3. Held(m) = j.text
      BY <2>3, HeldIs
    <3>4. QED
      BY <3>1, <3>2, <3>3
  <2>5. QED
    BY <1>2, <1>3, <1>r, <2>4, JobTold
<1>4. CASE Preflight(j)
  <2>1. j.stage # "closing" /\ UNCHANGED <<steer, settled>>
    BY <1>4 DEF Preflight
  <2>2. CASE \E why \in {"recovery", "restoring", "executing"} : Refuse(j, why)
    BY <2>1, <2>2, <1>r
  <2>3. CASE Move(j, "begin") /\ UNCHANGED toUi
    <3>1. PICK k : k = [j EXCEPT !.stage = "begin"]
      OBVIOUS
    <3>2. k.text = j.text /\ jobs' = {k}
      BY <1>3, <2>3, <3>1, Moved DEF Move
    <3>3. QED
      BY <2>1, <2>3, <3>2, <1>m
  <2>4. QED
    BY <2>2, <2>3, <1>4 DEF Preflight
<1>5. CASE Begin(j)
  <2>1. j.stage # "closing" /\ UNCHANGED <<steer, settled>>
    BY <1>5 DEF Begin
  <2>2. CASE Refuse(j, "checkpoint")
    BY <2>1, <2>2, <1>r
  <2>3. CASE Move(j, "turn") /\ toUi' = Append(toUi, [do |-> "start", id |-> j.id, text |-> {}])
    <3>1. PICK k : k = [j EXCEPT !.stage = "turn"]
      OBVIOUS
    <3>2. k.text = j.text /\ jobs' = {k}
      BY <1>3, <2>3, <3>1, Moved DEF Move
    <3>3. PICK m : m = [do |-> "start", id |-> j.id, text |-> {}]
      OBVIOUS
    <3>4. m \in Messages /\ m.text = {}
      <4>1. j.id \in Nat
        BY <1>3 DEF Jobs
      <4>2. QED
        BY <4>1, <3>3 DEF Messages
    <3>5. Told(m) /\ Held(m) = {}
      BY <1>3, <2>3, <3>3, <3>4, ToldIs, HeldIs
    <3>6. QED
      BY <2>1, <3>2, <3>5, <1>m
  <2>4. QED
    BY <2>2, <2>3, <1>5 DEF Begin
<1>6. CASE ApplySteer(j)
  <2>1. /\ steer'.text = {} /\ settled' = settled \cup steer.text /\ UNCHANGED <<jobs, toUi>>
    BY <1>6 DEF ApplySteer, NoSteer
  <2>2. Gives({})
    <3>1. InJobs' = InJobs /\ Apart(toUi') /\ Within(toUi') = Within(toUi)
      BY <2>1 DEF InJobs, Kept
    <3>2. QED
      BY <1>2, <3>1, GivesNothing
  <2>3. Gains({})
    <3>1. ASSUME NEW w \in Words PROVE Loose(w)' = Loose(w) + One(w \in {})
      <4>1. Loose(w) + Passing(w) <= 1
        BY KeptSplit
      <4>2. ~(w \in settled /\ w \in steer.text)
        BY <4>1 DEF Loose, Passing, One
      <4>3. One(w \in settled') + One(w \in steer'.text) = One(w \in settled) + One(w \in steer.text)
            /\ One(w \in {}) = 0
        BY <2>1, <4>2 DEF One
      <4>4. QED
        BY <1>2, <4>3, Counted DEF Loose
    <3>2. QED
      BY <1>2, <3>1 DEF Gains, Kept
  <2>4. QED
    BY <1>2, <2>2, <2>3, Exchange
<1>7. CASE Execute(j)
  <2>1. PICK ok \in BOOLEAN : jobs' = (jobs \ {j}) \cup {[j EXCEPT !.stage = "closing", !.ok = ok]}
    BY <1>7 DEF Execute
  <2>2. PICK k : k = [j EXCEPT !.stage = "closing", !.ok = ok]
    OBVIOUS
  <2>3. k.text = j.text /\ jobs' = {k}
    BY <1>3, <2>1, <2>2, Ended2
  <2>4. UNCHANGED <<steer, settled, toUi>>
    BY <1>7 DEF Execute
  <2>5. QED
    BY <2>3, <2>4, <1>m
<1>8. CASE CloseOut(j)
  <2>1. PICK a, b \in Messages :
              /\ toUi' = Append(Append(toUi, a), b)
              /\ a.do = "complete" /\ a.text = j.text /\ Kind(a) = "complete"
              /\ b.do = "returned" /\ b.admitted /\ Kind(b) = "returned" /\ b.why = "turn"
    BY <1>8, CloseOutKeeps DEF TurnStep, fences, counts
  <2>2. jobs' = {} /\ UNCHANGED <<steer, settled>>
    BY <1>3, <1>8 DEF CloseOut
  <2>3. Held(a) = j.text /\ Held(b) = {}
    BY <2>1, HeldIs
  <2>4. PICK q \in Seq(Messages) : q = Append(toUi, a)
    BY <2>1, <1>3, Appended
  <2>5. InJobs = j.text /\ InJobs' = {}
    BY <1>3, <2>2 DEF InJobs
  <2>6. j.text \cap Within(toUi) = {}
    BY <1>3, <2>5, Disjoint
  <2>7. Within(q) = Within(toUi) \cup j.text /\ Apart(q)
    BY <1>3, <2>3, <2>4, <2>6, WithinAppend DEF Kept
  <2>8. Within(toUi') = Within(toUi) \cup j.text /\ Apart(toUi')
    <3>1. toUi' = Append(q, b) /\ Held(b) \cap Within(q) = {}
      BY <2>1, <2>3, <2>4
    <3>2. Within(Append(q, b)) = Within(q) \cup Held(b)
      BY WithinAppend
    <3>3. Apart(Append(q, b))
      BY <3>1, <2>7, WithinAppend
    <3>4. QED
      BY <3>1, <3>2, <3>3, <2>3, <2>7
  <2>9. TurnsApart' /\ InboxApart' /\ InInbox' = InInbox
    BY <1>2 DEF TurnsApart, InboxApart, InInbox, Kept
  <2>10. ASSUME NEW w \in Words PROVE Passing(w) = Passing(w)' + One(w \in {})
    <3>1. /\ One(w \in Within(toUi')) = One(w \in Within(toUi)) + One(w \in j.text)
          /\ One(w \in InJobs) = One(w \in j.text) /\ One(w \in InJobs') = 0 /\ One(w \in {}) = 0
      BY <2>5, <2>6, <2>8 DEF One
    <3>2. QED
      BY <3>1, <1>2, <2>9, Counted DEF Passing
  <2>11. Gives({})
    BY <2>8, <2>9, <2>10 DEF Gives
  <2>12. Gains({})
    BY <1>2, <2>2, GainsNothing DEF Kept
  <2>13. QED
    BY <1>2, <2>11, <2>12, Exchange
<1>9. QED
  BY <1>1, <1>4, <1>5, <1>6, <1>7, <1>8

LEMMA KeptStep ==
  ASSUME Typed, Submissions, RestoreAt, Kept, [Next]_vars
  PROVE  Kept'
<1>1. ASSUME NEW w \in Words, Type(w) \/ Generate(w) \/ StartGoal(w) PROVE Kept'
  BY <1>1, UserKeeps
<1>2. ASSUME NEW key, Press(key) PROVE Kept'
  BY <1>2, PressKeeps
<1>3. CASE Recall \/ Deliver
  BY <1>3, RecallKeeps, DeliverKeeps
<1>4. CASE (\E i : Restore(i)) \/ (\E do : Operate(do)) \/ CallRestore \/ CallOperation
           \/ GiveUpClear \/ TimeOut
  BY <1>4, WorkersKeep
<1>5. CASE HearStart \/ HearComplete \/ HearOther \/ HearReturn \/ HearRestored \/ HearOperated
  BY <1>5, HearStartKept, HearCompleteKept, HearOtherKept, HearReturnKept, HearRestoredKept,
     HearOperatedKept
<1>6. CASE Take \/ TurnStep
  BY <1>6, TakeKept, TurnStepKept
<1>7. ASSUME NEW o \in ops, Finish(o) PROVE Kept'
  BY <1>7, FinishKept
<1>8. CASE UNCHANGED vars
  <2>1. /\ UNCHANGED <<composer, parked, inbox, slot, steer, settled, turns, typed, toRt, toUi, jobs>>
    BY <1>8 DEF vars, queues, runtime
  <2>2. InJobs' = InJobs
    BY <2>1 DEF InJobs
  <2>3. QED
    BY <2>1, <2>2, StillKept
<1>9. QED
  BY <1>1, <1>2, <1>3, <1>4, <1>5, <1>6, <1>7, <1>8 DEF Next, User, Interface, Runtime

LEMMA KeptInit ==
  ASSUME Init
  PROVE  Kept
<1>1. /\ TurnsApart /\ InboxApart /\ Apart(toRt) /\ Apart(toUi)
  BY DEF Init, TurnsApart, InboxApart, Apart
<1>2. /\ composer = {} /\ parked = {} /\ slot = {} /\ steer.text = {} /\ settled = {} /\ typed = {}
      /\ WordsOf(turns) = {} /\ InInbox = {} /\ Within(toRt) = {} /\ Within(toUi) = {} /\ InJobs = {}
  BY EmptyFacts DEF Init, NoSteer, WordsOf, InInbox, Within, InJobs
<1>3. ASSUME NEW w \in Words PROVE Loose(w) + Passing(w) = One(w \in typed)
  BY <1>2 DEF Loose, Passing, One
<1>4. QED
  BY <1>1, <1>3 DEF Kept

-----------------------------------------------------------------------------
(* The places, one after the other.                                         *)

Hits(q, w) == {i \in DOMAIN q : w \in q[i]}
Found(q, w, there) == IF there THEN \E i : Hits(q, w) = {i} ELSE Hits(q, w) = {}

LEMMA Joined ==
  ASSUME NEW p \in Seq(Texts), NEW q \in Seq(Texts), NEW w,
         NEW a \in BOOLEAN, NEW b \in BOOLEAN, ~(a /\ b), Found(p, w, a), Found(q, w, b)
  PROVE  p \o q \in Seq(Texts) /\ Found(p \o q, w, a \/ b)
<1>1. PICK r : r = p \o q
  OBVIOUS
<1>2. PICK n : n = Len(p)
  OBVIOUS
<1>3. /\ r \in Seq(Texts) /\ n \in Nat
      /\ DOMAIN p = 1 .. n /\ DOMAIN q = 1 .. Len(q) /\ DOMAIN r = 1 .. (n + Len(q)) /\ Len(q) \in Nat
      /\ \A i \in 1 .. n : r[i] = p[i]
      /\ \A i \in 1 .. (n + Len(q)) : i > n => r[i] = q[i - n]
  BY <1>1, <1>2
<1>4. /\ \A i \in DOMAIN p : i \in DOMAIN r /\ r[i] = p[i]
      /\ \A i \in DOMAIN q : n + i \in DOMAIN r /\ r[n + i] = q[i]
      /\ \A i \in DOMAIN r : i \in DOMAIN p \/ (i - n \in DOMAIN q /\ n + (i - n) = i)
  <2>1. \A i \in DOMAIN p : i \in DOMAIN r /\ r[i] = p[i]
    BY <1>3
  <2>2. ASSUME NEW i \in DOMAIN q PROVE n + i \in DOMAIN r /\ r[n + i] = q[i]
    <3>1. n + i \in 1 .. (n + Len(q)) /\ n + i > n /\ (n + i) - n = i
      BY <1>3
    <3>2. QED
      BY <3>1, <1>3
  <2>3. \A i \in DOMAIN r : i \in DOMAIN p \/ (i - n \in DOMAIN q /\ n + (i - n) = i)
    BY <1>3
  <2>4. QED
    BY <2>1, <2>2, <2>3
<1>5. Hits(r, w) = Hits(p, w) \cup {n + i : i \in Hits(q, w)}
  <2>1. Hits(p, w) \subseteq Hits(r, w)
    BY <1>4 DEF Hits
  <2>2. {n + i : i \in Hits(q, w)} \subseteq Hits(r, w)
    BY <1>4 DEF Hits
  <2>3. ASSUME NEW i \in Hits(r, w), i \notin Hits(p, w)
        PROVE  i \in {n + k : k \in Hits(q, w)}
    <3>1. i \in DOMAIN r /\ w \in r[i]
      BY <2>3 DEF Hits
    <3>2. i \notin DOMAIN p
      BY <3>1, <2>3, <1>4 DEF Hits
    <3>3. PICK k \in DOMAIN q : n + k = i
      BY <3>1, <3>2, <1>4
    <3>4. k \in Hits(q, w)
      BY <3>1, <3>3, <1>4 DEF Hits
    <3>5. QED
      BY <3>3, <3>4
  <2>4. QED
    BY <2>1, <2>2, <2>3
<1>6. CASE a
  <2>1. Hits(q, w) = {} /\ \E i : Hits(p, w) = {i}
    BY <1>6 DEF Found
  <2>2. Hits(r, w) = Hits(p, w)
    BY <1>5, <2>1
  <2>3. QED
    BY <1>1, <1>3, <1>6, <2>1, <2>2 DEF Found
<1>7. CASE ~a /\ b
  <2>1. Hits(p, w) = {} /\ \E i : Hits(q, w) = {i}
    BY <1>7 DEF Found
  <2>2. PICK i : Hits(q, w) = {i}
    BY <2>1
  <2>3. Hits(r, w) = {n + i}
    BY <1>5, <2>1, <2>2
  <2>4. QED
    BY <1>1, <1>3, <1>7, <2>3 DEF Found
<1>8. CASE ~a /\ ~b
  <2>1. Hits(r, w) = {}
    BY <1>5, <1>8 DEF Found
  <2>2. QED
    BY <1>1, <1>3, <1>8, <2>1 DEF Found
<1>9. QED
  BY <1>6, <1>7, <1>8

LEMMA FoundWithin ==
  ASSUME NEW S, NEW q \in Seq(S), Apart(q), NEW f, f = [i \in DOMAIN q |-> Held(q[i])], NEW w
  PROVE  Found(f, w, w \in Within(q))
<1>1. DOMAIN f = DOMAIN q /\ \A i \in DOMAIN q : f[i] = Held(q[i])
  OBVIOUS
<1>2. CASE w \in Within(q)
  <2>1. PICK i \in DOMAIN q : w \in Held(q[i])
    BY <1>2 DEF Within
  <2>2. \A k \in DOMAIN q : w \in Held(q[k]) => k = i
    BY <2>1 DEF Apart
  <2>3. Hits(f, w) = {i}
    BY <1>1, <2>1, <2>2 DEF Hits
  <2>4. QED
    BY <1>2, <2>3 DEF Found
<1>3. CASE w \notin Within(q)
  <2>1. \A i \in DOMAIN q : w \notin Held(q[i])
    BY <1>3 DEF Within
  <2>2. Hits(f, w) = {}
    BY <1>1, <2>1 DEF Hits
  <2>3. QED
    BY <1>3, <2>2 DEF Found
<1>4. QED
  BY <1>2, <1>3

LEMMA FoundInbox ==
  ASSUME inbox \in Seq(Inputs), InboxApart, NEW f, f = [i \in DOMAIN inbox |-> inbox[i].text], NEW w
  PROVE  Found(f, w, w \in InInbox)
<1>1. DOMAIN f = DOMAIN inbox /\ \A i \in DOMAIN inbox : f[i] = inbox[i].text
  OBVIOUS
<1>2. CASE w \in InInbox
  <2>1. PICK i \in DOMAIN inbox : w \in inbox[i].text
    BY <1>2 DEF InInbox
  <2>2. \A k \in DOMAIN inbox : w \in inbox[k].text => k = i
    BY <2>1 DEF InboxApart
  <2>3. Hits(f, w) = {i}
    BY <1>1, <2>1, <2>2 DEF Hits
  <2>4. QED
    BY <1>2, <2>3 DEF Found
<1>3. CASE w \notin InInbox
  <2>1. \A i \in DOMAIN inbox : w \notin inbox[i].text
    BY <1>3 DEF InInbox
  <2>2. Hits(f, w) = {}
    BY <1>1, <2>1 DEF Hits
  <2>3. QED
    BY <1>3, <2>2 DEF Found
<1>4. QED
  BY <1>2, <1>3

LEMMA FoundJob ==
  ASSUME jobs \subseteq Jobs, jobs = {} \/ \E j \in jobs : jobs = {j}, NEW w,
         NEW f, f = [i \in 1 .. Cardinality(jobs) |-> SetToSeq(jobs)[i].text]
  PROVE  Found(f, w, w \in InJobs) /\ f \in Seq(Texts)
<1>1. CASE jobs = {}
  <2>1. Cardinality(jobs) = 0 /\ InJobs = {}
    BY <1>1, FS_EmptySet DEF InJobs
  <2>2. f = <<>>
    BY <2>1
  <2>3. DOMAIN f = {}
    BY <2>1
  <2>4. Hits(f, w) = {}
    BY <2>3 DEF Hits
  <2>5. <<>> \in Seq(Texts)
    OBVIOUS
  <2>6. QED
    BY <2>1, <2>2, <2>4, <2>5 DEF Found
<1>2. ASSUME NEW j \in jobs, jobs = {j}
      PROVE  Found(f, w, w \in InJobs) /\ f \in Seq(Texts)
  <2>1. Cardinality(jobs) = 1 /\ InJobs = j.text /\ j.text \in Texts
    <3>1. Cardinality({j}) = 1
      BY FS_Singleton
    <3>2. InJobs = j.text
      BY <1>2 DEF InJobs
    <3>3. j.text \in Texts
      BY DEF Jobs
    <3>4. QED
      BY <1>2, <3>1, <3>2, <3>3
  <2>2. SetToSeq(jobs) \in [1 .. 1 -> {j}]
    <3>0. 1 .. Cardinality(jobs) = {1}
      BY <2>1
    <3>1. PICK g : g = [i \in {1} |-> j]
      OBVIOUS
    <3>2. g \in [1 .. Cardinality(jobs) -> jobs]
      BY <1>2, <3>0, <3>1
    <3>3. IsInjective(g)
      BY <3>1, Zenon DEF IsInjective
    <3>4. SetToSeq(jobs) \in [1 .. Cardinality(jobs) -> jobs]
      BY <3>2, <3>3, Zenon DEF SetToSeq
    <3>5. QED
      BY <1>2, <2>1, <3>4
  <2>3. DOMAIN f = 1 .. 1 /\ f[1] = j.text
    BY <2>1, <2>2
  <2>4. f = <<j.text>>
    BY <2>1, <2>2
  <2>5. f \in Seq(Texts)
    BY <2>1, <2>4
  <2>6. Hits(f, w) = IF w \in j.text THEN {1} ELSE {}
    BY <2>3 DEF Hits
  <2>7. QED
    BY <2>1, <2>5, <2>6 DEF Found
<1>3. QED
  BY <1>1, <1>2

LEMMA InvPrompts ==
  ASSUME IInv, Kept
  PROVE  PromptsAreKept
<1>t. /\ inbox \in Seq(Inputs) /\ toRt \in Seq(Calls) /\ toUi \in Seq(Messages)
      /\ turns \in Seq(Texts) /\ jobs \subseteq Jobs
      /\ (jobs = {} \/ (\E j \in jobs : jobs = {j}))
  BY InJob DEF IInv, Typed, QueuesTyped, RuntimeTyped, Submissions
<1>1. ASSUME NEW w \in typed
      PROVE  Cardinality({i \in DOMAIN Places : w \in Places[i]}) = 1
  <2>1. PICK a, b, c, d, e :
          /\ a = <<composer, parked, slot, steer.text, settled, WordsOf(turns)>>
          /\ b = [i \in DOMAIN inbox |-> inbox[i].text]
          /\ c = [i \in DOMAIN toRt |-> toRt[i].text]
          /\ d = [i \in DOMAIN toUi |->
                    IF toUi[i].do = "returned" /\ toUi[i].admitted THEN {} ELSE toUi[i].text]
          /\ e = [i \in 1..Cardinality(jobs) |-> SetToSeq(jobs)[i].text]
    OBVIOUS
  <2>2. Places = a \o b \o c \o d \o e
    BY <2>1 DEF Places
  <2>3. w \in Words /\ Loose(w) + Passing(w) = 1
    <3>1. w \in Words
      BY DEF IInv, Typed, WordsTyped, Texts
    <3>2. QED
      BY <3>1 DEF Kept, One
  <2>4. PICK ina, inb, inc, ind, ine \in BOOLEAN :
          /\ ina <=> (w \in composer \/ w \in parked \/ w \in slot \/ w \in steer.text
                      \/ w \in settled \/ w \in WordsOf(turns))
          /\ inb <=> w \in InInbox
          /\ inc <=> w \in Within(toRt)
          /\ ind <=> w \in Within(toUi)
          /\ ine <=> w \in InJobs
    OBVIOUS
  <2>5. /\ ina \/ inb \/ inc \/ ind \/ ine
        /\ ~(ina /\ inb) /\ ~((ina \/ inb) /\ inc) /\ ~((ina \/ inb \/ inc) /\ ind)
        /\ ~((ina \/ inb \/ inc \/ ind) /\ ine)
    BY <2>3, <2>4 DEF Loose, Passing, One
  <2>6. a \in Seq(Texts) /\ Found(a, w, ina)
    <3>1. /\ composer \in Texts /\ parked \in Texts /\ slot \in Texts /\ steer.text \in Texts
          /\ settled \in Texts /\ WordsOf(turns) \in Texts
      BY <1>t, WordsAreWords DEF IInv, Typed, WordsTyped
    <3>2. a \in Seq(Texts)
      BY <2>1, <3>1
    <3>3. /\ DOMAIN a = 1 .. 6 /\ a[1] = composer /\ a[2] = parked /\ a[3] = slot
          /\ a[4] = steer.text /\ a[5] = settled /\ a[6] = WordsOf(turns)
      BY <2>1
    <3>4. CASE ina
      <4>1. PICK i \in 1 .. 6 : w \in a[i]
        <5>1. \/ w \in a[1] \/ w \in a[2] \/ w \in a[3] \/ w \in a[4] \/ w \in a[5] \/ w \in a[6]
          BY <2>4, <3>3, <3>4
        <5>2. QED
          BY <5>1
      <4>2. \A k \in 1 .. 6 : w \in a[k] => k = i
        <5>1. \A n \in 1 .. 6 : n = 1 \/ n = 2 \/ n = 3 \/ n = 4 \/ n = 5 \/ n = 6
          OBVIOUS
        <5>2. /\ One(w \in a[1]) + One(w \in a[2]) + One(w \in a[3]) + One(w \in a[4])
                 + One(w \in a[5]) + One(w \in a[6]) <= 1
          BY <2>3, <3>3, Counted DEF Loose, Passing
        <5>3. QED
          BY <4>1, <5>1, <5>2 DEF One
      <4>3. Hits(a, w) = {i}
        BY <3>3, <4>1, <4>2 DEF Hits
      <4>4. QED
        BY <3>2, <3>4, <4>3 DEF Found
    <3>5. CASE ~ina
      <4>1. /\ w \notin a[1] /\ w \notin a[2] /\ w \notin a[3]
            /\ w \notin a[4] /\ w \notin a[5] /\ w \notin a[6]
        BY <2>4, <3>3, <3>5
      <4>2. \A n \in 1 .. 6 : n = 1 \/ n = 2 \/ n = 3 \/ n = 4 \/ n = 5 \/ n = 6
        OBVIOUS
      <4>3. Hits(a, w) = {}
        BY <3>3, <4>1, <4>2 DEF Hits
      <4>4. QED
        BY <3>2, <3>5, <4>3 DEF Found
    <3>6. QED
      BY <3>4, <3>5
  <2>7. b \in Seq(Texts) /\ Found(b, w, inb)
    <3>1. Found(b, w, w \in InInbox)
      BY <1>t, <2>1, FoundInbox DEF Kept
    <3>2. b \in Seq(Texts)
      <4>1. \A i \in DOMAIN inbox : inbox[i].text \in Texts
        <5>1. \A i \in DOMAIN inbox : inbox[i] \in Inputs
          BY <1>t
        <5>2. \A m \in Inputs : m.text \in Texts
          BY DEF Inputs
        <5>3. QED
          BY <5>1, <5>2
      <4>2. PICK n \in Nat : DOMAIN inbox = 1 .. n
        BY <1>t
      <4>3. b \in [1 .. n -> Texts]
        BY <2>1, <4>1, <4>2
      <4>4. QED
        BY <4>3
    <3>3. QED
      BY <2>4, <3>1, <3>2 DEF Found
  <2>8. c \in Seq(Texts) /\ Found(c, w, inc)
    <3>0. DOMAIN toRt = 1 .. Len(toRt) /\ Len(toRt) \in Nat
      BY <1>t
    <3>1. \A i \in DOMAIN toRt : toRt[i].text \in Texts /\ Held(toRt[i]) = toRt[i].text
      <4>1. \A i \in DOMAIN toRt : toRt[i] \in Calls
        BY <1>t
      <4>2. \A x \in Calls : x.text \in Texts /\ Held(x) = x.text
        BY CallIs, HeldIs
      <4>3. QED
        BY <4>1, <4>2
    <3>2. c = [i \in DOMAIN toRt |-> Held(toRt[i])]
      BY <2>1, <3>1
    <3>3. Found(c, w, w \in Within(toRt))
      BY <1>t, <3>2, FoundWithin DEF Kept
    <3>4. c \in Seq(Texts)
      BY <2>1, <3>0, <3>1
    <3>5. QED
      BY <2>4, <3>3, <3>4 DEF Found
  <2>9. d \in Seq(Texts) /\ Found(d, w, ind)
    <3>0. DOMAIN toUi = 1 .. Len(toUi) /\ Len(toUi) \in Nat
      BY <1>t
    <3>1. \A i \in DOMAIN toUi : Held(toUi[i]) \in Texts
             /\ Held(toUi[i]) = IF toUi[i].do = "returned" /\ toUi[i].admitted THEN {} ELSE toUi[i].text
      <4>1. \A i \in DOMAIN toUi : toUi[i] \in Messages
        BY <1>t
      <4>2. ASSUME NEW x \in Messages
            PROVE  /\ Held(x) \in Texts
                   /\ Held(x) = IF x.do = "returned" /\ x.admitted THEN {} ELSE x.text
        <5>1. x.text \in Texts /\ {} \in Texts
          BY MessageIs DEF Texts
        <5>2. Held(x) = IF x.do = "returned" /\ x.admitted THEN {} ELSE x.text
          BY HeldIs DEF Kind
        <5>3. QED
          BY <5>1, <5>2
      <4>3. QED
        BY <4>1, <4>2
    <3>2. d = [i \in DOMAIN toUi |-> Held(toUi[i])]
      BY <2>1, <3>1
    <3>3. Found(d, w, w \in Within(toUi))
      BY <1>t, <3>2, FoundWithin DEF Kept
    <3>4. d \in Seq(Texts)
      BY <3>0, <3>1, <3>2
    <3>5. QED
      BY <2>4, <3>3, <3>4 DEF Found
  <2>10. e \in Seq(Texts) /\ Found(e, w, ine)
    <3>1. Found(e, w, w \in InJobs) /\ e \in Seq(Texts)
      BY <1>t, <2>1, FoundJob
    <3>2. QED
      BY <2>4, <3>1 DEF Found
  <2>11. a \o b \in Seq(Texts) /\ Found(a \o b, w, ina \/ inb)
    BY <2>5, <2>6, <2>7, Joined
  <2>P1. PICK ab : ab = a \o b
    OBVIOUS
  <2>Q1. PICK x \in BOOLEAN : x <=> (ina \/ inb)
    OBVIOUS
  <2>13. ab \in Seq(Texts) /\ Found(ab, w, x) /\ ~(x /\ inc)
    BY <2>5, <2>11, <2>P1, <2>Q1
  <2>14. ab \o c \in Seq(Texts) /\ Found(ab \o c, w, x \/ inc)
    BY <2>8, <2>13, Joined
  <2>P2. PICK abc : abc = ab \o c
    OBVIOUS
  <2>Q2. PICK y \in BOOLEAN : y <=> (x \/ inc)
    OBVIOUS
  <2>16. abc \in Seq(Texts) /\ Found(abc, w, y) /\ ~(y /\ ind)
    BY <2>5, <2>P1, <2>Q1, <2>14, <2>P2, <2>Q2
  <2>17. abc \o d \in Seq(Texts) /\ Found(abc \o d, w, y \/ ind)
    BY <2>9, <2>16, Joined
  <2>P3. PICK abcd : abcd = abc \o d
    OBVIOUS
  <2>Q3. PICK z \in BOOLEAN : z <=> (y \/ ind)
    OBVIOUS
  <2>19. abcd \in Seq(Texts) /\ Found(abcd, w, z) /\ ~(z /\ ine)
    BY <2>5, <2>P1, <2>Q1, <2>P2, <2>Q2, <2>17, <2>P3, <2>Q3
  <2>20. Found(abcd \o e, w, z \/ ine)
    BY <2>10, <2>19, Joined
  <2>21. abcd \o e = Places /\ (z \/ ine)
    BY <2>2, <2>5, <2>P1, <2>Q1, <2>P2, <2>Q2, <2>P3, <2>Q3
  <2>22. PICK i : Hits(Places, w) = {i}
    BY <2>20, <2>21 DEF Found
  <2>23. Cardinality({i}) = 1
    BY FS_Singleton
  <2>27. QED
    BY <2>22, <2>23 DEF Hits
<1>2. QED
  BY <1>1, InvTypes DEF PromptsAreKept

\* While at most one goal is started, no word the user typed is lost and none
\* is in two places: it is in the draft or the history, on its way, queued, in
\* a turn, or the user was told its end.
THEOREM PromptsSafe ==
  ASSUME MaxGoals \in {0, 1}
  PROVE  Spec => []PromptsAreKept
<1>1. Init => Kept
  BY KeptInit
<1>2. IInv /\ Kept /\ [Next]_vars => Kept'
  BY KeptStep DEF IInv
<1>3. IInv /\ Kept => PromptsAreKept
  BY InvPrompts
<1>4. QED
  BY <1>1, <1>2, <1>3, Inductive, PTL DEF Spec
=============================================================================
