--------------------------- MODULE DecisionsProofs --------------------------
(***************************************************************************)
(* Proofs about Decisions, for any calls, questions, prompts and room in   *)
(* the queue.  Default = "Deny" is what every caller in the code passes.   *)
(***************************************************************************)
EXTENDS Decisions, FiniteSetTheorems, WellFoundedInduction, TLAPS

-----------------------------------------------------------------------------
(* The head of the ticket queue.                                            *)

\* A set of positions has a first one (ApprovalBroker.head).
LEMMA FirstExists ==
  ASSUME NEW I \in SUBSET Nat, I # {}
  PROVE  \E i \in I : \A j \in I : i <= j
<1> DEFINE R == {p \in Nat \X Nat : p[1] < p[2]}
<1>1. IsWellFoundedOn(R, Nat)
  BY NatLessThanWellFounded, Zenon DEF OpToRel
<1>2. PICK i \in I : \A j \in I : ~ (<<j, i>> \in R)
  <2> HIDE DEF R
  <2> QED BY <1>1, WFMin
<1>3. \A j \in I : ~ (j < i)
  BY <1>2
<1> QED
  BY <1>3

\* The head is a ticket, or nothing (ApprovalBroker.head).
LEMMA OldestIsTicket ==
  ASSUME NEW T \in Seq(Calls), NEW I \in SUBSET DOMAIN T
  PROVE  Oldest(T, I) \in Calls \cup {NoCall}
<1>1. CASE I = {}
  BY <1>1 DEF Oldest
<1>2. CASE I # {}
  <2>1. I \in SUBSET Nat
    BY SMT
  <2>2. (CHOOSE i \in I : \A j \in I : i <= j) \in I
    BY <1>2, <2>1, FirstExists
  <2> QED
    BY <1>2, <2>2 DEF Oldest
<1> QED
  BY <1>1, <1>2

\* Leaving the queue keeps it a queue of calls (ApprovalBroker.request_approval).
LEMMA WithoutType ==
  ASSUME tickets \in Seq(Calls), NEW c \in Open
  PROVE  Without(c) \in Seq(Calls)
<1> DEFINE k == CHOOSE i \in DOMAIN tickets : tickets[i] = c
<1>1. k \in DOMAIN tickets
  BY DEF Open
<1>2. SubSeq(tickets, 1, k - 1) \in Seq(Calls) /\ SubSeq(tickets, k + 1, Len(tickets)) \in Seq(Calls)
  <2> HIDE DEF k
  <2> QED BY <1>1
<1> QED
  BY <1>2 DEF Without

-----------------------------------------------------------------------------
(* The needs-you queue: what parking and moving do to the sets of items.    *)

\* Parking adds one pending item, of whoever parks it (NeedsYouQueue.defer).
LEMMA ParkedSets ==
  ASSUME items \in Seq(Items), NEW x \in Calls \cup Questions, items' = Parked(x)
  PROVE  /\ items' \in Seq(Items)
         /\ Len(items') = Len(items) + 1
         /\ DOMAIN items' = DOMAIN items \cup {Len(items) + 1}
         /\ Len(items) + 1 \notin DOMAIN items
         /\ With("pending")' = With("pending") \cup {Len(items) + 1}
         /\ \A s \in Statuses \ {"pending"} : With(s)' = With(s)
         /\ Of(x)' = Of(x) \cup {Len(items) + 1}
         /\ \A y : y # x => Of(y)' = Of(y)
         /\ \A i \in DOMAIN items : items'[i] = items[i]
         /\ items'[Len(items) + 1].told = 0
<1> DEFINE new == [from |-> x, status |-> "pending", told |-> 0]
<1>1. new \in Items
  BY DEF Items, Statuses
<1>2. items' = Append(items, new)
  BY DEF Parked
<1>3. new.from = x /\ new.status = "pending" /\ new.told = 0
  OBVIOUS
<1> HIDE DEF new
<1>4. /\ items' \in Seq(Items)
      /\ Len(items') = Len(items) + 1
      /\ DOMAIN items' = DOMAIN items \cup {Len(items) + 1}
      /\ Len(items) + 1 \notin DOMAIN items
      /\ \A i \in DOMAIN items : items'[i] = items[i]
      /\ items'[Len(items) + 1] = new
  BY <1>1, <1>2
<1>5. /\ With("pending")' = With("pending") \cup {Len(items) + 1}
      /\ \A s \in Statuses \ {"pending"} : With(s)' = With(s)
  BY <1>3, <1>4 DEF With
<1>6. /\ Of(x)' = Of(x) \cup {Len(items) + 1}
      /\ \A y : y # x => Of(y)' = Of(y)
  BY <1>3, <1>4 DEF Of
<1> QED
  BY <1>3, <1>4, <1>5, <1>6

\* Moving changes the status of some items and the count of some, nothing else
\* (NeedsYouQueue.consume, consume_answered, _transition).
MovesOnly(I, st, J) ==
  /\ items' \in Seq(Items)
  /\ Len(items') = Len(items)
  /\ DOMAIN items' = DOMAIN items
  /\ With(st)' = With(st) \cup I
  /\ \A s \in Statuses \ {st} : With(s)' = With(s) \ I
  /\ \A y : Of(y)' = Of(y)
  /\ \A i \in I : items'[i].status = st
  /\ \A i \in DOMAIN items \ I : items'[i].status = items[i].status
  /\ \A i \in J : items'[i].told = 1
  /\ \A i \in DOMAIN items \ J : items'[i].told = items[i].told

LEMMA MovedSets ==
  ASSUME NEW I \in SUBSET DOMAIN items, NEW J \in SUBSET DOMAIN items, NEW st \in Statuses,
         items \in Seq(Items), \A i \in J : items[i].told = 0, items' = Moved(I, st, J)
  PROVE  MovesOnly(I, st, J)
<1>1. DOMAIN items' = DOMAIN items
  BY DEF Moved
<1>2. \A i \in DOMAIN items :
        /\ items'[i] \in Items
        /\ items'[i].from = items[i].from
        /\ items'[i].status = IF i \in I THEN st ELSE items[i].status
        /\ items'[i].told = IF i \in J THEN 1 ELSE items[i].told
  <2> TAKE i \in DOMAIN items
  <2> DEFINE told == IF i \in J THEN items[i].told + 1 ELSE items[i].told
             status == IF i \in I THEN st ELSE items[i].status
  <2>1. items[i] \in Items
    OBVIOUS
  <2>2. /\ items'[i] = [items[i] EXCEPT !.status = status, !.told = told]
    BY DEF Moved
  <2>3. told = (IF i \in J THEN 1 ELSE items[i].told) /\ told \in 0 .. 2 /\ status \in Statuses
    BY <2>1 DEF Items
  <2> HIDE DEF told, status
  <2>4. items'[i] = [from |-> items[i].from, status |-> status, told |-> told]
    BY <2>1, <2>2 DEF Items
  <2>5. items'[i] \in Items
    BY <2>1, <2>3, <2>4 DEF Items
  <2> QED
    BY <2>3, <2>4, <2>5 DEF status
<1>3. items' \in Seq(Items) /\ Len(items') = Len(items)
  <2>1. DOMAIN items = 1 .. Len(items) /\ Len(items) \in Nat
    OBVIOUS
  <2>2. items' = [i \in 1 .. Len(items) |-> items'[i]]
    BY <1>1, <2>1 DEF Moved
  <2> QED
    BY <1>1, <1>2, <2>1, <2>2
<1>4. With(st)' = With(st) \cup I /\ \A s \in Statuses \ {st} : With(s)' = With(s) \ I
  BY <1>1, <1>2 DEF With
<1>5. \A y : Of(y)' = Of(y)
  BY <1>1, <1>2 DEF Of
<1> QED
  BY <1>1, <1>2, <1>3, <1>4, <1>5 DEF MovesOnly

\* The active items are finitely many.
LEMMA ActiveFinite ==
  ASSUME items \in Seq(Items)
  PROVE  IsFiniteSet(Active) /\ Cardinality(Active) \in Nat /\ Active \subseteq DOMAIN items
<1>1. IsFiniteSet(1 .. Len(items))
  BY FS_Interval
<1>2. Active \subseteq DOMAIN items
  BY DEF Active, With
<1>3. DOMAIN items = 1 .. Len(items)
  OBVIOUS
<1> QED
  BY <1>1, <1>2, <1>3, FS_Subset, FS_CardinalityType

QueueInv == items \in Seq(Items) /\ Cardinality(Active) <= Limit /\ AnswerToldOnce

\* A queue that is not full takes one item more.
LEMMA ParkedKeeps ==
  ASSUME QueueInv, ~Full, NEW x \in Calls \cup Questions, items' = Parked(x)
  PROVE  QueueInv'
<1> USE DEF QueueInv
<1>1. items' \in Seq(Items)
  BY ParkedSets
<1>2. Active' = Active \cup {Len(items) + 1}
  BY ParkedSets DEF Active, Statuses
<1>3. IsFiniteSet(Active) /\ Cardinality(Active) \in Nat
  BY ActiveFinite
<1>4. Cardinality(Active') <= Limit
  <2> DEFINE n == Len(items) + 1
  <2>1. Cardinality(Active \cup {n}) = IF n \in Active THEN Cardinality(Active) ELSE Cardinality(Active) + 1
    <3> HIDE DEF n
    <3> QED BY <1>3, FS_AddElement
  <2>2. Limit \in Nat /\ Cardinality(Active) < Limit
    BY <1>3, QueueAssumption DEF Full
  <2> QED
    BY <1>2, <1>3, <2>1, <2>2
<1>5. AnswerToldOnce'
  <2> SUFFICES ASSUME NEW i \in DOMAIN items'
               PROVE  items'[i].told = IF items'[i].status = "consumed" THEN 1 ELSE 0
    BY DEF AnswerToldOnce
  <2>1. CASE i \in DOMAIN items
    BY <2>1, ParkedSets DEF AnswerToldOnce
  <2>2. CASE i = Len(items) + 1
    BY <2>2, ParkedSets DEF With
  <2> QED
    BY <2>1, <2>2, ParkedSets
<1> QED
  BY <1>1, <1>4, <1>5

\* Active items may be answered or dismissed, or consumed when they are told.
LEMMA MovedKeeps ==
  ASSUME QueueInv, NEW I \in SUBSET Active, NEW J \in SUBSET I,
         NEW st \in {"answered", "consumed", "dismissed"},
         st = "consumed" => J = I, st # "consumed" => J = {},
         items' = Moved(I, st, J)
  PROVE  QueueInv'
<1> USE DEF QueueInv
<1>1. /\ I \in SUBSET DOMAIN items /\ J \in SUBSET DOMAIN items
      /\ st \in Statuses
      /\ \A i \in I : items[i].status # "consumed" /\ items[i].told = 0
  BY DEF Active, With, AnswerToldOnce, Statuses
<1>2. /\ items' \in Seq(Items)
      /\ Len(items') = Len(items)
      /\ DOMAIN items' = DOMAIN items
      /\ With(st)' = With(st) \cup I
      /\ \A s \in Statuses \ {st} : With(s)' = With(s) \ I
      /\ \A y : Of(y)' = Of(y)
      /\ \A i \in I : items'[i].status = st
      /\ \A i \in DOMAIN items \ I : items'[i].status = items[i].status
      /\ \A i \in J : items'[i].told = 1
      /\ \A i \in DOMAIN items \ J : items'[i].told = items[i].told
  <2>1. items \in Seq(Items) /\ \A i \in J : items[i].told = 0
    BY <1>1
  <2>2. I \in SUBSET DOMAIN items /\ J \in SUBSET DOMAIN items /\ st \in Statuses
    BY <1>1
  <2>3. items' = Moved(I, st, J)
    OBVIOUS
  <2> HIDE DEF QueueInv
  <2>4. MovesOnly(I, st, J)
    BY ONLY <2>1, <2>2, <2>3, MovedSets
  <2> QED
    BY ONLY <2>4 DEF MovesOnly
<1>3. Active' \subseteq Active
  BY <1>2 DEF Active, Statuses
<1>4. Cardinality(Active') <= Cardinality(Active)
  BY <1>3, ActiveFinite, FS_Subset
<1>5. Cardinality(Active') <= Limit
  BY <1>2, <1>3, <1>4, ActiveFinite, FS_Subset, FS_CardinalityType, QueueAssumption
<1>6. AnswerToldOnce'
  BY <1>1, <1>2 DEF AnswerToldOnce
<1> QED
  BY <1>2, <1>5, <1>6

-----------------------------------------------------------------------------
(* The broker and the two hops: what the human said travels unchanged.      *)

BrokerTypes ==
  /\ phase \in [Calls -> {"idle", "staged", "waiting", "done"}]
  /\ staged \in Seq(Calls)
  /\ detail \in [Calls -> Calls \cup {NoCall}]
  /\ tickets \in Seq(Calls)
  /\ future \in [Calls -> Options \cup {"unset", "cancelled"}]
  /\ expired \subseteq Calls /\ deferred \subseteq Calls
  /\ outcome \in [Calls -> Options \cup {"none"}]
  /\ presented \in Calls \cup {NoCall} /\ bar \in Calls \cup {NoCall}
  /\ toUi \in Seq(Calls) /\ toRt \in Seq(Calls \X Acts)
  /\ auto \in BOOLEAN
  /\ said \in [Calls -> SUBSET Acts]

AllStaged == {c \in Calls : phase[c] = "staged"}

\* Every call that is about to ask has a detail to claim.
StagedCount == Len(staged) >= Cardinality(AllStaged)

\* A future holds "Allow" only if the human said so.
Heard == \A c \in Calls : future[c] = "Allow" => "Allow" \in said[c]

\* Only a timer cancels a future.
Cancelled == \A c \in Calls : future[c] = "cancelled" => c \in expired

\* What is under way to the runtime was said.
Posted == \A i \in DOMAIN toRt : toRt[i][2] \in said[toRt[i][1]]

BrokerInv ==
  BrokerTypes /\ StagedCount /\ Heard /\ Cancelled /\ Posted /\ AllowedOnlyByTheHuman

\* A future that is cancelled or resolved once is still typed, and an "Allow"
\* has been said (ApprovalBroker.answer, defer).
LEMMA NotifyType ==
  ASSUME BrokerTypes, tickets' \in Seq(Calls), Notify
  PROVE  presented' \in Calls \cup {NoCall} /\ toUi' \in Seq(Calls)
<1>1. Answerable' \in SUBSET DOMAIN tickets'
  BY DEF Answerable
<1>2. Oldest(tickets', Answerable') \in Calls \cup {NoCall}
  BY <1>1, OldestIsTicket
<1>3. head' = Oldest(tickets', Answerable')
  BY DEF head, Oldest
<1> QED
  BY <1>2, <1>3 DEF BrokerTypes, Notify

\* The waiting details stay as many as the calls that will claim them
\* (stage_detail, request_approval).
LEMMA StagedKept ==
  ASSUME BrokerTypes, StagedCount, NEW c \in Calls, Stage(c) \/ Request(c)
  PROVE  StagedCount' /\ (Request(c) => staged # <<>>)
<1>1. IsFiniteSet(AllStaged) /\ Cardinality(AllStaged) \in Nat
  BY QueueAssumption, FS_Subset, FS_CardinalityType DEF AllStaged
<1>2. CASE Stage(c)
  <2>1. AllStaged' = AllStaged \cup {c} /\ c \notin AllStaged
    BY <1>2 DEF Stage, AllStaged, BrokerTypes
  <2>2. Cardinality(AllStaged') = Cardinality(AllStaged) + 1
    BY <1>1, <2>1, FS_AddElement
  <2>3. Len(staged') = Len(staged) + 1
    BY <1>2 DEF Stage, BrokerTypes
  <2>4. ~Request(c)
    BY <1>2 DEF Stage, Request
  <2> QED
    BY <1>1, <2>2, <2>3, <2>4 DEF StagedCount, BrokerTypes
<1>3. CASE Request(c)
  <2>1. AllStaged' = AllStaged \ {c} /\ c \in AllStaged
    BY <1>3 DEF Request, AllStaged, BrokerTypes
  <2>2. Cardinality(AllStaged') = Cardinality(AllStaged) - 1
    BY <1>1, <2>1, FS_RemoveElement
  <2>3. Cardinality(AllStaged) # 0
    BY <1>1, <2>1, FS_EmptySet
  <2>4. staged # <<>>
    BY <1>1, <2>3 DEF StagedCount, BrokerTypes
  <2>5. Len(staged') = Len(staged) - 1
    BY <1>3, <2>4 DEF Request, BrokerTypes
  <2> QED
    BY <1>1, <2>2, <2>4, <2>5 DEF StagedCount, BrokerTypes
<1> QED
  BY <1>2, <1>3

\* A post carries what is said of a ticket at the same moment (present_approval,
\* on_approval_bar_resolved, on_approval_bar_deferred).
LEMMA PostKept ==
  ASSUME BrokerTypes, Heard, Posted, NEW c \in Calls, NEW act \in Acts, Post(c, act),
         UNCHANGED future
  PROVE  /\ toRt' \in Seq(Calls \X Acts) /\ said' \in [Calls -> SUBSET Acts]
         /\ Heard' /\ Posted' /\ \A d \in Calls : said[d] \subseteq said'[d]
<1> USE DEF BrokerTypes
<1>1. toRt' \in Seq(Calls \X Acts) /\ said' \in [Calls -> SUBSET Acts]
  BY DEF Post
<1>2. \A d \in Calls : said[d] \subseteq said'[d]
  BY DEF Post
<1>3. act \in said'[c]
  BY DEF Post
<1>4. Posted'
  <2> SUFFICES ASSUME NEW i \in DOMAIN toRt' PROVE toRt'[i][2] \in said'[toRt'[i][1]]
    BY DEF Posted
  <2>1. CASE i \in DOMAIN toRt
    <3>1. toRt'[i] = toRt[i] /\ toRt[i][1] \in Calls
      BY <2>1 DEF Post
    <3> QED BY <2>1, <3>1, <1>2 DEF Posted
  <2>2. CASE i = Len(toRt) + 1
    <3>1. toRt'[i] = <<c, act>>
      BY <2>2 DEF Post
    <3> QED BY <3>1, <1>3
  <2>3. i \in DOMAIN toRt \/ i = Len(toRt) + 1
    BY DEF Post
  <2> QED BY <2>1, <2>2, <2>3
<1>5. Heard'
  BY <1>2 DEF Heard
<1> QED
  BY <1>1, <1>2, <1>4, <1>5

\* A posted act is typed and was said; the rest of the post is too.
LEMMA PostedHead ==
  ASSUME BrokerTypes, Posted, toRt # <<>>
  PROVE  /\ Head(toRt)[1] \in Calls /\ Head(toRt)[2] \in Acts
         /\ Head(toRt)[2] \in said[Head(toRt)[1]]
         /\ Tail(toRt) \in Seq(Calls \X Acts)
         /\ \A i \in DOMAIN Tail(toRt) : Tail(toRt)[i] = toRt[i + 1] /\ i + 1 \in DOMAIN toRt
<1>1. Head(toRt) = toRt[1] /\ 1 \in DOMAIN toRt /\ toRt[1] \in Calls \X Acts
  BY DEF BrokerTypes
<1>2. Tail(toRt) \in Seq(Calls \X Acts)
  BY DEF BrokerTypes
<1>3. \A i \in DOMAIN Tail(toRt) : Tail(toRt)[i] = toRt[i + 1] /\ i + 1 \in DOMAIN toRt
  BY DEF BrokerTypes
<1> QED
  BY <1>1, <1>2, <1>3 DEF Posted

\* The actions of the runtime's loop on the approvals.
LEMMA RuntimeKeeps ==
  ASSUME Default = "Deny", BrokerInv,
         (\E c \in Calls : Stage(c) \/ Request(c) \/ TimeOut(c) \/ Return(c)) \/ RunPosted
  PROVE  BrokerInv'
<1> USE DEF BrokerInv
<1>1. ASSUME NEW c \in Calls, Stage(c) PROVE BrokerInv'
  <2>1. StagedCount'
    BY <1>1, StagedKept
  <2>2. BrokerTypes'
    BY <1>1 DEF BrokerTypes, Stage, hopVars
  <2>3. Heard' /\ Cancelled' /\ Posted' /\ AllowedOnlyByTheHuman'
    BY <1>1 DEF Stage, hopVars, Heard, Cancelled, Posted, AllowedOnlyByTheHuman
  <2> QED BY <2>1, <2>2, <2>3
<1>2. ASSUME NEW c \in Calls, Request(c) PROVE BrokerInv'
  <2>1. StagedCount' /\ staged # <<>>
    BY <1>2, StagedKept
  <2>2. Head(staged) \in Calls /\ Tail(staged) \in Seq(Calls) /\ Append(tickets, c) \in Seq(Calls)
    BY <2>1 DEF BrokerTypes
  <2>3. presented' \in Calls \cup {NoCall} /\ toUi' \in Seq(Calls)
    BY <1>2, <2>2, NotifyType DEF Request
  <2>4. BrokerTypes'
    BY <1>2, <2>2, <2>3 DEF BrokerTypes, Request
  <2>5. Heard' /\ Cancelled' /\ Posted' /\ AllowedOnlyByTheHuman'
    BY <1>2 DEF Request, Heard, Cancelled, Posted, AllowedOnlyByTheHuman
  <2> QED BY <2>1, <2>4, <2>5
<1>3. ASSUME NEW c \in Calls, TimeOut(c) PROVE BrokerInv'
  <2>1. BrokerTypes'
    BY <1>3 DEF BrokerTypes, TimeOut, hopVars
  <2>2. StagedCount' /\ Posted' /\ AllowedOnlyByTheHuman'
    BY <1>3 DEF TimeOut, hopVars, StagedCount, AllStaged, Posted, AllowedOnlyByTheHuman
  <2>3. Heard' /\ Cancelled'
    BY <1>3 DEF TimeOut, hopVars, Heard, Cancelled, BrokerTypes
  <2> QED BY <2>1, <2>2, <2>3
<1>4. ASSUME NEW c \in Calls, Return(c) PROVE BrokerInv'
  <2>1. tickets' \in Seq(Calls)
    BY <1>4, WithoutType DEF Return, BrokerTypes
  <2>2. presented' \in Calls \cup {NoCall} /\ toUi' \in Seq(Calls)
    BY <1>4, <2>1, NotifyType DEF Return
  <2>3. StagedCount'
    <3>1. AllStaged' \subseteq AllStaged /\ staged' = staged
      BY <1>4 DEF Return, AllStaged, BrokerTypes
    <3>2. IsFiniteSet(AllStaged)
      BY QueueAssumption, FS_Subset DEF AllStaged
    <3>3. Cardinality(AllStaged') <= Cardinality(AllStaged)
      BY <3>1, <3>2, FS_Subset
    <3>4. Cardinality(AllStaged') \in Nat /\ Cardinality(AllStaged) \in Nat
      BY <3>1, <3>2, FS_Subset, FS_CardinalityType
    <3> QED
      BY <3>1, <3>3, <3>4 DEF StagedCount, BrokerTypes
  <2>4. outcome' \in [Calls -> Options \cup {"none"}]
    BY <1>4, BrokerAssumption DEF Return, BrokerTypes, Cancelled, Open
  <2>5. BrokerTypes'
    BY <1>4, <2>1, <2>2, <2>4 DEF BrokerTypes, Return
  <2>6. AllowedOnlyByTheHuman'
    BY <1>4 DEF Return, AllowedOnlyByTheHuman, Heard, BrokerTypes
  <2>7. Heard' /\ Cancelled' /\ Posted'
    BY <1>4 DEF Return, Heard, Cancelled, Posted
  <2> QED BY <2>3, <2>5, <2>6, <2>7
<1>5. CASE RunPosted
  <2> DEFINE c == Head(toRt)[1]
             act == Head(toRt)[2]
  <2>1. c \in Calls /\ act \in Acts /\ act \in said[c]
    BY <1>5, PostedHead DEF RunPosted
  <2>2. toRt' \in Seq(Calls \X Acts) /\ Posted'
    BY <1>5, PostedHead DEF RunPosted, Posted
  <2>3. /\ UNCHANGED <<phase, staged, detail, tickets, expired, outcome, bar, auto, said>>
        /\ \/ act \in Options /\ Answer(c, act)
           \/ act = "defer" /\ Defer(c)
    BY <1>5 DEF RunPosted
  <2> HIDE DEF c, act
  <2>4. /\ \/ future' = future
           \/ future' = Resolved(c, act) /\ act \in Options
           \/ future' = Resolved(c, "Deny")
        /\ presented' \in Calls \cup {NoCall} /\ toUi' \in Seq(Calls)
        /\ deferred' \subseteq Calls
    <3>1. tickets' \in Seq(Calls) /\ tickets' = tickets
      BY <2>3 DEF BrokerTypes
    <3>2. CASE act \in Options /\ Answer(c, act)
      BY <3>2 DEF Answer, BrokerTypes
    <3>3. CASE act = "defer" /\ Defer(c)
      <4>1. CASE UNCHANGED <<future, deferred, items, presented, toUi>>
        BY <4>1 DEF BrokerTypes
      <4>2. CASE deferred' = deferred \cup {c} /\ future' = Resolved(c, "Deny") /\ Notify
        <5>1. presented' \in Calls \cup {NoCall} /\ toUi' \in Seq(Calls)
          BY <4>2, <3>1, NotifyType
        <5> QED BY <5>1, <4>2, <2>1, <3>3 DEF BrokerTypes
      <4> QED BY <3>3, <4>1, <4>2 DEF Defer
    <3> QED BY <2>3, <3>2, <3>3
  <2>5. future' \in [Calls -> Options \cup {"unset", "cancelled"}]
    BY <2>4 DEF BrokerTypes, Resolved, Options
  <2>6. \A d \in Calls : future'[d] = "cancelled" => future[d] = "cancelled"
    BY <2>4 DEF BrokerTypes, Resolved, Options
  <2>9. \A d \in Calls : future'[d] = "Allow" => future[d] = "Allow" \/ (d = c /\ act = "Allow")
    BY <2>4 DEF BrokerTypes, Resolved
  <2>7. BrokerTypes'
    BY <2>2, <2>3, <2>4, <2>5 DEF BrokerTypes
  <2>8. StagedCount' /\ Heard' /\ Cancelled' /\ AllowedOnlyByTheHuman'
    BY <2>1, <2>3, <2>6, <2>9 DEF StagedCount, AllStaged, Heard, Cancelled, AllowedOnlyByTheHuman
  <2> QED BY <2>2, <2>7, <2>8
<1> QED
  BY <1>1, <1>2, <1>3, <1>4, <1>5

\* The actions of the user interface.
LEMMA InterfaceKeeps ==
  ASSUME BrokerInv, Present \/ (\E act \in Acts : Decide(act)) \/ ToggleAuto
  PROVE  BrokerInv'
<1> USE DEF BrokerInv
<1>1. CASE Present
  <2>1. Head(toUi) \in Calls /\ toUi' \in Seq(Calls) /\ "defer" \in Acts
    BY <1>1 DEF Present, BrokerTypes, Acts
  <2>2. UNCHANGED <<brokerVars, presented, auto>>
    BY <1>1 DEF Present
  <2>3. CASE auto
    <3>1. Post(Head(toUi), "defer") /\ bar' = bar
      BY <1>1, <2>3 DEF Present
    <3>2. /\ toRt' \in Seq(Calls \X Acts) /\ said' \in [Calls -> SUBSET Acts]
          /\ Heard' /\ Posted' /\ \A d \in Calls : said[d] \subseteq said'[d]
      BY <2>1, <2>2, <3>1, PostKept DEF brokerVars
    <3>3. BrokerTypes'
      BY <2>1, <2>2, <3>1, <3>2 DEF BrokerTypes, brokerVars
    <3>4. StagedCount' /\ Cancelled' /\ AllowedOnlyByTheHuman'
      BY <2>2, <3>2 DEF StagedCount, AllStaged, Cancelled, AllowedOnlyByTheHuman, brokerVars
    <3> QED BY <3>2, <3>3, <3>4
  <2>4. CASE ~auto
    <3>1. bar' = Head(toUi) /\ UNCHANGED <<toRt, said>>
      BY <1>1, <2>4 DEF Present
    <3>2. BrokerTypes'
      BY <2>1, <2>2, <3>1 DEF BrokerTypes, brokerVars
    <3>3. StagedCount' /\ Heard' /\ Cancelled' /\ Posted' /\ AllowedOnlyByTheHuman'
      BY <2>2, <3>1
      DEF StagedCount, AllStaged, Heard, Cancelled, Posted, AllowedOnlyByTheHuman, brokerVars
    <3> QED BY <3>2, <3>3
  <2> QED BY <2>3, <2>4
<1>2. ASSUME NEW act \in Acts, Decide(act) PROVE BrokerInv'
  <2>1. bar \in Calls /\ bar' = NoCall /\ Post(bar, act) /\ UNCHANGED <<brokerVars, presented, toUi, auto>>
    BY <1>2 DEF Decide, BrokerTypes
  <2>2. /\ toRt' \in Seq(Calls \X Acts) /\ said' \in [Calls -> SUBSET Acts]
        /\ Heard' /\ Posted' /\ \A d \in Calls : said[d] \subseteq said'[d]
    BY <2>1, PostKept DEF brokerVars
  <2>3. BrokerTypes'
    BY <2>1, <2>2 DEF BrokerTypes, brokerVars
  <2>4. StagedCount' /\ Cancelled' /\ AllowedOnlyByTheHuman'
    BY <2>1, <2>2 DEF StagedCount, AllStaged, Cancelled, AllowedOnlyByTheHuman, brokerVars
  <2> QED BY <2>2, <2>3, <2>4
<1>3. CASE ToggleAuto
  <2>1. auto' = ~auto /\ UNCHANGED <<brokerVars, presented, toUi, toRt, bar, said>>
    BY <1>3 DEF ToggleAuto
  <2>2. BrokerTypes'
    BY <2>1 DEF BrokerTypes, brokerVars
  <2>3. StagedCount' /\ Heard' /\ Cancelled' /\ Posted' /\ AllowedOnlyByTheHuman'
    BY <2>1
    DEF StagedCount, AllStaged, Heard, Cancelled, Posted, AllowedOnlyByTheHuman, brokerVars
  <2> QED BY <2>2, <2>3
<1> QED
  BY <1>1, <1>2, <1>3

\* Every other step leaves the approvals alone.
LEMMA StutterKeeps ==
  ASSUME BrokerInv, UNCHANGED <<brokerVars, hopVars>>
  PROVE  BrokerInv'
<1>1. BrokerTypes'
  BY DEF BrokerInv, BrokerTypes, brokerVars, hopVars
<1>2. StagedCount' /\ Heard' /\ Cancelled' /\ Posted' /\ AllowedOnlyByTheHuman'
  BY DEF BrokerInv, StagedCount, AllStaged, Heard, Cancelled, Posted, AllowedOnlyByTheHuman,
         brokerVars, hopVars
<1> QED
  BY <1>1, <1>2 DEF BrokerInv

LEMMA BrokerInvStep ==
  ASSUME Default = "Deny", BrokerInv, [Next]_vars
  PROVE  BrokerInv'
<1>1. CASE BrokerNext
  BY <1>1, RuntimeKeeps, InterfaceKeeps DEF BrokerNext
<1>2. CASE ToolNext
  <2>1. UNCHANGED <<brokerVars, hopVars>>
    BY <1>2
    DEF ToolNext, Ask, Park, Leave, Subscribe, Finish, ProviderRequest, Ring
  <2> QED BY <2>1, StutterKeeps
<1>3. CASE \E i \in DOMAIN items : AnswerItem(i) /\ UNCHANGED <<brokerVars, hopVars, toolVars>>
  BY <1>3, StutterKeeps
<1>4. CASE UNCHANGED vars
  BY <1>4, StutterKeeps DEF vars
<1> QED
  BY <1>1, <1>2, <1>3, <1>4 DEF Next

LEMMA BrokerInvInit ==
  ASSUME Init PROVE BrokerInv
<1>1. BrokerTypes
  <2>1. \A S : <<>> \in Seq(S)
    OBVIOUS
  <2>2. staged \in Seq(Calls) /\ tickets \in Seq(Calls) /\ toUi \in Seq(Calls)
    BY <2>1 DEF Init, BrokerInit
  <2>3. toRt \in Seq(Calls \X Acts)
    BY <2>1, Zenon DEF Init, BrokerInit
  <2> QED
    BY <2>2, <2>3 DEF Init, BrokerInit, BrokerTypes
<1>4. Heard /\ Cancelled /\ Posted /\ AllowedOnlyByTheHuman
  BY DEF Init, BrokerInit, Heard, Cancelled, Posted, AllowedOnlyByTheHuman, Options
<1>2. AllStaged = {} /\ Len(staged) = 0
  BY DEF Init, BrokerInit, AllStaged
<1>3. StagedCount
  BY <1>2, FS_EmptySet DEF StagedCount
<1> QED
  BY <1>1, <1>3, <1>4 DEF BrokerInv

-----------------------------------------------------------------------------
(* The question tool: whose items it may touch, at each of its stages.      *)

InToolStages == {"parking", "leaving", "waiting", "set"}

\* While q runs, nobody takes its items from it; what it has seen is what was
\* answered; a failed q has withdrawn what nobody answered.
OwnedBy(q) ==
  /\ asked[q] = "idle" => Of(q) = {}
  /\ asked[q] \in {"idle", "parking", "leaving"} => seen[q] = {}
  /\ asked[q] \in InToolStages => Of(q) \subseteq Active
  /\ asked[q] \in {"waiting", "set"} => seen[q] \subseteq Of(q) \cap With("answered")
  /\ asked[q] = "set" => seen[q] = Of(q)
  /\ asked[q] = "failed" => Of(q) \cap With("pending") = {}

ToolTypes ==
  /\ ringing \in BOOLEAN
  /\ asked \in [Questions -> Stages]
  /\ seen \in [Questions -> SUBSET DOMAIN items]

ToolInv == QueueInv /\ ToolTypes /\ \A q \in Questions : OwnedBy(q)

\* A step of somebody else leaves a question what it owns, if it takes none of
\* its items while the question runs and makes none of them pending.
LEMMA OwnedKept ==
  ASSUME NEW q, OwnedBy(q), asked'[q] = asked[q], seen'[q] = seen[q],
         Of(q)' = Of(q), Of(q) \cap With("pending")' \subseteq With("pending"),
         asked[q] \in InToolStages => /\ Of(q) \cap Active \subseteq Active'
                                      /\ Of(q) \cap With("answered") \subseteq With("answered")'
  PROVE  OwnedBy(q)'
BY DEF OwnedBy, InToolStages

\* Parking for x leaves the other questions what they own.
LEMMA ParkedOwned ==
  ASSUME items \in Seq(Items), NEW x \in Calls \cup Questions, items' = Parked(x),
         NEW q, q # x, OwnedBy(q), asked'[q] = asked[q], seen'[q] = seen[q]
  PROVE  OwnedBy(q)'
<1>1. /\ Of(q)' = Of(q)
      /\ With("pending")' = With("pending") \cup {Len(items) + 1}
      /\ With("answered")' = With("answered")
      /\ Len(items) + 1 \notin DOMAIN items
  BY ParkedSets DEF Statuses
<1>2. Of(q) \subseteq DOMAIN items
  BY DEF Of
<1>3. Of(q) \cap With("pending")' \subseteq With("pending")
  BY <1>1, <1>2
<1>4. Of(q) \cap Active \subseteq Active'
  BY <1>1 DEF Active
<1> QED
  BY <1>1, <1>3, <1>4, OwnedKept

\* So does moving items that are not its own, and answering one that is.
LEMMA MovedOwned ==
  ASSUME items \in Seq(Items), NEW I \in SUBSET DOMAIN items, NEW J \in SUBSET DOMAIN items,
         NEW st \in {"answered", "consumed", "dismissed"},
         \A i \in J : items[i].told = 0, items' = Moved(I, st, J),
         NEW q, OwnedBy(q), asked'[q] = asked[q], seen'[q] = seen[q],
         \/ I \cap Of(q) = {}
         \/ st = "answered"
         \/ asked[q] \notin InToolStages
  PROVE  OwnedBy(q)'
<1>1. /\ Of(q)' = Of(q)
      /\ With(st)' = With(st) \cup I
      /\ \A s \in Statuses \ {st} : With(s)' = With(s) \ I
  <2>1. items \in Seq(Items) /\ \A i \in J : items[i].told = 0
    OBVIOUS
  <2>2. I \in SUBSET DOMAIN items /\ J \in SUBSET DOMAIN items /\ st \in Statuses
    BY DEF Statuses
  <2>3. items' = Moved(I, st, J)
    OBVIOUS
  <2>4. MovesOnly(I, st, J)
    BY ONLY <2>1, <2>2, <2>3, MovedSets
  <2> QED
    BY ONLY <2>4 DEF MovesOnly
<1>2. With("pending")' = With("pending") \ I
  BY <1>1 DEF Statuses
<1>3. ASSUME asked[q] \in InToolStages
      PROVE  /\ Of(q) \cap Active \subseteq Active'
             /\ Of(q) \cap With("answered") \subseteq With("answered")'
  <2>1. CASE st = "answered"
    BY <1>1, <1>2, <2>1 DEF Active
  <2>2. CASE st # "answered" /\ I \cap Of(q) = {}
    BY <1>1, <1>2, <2>2 DEF Active, Statuses
  <2> QED
    BY <1>3, <2>1, <2>2
<1> QED
  BY <1>1, <1>2, <1>3, OwnedKept

\* The item of a question is not that of another, nor of a call.
LEMMA OfDisjoint ==
  ASSUME NEW x, NEW y, x # y
  PROVE  Of(x) \cap Of(y) = {}
BY DEF Of

\* The approvals park for themselves, within the room of the queue.
LEMMA BrokerItems ==
  ASSUME BrokerInv, BrokerNext
  PROVE  /\ items' = items \/ (~Full /\ \E c \in Calls : items' = Parked(c))
         /\ ringing' = ringing
<1>1. CASE RunPosted
  <2>1. Head(toRt)[1] \in Calls
    BY <1>1, PostedHead DEF RunPosted, BrokerInv
  <2> QED
    BY <1>1, <2>1 DEF RunPosted, Answer, Defer
<1>2. CASE ~RunPosted
  BY <1>2 DEF BrokerNext, Stage, Request, TimeOut, Return, Present, Decide, ToggleAuto
<1> QED
  BY <1>1, <1>2

\* A step that leaves the tool alone and parks at most for an approval.
LEMMA ApprovalStep ==
  ASSUME BrokerInv, ToolInv, BrokerNext, UNCHANGED toolVars
  PROVE  ToolInv'
<1> USE DEF ToolInv
<1>1. items' = items \/ (~Full /\ \E c \in Calls : items' = Parked(c))
  BY BrokerItems
<1>2. ringing' = ringing /\ asked' = asked /\ seen' = seen
  BY BrokerItems DEF toolVars
<1>3. CASE items' = items
  <2>1. QueueInv'
    BY <1>3 DEF QueueInv, Active, With, AnswerToldOnce
  <2>2. ToolTypes'
    BY <1>2, <1>3 DEF ToolTypes
  <2>3. \A q \in Questions : OwnedBy(q)'
    BY <1>2, <1>3 DEF OwnedBy, Of, With, Active
  <2> QED BY <2>1, <2>2, <2>3
<1>4. ASSUME ~Full, NEW c \in Calls, items' = Parked(c) PROVE ToolInv'
  <2>1. QueueInv'
    BY <1>4, ParkedKeeps
  <2>2. DOMAIN items \subseteq DOMAIN items'
    BY <1>4, ParkedSets DEF QueueInv
  <2>3. ToolTypes'
    BY <1>2, <2>2 DEF ToolTypes
  <2>4. ASSUME NEW q \in Questions PROVE OwnedBy(q)'
    <3>1. q # c
      BY QueueAssumption
    <3> QED BY <1>2, <1>4, <3>1, ParkedOwned DEF QueueInv
  <2> QED BY <2>1, <2>3, <2>4
<1> QED
  BY <1>1, <1>3, <1>4

\* The human answers an item.
LEMMA AnswerStep ==
  ASSUME ToolInv, NEW i \in DOMAIN items, AnswerItem(i), UNCHANGED toolVars
  PROVE  ToolInv'
<1> USE DEF ToolInv
<1>1. asked' = asked /\ seen' = seen /\ ringing' \in BOOLEAN
  BY DEF toolVars, AnswerItem
<1>2. {i} \in SUBSET Active /\ {i} \in SUBSET DOMAIN items /\ {} \in SUBSET {i} /\ items' = Moved({i}, "answered", {})
  BY DEF AnswerItem, Active
<1>3. QueueInv'
  BY <1>2, MovedKeeps
<1>4. DOMAIN items' = DOMAIN items
  BY <1>2 DEF Moved
<1>5. ToolTypes'
  BY <1>1, <1>4 DEF ToolTypes
<1>6. ASSUME NEW q \in Questions PROVE OwnedBy(q)'
  BY <1>1, <1>2, MovedOwned DEF QueueInv
<1> QED
  BY <1>3, <1>5, <1>6

\* A step that changes no item keeps the queue and all that is said of others.
LEMMA SameItems ==
  ASSUME ToolInv, items' = items, ringing' \in BOOLEAN,
         asked' \in [Questions -> Stages], seen' \in [Questions -> SUBSET DOMAIN items]
  PROVE  /\ QueueInv' /\ ToolTypes'
         /\ \A q : Of(q)' = Of(q)
         /\ \A s : With(s)' = With(s)
         /\ Active' = Active
<1>1. /\ \A q : Of(q)' = Of(q)
      /\ \A s : With(s)' = With(s)
  BY DEF Of, With
<1>2. Active' = Active
  BY DEF Active, With
<1> QED
  BY <1>1, <1>2 DEF ToolInv, QueueInv, ToolTypes, AnswerToldOnce

\* The answers a question takes are its own, and it ends when it has them all.
LEMMA ResolveStep ==
  ASSUME ToolInv, NEW Q \in SUBSET Questions, \A q \in Q : asked[q] \in {"parking", "waiting"},
         Resolve(Q), items' = items, ringing' \in BOOLEAN
  PROVE  ToolInv'
<1> USE DEF ToolInv
<1> DEFINE now == [q \in Questions |-> IF q \in Q THEN seen[q] \cup (Of(q) \ With("pending")) ELSE seen[q]]
<1>1. /\ seen' = now
      /\ asked' = [q \in Questions |-> IF q \in Q /\ now[q] = Of(q) THEN "set" ELSE
                                       IF q \in Q THEN "waiting" ELSE asked[q]]
  BY DEF Resolve
<1>2. \A q \in Questions : Of(q) \subseteq DOMAIN items
  BY DEF Of
<1>3. now \in [Questions -> SUBSET DOMAIN items]
  BY <1>2 DEF ToolTypes
<1>4. asked' \in [Questions -> Stages]
  <2> HIDE DEF now
  <2> QED BY <1>1 DEF ToolTypes, Stages
<1>5. /\ QueueInv' /\ ToolTypes'
      /\ \A q : Of(q)' = Of(q)
      /\ \A s : With(s)' = With(s)
      /\ Active' = Active
  BY <1>1, <1>3, <1>4, SameItems
<1>6. ASSUME NEW q \in Questions PROVE OwnedBy(q)'
  <2>1. CASE q \in Q
    <3>1. Of(q) \subseteq Active /\ seen[q] \subseteq Of(q) \cap With("answered")
      BY <2>1 DEF OwnedBy, InToolStages
    <3>2. now[q] \subseteq Of(q) \cap With("answered")
      BY <2>1, <3>1 DEF Active
    <3>3. seen'[q] = now[q] /\ asked'[q] = IF now[q] = Of(q) THEN "set" ELSE "waiting"
      <4> HIDE DEF now
      <4> QED BY <1>1, <2>1
    <3> HIDE DEF now
    <3>4. /\ asked'[q] \in {"waiting", "set"}
          /\ seen'[q] \subseteq Of(q)' \cap With("answered")'
          /\ asked'[q] = "set" => seen'[q] = Of(q)'
          /\ Of(q)' \subseteq Active'
      BY <1>5, <3>1, <3>2, <3>3
    <3> QED
      BY <3>4 DEF OwnedBy
  <2>2. CASE q \notin Q
    <3>1. seen'[q] = seen[q] /\ asked'[q] = asked[q]
      BY <1>1, <2>2
    <3> QED BY <1>5, <3>1 DEF OwnedBy
  <2> QED BY <2>1, <2>2
<1> QED
  BY <1>5, <1>6

\* A question moves on without touching the items: it starts, or it leaves.
LEMMA StageStep ==
  ASSUME ToolInv, NEW q \in Questions, Ask(q) \/ Leave(q)
  PROVE  ToolInv'
<1> USE DEF ToolInv
<1>1. /\ items' = items /\ ringing' = ringing /\ seen' = seen
      /\ asked' \in [Questions -> Stages]
      /\ \A p \in Questions \ {q} : asked'[p] = asked[p]
      /\ \/ asked[q] = "idle" /\ asked'[q] \in {"parking", "leaving"}
         \/ asked'[q] = "done"
  BY DEF Ask, Leave, ToolTypes, Stages
<1>2. /\ QueueInv' /\ ToolTypes'
      /\ \A p : Of(p)' = Of(p)
      /\ \A s : With(s)' = With(s)
      /\ Active' = Active
  <2>1. ringing' \in BOOLEAN /\ seen' \in [Questions -> SUBSET DOMAIN items]
    BY <1>1 DEF ToolTypes
  <2> QED BY <1>1, <2>1, SameItems
<1>3. ASSUME NEW p \in Questions PROVE OwnedBy(p)'
  <2>1. CASE p = q
    BY <1>1, <1>2, <2>1 DEF OwnedBy, InToolStages
  <2>2. CASE p # q
    BY <1>1, <1>2, <2>2 DEF OwnedBy
  <2> QED BY <2>1, <2>2
<1> QED
  BY <1>2, <1>3

\* A prompt is parked, or the question fails and withdraws what it parked.
LEMMA ParkStep ==
  ASSUME ToolInv, NEW q \in Questions, Park(q)
  PROVE  ToolInv'
<1> USE DEF ToolInv
<1>1. /\ ringing' = ringing /\ seen' = seen /\ asked[q] \in {"parking", "leaving"}
      /\ asked' \in [Questions -> Stages]
      /\ \A p \in Questions \ {q} : asked'[p] = asked[p]
  BY DEF Park, ToolTypes, Stages
<1>2. CASE ~Full
  <2>1. items' = Parked(q) /\ asked'[q] = asked[q]
    BY <1>2 DEF Park, ToolTypes
  <2>2. QueueInv'
    BY <1>2, <2>1, ParkedKeeps
  <2>3. /\ DOMAIN items \subseteq DOMAIN items'
        /\ With("pending")' = With("pending") \cup {Len(items) + 1}
        /\ With("answered")' = With("answered")
        /\ Of(q)' = Of(q) \cup {Len(items) + 1}
    BY <2>1, ParkedSets DEF QueueInv, Statuses
  <2>4. ToolTypes'
    BY <1>1, <2>3 DEF ToolTypes
  <2>5. OwnedBy(q)'
    BY <1>1, <2>1, <2>3 DEF OwnedBy, InToolStages, Active
  <2>6. ASSUME NEW p \in Questions \ {q} PROVE OwnedBy(p)'
    BY <1>1, <2>1, ParkedOwned DEF QueueInv
  <2> QED BY <2>2, <2>4, <2>5, <2>6
<1>3. CASE Full
  <2> DEFINE I == Of(q) \cap With("pending")
  <2>1. items' = Moved(I, "dismissed", {}) /\ asked'[q] = "failed"
    BY <1>3 DEF Park, Rollback, ToolTypes
  <2>2. I \in SUBSET Active /\ I \in SUBSET DOMAIN items /\ {} \in SUBSET I /\ I \subseteq Of(q)
    BY DEF Active, Of
  <2>3. /\ Of(q)' = Of(q)
        /\ With("pending")' = With("pending") \ I
        /\ DOMAIN items' = DOMAIN items
    <3>1. DOMAIN items' = DOMAIN items
      BY <2>1 DEF Moved
    <3>2. \A i \in DOMAIN items : /\ items'[i].from = items[i].from
                                  /\ items'[i].status = IF i \in I THEN "dismissed" ELSE items[i].status
      <4> TAKE i \in DOMAIN items
      <4> HIDE DEF I
      <4>1. items[i] \in Items
        BY DEF QueueInv
      <4>2. items'[i] = [items[i] EXCEPT !.status = IF i \in I THEN "dismissed" ELSE @, !.told = @]
        BY <2>1 DEF Moved
      <4> QED BY <4>1, <4>2 DEF Items
    <3> HIDE DEF I
    <3> QED BY <3>1, <3>2 DEF Of, With
  <2> HIDE DEF I
  <2>4. QueueInv'
    BY <2>1, <2>2, MovedKeeps
  <2>5. ToolTypes'
    BY <1>1, <2>3 DEF ToolTypes
  <2>6. OwnedBy(q)'
    BY <2>1, <2>3 DEF OwnedBy, InToolStages, I
  <2>7. ASSUME NEW p \in Questions \ {q} PROVE OwnedBy(p)'
    <3>1. I \cap Of(p) = {}
      BY <2>2, OfDisjoint
    <3>2. items \in Seq(Items) /\ OwnedBy(p) /\ asked'[p] = asked[p] /\ seen'[p] = seen[p]
      BY <1>1 DEF QueueInv
    <3> QED BY <2>1, <2>2, <3>1, <3>2, MovedOwned
  <2> QED BY <2>4, <2>5, <2>6, <2>7
<1> QED
  BY <1>2, <1>3

\* A question that has every answer takes its items with it.
LEMMA FinishStep ==
  ASSUME ToolInv, NEW q \in Questions, Finish(q)
  PROVE  ToolInv'
<1> USE DEF ToolInv
<1>1. /\ ringing' = ringing /\ seen' = seen /\ asked[q] = "set"
      /\ asked' \in [Questions -> Stages] /\ asked'[q] = "done"
      /\ \A p \in Questions \ {q} : asked'[p] = asked[p]
  BY DEF Finish, ToolTypes, Stages
<1>2. seen[q] = Of(q) /\ Of(q) \subseteq With("answered")
  BY <1>1 DEF OwnedBy
<1> DEFINE I == Of(q)
<1>3. items' = Moved(I, "consumed", I) /\ I \in SUBSET Active /\ I \in SUBSET DOMAIN items
  BY <1>2 DEF Finish, Active, Of
<1>4. \A i \in I : items[i].told = 0
  BY <1>2, <1>3 DEF QueueInv, AnswerToldOnce, With
<1> HIDE DEF I
<1>5. QueueInv'
  BY <1>3, MovedKeeps
<1>6. DOMAIN items' = DOMAIN items
  BY <1>3 DEF Moved
<1>7. ToolTypes'
  BY <1>1, <1>6 DEF ToolTypes
<1>8. OwnedBy(q)'
  BY <1>1 DEF OwnedBy, InToolStages
<1>9. ASSUME NEW p \in Questions \ {q} PROVE OwnedBy(p)'
  <2>1. I \cap Of(p) = {}
    BY OfDisjoint DEF I
  <2>2. items \in Seq(Items) /\ OwnedBy(p) /\ asked'[p] = asked[p] /\ seen'[p] = seen[p]
    BY <1>1 DEF QueueInv
  <2> QED BY <1>3, <1>4, <2>1, <2>2, MovedOwned
<1> QED
  BY <1>5, <1>7, <1>8, <1>9

\* The bridge takes what is answered, when no question is running.
LEMMA BridgeStep ==
  ASSUME ToolInv, ProviderRequest
  PROVE  ToolInv'
<1> USE DEF ToolInv
<1> DEFINE I == With("answered")
<1>1. /\ ringing' = ringing /\ seen' = seen /\ asked' = asked
      /\ items' = Moved(I, "consumed", I)
  BY DEF ProviderRequest, toolVars
<1>2. I \in SUBSET Active /\ I \in SUBSET DOMAIN items /\ \A i \in I : items[i].told = 0
  BY DEF Active, With, QueueInv, AnswerToldOnce
<1> HIDE DEF I
<1>3. QueueInv'
  BY <1>1, <1>2, MovedKeeps
<1>4. DOMAIN items' = DOMAIN items
  BY <1>1 DEF Moved
<1>5. ToolTypes'
  BY <1>1, <1>4 DEF ToolTypes
<1>6. ASSUME NEW q \in Questions PROVE OwnedBy(q)'
  <2>1. asked[q] \notin InToolStages
    BY DEF ProviderRequest, InTool, InToolStages
  <2>2. items \in Seq(Items) /\ OwnedBy(q) /\ asked'[q] = asked[q] /\ seen'[q] = seen[q]
    BY <1>1 DEF QueueInv
  <2> QED BY <1>1, <1>2, <2>1, <2>2, MovedOwned
<1> QED
  BY <1>3, <1>5, <1>6

LEMMA ToolInvStep ==
  ASSUME BrokerInv, ToolInv, [Next]_vars
  PROVE  ToolInv'
<1>1. CASE BrokerNext /\ UNCHANGED toolVars
  BY <1>1, ApprovalStep
<1>2. ASSUME NEW q \in Questions, Subscribe(q) PROVE ToolInv'
  <2>1. /\ Resolve({q}) /\ {q} \in SUBSET Questions /\ \A p \in {q} : asked[p] \in {"parking", "waiting"}
        /\ items' = items /\ ringing' \in BOOLEAN
    BY <1>2 DEF Subscribe, ToolInv, ToolTypes
  <2> QED BY <2>1, ResolveStep
<1>3. CASE Ring
  <2>1. /\ Resolve(Waiting) /\ Waiting \in SUBSET Questions
        /\ \A p \in Waiting : asked[p] \in {"parking", "waiting"}
        /\ items' = items /\ ringing' \in BOOLEAN
    BY <1>3 DEF Ring, Waiting
  <2> QED BY <2>1, ResolveStep
<1>4. CASE ToolNext
  BY <1>2, <1>3, <1>4, StageStep, ParkStep, FinishStep, BridgeStep DEF ToolNext
<1>5. CASE \E i \in DOMAIN items : AnswerItem(i) /\ UNCHANGED <<brokerVars, hopVars, toolVars>>
  <2>1. PICK i \in DOMAIN items : AnswerItem(i) /\ UNCHANGED toolVars
    BY <1>5
  <2> QED BY <2>1, AnswerStep
<1>6. CASE UNCHANGED vars
  BY <1>6 DEF vars, toolVars, ToolInv, QueueInv, ToolTypes, OwnedBy, Of, With, Active, AnswerToldOnce
<1> QED
  BY <1>1, <1>4, <1>5, <1>6 DEF Next

LEMMA ToolInvInit ==
  ASSUME Init PROVE ToolInv
<1>1. items = <<>> /\ ringing = FALSE /\ asked = [q \in Questions |-> "idle"]
      /\ seen = [q \in Questions |-> {}]
  BY DEF Init, BrokerInit, QueueInit
<1>2. DOMAIN items = {} /\ items \in Seq(Items)
  BY <1>1
<1>3. Active = {} /\ \A q : Of(q) = {}
  BY <1>2 DEF Active, With, Of
<1>4. QueueInv
  BY <1>2, <1>3, FS_EmptySet, QueueAssumption DEF QueueInv, AnswerToldOnce
<1>5. ToolTypes
  BY <1>1 DEF ToolTypes, Stages
<1>6. \A q \in Questions : OwnedBy(q)
  BY <1>1, <1>3 DEF OwnedBy, InToolStages
<1> QED
  BY <1>4, <1>5, <1>6 DEF ToolInv

-----------------------------------------------------------------------------
(* The bar: what was presented, what is on its way, what was said.          *)

\* The tickets that can still be answered; head is the oldest of them.
Live == {c \in Open : c \notin deferred /\ future[c] = "unset"}

InUi(c) == \E i \in DOMAIN toUi : toUi[i] = c

Token(c) == InUi(c) \/ bar = c \/ said[c] # {}

\* A waiting call has one ticket.
Ticketed ==
  /\ \A i, j \in DOMAIN tickets : tickets[i] = tickets[j] => i = j
  /\ \A c \in Calls : c \in Open <=> phase[c] = "waiting"

\* A call is under way to the bar, in the bar, or decided, and one of them once.
PutOnce ==
  /\ \A i, j \in DOMAIN toUi : toUi[i] = toUi[j] => i = j
  /\ \A c \in Calls : InUi(c) => bar # c /\ said[c] = {}
  /\ bar # NoCall => said[bar] = {}
  /\ \A c \in Calls : \A act \in said[c] : said[c] = {act}

\* What was presented last is the head, unless its answer is still unheard; and
\* nothing that was presented before can be answered any more.
PresentedIsHead ==
  /\ presented = head \/ (presented \in Open /\ future[presented] # "unset")
  /\ \A c \in Calls :
       Token(c) => c = presented \/ (phase[c] \in {"waiting", "done"} /\ c \notin Live)

\* A presented ticket that can be answered is the last on its way to the bar, or
\* in the bar with nothing to replace it, or its decision is on its way back.
UnderWay ==
  presented \in Live =>
    \/ toUi # <<>> /\ toUi[Len(toUi)] = presented
    \/ toUi = <<>> /\ bar = presented
    \/ \E i \in DOMAIN toRt : toRt[i][1] = presented

BarInv == Ticketed /\ PutOnce /\ PresentedIsHead /\ UnderWay

\* The oldest is at the first position, and what is at the first is the oldest.
LEMMA OldestFirst ==
  ASSUME NEW T, NEW I \in SUBSET Nat, I # {}
  PROVE  \E k \in I : Oldest(T, I) = T[k] /\ \A j \in I : k <= j
<1> DEFINE k == CHOOSE i \in I : \A j \in I : i <= j
<1>1. k \in I /\ \A j \in I : k <= j
  BY FirstExists
<1>2. Oldest(T, I) = T[k]
  BY DEF Oldest
<1> HIDE DEF k
<1> QED
  BY <1>1, <1>2

LEMMA OldestIs ==
  ASSUME NEW T, NEW I \in SUBSET Nat, NEW k \in I, \A j \in I : k <= j
  PROVE  Oldest(T, I) = T[k]
<1>1. PICK n \in I : Oldest(T, I) = T[n] /\ \A j \in I : n <= j
  BY OldestFirst
<1>2. n = k
  BY <1>1
<1> QED
  BY <1>1, <1>2

LEMMA AnswerableLive ==
  ASSUME BrokerTypes
  PROVE  /\ \A i : i \in Answerable <=> i \in DOMAIN tickets /\ tickets[i] \in Live
         /\ Answerable \in SUBSET Nat /\ Live \subseteq Open /\ Open \subseteq Calls
         /\ NoCall \notin Calls /\ \A c \in Open : \E i \in DOMAIN tickets : tickets[i] = c
<1>1. tickets \in Seq(Calls) /\ NoCall \notin Calls
  BY BrokerAssumption DEF BrokerTypes
<1>2. \A i \in DOMAIN tickets : i \in Nat /\ tickets[i] \in Calls
  BY <1>1
<1>. QED
  BY <1>1, <1>2 DEF Answerable, Live, Open

\* The head is a ticket that can be answered, and there is one if any can.
LEMMA HeadFacts ==
  ASSUME BrokerTypes
  PROVE  /\ head = NoCall => Live = {}
         /\ head # NoCall => \E k \in Answerable : /\ tickets[k] = head /\ head \in Live
                                                   /\ \A j \in Answerable : k <= j
<1>1. CASE Answerable = {}
  BY <1>1, AnswerableLive DEF head, Oldest
<1>2. CASE Answerable # {}
  <2>1. PICK k \in Answerable : head = tickets[k] /\ \A j \in Answerable : k <= j
    BY <1>2, AnswerableLive, OldestFirst DEF head
  <2>. QED
    BY <2>1, AnswerableLive
<1>. QED
  BY <1>1, <1>2

\* The same after a step.
LEMMA NextHead ==
  ASSUME BrokerTypes'
  PROVE  /\ \A i : i \in Answerable' <=> i \in DOMAIN tickets' /\ tickets'[i] \in Live'
         /\ Answerable' \in SUBSET Nat /\ Live' \subseteq Open' /\ Open' \subseteq Calls
         /\ head' = NoCall \/ head' \in Live'
         /\ Live' = {} => head' = NoCall
<1>1. tickets' \in Seq(Calls) /\ NoCall \notin Calls
  BY BrokerAssumption DEF BrokerTypes
<1>2. \A i \in DOMAIN tickets' : i \in Nat /\ tickets'[i] \in Calls
  BY <1>1
<1>3. /\ \A i : i \in Answerable' <=> i \in DOMAIN tickets' /\ tickets'[i] \in Live'
      /\ Answerable' \in SUBSET Nat /\ Live' \subseteq Open' /\ Open' \subseteq Calls
      /\ \A c \in Open' : \E i \in DOMAIN tickets' : tickets'[i] = c
  BY <1>1, <1>2 DEF Answerable, Live, Open
<1>4. head' = Oldest(tickets', Answerable')
  BY DEF head, Oldest
<1>5. CASE Answerable' = {}
  BY <1>3, <1>4, <1>5 DEF Oldest
<1>6. CASE Answerable' # {}
  <2>1. PICK k \in Answerable' : head' = tickets'[k]
    BY <1>3, <1>4, <1>6, OldestFirst
  <2>. QED
    BY <1>3, <2>1
<1>. QED
  BY <1>3, <1>5, <1>6

\* Removing a ticket keeps the order of the others.
LEMMA WithoutKeeps ==
  ASSUME BrokerTypes, Ticketed, NEW c \in Open
  PROVE  \E m \in DOMAIN tickets :
           /\ tickets[m] = c /\ Without(c) \in Seq(Calls)
           /\ Len(Without(c)) = Len(tickets) - 1
           /\ \A i \in 1 .. Len(tickets) - 1 :
                Without(c)[i] = IF i < m THEN tickets[i] ELSE tickets[i + 1]
<1>. DEFINE m == CHOOSE i \in DOMAIN tickets : tickets[i] = c
<1>1. m \in DOMAIN tickets /\ tickets[m] = c
  BY DEF Open
<1>2. Without(c) = SubSeq(tickets, 1, m - 1) \o SubSeq(tickets, m + 1, Len(tickets))
  BY DEF Without
<1>3. tickets \in Seq(Calls)
  BY DEF BrokerTypes
<1>. HIDE DEF m
<1>4. m \in 1 .. Len(tickets) /\ Len(tickets) \in Nat
  BY <1>1, <1>3
<1>. DEFINE a == SubSeq(tickets, 1, m - 1)
            b == SubSeq(tickets, m + 1, Len(tickets))
<1>5. a \in Seq(Calls) /\ Len(a) = m - 1 /\ \A i \in 1 .. m - 1 : a[i] = tickets[i]
  BY <1>3, <1>4
<1>6. b \in Seq(Calls) /\ Len(b) = Len(tickets) - m
      /\ \A i \in 1 .. Len(tickets) - m : b[i] = tickets[i + m]
  BY <1>3, <1>4
<1>. HIDE DEF a, b
<1>7. (a \o b) \in Seq(Calls) /\ Len(a \o b) = Len(tickets) - 1
  BY <1>4, <1>5, <1>6
<1>8. ASSUME NEW i \in 1 .. Len(tickets) - 1
      PROVE  (a \o b)[i] = IF i < m THEN tickets[i] ELSE tickets[i + 1]
  <2>1. CASE i < m
    BY <1>4, <1>5, <1>6, <2>1
  <2>2. CASE ~(i < m)
    <3>1. (a \o b)[i] = b[i - Len(a)] /\ i - Len(a) \in 1 .. Len(tickets) - m
      BY <1>4, <1>5, <1>6, <2>2
    <3>2. (i - Len(a)) + m = i + 1
      BY <1>4, <1>5
    <3>. QED
      BY <1>6, <2>2, <3>1, <3>2
  <2>. QED
    BY <2>1, <2>2
<1>. QED
  BY <1>1, <1>2, <1>7, <1>8 DEF a, b

\* The head stays the head for as long as it can be answered: tickets come in
\* behind it, and those that leave leave the others in order.
LEMMA HeadStays ==
  ASSUME BrokerTypes, BrokerTypes', Ticketed, head \in Live', head # NoCall,
         \/ tickets' = tickets /\ Live' \subseteq Live
         \/ \E c \in Calls \ Open : tickets' = Append(tickets, c) /\ Live' \subseteq Live \cup {c}
         \/ \E c \in Open : tickets' = Without(c) /\ c \notin Live' /\ Live' \subseteq Live
  PROVE  head' = head
<1>1. PICK k \in Answerable : tickets[k] = head /\ \A j \in Answerable : k <= j
  BY HeadFacts
<1>2. tickets \in Seq(Calls) /\ k \in 1 .. Len(tickets) /\ Len(tickets) \in Nat
  BY <1>1, AnswerableLive DEF BrokerTypes
<1>3. head' = Oldest(tickets', Answerable')
  BY DEF head, Oldest
<1>4. SUFFICES \E n \in DOMAIN tickets' : /\ tickets'[n] = head
                                          /\ \A j \in Answerable' : n <= j
  BY <1>3, <1>4, NextHead, OldestIs
<1>5. CASE tickets' = tickets /\ Live' \subseteq Live
  BY <1>1, <1>2, <1>5, AnswerableLive, NextHead
<1>6. ASSUME NEW c \in Calls \ Open, tickets' = Append(tickets, c), Live' \subseteq Live \cup {c}
      PROVE  \E n \in DOMAIN tickets' : tickets'[n] = head /\ \A j \in Answerable' : n <= j
  <2>1. /\ DOMAIN tickets' = 1 .. Len(tickets) + 1
        /\ \A i \in 1 .. Len(tickets) : tickets'[i] = tickets[i] /\ tickets[i] \in Open
    BY <1>2, <1>6 DEF Open
  <2>2. ASSUME NEW j \in Answerable' PROVE k <= j
    <3>1. j \in 1 .. Len(tickets) + 1 /\ tickets'[j] \in Live'
      BY <2>1, NextHead
    <3>2. CASE j \in 1 .. Len(tickets)
      <4>1. tickets[j] \in Live
        BY <1>6, <2>1, <3>1, <3>2
      <4>2. j \in Answerable
        BY <1>2, <3>2, <4>1, AnswerableLive
      <4>. QED
        BY <1>1, <4>2
    <3>3. CASE j = Len(tickets) + 1
      BY <1>2, <3>3
    <3>. QED
      BY <1>2, <3>1, <3>2, <3>3
  <2>. QED
    BY <1>1, <1>2, <2>1, <2>2
<1>7. ASSUME NEW c \in Open, tickets' = Without(c), c \notin Live', Live' \subseteq Live
      PROVE  \E n \in DOMAIN tickets' : tickets'[n] = head /\ \A j \in Answerable' : n <= j
  <2>1. PICK m \in DOMAIN tickets :
           /\ tickets[m] = c /\ tickets' \in Seq(Calls) /\ Len(tickets') = Len(tickets) - 1
           /\ \A i \in 1 .. Len(tickets) - 1 :
                tickets'[i] = IF i < m THEN tickets[i] ELSE tickets[i + 1]
    BY <1>7, WithoutKeeps
  <2>2. m \in 1 .. Len(tickets) /\ m # k
    BY <1>1, <1>2, <1>7, <2>1
  <2>. DEFINE n == IF k < m THEN k ELSE k - 1
  <2>3. n \in 1 .. Len(tickets) - 1 /\ tickets'[n] = head
    BY <1>1, <1>2, <2>1, <2>2
  <2>4. ASSUME NEW j \in Answerable' PROVE n <= j
    <3>1. j \in 1 .. Len(tickets) - 1 /\ tickets'[j] \in Live
      BY <1>2, <1>7, <2>1, NextHead
    <3>2. CASE j < m
      <4>1. j \in Answerable
        <5>1. tickets[j] \in Live
          BY <2>1, <3>1, <3>2
        <5>2. j \in DOMAIN tickets
          BY <1>2, <3>1
        <5>. QED
          BY <5>1, <5>2, AnswerableLive
      <4>. QED
        BY <1>1, <1>2, <2>2, <3>1, <3>2, <4>1
    <3>3. CASE ~(j < m)
      <4>1. j + 1 \in Answerable
        <5>1. m \in Nat /\ Len(tickets) \in Nat /\ j \in Nat /\ j + 1 \in 1 .. Len(tickets)
          BY <1>2, <2>2, <3>1
        <5>2. tickets'[j] = tickets[j + 1]
          BY <2>1, <3>1, <3>3
        <5>3. j + 1 \in DOMAIN tickets /\ tickets[j + 1] \in Live
          BY <1>2, <3>1, <5>1, <5>2
        <5>. QED
          BY <5>3, AnswerableLive
      <4>. QED
        BY <1>1, <1>2, <2>2, <3>1, <3>3, <4>1
    <3>. QED
      BY <3>2, <3>3
  <2>5. n \in DOMAIN tickets'
    BY <1>2, <2>1, <2>3
  <2>. QED
    BY <2>3, <2>4, <2>5
<1>. QED
  BY <1>5, <1>6, <1>7

LEMMA PresentedTypes ==
  ASSUME BrokerTypes, BarInv
  PROVE  /\ presented \in Open \cup {NoCall}
         /\ presented # NoCall => phase[presented] = "waiting"
         /\ presented \in Live => presented = head /\ presented # NoCall
         /\ \A c \in Calls : Token(c) => phase[c] \in {"waiting", "done"}
<1>1. presented \in Open \cup {NoCall}
  BY AnswerableLive, HeadFacts DEF BarInv, PresentedIsHead
<1>2. presented # NoCall => phase[presented] = "waiting"
  BY <1>1, AnswerableLive DEF BarInv, Ticketed
<1>3. presented \in Live => presented = head /\ presented # NoCall
  BY AnswerableLive DEF BarInv, PresentedIsHead, Live
<1>4. \A c \in Calls : Token(c) => phase[c] \in {"waiting", "done"}
  BY <1>2, AnswerableLive DEF BarInv, PresentedIsHead
<1>. QED
  BY <1>1, <1>2, <1>3, <1>4

\* A call put on its way to the bar for the first time is on its way once.
LEMMA PutOne ==
  ASSUME toUi \in Seq(Calls), NEW x \in Calls, toUi' = Append(toUi, x), ~Token(x),
         PutOnce, UNCHANGED <<bar, said>>
  PROVE  /\ toUi' # <<>> /\ toUi'[Len(toUi')] = x
         /\ \A c : InUi(c)' <=> InUi(c) \/ c = x
         /\ PutOnce'
<1>1. /\ DOMAIN toUi' = DOMAIN toUi \cup {Len(toUi')} /\ Len(toUi') \notin DOMAIN toUi
      /\ toUi'[Len(toUi')] = x /\ toUi' # <<>>
      /\ \A i \in DOMAIN toUi : toUi'[i] = toUi[i]
  OBVIOUS
<1>2. \A c : InUi(c)' <=> InUi(c) \/ c = x
  BY <1>1 DEF InUi
<1>3. ~InUi(x) /\ bar # x /\ said[x] = {} /\ \A i \in DOMAIN toUi : toUi[i] # x
  BY DEF Token, InUi
<1>4. ASSUME NEW i \in DOMAIN toUi', NEW j \in DOMAIN toUi', toUi'[i] = toUi'[j]
      PROVE  i = j
  <2>1. CASE i \in DOMAIN toUi /\ j \in DOMAIN toUi
    BY <1>1, <1>4, <2>1 DEF PutOnce
  <2>2. CASE i \notin DOMAIN toUi \/ j \notin DOMAIN toUi
    BY <1>1, <1>3, <1>4, <2>2
  <2>. QED
    BY <2>1, <2>2
<1>5. \A c \in Calls : InUi(c)' => bar # c /\ said[c] = {}
  BY <1>2, <1>3 DEF PutOnce
<1>. QED
  BY <1>1, <1>2, <1>4, <1>5 DEF PutOnce

\* A step that notifies: what it posts has never been presented before.
LEMMA NotifyKeeps ==
  ASSUME BrokerTypes, BrokerTypes', BarInv, Notify, UNCHANGED <<bar, said>>,
         presented \in Live' => presented \in Live /\ head' = presented,
         \A c \in Calls : Token(c) => phase'[c] \in {"waiting", "done"},
         \A c \in Calls : Token(c) /\ c # presented => c \notin Live',
         \A i \in DOMAIN toRt : toRt[i][1] = presented =>
            presented \notin Live' \/ \E j \in DOMAIN toRt' : toRt'[j][1] = presented
  PROVE  PutOnce' /\ PresentedIsHead' /\ UnderWay'
<1>1. presented' = head' /\ (head' = NoCall \/ head' \in Live') /\ NoCall \notin Calls
      /\ Live' \subseteq Calls
  BY NextHead, AnswerableLive DEF Notify
<1>2. \A c \in Calls : Token(c) /\ c # head' => c \notin Live'
  BY <1>1 
<1>3. CASE head' \in {NoCall, presented}
  <2>1. toUi' = toUi
    BY <1>3 DEF Notify
  <2>2. \A c \in Calls : Token(c)' <=> Token(c)
    BY <2>1 DEF Token, InUi
  <2>3. PutOnce'
    BY <2>1 DEF BarInv, PutOnce, InUi
  <2>4. PresentedIsHead'
    BY <1>1, <1>2, <2>2 DEF PresentedIsHead
  <2>5. UnderWay'
    BY <1>1, <1>3, <2>1 DEF BarInv, UnderWay
  <2>. QED
    BY <2>3, <2>4, <2>5
<1>4. CASE head' \notin {NoCall, presented}
  <2>1. PICK x \in Calls : x = head' /\ toUi' = Append(toUi, x) /\ ~Token(x)
    BY <1>1, <1>4 DEF Notify
  <2>2. /\ toUi' # <<>> /\ toUi'[Len(toUi')] = x
        /\ \A c : InUi(c)' <=> InUi(c) \/ c = x
        /\ PutOnce'
    BY <2>1, PutOne DEF BrokerTypes, BarInv
  <2>3. PresentedIsHead'
    <3>1. \A c \in Calls : Token(c)' => Token(c) \/ c = x
      BY <2>2 DEF Token
    <3>2. \A c \in Calls : Token(c)' /\ c # head' => phase'[c] \in {"waiting", "done"} /\ c \notin Live'
      BY <1>2, <2>1, <3>1
    <3>. QED
      BY <1>1, <3>2 DEF PresentedIsHead
  <2>4. UnderWay'
    BY <1>1, <2>1, <2>2 DEF UnderWay
  <2>. QED
    BY <2>2, <2>3, <2>4
<1>. QED
  BY <1>3, <1>4

\* A step that notifies nobody and resolves at most some futures.
LEMMA UnheardKeeps ==
  ASSUME BrokerTypes, BrokerTypes', BarInv,
         UNCHANGED <<tickets, deferred, presented, toUi, bar, said>>,
         Live' \subseteq Live, \A c \in Open : future[c] # "unset" => future'[c] # "unset",
         \A c \in Calls : /\ phase'[c] = "waiting" <=> phase[c] = "waiting"
                          /\ phase[c] = "done" => phase'[c] = "done",
         \A i \in DOMAIN toRt : toRt[i][1] = presented =>
            presented \notin Live' \/ \E j \in DOMAIN toRt' : toRt'[j][1] = presented
  PROVE  BarInv'
<1>1. Open' = Open
  BY DEF Open
<1>2. Ticketed'
  BY <1>1 DEF BarInv, Ticketed
<1>3. PutOnce'
  BY DEF BarInv, PutOnce, InUi
<1>4. presented = head' \/ (presented \in Open /\ future'[presented] # "unset")
  <2>1. CASE presented = NoCall
    <3>1. head = NoCall
      BY <2>1, AnswerableLive DEF BarInv, PresentedIsHead
    <3>. QED
      BY <2>1, <3>1, HeadFacts, NextHead
  <2>2. CASE presented \in Live'
    <3>1. presented = head /\ head # NoCall
      BY <2>2, PresentedTypes
    <3>. QED
      BY <2>2, <3>1, HeadStays DEF BarInv
  <2>3. CASE presented \in Open /\ presented \notin Live'
    <3>1. CASE presented = head
      <4>1. presented \in Live /\ presented \notin deferred'
        BY <2>3, <3>1, HeadFacts, AnswerableLive DEF Live
      <4>. QED
        BY <1>1, <2>3, <4>1 DEF Live
    <3>2. CASE presented # head
      BY <2>3, <3>2 DEF BarInv, PresentedIsHead
    <3>. QED
      BY <3>1, <3>2
  <2>. QED
    BY <2>1, <2>2, <2>3, PresentedTypes
<1>5. \A c \in Calls : Token(c)' <=> Token(c)
  BY DEF Token, InUi
<1>6. PresentedIsHead'
  BY <1>1, <1>4, <1>5 DEF BarInv, PresentedIsHead
<1>7. UnderWay'
  BY DEF BarInv, UnderWay
<1>. QED
  BY <1>2, <1>3, <1>6, <1>7 DEF BarInv

LEMMA RequestBar ==
  ASSUME BrokerTypes, BrokerTypes', BarInv, NEW c \in Calls, Request(c)
  PROVE  BarInv'
<1>1. /\ phase[c] = "staged" /\ phase' = [phase EXCEPT ![c] = "waiting"]
      /\ tickets' = Append(tickets, c) /\ Notify
      /\ UNCHANGED <<future, deferred, toRt, bar, said>>
  BY DEF Request
<1>2. c \notin Open /\ tickets \in Seq(Calls)
  BY <1>1 DEF BarInv, Ticketed, BrokerTypes
<1>3. /\ DOMAIN tickets' = DOMAIN tickets \cup {Len(tickets) + 1}
      /\ Len(tickets) + 1 \notin DOMAIN tickets /\ tickets'[Len(tickets) + 1] = c
      /\ \A i \in DOMAIN tickets : tickets'[i] = tickets[i]
  BY <1>1, <1>2
<1>4. Open' = Open \cup {c}
  BY <1>3 DEF Open
<1>5. /\ phase'[c] = "waiting"
      /\ \A d \in Calls \ {c} : phase'[d] = phase[d]
  BY <1>1 DEF BrokerTypes
<1>6. Ticketed'
  <2>1. \A i \in DOMAIN tickets : tickets[i] # c
    BY <1>2 DEF Open
  <2>2. \A i, j \in DOMAIN tickets' : tickets'[i] = tickets'[j] => i = j
    BY <1>3, <2>1 DEF BarInv, Ticketed
  <2>. QED
    BY <1>4, <1>5, <2>2 DEF BarInv, Ticketed
<1>7. Live' \subseteq Live \cup {c}
  BY <1>1, <1>4 DEF Live
<1>8. ~Token(c) /\ presented # c
  BY <1>1, <1>2, PresentedTypes, BrokerAssumption
<1>9. presented \in Live' => presented \in Live /\ head' = presented
  <2>1. presented \in Live' => presented \in Live
    BY <1>7, <1>8
  <2>. QED
    BY <1>1, <1>2, <1>7, <2>1, PresentedTypes, HeadStays DEF BarInv
<1>10. \A d \in Calls : Token(d) => phase'[d] \in {"waiting", "done"}
  BY <1>5, <1>8, PresentedTypes
<1>11. \A d \in Calls : Token(d) /\ d # presented => d \notin Live'
  BY <1>7, <1>8 DEF BarInv, PresentedIsHead
<1>. QED
  BY <1>1, <1>6, <1>9, <1>10, <1>11, NotifyKeeps DEF BarInv

LEMMA ReturnBar ==
  ASSUME BrokerTypes, BrokerTypes', BarInv, NEW c \in Calls, Return(c)
  PROVE  BarInv'
<1>1. /\ c \in Open /\ future[c] # "unset" /\ phase' = [phase EXCEPT ![c] = "done"]
      /\ tickets' = Without(c) /\ Notify
      /\ UNCHANGED <<future, deferred, toRt, bar, said>>
  BY DEF Return
<1>2. PICK m \in DOMAIN tickets :
         /\ tickets[m] = c /\ tickets' \in Seq(Calls) /\ Len(tickets') = Len(tickets) - 1
         /\ \A i \in 1 .. Len(tickets) - 1 :
              tickets'[i] = IF i < m THEN tickets[i] ELSE tickets[i + 1]
  BY <1>1, WithoutKeeps DEF BarInv
<1>3. tickets \in Seq(Calls) /\ m \in 1 .. Len(tickets) /\ Len(tickets) \in Nat
      /\ DOMAIN tickets = 1 .. Len(tickets) /\ DOMAIN tickets' = 1 .. Len(tickets) - 1
  BY <1>2 DEF BrokerTypes
<1>4. \A i, j \in DOMAIN tickets : tickets[i] = tickets[j] => i = j
  BY DEF BarInv, Ticketed
<1>. DEFINE old(i) == IF i < m THEN i ELSE i + 1
<1>5. \A i \in DOMAIN tickets' : old(i) \in DOMAIN tickets /\ old(i) # m /\ tickets'[i] = tickets[old(i)]
  BY <1>2, <1>3
<1>6. \A i, j \in DOMAIN tickets' : old(i) = old(j) => i = j
  BY <1>3
<1>7. \A i \in DOMAIN tickets : i # m => \E j \in DOMAIN tickets' : old(j) = i
  <2>. SUFFICES ASSUME NEW i \in DOMAIN tickets, i # m
                PROVE  \E j \in DOMAIN tickets' : old(j) = i
    OBVIOUS
  <2>1. CASE i < m
    <3>1. i \in DOMAIN tickets' /\ old(i) = i
      BY <1>3, <2>1
    <3>. QED
      BY <3>1
  <2>2. CASE i > m
    <3>1. i - 1 \in DOMAIN tickets' /\ old(i - 1) = i
      BY <1>3, <2>2
    <3>. QED
      BY <3>1
  <2>. QED
    BY <1>3, <2>1, <2>2
<1>. HIDE DEF old
<1>8. Open' = Open \ {c}
  <2>1. ASSUME NEW d \in Open' PROVE d \in Open \ {c}
    BY <1>2, <1>4, <1>5 DEF Open
  <2>2. ASSUME NEW d \in Open \ {c} PROVE d \in Open'
    <3>1. PICK i \in DOMAIN tickets : tickets[i] = d
      BY DEF Open
    <3>2. PICK j \in DOMAIN tickets' : old(j) = i
      BY <1>2, <1>7, <3>1
    <3>. QED
      BY <1>5, <3>1, <3>2 DEF Open
  <2>. QED
    BY <2>1, <2>2
<1>9. phase'[c] = "done" /\ \A d \in Calls \ {c} : phase'[d] = phase[d]
  BY <1>1 DEF BrokerTypes
<1>10. Ticketed'
  <2>1. \A i, j \in DOMAIN tickets' : tickets'[i] = tickets'[j] => i = j
    BY <1>4, <1>5, <1>6
  <2>. QED
    BY <1>8, <1>9, <2>1 DEF BarInv, Ticketed
<1>11. Live' \subseteq Live /\ c \notin Live'
  BY <1>1, <1>8 DEF Live
<1>12. presented \in Live' => presented \in Live /\ head' = presented
  BY <1>1, <1>11, PresentedTypes, HeadStays DEF BarInv
<1>13. \A d \in Calls : Token(d) => phase'[d] \in {"waiting", "done"}
  BY <1>9, PresentedTypes
<1>14. \A d \in Calls : Token(d) /\ d # presented => d \notin Live'
  BY <1>11 DEF BarInv, PresentedIsHead
<1>. QED
  BY <1>1, <1>10, <1>12, <1>13, <1>14, NotifyKeeps DEF BarInv

LEMMA WaitBar ==
  ASSUME BrokerTypes, BrokerTypes', BarInv, NEW c \in Calls, Stage(c) \/ TimeOut(c)
  PROVE  BarInv'
<1>1. UNCHANGED <<tickets, deferred, presented, toUi, toRt, bar, said>>
  BY DEF Stage, TimeOut, hopVars
<1>2. \A d \in Calls : future'[d] = "unset" => future[d] = "unset"
  BY DEF Stage, TimeOut, BrokerTypes
<1>3. Live' \subseteq Live /\ Open \subseteq Calls
  BY <1>1, <1>2, AnswerableLive DEF Live, Open
<1>4. \A d \in Calls : /\ phase'[d] = "waiting" <=> phase[d] = "waiting"
                       /\ phase[d] = "done" => phase'[d] = "done"
  BY DEF Stage, TimeOut, BrokerTypes
<1>. QED
  BY <1>1, <1>2, <1>3, <1>4, UnheardKeeps

\* An act that arrives settles its call, if that still waits.
LEMMA RunPostedBar ==
  ASSUME BrokerTypes, BrokerTypes', BarInv, RunPosted
  PROVE  BarInv'
<1>. DEFINE c == Head(toRt)[1]
            act == Head(toRt)[2]
<1>1. /\ toRt # <<>> /\ toRt' = Tail(toRt)
      /\ UNCHANGED <<phase, tickets, bar, said>>
      /\ (act \in Options /\ Answer(c, act)) \/ (act = "defer" /\ Defer(c))
  BY DEF RunPosted
<1>2. toRt \in Seq(Calls \X Acts) /\ c \in Calls
  BY <1>1 DEF BrokerTypes
<1>3. \A i \in DOMAIN toRt : toRt[i][1] # c => \E j \in DOMAIN toRt' : toRt'[j][1] = toRt[i][1]
  <2>. SUFFICES ASSUME NEW i \in DOMAIN toRt, toRt[i][1] # c
                PROVE  \E j \in DOMAIN toRt' : toRt'[j][1] = toRt[i][1]
    OBVIOUS
  <2>1. i # 1 /\ i \in 1 .. Len(toRt) /\ Len(toRt) \in Nat
    BY <1>1, <1>2
  <2>2. i - 1 \in DOMAIN toRt' /\ toRt'[i - 1] = toRt[i]
    BY <1>1, <1>2, <2>1
  <2>. QED
    BY <2>2
<1>4. Open' = Open /\ Open \subseteq Calls
  BY <1>1, AnswerableLive DEF Open
<1>5. \A choice \in Options : choice # "unset" /\ Resolved(c, choice)[c] # "unset"
        /\ \A d \in Calls \ {c} : Resolved(c, choice)[d] = future[d]
  BY <1>2 DEF Resolved, Options, BrokerTypes
<1>6. ASSUME UNCHANGED <<deferred, presented, toUi>>,
             \A d \in Open : future'[d] = "unset" => future[d] = "unset" /\ d # c
      PROVE  BarInv'
  <2>1. Live' \subseteq Live /\ c \notin Live'
    BY <1>4, <1>6 DEF Live
  <2>. QED
    BY <1>1, <1>3, <1>6, <2>1, UnheardKeeps
<1>7. CASE act \in Options /\ Answer(c, act)
  <2>1. UNCHANGED <<deferred, presented, toUi>>
    BY <1>7 DEF Answer
  <2>2. \A d \in Open : future'[d] = "unset" => future[d] = "unset" /\ d # c
    BY <1>4, <1>5, <1>7 DEF Answer
  <2>. QED
    BY <1>6, <2>1, <2>2
<1>8. CASE act = "defer" /\ c \in Open \ deferred
  <2>1. /\ deferred' = deferred \cup {c} /\ future' = Resolved(c, "Deny") /\ Notify
    BY <1>1, <1>8 DEF Defer, Options
  <2>2. \A d \in Open : future'[d] = "unset" => future[d] = "unset" /\ d # c
    BY <1>4, <1>5, <2>1 DEF Options
  <2>3. Live' \subseteq Live /\ c \notin Live'
    BY <1>4, <2>1, <2>2 DEF Live
  <2>4. Ticketed'
    BY <1>1, <1>4 DEF BarInv, Ticketed
  <2>5. presented \in Live' => presented \in Live /\ head' = presented
    BY <1>1, <2>3, PresentedTypes, HeadStays DEF BarInv
  <2>6. \A d \in Calls : Token(d) => phase'[d] \in {"waiting", "done"}
    BY <1>1, PresentedTypes
  <2>7. \A d \in Calls : Token(d) /\ d # presented => d \notin Live'
    BY <2>3 DEF BarInv, PresentedIsHead
  <2>. QED
    BY <1>1, <1>3, <2>1, <2>3, <2>4, <2>5, <2>6, <2>7, NotifyKeeps DEF BarInv
<1>9. CASE act = "defer" /\ c \notin Open \ deferred
  <2>1. UNCHANGED <<future, deferred, presented, toUi>>
    BY <1>1, <1>9 DEF Defer, Options
  <2>2. Live' \subseteq Live /\ c \notin Live'
    BY <1>4, <1>9, <2>1 DEF Live
  <2>. QED
    BY <1>1, <1>3, <1>4, <2>1, <2>2, UnheardKeeps
<1>. QED
  BY <1>1, <1>7, <1>8, <1>9

\* The interface's steps leave the tickets and what was presented.
LEMMA SameTickets ==
  ASSUME UNCHANGED <<brokerVars, presented>>
  PROVE  Open' = Open /\ Live' = Live /\ head' = head /\ (BarInv => Ticketed')
<1>1. UNCHANGED <<tickets, deferred, future, phase>>
  BY DEF brokerVars
<1>2. Open' = Open
  BY <1>1 DEF Open
<1>3. Live' = Live
  BY <1>1, <1>2 DEF Live
<1>4. head' = head
  BY <1>1 DEF head, Answerable, Oldest
<1>5. BarInv => Ticketed'
  BY <1>1, <1>2 DEF BarInv, Ticketed
<1>. QED
  BY <1>2, <1>3, <1>4, <1>5

LEMMA PostedBar ==
  ASSUME BrokerTypes, NEW c \in Calls, NEW act \in Acts, Post(c, act), said[c] = {}
  PROVE  /\ said'[c] = {act} /\ \A d \in Calls \ {c} : said'[d] = said[d]
         /\ \A d \in Calls : (\E i \in DOMAIN toRt : toRt[i][1] = d) \/ d = c =>
              \E i \in DOMAIN toRt' : toRt'[i][1] = d
<1>1. said' = [said EXCEPT ![c] = @ \cup {act}] /\ toRt' = Append(toRt, <<c, act>>)
  BY DEF Post
<1>2. said'[c] = {act} /\ \A d \in Calls \ {c} : said'[d] = said[d]
  BY <1>1 DEF BrokerTypes
<1>. DEFINE x == <<c, act>>
<1>3. x \in Calls \X Acts /\ x[1] = c /\ toRt' = Append(toRt, x) /\ toRt \in Seq(Calls \X Acts)
  BY <1>1 DEF BrokerTypes
<1>. HIDE DEF x
<1>4. /\ \A i \in DOMAIN toRt : i \in DOMAIN toRt' /\ toRt'[i] = toRt[i]
      /\ Len(toRt) + 1 \in DOMAIN toRt' /\ toRt'[Len(toRt) + 1] = x
  BY <1>3
<1>. QED
  BY <1>2, <1>3, <1>4

LEMMA PresentBar ==
  ASSUME BrokerTypes, BarInv, Present
  PROVE  BarInv'
<1>. DEFINE c == Head(toUi)
<1>1. /\ toUi # <<>> /\ toUi' = Tail(toUi) /\ UNCHANGED <<brokerVars, presented>>
      /\ IF auto THEN Post(c, "defer") /\ UNCHANGED bar
                 ELSE bar' = c /\ UNCHANGED <<toRt, said>>
  BY DEF Present
<1>2. toUi \in Seq(Calls)
  BY DEF BrokerTypes
<1>3. 1 \in DOMAIN toUi /\ c = toUi[1] /\ c \in Calls /\ Len(toUi) \in Nat \ {0}
  BY <1>1, <1>2
<1>4. /\ Len(toUi') = Len(toUi) - 1 /\ (Len(toUi) = 1 <=> toUi' = <<>>)
      /\ \A i \in DOMAIN toUi' : i + 1 \in DOMAIN toUi /\ toUi'[i] = toUi[i + 1]
                                 /\ i + 1 # 1 /\ i \in Nat
  <2>1. toUi' \in Seq(Calls) /\ Len(toUi') = Len(toUi) - 1
    BY <1>1, <1>2
  <2>2. Len(toUi) = 1 <=> toUi' = <<>>
    BY <1>3, <2>1
  <2>3. \A i \in DOMAIN toUi' : i \in 1 .. Len(toUi) - 1 /\ toUi'[i] = toUi[i + 1]
    BY <1>1, <1>2, <1>3, <2>1
  <2>. QED
    BY <1>2, <1>3, <2>1, <2>2, <2>3
<1>5. InUi(c) /\ c # NoCall /\ bar # c /\ said[c] = {} /\ c \in Calls
  <2>1. InUi(c)
    BY <1>3 DEF InUi
  <2>. QED
    BY <1>3, <2>1, BrokerAssumption DEF BarInv, PutOnce
<1>6. /\ \A i, j \in DOMAIN toUi' : toUi'[i] = toUi'[j] => i = j
      /\ \A d : InUi(d)' => InUi(d) /\ d # c
  <2>1. \A i, j \in DOMAIN toUi : toUi[i] = toUi[j] => i = j
    BY DEF BarInv, PutOnce
  <2>2. \A i, j \in DOMAIN toUi' : toUi'[i] = toUi'[j] => i = j
    BY <1>4, <2>1
  <2>3. \A d : InUi(d)' => InUi(d) /\ d # c
    BY <1>3, <1>4, <2>1 DEF InUi
  <2>. QED
    BY <2>2, <2>3
<1>7. Ticketed' /\ Open' = Open /\ Live' = Live /\ head' = head
      /\ presented' = presented /\ phase' = phase /\ future' = future
  BY <1>1, SameTickets DEF brokerVars
<1>8. toUi'[Len(toUi')] = toUi[Len(toUi)] \/ toUi' = <<>>
  <2>1. CASE toUi' # <<>>
    <3>1. Len(toUi') \in DOMAIN toUi'
      BY <1>1, <1>2, <1>3, <1>4, <2>1
    <3>2. Len(toUi') + 1 = Len(toUi)
      BY <1>3, <1>4
    <3>. QED
      BY <1>4, <3>1, <3>2
  <2>. QED
    BY <2>1
<1>9. CASE auto
  <2>1. Post(c, "defer") /\ bar' = bar
    BY <1>1, <1>9
  <2>2. /\ said'[c] = {"defer"} /\ \A d \in Calls \ {c} : said'[d] = said[d]
        /\ \A d \in Calls : (\E i \in DOMAIN toRt : toRt[i][1] = d) \/ d = c =>
              \E i \in DOMAIN toRt' : toRt'[i][1] = d
    BY <1>5, <2>1, PostedBar DEF Acts
  <2>3. PutOnce'
    <3>1. \A d \in Calls : InUi(d)' => bar' # d /\ said'[d] = {}
      BY <1>6, <2>1, <2>2 DEF BarInv, PutOnce
    <3>2. bar' # NoCall => said'[bar'] = {}
      BY <1>5, <2>1, <2>2 DEF BarInv, PutOnce, BrokerTypes
    <3>3. \A d \in Calls : \A act \in said'[d] : said'[d] = {act}
      BY <2>2 DEF BarInv, PutOnce
    <3>. QED
      BY <1>6, <3>1, <3>2, <3>3 DEF PutOnce
  <2>4. \A d \in Calls : Token(d)' => Token(d)
    BY <1>5, <1>6, <2>1, <2>2 DEF Token
  <2>5. PresentedIsHead'
    BY <1>7, <2>4 DEF BarInv, PresentedIsHead
  <2>6. UnderWay'
    <3>. SUFFICES ASSUME presented \in Live PROVE UnderWay'
      BY <1>7 DEF UnderWay
    <3>1. presented \in Calls
      BY AnswerableLive
    <3>2. CASE toUi[Len(toUi)] = presented
      <4>1. CASE toUi' = <<>>
        <5>1. presented = c
          BY <1>3, <1>4, <3>2, <4>1
        <5>. QED
          BY <1>7, <2>2, <3>1, <5>1 DEF UnderWay
      <4>2. CASE toUi' # <<>>
        BY <1>7, <1>8, <3>2, <4>2 DEF UnderWay
      <4>. QED
        BY <4>1, <4>2
    <3>3. CASE \E i \in DOMAIN toRt : toRt[i][1] = presented
      BY <1>7, <2>2, <3>1, <3>3 DEF UnderWay
    <3>. QED
      BY <1>1, <3>2, <3>3 DEF BarInv, UnderWay
  <2>. QED
    BY <1>7, <2>3, <2>5, <2>6 DEF BarInv
<1>10. CASE ~auto
  <2>1. bar' = c /\ UNCHANGED <<toRt, said>>
    BY <1>1, <1>10
  <2>2. PutOnce'
    BY <1>5, <1>6, <2>1 DEF BarInv, PutOnce
  <2>3. \A d \in Calls : Token(d)' => Token(d)
    BY <1>5, <1>6, <2>1 DEF Token
  <2>4. PresentedIsHead'
    BY <1>7, <2>3 DEF BarInv, PresentedIsHead
  <2>5. UnderWay'
    <3>. SUFFICES ASSUME presented \in Live PROVE UnderWay'
      BY <1>7 DEF UnderWay
    <3>1. CASE toUi[Len(toUi)] = presented
      <4>1. CASE toUi' = <<>>
        <5>1. presented = c
          BY <1>3, <1>4, <3>1, <4>1
        <5>. QED
          BY <1>7, <2>1, <4>1, <5>1 DEF UnderWay
      <4>2. CASE toUi' # <<>>
        BY <1>7, <1>8, <3>1, <4>2 DEF UnderWay
      <4>. QED
        BY <4>1, <4>2
    <3>2. CASE \E i \in DOMAIN toRt : toRt[i][1] = presented
      BY <1>7, <2>1, <3>2 DEF UnderWay
    <3>. QED
      BY <1>1, <3>1, <3>2 DEF BarInv, UnderWay
  <2>. QED
    BY <1>7, <2>2, <2>4, <2>5 DEF BarInv
<1>. QED
  BY <1>9, <1>10

LEMMA DecideBar ==
  ASSUME BrokerTypes, BarInv, NEW act \in Acts, Decide(act)
  PROVE  BarInv'
<1>1. /\ bar # NoCall /\ bar' = NoCall /\ Post(bar, act)
      /\ UNCHANGED <<brokerVars, presented, toUi>>
  BY DEF Decide
<1>2. bar \in Calls /\ said[bar] = {} /\ NoCall \notin Calls
  BY <1>1, BrokerAssumption DEF BrokerTypes, BarInv, PutOnce
<1>3. /\ said'[bar] = {act} /\ \A d \in Calls \ {bar} : said'[d] = said[d]
      /\ \A d \in Calls : (\E i \in DOMAIN toRt : toRt[i][1] = d) \/ d = bar =>
            \E i \in DOMAIN toRt' : toRt'[i][1] = d
  BY <1>1, <1>2, PostedBar
<1>4. Ticketed' /\ Open' = Open /\ Live' = Live /\ head' = head
      /\ presented' = presented /\ phase' = phase /\ future' = future
  BY <1>1, SameTickets DEF brokerVars
<1>5. \A d : InUi(d)' <=> InUi(d)
  BY <1>1 DEF InUi
<1>6. PutOnce'
  <2>1. \A d \in Calls : InUi(d)' => bar' # d /\ said'[d] = {}
    BY <1>1, <1>2, <1>3, <1>5 DEF BarInv, PutOnce
  <2>2. \A d \in Calls : \A a \in said'[d] : said'[d] = {a}
    BY <1>3 DEF BarInv, PutOnce
  <2>. QED
    BY <1>1, <2>1, <2>2 DEF BarInv, PutOnce
<1>7. \A d \in Calls : Token(d)' => Token(d)
  BY <1>1, <1>2, <1>3, <1>5 DEF Token
<1>8. PresentedIsHead'
  BY <1>4, <1>7 DEF BarInv, PresentedIsHead
<1>9. UnderWay'
  BY <1>1, <1>3, <1>4, AnswerableLive DEF BarInv, UnderWay
<1>. QED
  BY <1>4, <1>6, <1>8, <1>9 DEF BarInv

LEMMA BarInvStep ==
  ASSUME Default = "Deny", BrokerInv, BarInv, [Next]_vars
  PROVE  BarInv'
<1>1. BrokerTypes /\ BrokerTypes'
  BY BrokerInvStep DEF BrokerInv
<1>2. ASSUME UNCHANGED <<brokerVars, presented, toUi, toRt, bar, said>>
      PROVE  BarInv'
  <2>1. Ticketed' /\ Open' = Open /\ Live' = Live /\ head' = head /\ phase' = phase
        /\ future' = future
    BY <1>2, SameTickets DEF brokerVars
  <2>2. PutOnce' /\ \A c : Token(c)' <=> Token(c)
    BY <1>2 DEF BarInv, PutOnce, InUi, Token
  <2>3. PresentedIsHead' /\ UnderWay'
    BY <1>2, <2>1, <2>2 DEF BarInv, PresentedIsHead, UnderWay
  <2>. QED
    BY <2>1, <2>2, <2>3 DEF BarInv
<1>3. CASE BrokerNext
  <2>1. CASE ToggleAuto
    BY <1>2, <2>1 DEF ToggleAuto
  <2>. QED
    BY <1>1, <1>3, <2>1, WaitBar, RequestBar, ReturnBar, RunPostedBar, PresentBar, DecideBar
    DEF BrokerNext
<1>4. CASE ToolNext
  BY <1>2, <1>4
  DEF ToolNext, Ask, Park, Leave, Subscribe, Finish, ProviderRequest, Ring, hopVars
<1>5. CASE \E i \in DOMAIN items : AnswerItem(i) /\ UNCHANGED <<brokerVars, hopVars, toolVars>>
  BY <1>2, <1>5 DEF hopVars
<1>6. CASE UNCHANGED vars
  BY <1>2, <1>6 DEF vars, hopVars
<1>. QED
  BY <1>3, <1>4, <1>5, <1>6 DEF Next

LEMMA BarInvInit ==
  ASSUME Init PROVE BarInv
<1>1. tickets = <<>> /\ toUi = <<>> /\ toRt = <<>> /\ presented = NoCall /\ bar = NoCall
      /\ (\A c \in Calls : said[c] = {} /\ phase[c] = "idle")
  BY DEF Init, BrokerInit
<1>2. Open = {} /\ Live = {} /\ Answerable = {}
  BY <1>1 DEF Open, Live, Answerable
<1>3. head = NoCall /\ \A c : ~InUi(c)
  BY <1>1, <1>2 DEF head, Oldest, InUi
<1>. QED
  BY <1>1, <1>2, <1>3, BrokerAssumption
  DEF BarInv, Ticketed, PutOnce, PresentedIsHead, UnderWay, Token

-----------------------------------------------------------------------------
(* The theorems.                                                            *)

IInv == BrokerInv /\ ToolInv /\ BarInv

LEMMA Inductive ==
  ASSUME Default = "Deny"
  PROVE  Spec => []IInv
<1>1. Init => IInv
  BY BrokerInvInit, ToolInvInit, BarInvInit DEF IInv
<1>2. IInv /\ [Next]_vars => IInv'
  BY BrokerInvStep, ToolInvStep, BarInvStep DEF IInv
<1> QED
  BY <1>1, <1>2, PTL DEF Spec

\* Every variable keeps its type, and the queue never holds more than it may
\* (NeedsYouQueue.defer).
THEOREM TypeCorrect ==
  ASSUME Default = "Deny"
  PROVE  Spec => []TypeOK
<1>1. IInv => TypeOK
  BY DEF IInv, BrokerInv, BrokerTypes, ToolInv, ToolTypes, QueueInv, TypeOK, BrokerTypeOK, QueueTypeOK
<1> QED
  BY <1>1, Inductive, PTL

\* No call goes ahead unless the human allowed that call, whatever the order of
\* its timer, the answers, the deferrals and the bar (request_approval, answer,
\* defer).
THEOREM NoAllowUnsaid ==
  ASSUME Default = "Deny"
  PROVE  Spec => []AllowedOnlyByTheHuman
<1>1. IInv => AllowedOnlyByTheHuman
  BY DEF IInv, BrokerInv
<1> QED
  BY <1>1, Inductive, PTL

\* No answer reaches the model twice, and none is consumed untold
\* (QuestionTool.execute, NeedsYouQueue.consume, StepBoundaryBridge).
THEOREM ToldOnce ==
  ASSUME Default = "Deny"
  PROVE  Spec => []AnswerToldOnce
<1>1. IInv => AnswerToldOnce
  BY DEF IInv, ToolInv, QueueInv
<1> QED
  BY <1>1, Inductive, PTL

\* A question that failed has nothing left for the human to decide
\* (the rollback of QuestionTool.execute).
THEOREM FailedLeavesNothing ==
  ASSUME Default = "Deny"
  PROVE  Spec => []FailedQuestionLeavesNothing
<1>1. IInv => FailedQuestionLeavesNothing
  BY DEF IInv, ToolInv, OwnedBy, FailedQuestionLeavesNothing
<1> QED
  BY <1>1, Inductive, PTL

\* A call that can be answered is in the bar as soon as nothing is on its way, and
\* the human is asked for it once: no order of requests, timers, answers and
\* deferrals on the two loops hides the head or says two things of one call
\* (ApprovalBroker._notify, RuntimeAdapter._on_broker_change, present_approval).
THEOREM HumanIsReached ==
  ASSUME Default = "Deny"
  PROVE  Spec => []CallsReachTheHuman
<1>1. IInv => CallsReachTheHuman
  <2>. SUFFICES ASSUME IInv PROVE CallsReachTheHuman
    OBVIOUS
  <2>1. BrokerTypes /\ BarInv
    BY DEF IInv, BrokerInv
  <2>2. HeadIsShown
    <3>. SUFFICES ASSUME toUi = <<>>, toRt = <<>>, \A c \in Open : future[c] = "unset",
                         head # NoCall
                  PROVE  bar = head
      BY DEF HeadIsShown
    <3>1. presented = head
      BY <2>1 DEF BarInv, PresentedIsHead
    <3>2. presented \in Live
      BY <2>1, <3>1, HeadFacts
    <3>. QED
      BY <2>1, <3>1, <3>2 DEF BarInv, UnderWay
  <2>. QED
    BY <2>1, <2>2 DEF CallsReachTheHuman, BarInv, PutOnce
<1> QED
  BY <1>1, Inductive, PTL
=============================================================================
