--------------------------- MODULE ApprovalBroker ---------------------------
(***************************************************************************)
(* ApprovalBroker (kernel/approval.py) and the approval bar in front of    *)
(* it.  A tool call stages its detail, asks, and waits on a future; the    *)
(* broker lives on the runtime's loop, the bar on the user interface's     *)
(* loop in another thread, and the two talk only through                   *)
(* call_soon_threadsafe: toUi and toRt are what each has posted to the     *)
(* other.                                                                  *)
(*                                                                         *)
(* A future that is done only schedules the waiting call: the ticket stays *)
(* in the list until the call runs again (Return), and its timer may still *)
(* fire in between.  asyncio.timeout then cancels a call whose future has  *)
(* its result, and the call ends as a timeout.                             *)
(*                                                                         *)
(* Every call of the model bears the same prompt, the case in which the    *)
(* staging by prompt has to tell calls apart.                              *)
(***************************************************************************)
EXTENDS NeedsYou

CONSTANTS
  NoCall,      \* no ticket
  Default      \* what a timeout means: the code's callers all say "Deny"

\* "Allow once" and "Allow always" differ only for the asker that remembers.
Options == {"Allow", "Deny"}

Acts == Options \cup {"defer"}

ASSUME BrokerAssumption == NoCall \notin Calls \cup Questions /\ Default \in Options

VARIABLES
  phase,      \* of each call: idle, staged, waiting or done
  staged,     \* _staged[prompt]: details not yet claimed, by the call they describe
  detail,     \* the call whose detail the ticket carries
  tickets,    \* _tickets
  future,     \* of each ticket: unset, a choice, or cancelled by the timer
  expired,    \* tickets whose timer has fired
  deferred,   \* tickets with deferred = True
  outcome,    \* what request_approval returned
  presented,  \* RuntimeAdapter._presented
  toUi,       \* tickets posted to the interface
  toRt,       \* acts posted to the runtime
  bar,        \* the ticket in the approval bar
  auto,       \* the mode is "auto"
  said        \* history: what the human (or auto mode) said of each call

brokerVars == <<staged, detail, tickets, future, expired, deferred, outcome, phase>>
hopVars == <<presented, toUi, toRt, bar, auto, said>>

BrokerTypeOK ==
  /\ QueueTypeOK
  /\ phase \in [Calls -> {"idle", "staged", "waiting", "done"}]
  /\ staged \in Seq(Calls)
  /\ detail \in [Calls -> Calls \cup {NoCall}]
  /\ tickets \in Seq(Calls)
  /\ future \in [Calls -> Options \cup {"unset", "cancelled"}]
  /\ expired \subseteq Calls /\ deferred \subseteq Calls
  /\ outcome \in [Calls -> Options \cup {"none"}]
  /\ presented \in Calls \cup {NoCall} /\ bar \in Calls \cup {NoCall}
  /\ toUi \in Seq(Calls) /\ toRt \in Seq(Calls \X Acts)
  /\ auto \in BOOLEAN
  /\ said \in [Calls -> SUBSET Acts]

BrokerInit ==
  /\ QueueInit
  /\ phase = [c \in Calls |-> "idle"]
  /\ staged = <<>> /\ detail = [c \in Calls |-> NoCall]
  /\ tickets = <<>> /\ future = [c \in Calls |-> "unset"]
  /\ expired = {} /\ deferred = {}
  /\ outcome = [c \in Calls |-> "none"]
  /\ presented = NoCall /\ bar = NoCall /\ toUi = <<>> /\ toRt = <<>>
  /\ auto = FALSE
  /\ said = [c \in Calls |-> {}]

Open == {tickets[i] : i \in DOMAIN tickets}

Answerable == {i \in DOMAIN tickets : tickets[i] \notin deferred /\ future[tickets[i]] = "unset"}

\* The first of the tickets T at the positions I.
Oldest(T, I) ==
  IF I = {} THEN NoCall ELSE T[CHOOSE i \in I : \A j \in I : i <= j]

head == Oldest(tickets, Answerable)

\* _notify, heard by RuntimeAdapter._on_broker_change.  A change of head is
\* posted to the interface once.
Notify ==
  /\ presented' = head'
  /\ toUi' = IF head' \in {NoCall, presented} THEN toUi ELSE Append(toUi, head')

-----------------------------------------------------------------------------
(* The runtime's loop.                                                      *)

\* stage_detail, by the governance hook, before the kernel asks.
Stage(c) ==
  /\ phase[c] = "idle"
  /\ phase' = [phase EXCEPT ![c] = "staged"]
  /\ staged' = Append(staged, c)
  /\ UNCHANGED <<detail, tickets, future, expired, deferred, outcome, hopVars, items, ringing>>

\* request_approval as far as its await
Request(c) ==
  /\ phase[c] = "staged"
  /\ phase' = [phase EXCEPT ![c] = "waiting"]
  /\ detail' = [detail EXCEPT ![c] = Head(staged)]
  /\ staged' = Tail(staged)
  /\ tickets' = Append(tickets, c)
  /\ UNCHANGED <<future, deferred>>
  /\ Notify
  /\ UNCHANGED <<expired, outcome, toRt, bar, auto, said, items, ringing>>

\* asyncio.timeout: the pending future is cancelled; one that has its result
\* keeps it, but the call will see the cancellation.
TimeOut(c) ==
  /\ c \in Open \ expired
  /\ expired' = expired \cup {c}
  /\ future' = [future EXCEPT ![c] = IF @ = "unset" THEN "cancelled" ELSE @]
  /\ UNCHANGED <<phase, staged, detail, tickets, deferred, outcome, hopVars, items, ringing>>

\* _tickets.remove(ticket)
Without(c) ==
  LET k == CHOOSE i \in DOMAIN tickets : tickets[i] = c
  IN  SubSeq(tickets, 1, k - 1) \o SubSeq(tickets, k + 1, Len(tickets))

\* Mutant: the waiting call leaves its ticket without telling anybody.
ReturnUnheard(c) ==
  /\ c \in Open /\ future[c] # "unset"
  /\ outcome' = [outcome EXCEPT ![c] = IF c \in expired THEN Default ELSE future[c]]
  /\ phase' = [phase EXCEPT ![c] = "done"]
  /\ tickets' = Without(c)
  /\ UNCHANGED <<staged, detail, future, expired, deferred, hopVars, items, ringing>>

\* request_approval after its await
Return(c) ==
  /\ c \in Open /\ future[c] # "unset"
  /\ outcome' = [outcome EXCEPT ![c] = IF c \in expired THEN Default ELSE future[c]]
  /\ phase' = [phase EXCEPT ![c] = "done"]
  /\ tickets' = Without(c)
  /\ UNCHANGED <<future, deferred>>
  /\ Notify
  /\ UNCHANGED <<staged, detail, expired, toRt, bar, auto, said, items, ringing>>

Resolved(c, choice) == [future EXCEPT ![c] = IF @ = "unset" THEN choice ELSE @]

\* Mutant: whatever is at the head of the queue is answered.
AnswerHead(c, choice) ==
  /\ future' = IF head = NoCall THEN future ELSE Resolved(head, choice)
  /\ UNCHANGED <<deferred, items, presented, toUi>>

\* answer: nobody is notified until the call has returned.
Answer(c, choice) ==
  /\ future' = IF c \in Open THEN Resolved(c, choice) ELSE future
  /\ UNCHANGED <<deferred, items, presented, toUi>>

\* Mutant: a deferred call keeps waiting.
DeferWaiting(c) ==
  IF c \in Open \ deferred
    THEN /\ deferred' = deferred \cup {c}
         /\ items' = IF Full THEN items ELSE Parked(c)
         /\ UNCHANGED future
         /\ Notify
    ELSE UNCHANGED <<future, deferred, items, presented, toUi>>

\* defer: parking is best effort, the denial is not.
Defer(c) ==
  IF c \in Open \ deferred
    THEN /\ deferred' = deferred \cup {c}
         /\ items' = IF Full THEN items ELSE Parked(c)
         /\ future' = Resolved(c, "Deny")
         /\ Notify
    ELSE UNCHANGED <<future, deferred, items, presented, toUi>>

\* One closure posted by answer_approval or defer_approval.
RunPosted ==
  /\ toRt # <<>>
  /\ toRt' = Tail(toRt)
  /\ UNCHANGED <<phase, staged, detail, tickets, expired, outcome, bar, auto, said, ringing>>
  /\ LET c == Head(toRt)[1]
         act == Head(toRt)[2]
     IN  \/ act \in Options /\ Answer(c, act)
         \/ act = "defer" /\ Defer(c)

-----------------------------------------------------------------------------
(* The user interface's loop.                                               *)

Post(c, act) ==
  /\ toRt' = Append(toRt, <<c, act>>)
  /\ said' = [said EXCEPT ![c] = @ \cup {act}]

\* present_approval: auto mode defers, any other mounts a bar in place of the
\* one that is there.
Present ==
  /\ ~ringing /\ toUi # <<>>
  /\ toUi' = Tail(toUi)
  /\ IF auto THEN Post(Head(toUi), "defer") /\ UNCHANGED bar
             ELSE bar' = Head(toUi) /\ UNCHANGED <<toRt, said>>
  /\ UNCHANGED <<brokerVars, presented, auto, items, ringing>>

\* on_approval_bar_resolved, on_approval_bar_deferred
Decide(act) ==
  /\ ~ringing /\ bar # NoCall
  /\ bar' = NoCall
  /\ Post(bar, act)
  /\ UNCHANGED <<brokerVars, presented, toUi, auto, items, ringing>>

ToggleAuto ==
  /\ ~ringing
  /\ auto' = ~auto
  /\ UNCHANGED <<brokerVars, presented, toUi, toRt, bar, said, items, ringing>>
=============================================================================
