----------------------------- MODULE Decisions ------------------------------
(***************************************************************************)
(* What waits for the human: the approval broker, the question tool        *)
(* (kernel/question.py) and the step-boundary bridge (kernel/steering.py), *)
(* around one NeedsYouQueue.                                               *)
(*                                                                         *)
(* A question parks one item per prompt.  In auto mode it returns at once  *)
(* and the bridge injects the answers at a later provider request; in any  *)
(* other mode it waits for all of them, returns them as its result and     *)
(* consumes the items, so that the bridge does not inject them again.      *)
(***************************************************************************)
EXTENDS ApprovalBroker

CONSTANTS
  Prompts,      \* how many prompts a question has
  MaxStarted    \* bound: how many calls and questions are ever started

ASSUME PromptsAssumption == Prompts \in Nat \ {0} /\ MaxStarted \in Nat

VARIABLES
  asked,   \* of each question: where execute stands
  seen     \* of each question: "answers", the items whose answer it has

toolVars == <<asked, seen>>
vars == <<items, ringing, brokerVars, hopVars, toolVars>>

Stages == {"idle", "parking", "leaving", "waiting", "set", "done", "failed"}

TypeOK ==
  /\ BrokerTypeOK
  /\ asked \in [Questions -> Stages]
  /\ seen \in [Questions -> SUBSET (1 .. Len(items))]

Init ==
  /\ BrokerInit
  /\ asked = [q \in Questions |-> "idle"]
  /\ seen = [q \in Questions |-> {}]

-----------------------------------------------------------------------------
(* The question tool, on the runtime's loop.                                *)

\* _auto_continues is read once: "leaving" parks, then does not wait.
Ask(q) ==
  /\ asked[q] = "idle"
  /\ asked' = [asked EXCEPT ![q] = IF auto THEN "leaving" ELSE "parking"]
  /\ UNCHANGED <<seen, items, ringing, brokerVars, hopVars>>

AllParked(q) == Cardinality(Of(q)) = Prompts

\* Mutant: the items parked before the queue was full stay.
RollbackNothing(q) == items

\* dismiss refuses an item that is no longer pending, and the refusal is ignored.
Rollback(q) == Moved(Of(q) \cap With("pending"), "dismissed", {})

\* One defer of the loop, or its ValueError.
Park(q) ==
  /\ asked[q] \in {"parking", "leaving"} /\ ~AllParked(q)
  /\ items' = IF Full THEN Rollback(q) ELSE Parked(q)
  /\ asked' = [asked EXCEPT ![q] = IF Full THEN "failed" ELSE @]
  /\ UNCHANGED <<seen, ringing, brokerVars, hopVars>>

\* Auto mode: the result says that the answers will come later.
Leave(q) ==
  /\ asked[q] = "leaving" /\ AllParked(q)
  /\ asked' = [asked EXCEPT ![q] = "done"]
  /\ UNCHANGED <<seen, items, ringing, brokerVars, hopVars>>

Waiting == {q \in Questions : asked[q] = "waiting"}

\* _resolve of the questions in Q: each takes the answers it has not seen, and
\* the last one sets its event.
Resolve(Q) ==
  LET now == [q \in Questions |-> IF q \in Q THEN seen[q] \cup (Of(q) \ With("pending")) ELSE seen[q]]
  IN  /\ seen' = now
      /\ asked' = [q \in Questions |-> IF q \in Q /\ now[q] = Of(q) THEN "set" ELSE
                                       IF q \in Q THEN "waiting" ELSE asked[q]]

\* add_listener, then one _resolve for an answer that raced in before.
Subscribe(q) ==
  /\ asked[q] = "parking" /\ AllParked(q)
  /\ Resolve({q})
  /\ UNCHANGED <<items, ringing, brokerVars, hopVars>>

\* Mutant: the answers are left for the bridge.
FinishKeeping(q) ==
  /\ asked[q] = "set"
  /\ asked' = [asked EXCEPT ![q] = "done"]
  /\ items' = Moved({}, "consumed", seen[q])
  /\ UNCHANGED <<seen, ringing, brokerVars, hopVars>>

\* execute after its await: the listener goes, the answered items are consumed,
\* the result carries the answers.
Finish(q) ==
  /\ asked[q] = "set"
  /\ asked' = [asked EXCEPT ![q] = "done"]
  /\ items' = Moved(Of(q) \cap With("answered"), "consumed", seen[q])
  /\ UNCHANGED <<seen, ringing, brokerVars, hopVars>>

-----------------------------------------------------------------------------
(* The bridge, and the listeners rung from the user's thread.               *)

InTool == {q \in Questions : asked[q] \notin {"idle", "done", "failed"}}

\* A provider request of the root session.  The orchestrator makes none while
\* a tool of the root runs.
ProviderRequest ==
  /\ InTool = {} /\ With("answered") # {}
  /\ items' = Moved(With("answered"), "consumed", With("answered"))
  /\ UNCHANGED <<ringing, toolVars, brokerVars, hopVars>>

\* The listeners that were there when _notify took its copy.
Ring ==
  /\ ringing
  /\ ringing' = FALSE
  /\ Resolve(Waiting)
  /\ UNCHANGED <<items, brokerVars, hopVars>>

-----------------------------------------------------------------------------
Started == {c \in Calls : phase[c] # "idle"} \cup {q \in Questions : asked[q] # "idle"}

Room == Cardinality(Started) < MaxStarted

BrokerNext ==
  \/ \E c \in Calls : Room /\ Stage(c)
  \/ \E c \in Calls : Request(c) \/ TimeOut(c) \/ Return(c)
  \/ RunPosted
  \/ Present
  \/ \E act \in Acts : Decide(act)
  \/ ToggleAuto

ToolNext ==
  \/ \E q \in Questions : Room /\ Ask(q)
  \/ \E q \in Questions : Park(q) \/ Leave(q) \/ Subscribe(q) \/ Finish(q)
  \/ ProviderRequest
  \/ Ring

Next ==
  \/ BrokerNext /\ UNCHANGED toolVars
  \/ ToolNext
  \/ \E i \in DOMAIN items : AnswerItem(i) /\ UNCHANGED <<brokerVars, hopVars, toolVars>>

Spec == Init /\ [][Next]_vars

\* The two loops run what was posted to them and the tasks that can go on.
\* No timer has to fire, and the human owes no answer.
Fairness ==
  /\ WF_vars(RunPosted /\ UNCHANGED toolVars)
  /\ WF_vars(Present /\ UNCHANGED toolVars)
  /\ WF_vars(Ring)
  /\ \A c \in Calls : WF_vars(Return(c) /\ UNCHANGED toolVars)
  /\ \A q \in Questions : WF_vars(Park(q) \/ Leave(q) \/ Subscribe(q) \/ Finish(q))

FairSpec == Spec /\ Fairness

-----------------------------------------------------------------------------
(* Properties.                                                              *)

\* A call goes ahead only on the human's own "Allow" of that call: no timeout,
\* no stale bar, no answer to another ticket and no deferral lets it through
\* (ApprovalBroker.request_approval, answer, defer).
AllowedOnlyByTheHuman ==
  \A c \in Calls : outcome[c] = "Allow" => "Allow" \in said[c]

\* Every answer the human gives to a parked decision reaches the model at most
\* once, and an item is consumed exactly when it has (QuestionTool.execute,
\* NeedsYouQueue.consume, StepBoundaryBridge.handle_event).
AnswerToldOnce ==
  \A i \in DOMAIN items : items[i].told = IF items[i].status = "consumed" THEN 1 ELSE 0

\* A question that failed, because the queue filled up while it parked its
\* prompts, leaves nothing for the human to decide (QuestionTool.execute).
FailedQuestionLeavesNothing ==
  \A q \in Questions : asked[q] = "failed" => Of(q) \cap With("pending") = {}

\* When nothing is under way between the two threads, the oldest open approval
\* is the one in the bar: no call waits for an answer nobody is asked for
\* (ApprovalBroker._notify, RuntimeAdapter._on_broker_change, present_approval).
HeadIsShown ==
  /\ toUi = <<>> /\ toRt = <<>>
  /\ \A c \in Open : future[c] = "unset"
  /\ head # NoCall
  => bar = head

\* Approvals reach the human: none is hidden, and a call is put to the human once,
\* so nothing is said of it twice (RuntimeAdapter._presented).
CallsReachTheHuman ==
  /\ HeadIsShown
  /\ \A c \in Calls : \A act \in said[c] : said[c] = {act}

\* A call the human has decided or deferred returns, without waiting for its
\* timer (ApprovalBroker.defer: deferral must never leave the call waiting).
DecidedCallsReturn ==
  \A c \in Calls : said[c] # {} ~> phase[c] = "done"

\* A question whose prompts are all answered returns, also when the answers
\* came before the tool listened (QuestionTool.execute).
AnsweredQuestionsReturn ==
  \A q \in Questions :
    (q \in InTool /\ AllParked(q) /\ Of(q) \cap With("pending") = {}) ~> q \notin InTool

\* Nobody waits for what has been decided.
DecidedWaitsEnd == DecidedCallsReturn /\ AnsweredQuestionsReturn

\* The detail of a ticket describes the call that asked.  Stated by the module
\* comment of kernel/approval.py; the staging by prompt does not keep it.
DetailIsOwn ==
  \A c \in Calls : detail[c] \in {NoCall, c}
=============================================================================
