------------------------------ MODULE LiveMCP ------------------------------
(***************************************************************************)
(* LiveMCPReconciler (kernel/live_mcp.py): bringing the running session in *)
(* line with the configured MCP servers.  A user's command saves the       *)
(* configuration and then queues for the lock; holding it, an operation    *)
(* starts a manager for the new connection, takes the old tools off the    *)
(* coordinator, puts the new ones on, and stops the old manager.  Every    *)
(* mount, unmount and stop may fail, and is undone as far as that works.   *)
(*                                                                         *)
(* The pinned tool-mcp has no mcp.reconcile capability, so the targeted    *)
(* path is the one that runs.  What a server offers is found out by        *)
(* starting it; its start, the coordinator and stop are external.          *)
(***************************************************************************)
EXTENDS Naturals, Sequences, FiniteSets, SequencesExt

CONSTANTS
  Servers, Names,   \* server names; tool names
  Specs,            \* configurations of a server, numbers from 1
  MaxAsked,         \* commands of the user
  MaxFailures       \* starts, mounts, unmounts and stops that fail

ASSUME MCPAssumption ==
  /\ IsFiniteSet(Servers) /\ "none" \notin Servers /\ IsFiniteSet(Names)
  /\ Specs \subseteq Nat \ {0}
  /\ MaxAsked \in Nat /\ MaxFailures \in Nat

VARIABLES
  config,     \* the saved configuration: a spec, or 0
  managers,   \* every manager started: its server, spec, tools, and whether it runs
  tools,      \* who mounted the tool of a name: a manager, or 0
  owned,      \* _owned: the manager of a server, or 0
  stranded,   \* _stranded: managers with the tools that may still be theirs
  queue,      \* operations that wait for the lock
  op,         \* the operation that holds it
  result,     \* the last result: of which operation, ok, and connected
  asked, failures,
  torn,       \* history: an undo has failed
  behind      \* history: servers whose last result was a failure

state == <<config, managers, tools, owned, stranded>>
vars == <<state, queue, op, result, asked, failures, torn, behind>>

\* at: where the operation stands; left: the tools it still has to handle
\* there; done: those it has handled; new: the manager it started;
\* broken: an undo of it failed; todo: what close has still to release.
None == [do |-> "none", server |-> "none", spec |-> 0, prev |-> FALSE]
Idle == [req |-> None, at |-> "idle", left |-> <<>>, done |-> <<>>, new |-> 0,
         broken |-> FALSE, todo |-> {}]

s == op.req.server
old == IF s \in Servers THEN owned[s] ELSE 0

Runs(m) == managers[m].runs
Offered(m) == managers[m].tools
Mine(t) == {n \in Names : tools[n] # 0 /\ managers[tools[n]].server = t}

\* At most one server was started at boot by tool-mcp itself, as manager 1.
Init ==
  /\ \E booted \in {<<>>} \cup
       {<<[server |-> b, spec |-> v, tools |-> <<n>>, runs |-> TRUE, boot |-> TRUE]>> :
          b \in Servers, v \in Specs, n \in Names} :
       /\ managers = booted
       /\ config = [t \in Servers |->
                      IF booted # <<>> /\ booted[1].server = t THEN booted[1].spec ELSE 0]
       /\ tools = [n \in Names |-> IF booted # <<>> /\ booted[1].tools = <<n>> THEN 1 ELSE 0]
  /\ owned = [t \in Servers |-> 0] /\ stranded = {}
  /\ queue = <<>> /\ op = Idle
  /\ result = [req |-> None, ok |-> TRUE, connected |-> "unknown"]
  /\ asked = 0 /\ failures = 0 /\ torn = FALSE /\ behind = {}

-----------------------------------------------------------------------------
(* The user's commands (kernel/runtime.py).  The configuration is saved     *)
(* before the lock is asked for, with no step in between.                   *)

Ask(req) ==
  /\ asked < MaxAsked /\ asked' = asked + 1
  /\ \A i \in DOMAIN queue : queue[i].do # "close"
  /\ op.req.do # "close" /\ op.at # "closed"
  /\ queue' = Append(queue, req)
  /\ UNCHANGED <<managers, tools, owned, stranded, op, result, failures, torn, behind>>

AddServer(t, v) ==
  /\ Ask([do |-> "add", server |-> t, spec |-> v, prev |-> config[t] # 0])
  /\ config' = [config EXCEPT ![t] = v]

ReloadServer(t) ==
  /\ config[t] # 0
  /\ Ask([do |-> "reload", server |-> t, spec |-> config[t], prev |-> TRUE])
  /\ UNCHANGED config

RemoveServer(t) ==
  /\ config[t] # 0
  /\ Ask([do |-> "remove", server |-> t, spec |-> 0, prev |-> TRUE])
  /\ config' = [config EXCEPT ![t] = 0]

\* The session's cleanup calls close.
Cleanup == Ask([None EXCEPT !.do = "close"]) /\ UNCHANGED config

-----------------------------------------------------------------------------
(* The operation that holds the lock.                                       *)

Go(at, left) == op' = [op EXCEPT !.at = at, !.left = left, !.done = <<>>]

\* The result, and the lock is released; close goes on with the next server.
Report(ok, connected) ==
  /\ op' = IF op.req.do = "close" THEN [op EXCEPT !.at = "closing"] ELSE Idle
  /\ result' = [req |-> op.req, ok |-> ok, connected |-> connected]
  /\ behind' = IF ok THEN behind \ {s} ELSE behind \cup {s}

Quiet == UNCHANGED <<result, behind>>

\* The lock is granted in the order it was asked for.
Begin ==
  /\ op.at = "idle" /\ queue # <<>>
  /\ queue' = Tail(queue)
  /\ op' = [Idle EXCEPT !.req = Head(queue),
                        !.at = IF Head(queue).do = "close" THEN "closing" ELSE "begin",
                        !.todo = IF Head(queue).do = "close"
                                     THEN {t \in Servers : owned[t] # 0} ELSE {}]
  /\ UNCHANGED <<state, result, asked, failures, torn, behind>>

\* Mutant: a server that is connected is connected as requested.
Same(v) == TRUE

\* old.spec == spec
SameSpec(v) == managers[old].spec = v

\* _upsert_targeted as far as its first await
UpsertTargeted ==
  /\ op.at = "begin" /\ op.req.do \in {"add", "reload"}
  /\ \/ old # 0 /\ SameSpec(op.req.spec) /\ Report(TRUE, "yes")
     \/ old = 0 /\ Mine(s) # {} /\ Report(FALSE, "yes")
     \/ /\ old = 0 /\ Mine(s) = {} /\ (op.req.do = "reload" \/ op.req.prev)
        /\ Report(FALSE, "unknown")
     \/ /\ IF old = 0 THEN Mine(s) = {} /\ op.req.do = "add" /\ ~op.req.prev
                      ELSE ~SameSpec(op.req.spec)
        /\ Go("discover", <<>>) /\ Quiet
  /\ UNCHANGED <<state, queue, asked, failures, torn>>

\* _remove_targeted as far as its first await
RemoveTargeted ==
  /\ op.at = "begin" /\ op.req.do = "remove"
  /\ \/ old # 0 /\ Go("unmount", Reverse(Offered(old))) /\ Quiet
     \/ old = 0 /\ Mine(s) # {} /\ Report(FALSE, "yes")
     \/ old = 0 /\ Mine(s) = {} /\ ~op.req.prev /\ Report(TRUE, "no")
     \/ old = 0 /\ Mine(s) = {} /\ op.req.prev /\ Report(FALSE, "unknown")
  /\ UNCHANGED <<state, queue, asked, failures, torn>>

Fail(k) == failures + k <= MaxFailures /\ failures' = failures + k

Stranding(m, names) == stranded' = stranded \cup {[manager |-> m, tools |-> names]}

Started(X) == Append(managers, [server |-> s, spec |-> op.req.spec, tools |-> SetToSeq(X),
                                runs |-> TRUE, boot |-> FALSE])

\* _discover_targeted, when the server does not come up: the manager is stopped,
\* and kept if that fails too.
DiscoverFails ==
  /\ op.at = "discover"
  /\ \/ Fail(1) /\ UNCHANGED <<managers, stranded>>
     \/ Fail(2) /\ managers' = Started({}) /\ Stranding(Len(managers'), <<>>)
  /\ Report(FALSE, IF old # 0 THEN "yes" ELSE "no")
  /\ UNCHANGED <<config, tools, owned, queue, asked, torn>>

\* Mutant: a new tool may take the place of any other.
AnyName(X) == {}

\* collisions - allowed
Unexpected(X) ==
  {n \in X : tools[n] # 0 /\ (old # 0 => n \notin ToSet(Offered(old)))}

\* The manager is up, and the check that none of its tools is taken follows.
Discover ==
  /\ op.at = "discover"
  /\ \E X \in SUBSET Names :
       /\ managers' = Started(X)
       /\ LET next(at, left) == [op EXCEPT !.at = at, !.left = left, !.done = <<>>,
                                           !.new = Len(managers')]
          IN  op' = IF Unexpected(X) # {} THEN next("discard", <<>>)
                    ELSE IF old = 0       THEN next("mount", SetToSeq(X))
                                          ELSE next("unmount", Reverse(Offered(old)))
  /\ UNCHANGED <<config, tools, owned, stranded, queue, result, asked, failures, torn, behind>>

Handled == [op EXCEPT !.left = Tail(@), !.done = Append(@, Head(op.left))]

\* _unmount_names of the old tools, one by one
Unmount ==
  /\ op.at = "unmount" /\ op.left # <<>>
  /\ \/ tools' = [tools EXCEPT ![Head(op.left)] = 0] /\ op' = Handled /\ UNCHANGED failures
     \/ Fail(1) /\ Go("putback", op.done) /\ UNCHANGED tools
  /\ UNCHANGED <<config, managers, owned, stranded, queue, result, asked, torn, behind>>

Unmounted ==
  /\ op.at = "unmount" /\ op.left = <<>>
  /\ IF op.new = 0 THEN Go("stopold", <<>>) ELSE Go("mount", Offered(op.new))
  /\ UNCHANGED <<state, queue, result, asked, failures, torn, behind>>

\* _mount_wrappers, one by one
Mount ==
  /\ op.at = "mount" /\ op.left # <<>>
  /\ \/ tools' = [tools EXCEPT ![Head(op.left)] = op.new] /\ op' = Handled /\ UNCHANGED failures
     \/ Fail(1) /\ Go("undo", Reverse(op.done)) /\ UNCHANGED tools
  /\ UNCHANGED <<config, managers, owned, stranded, queue, result, asked, torn, behind>>

\* The old manager is stopped only now that the new one is owned.
Mounted ==
  /\ op.at = "mount" /\ op.left = <<>>
  /\ owned' = [owned EXCEPT ![s] = op.new]
  /\ IF old = 0 THEN Report(TRUE, "yes")
                ELSE op' = [op EXCEPT !.at = "stopold", !.new = old] /\ Quiet
  /\ UNCHANGED <<config, managers, tools, stranded, queue, asked, failures, torn>>

\* The old tools that are not mounted, in some order.
Gone == SetToSeq({n \in ToSet(Offered(old)) : tools[n] = 0})

\* The new tools are taken off again.  When that fails the manager is stranded.
Undo ==
  /\ op.at = "undo" /\ op.left # <<>>
  /\ \/ /\ tools' = [tools EXCEPT ![Head(op.left)] = 0] /\ op' = Handled
        /\ Quiet /\ UNCHANGED <<failures, stranded, torn>>
     \/ /\ Fail(1) /\ torn' = TRUE
        /\ Stranding(op.new, Offered(op.new))
        /\ IF old = 0 THEN Report(FALSE, "unknown")
                      ELSE /\ op' = [op EXCEPT !.at = "putback", !.left = Gone, !.new = 0,
                                               !.broken = TRUE]
                           /\ Quiet
        /\ UNCHANGED tools
  /\ UNCHANGED <<config, managers, owned, queue, asked>>

Undone ==
  /\ op.at = "undo" /\ op.left = <<>>
  /\ IF old = 0 THEN Go("discard", <<>>) ELSE Go("putback", Gone)
  /\ UNCHANGED <<state, queue, result, asked, failures, torn, behind>>

\* _remount_subset: a tool that cannot be put back does not stop the others.
PutBack ==
  /\ op.at = "putback" /\ op.left # <<>>
  /\ \/ /\ tools' = [tools EXCEPT ![Head(op.left)] = old] /\ op' = Handled
        /\ UNCHANGED <<failures, torn>>
     \/ /\ Fail(1) /\ torn' = TRUE
        /\ op' = [Handled EXCEPT !.broken = TRUE]
        /\ UNCHANGED tools
  /\ UNCHANGED <<config, managers, owned, stranded, queue, result, asked, behind>>

\* _rollback_failure
RolledBack == Report(FALSE, IF op.broken THEN "unknown" ELSE "yes")

PutBackDone ==
  /\ op.at = "putback" /\ op.left = <<>>
  /\ IF op.new = 0 THEN RolledBack ELSE Go("discard", <<>>) /\ Quiet
  /\ UNCHANGED <<state, queue, asked, failures, torn>>

Stopped(m) == [managers EXCEPT ![m].runs = FALSE]

\* Mutant: a manager that does not stop is forgotten.
DiscardAndForget ==
  /\ op.at = "discard"
  /\ \/ managers' = Stopped(op.new) /\ UNCHANGED failures
     \/ Fail(1) /\ UNCHANGED managers
  /\ IF old = 0 THEN Report(FALSE, "no") ELSE RolledBack
  /\ UNCHANGED <<config, tools, owned, stranded, queue, asked, torn>>

\* _stop_discarded: the new manager is not used.
Discard ==
  /\ op.at = "discard"
  /\ \/ managers' = Stopped(op.new) /\ UNCHANGED <<failures, stranded>>
     \/ Fail(1) /\ Stranding(op.new, <<>>) /\ UNCHANGED managers
  /\ IF old = 0 THEN Report(FALSE, "no") ELSE RolledBack
  /\ UNCHANGED <<config, tools, owned, queue, asked, torn>>

Replacing == op.new # 0

\* manager.stop() of the old connection: after a replacement, or to remove it.
StopOld ==
  /\ op.at = "stopold"
  /\ \/ /\ managers' = Stopped(IF Replacing THEN op.new ELSE old)
        /\ owned' = IF Replacing THEN owned ELSE [owned EXCEPT ![s] = 0]
        /\ IF Replacing THEN Report(TRUE, "yes") ELSE Report(TRUE, "no")
        /\ UNCHANGED <<failures, stranded>>
     \/ /\ Fail(1)
        /\ IF Replacing THEN Stranding(op.new, <<>>) /\ Report(TRUE, "yes")
                        ELSE Go("putback", Offered(old)) /\ Quiet /\ UNCHANGED stranded
        /\ UNCHANGED <<managers, owned>>
  /\ UNCHANGED <<config, tools, queue, asked, torn>>

-----------------------------------------------------------------------------
(* close: the owned servers are removed, then what is stranded is released.  *)

CloseServer ==
  /\ op.at = "closing"
  /\ \E t \in op.todo :
       op' = [op EXCEPT !.todo = @ \ {t}, !.broken = FALSE,
                !.req = [@ EXCEPT !.server = t],
                !.at = "unmount", !.left = Reverse(Offered(owned[t])), !.done = <<>>]
  /\ UNCHANGED <<state, queue, result, asked, failures, torn, behind>>

\* What cannot be released, its tools off or not, is kept.
Sweep ==
  /\ op.at = "closing" /\ op.todo = {}
  /\ \E left \in SUBSET stranded :
       /\ Fail(Cardinality(left))
       /\ \E off \in SUBSET UNION {ToSet(x.tools) : x \in left} :
            LET freed == UNION {ToSet(x.tools) : x \in stranded \ left}
            IN  tools' = [n \in Names |-> IF n \in freed \cup off THEN 0 ELSE tools[n]]
       /\ managers' = [m \in DOMAIN managers |->
            [managers[m] EXCEPT !.runs = @ /\ m \notin {x.manager : x \in stranded \ left}]]
       /\ stranded' = left
  /\ op' = [Idle EXCEPT !.at = "closed"]
  /\ UNCHANGED <<config, owned, queue, result, asked, torn, behind>>

Next ==
  \/ \E t \in Servers : (\E v \in Specs : AddServer(t, v)) \/ ReloadServer(t) \/ RemoveServer(t)
  \/ Cleanup
  \/ Begin \/ UpsertTargeted \/ RemoveTargeted \/ Discover \/ DiscoverFails
  \/ Unmount \/ Unmounted \/ Mount \/ Mounted
  \/ Undo \/ Undone \/ PutBack \/ PutBackDone \/ Discard \/ StopOld
  \/ CloseServer \/ Sweep

Spec == Init /\ [][Next]_vars

-----------------------------------------------------------------------------
Managers == 0 .. Len(managers)

TypeOK ==
  /\ config \in [Servers -> Specs \cup {0}]
  /\ tools \in [Names -> Managers] /\ owned \in [Servers -> Managers]
  /\ \A x \in stranded : x.manager \in Managers /\ x.tools \in Seq(Names)
  /\ op.new \in Managers /\ ToSet(op.left) \cup ToSet(op.done) \subseteq Names
  /\ asked \in 0 .. MaxAsked /\ failures \in 0 .. MaxFailures
  /\ torn \in BOOLEAN /\ behind \subseteq Servers

\* Whatever fails in whatever order, no connection is lost sight of: a manager
\* that runs is the boot's, or owned, or stranded for close to release, or in
\* the hands of the operation under way (_stop_discarded, _stranded; and TypeOK).
NothingLeaks ==
  TypeOK /\ \A m \in DOMAIN managers :
    Runs(m) => \/ managers[m].boot
               \/ m \in {owned[t] : t \in Servers}
               \/ m \in {x.manager : x \in stranded}
               \/ m = op.new

\* At every await the model can only call tools that are served: a mounted tool
\* belongs to a manager that runs and offers it, and no tool has been replaced
\* by another server's (_replace_owned, _remove_owned).
Served ==
  /\ \A n \in Names : tools[n] # 0 => Runs(tools[n]) /\ n \in ToSet(Offered(tools[n]))
  /\ \A m \in DOMAIN managers : managers[m].boot => tools[Offered(m)[1]] = m

\* Between operations, unless an undo failed, an owned server has all its tools
\* mounted, and nothing else of the reconciler's is: every operation happened
\* as a whole or not at all (the rollbacks of kernel/live_mcp.py).
AllOrNothing ==
  op.at \in {"idle", "closed"} /\ ~torn =>
    \A n \in Names, t \in Servers :
      LET has  == owned[t] # 0 /\ n \in ToSet(Offered(owned[t]))
          mine == tools[n] # 0 /\ ~managers[tools[n]].boot /\ managers[tools[n]].server = t
      IN  (mine <=> has) /\ (mine => tools[n] = owned[t])

\* Both: the model's tools are served at every await and whole between operations.
ToolsAreServed == Served /\ AllOrNothing

\* What is reported is what is: unless an undo failed, "connected" means that the
\* server has a live connection, "not connected" that none of its tools is left;
\* and a server whose last operation succeeded lives by the saved configuration
\* once the operations asked for are done (MCPReconcileResult).
ReportsAreTrue ==
  op.at = "idle" /\ ~torn =>
    /\ result.connected = "yes" =>
         \E m \in DOMAIN managers : managers[m].server = result.req.server /\ Runs(m)
    /\ result.connected = "no" => Mine(result.req.server) = {}
    /\ queue = <<>> =>
         \A t \in Servers \ behind :
           owned[t] # 0 => config[t] = managers[owned[t]].spec
=============================================================================
