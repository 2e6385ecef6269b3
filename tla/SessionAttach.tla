---------------------------- MODULE SessionAttach ----------------------------
(***************************************************************************)
(* Who owns the runtime of a session: kernel/session_attach.py and the     *)
(* part of kernel/serve.py that decides between joining a live runtime and *)
(* booting one.  The processes share two files, the advert attach.json and *)
(* the Unix socket; the socket's path is the same for every owner.         *)
(*                                                                         *)
(* One step is one file operation.  AttachServer.start claims under the    *)
(* marker of kernel/file_lock.py, which is made but not trusted: it stays  *)
(* behind when its maker dies, is taken from a maker that stalls, and a    *)
(* claimer that has waited for it long enough goes on without it (start    *)
(* does not look at what locked() yields).  LockedUpdate has the marker    *)
(* itself in finer steps.  live_endpoint and stop use no marker at all.    *)
(***************************************************************************)
EXTENDS Naturals, FiniteSets

CONSTANTS
  Procs,      \* processes that open this session, each once
  Twice,      \* bound: those that may claim twice (at once with --attachable,
              \* and when the control plane opens); the others claim once
  NoProc,     \* no file
  MaxCrashes  \* bound: processes killed without cleanup

ASSUME ProcsAssumption ==
  IsFiniteSet(Procs) /\ Twice \subseteq Procs /\ NoProc \notin Procs /\ MaxCrashes \in Nat

VARIABLES
  pc,         \* where each process stands
  advert,     \* attach.json: the pid it names
  sock,       \* the socket file: the process that bound it
  listening,  \* processes whose server accepts connections
  owners,     \* processes whose AttachServer holds an endpoint
  seen,       \* the endpoint each process has read and not probed yet
  joined,     \* the runtime each peer talks to
  claimer,    \* maker of the lock marker that is there, dead or alive
  held,       \* claimers that made a marker and will remove the one they find
  asked,      \* how often each process called _ensure_attach
  crashes,
  hits        \* history: how often the claim was not protected (below)

attachVars == <<pc, advert, sock, listening, owners, seen, joined, claimer, held, asked, crashes, hits>>

Looking == {"look", "probe", "wipe", "wipeSocket", "connect", "boot"}
Claiming == {"claim", "reread", "rewipe", "rewipeSocket", "unbind", "bind", "advertise"}
Stopping == {"stopWipe", "stopWipeSocket"}
Runtimes == {"serving"} \cup Claiming \cup Stopping
Ended == {"gone", "crashed"}

MaybeProc == Procs \cup {NoProc}

AttachTypeOK ==
  /\ pc \in [Procs -> {"idle", "peer"} \cup Looking \cup Runtimes \cup Ended]
  /\ advert \in MaybeProc /\ sock \in MaybeProc
  /\ claimer \in {NoProc} \cup {p \in Procs : p \in held \/ pc[p] = "crashed"}
  /\ held \subseteq {p \in Procs : pc[p] \in Claiming \ {"claim"}}
  /\ listening \subseteq {p \in Procs : pc[p] \in Runtimes}
  /\ owners \subseteq {p \in Procs : pc[p] \in {"serving"} \cup Stopping}
  /\ seen \in [Procs -> MaybeProc] /\ joined \in [Procs -> MaybeProc]
  /\ asked \in [Procs -> 0 .. 2]
  /\ crashes \in 0 .. MaxCrashes
  /\ hits \in Nat

AttachInit ==
  /\ pc = [p \in Procs |-> "idle"]
  /\ advert = NoProc /\ sock = NoProc /\ claimer = NoProc
  /\ listening = {} /\ owners = {} /\ held = {}
  /\ seen = [p \in Procs |-> NoProc]
  /\ joined = [p \in Procs |-> NoProc]
  /\ asked = [p \in Procs |-> 0]
  /\ crashes = 0
  /\ hits = 0

Goto(p, label) == pc' = [pc EXCEPT ![p] = label]

Alive(p) == pc[p] \notin {"idle"} \cup Ended

\* What can go wrong with a claim is counted: an unlink by a process without
\* the marker takes the file of a process that listens, a claimer goes ahead
\* without the marker, a claimer that is still at it loses its marker.
Counting(event) == hits' = IF event THEN hits + 1 ELSE hits

\* endpoint_live: the advertised pid is alive and the socket answers.
Answers == sock # NoProc /\ sock \in listening

EndpointLive(e) == e # NoProc /\ Alive(e) /\ Answers

-----------------------------------------------------------------------------
(* serve: look for a live runtime (only with --attach), join it or boot.    *)

Open(p) ==
  /\ pc[p] = "idle"
  /\ \E first \in {"look", "boot"} : Goto(p, first)
  /\ UNCHANGED <<advert, sock, listening, owners, seen, joined, claimer, held, asked, crashes, hits>>

\* live_endpoint reads the advert ...
Look(p) ==
  /\ pc[p] = "look"
  /\ seen' = [seen EXCEPT ![p] = advert]
  /\ Goto(p, IF advert = NoProc THEN "boot" ELSE "probe")
  /\ UNCHANGED <<advert, sock, listening, owners, joined, claimer, held, asked, crashes, hits>>

\* Mutant: a dead endpoint is looked at again and not cleared.
ProbeAgain(p) ==
  /\ pc[p] = "probe"
  /\ Goto(p, IF EndpointLive(seen[p]) THEN "connect" ELSE "look")
  /\ seen' = [seen EXCEPT ![p] = NoProc]
  /\ UNCHANGED <<advert, sock, listening, owners, joined, claimer, held, asked, crashes, hits>>

\* ... probes what it read ...
Probe(p) ==
  /\ pc[p] = "probe"
  /\ Goto(p, IF EndpointLive(seen[p]) THEN "connect" ELSE "wipe")
  /\ seen' = [seen EXCEPT ![p] = NoProc]
  /\ UNCHANGED <<advert, sock, listening, owners, joined, claimer, held, asked, crashes, hits>>

\* ... and clears what is there now: clear_endpoint, the advert first.
Wipe(p) ==
  /\ pc[p] = "wipe"
  /\ advert' = NoProc
  /\ Counting(advert \in listening)
  /\ Goto(p, "wipeSocket")
  /\ UNCHANGED <<sock, listening, owners, seen, joined, claimer, held, asked, crashes>>

WipeSocket(p) ==
  /\ pc[p] = "wipeSocket"
  /\ sock' = NoProc
  /\ Counting(sock \in listening)
  /\ Goto(p, "boot")
  /\ UNCHANGED <<advert, listening, owners, seen, joined, claimer, held, asked, crashes>>

\* run_attach_client: a refused connection ends the process.
Connect(p) ==
  /\ pc[p] = "connect"
  /\ IF Answers THEN joined' = [joined EXCEPT ![p] = sock] /\ Goto(p, "peer")
                ELSE UNCHANGED joined /\ Goto(p, "gone")
  /\ UNCHANGED <<advert, sock, listening, owners, seen, claimer, held, asked, crashes, hits>>

\* The peer's stdin closes, or its owner hangs up.
Detach(p) ==
  /\ pc[p] = "peer"
  /\ Goto(p, "gone")
  /\ joined' = [joined EXCEPT ![p] = NoProc]
  /\ UNCHANGED <<advert, sock, listening, owners, seen, claimer, held, asked, crashes, hits>>

\* runtime.start() succeeds or fails.
Boot(p) ==
  /\ pc[p] = "boot"
  /\ \E next \in {"serving", "gone"} : Goto(p, next)
  /\ UNCHANGED <<advert, sock, listening, owners, seen, joined, claimer, held, asked, crashes, hits>>

-----------------------------------------------------------------------------
(* _ensure_attach and AttachServer.start, under the file lock.              *)

\* A runtime that owns no endpoint claims the session.
EnsureAttach(p) ==
  /\ pc[p] = "serving" /\ p \notin owners /\ asked[p] < (IF p \in Twice THEN 2 ELSE 1)
  /\ asked' = [asked EXCEPT ![p] = @ + 1]
  /\ Goto(p, "claim")
  /\ UNCHANGED <<advert, sock, listening, owners, seen, joined, claimer, held, crashes, hits>>

TakeLock(p) ==
  /\ pc[p] = "claim" /\ claimer = NoProc
  /\ claimer' = p
  /\ held' = held \cup {p}
  /\ Goto(p, "reread")
  /\ UNCHANGED <<advert, sock, listening, owners, seen, joined, asked, crashes, hits>>

\* The maker of the marker has not finished with it.
AtWork(p) == p \in held

\* A marker that looks older than stale_after is removed: its maker is dead,
\* or has stalled, or is not the one whose age was read.
BreakLock(p) ==
  /\ pc[p] = "claim" /\ claimer # NoProc
  /\ claimer' = NoProc
  /\ Counting(AtWork(claimer))
  /\ UNCHANGED <<pc, advert, sock, listening, owners, seen, joined, held, asked, crashes>>

\* The timeout runs out, or the marker cannot be made: on without it.
GoAhead(p) ==
  /\ pc[p] = "claim"
  /\ Goto(p, "reread")
  /\ Counting(TRUE)
  /\ UNCHANGED <<advert, sock, listening, owners, seen, joined, claimer, held, asked, crashes>>

\* The end of the with block: who made a marker removes the one that is there.
Release(p) ==
  /\ claimer' = IF p \in held THEN NoProc ELSE claimer
  /\ held' = held \ {p}
  /\ Counting(p \in held /\ claimer # p /\ AtWork(claimer))

\* Mutant: whatever endpoint is there is taken for stale.
RereadBlindly(p) ==
  /\ pc[p] = "reread"
  /\ Goto(p, IF advert = NoProc THEN "unbind" ELSE "rewipe")
  /\ UNCHANGED <<advert, sock, listening, owners, seen, joined, claimer, held, asked, crashes, hits>>

\* A live owner: start returns None and the caller keeps serving.
Reread(p) ==
  /\ pc[p] = "reread"
  /\ IF EndpointLive(advert)
     THEN Goto(p, "serving") /\ Release(p)
     ELSE /\ Goto(p, IF advert = NoProc THEN "unbind" ELSE "rewipe")
          /\ UNCHANGED <<claimer, held, hits>>
  /\ UNCHANGED <<advert, sock, listening, owners, seen, joined, asked, crashes>>

Rewipe(p) ==
  /\ pc[p] = "rewipe"
  /\ advert' = NoProc
  /\ Counting(claimer # p /\ advert \in listening)
  /\ Goto(p, "rewipeSocket")
  /\ UNCHANGED <<sock, listening, owners, seen, joined, claimer, held, asked, crashes>>

\* The socket is unlinked twice: with the stale advert, and before the bind.
RewipeSocket(p) ==
  /\ \/ pc[p] = "rewipeSocket" /\ Goto(p, "unbind")
     \/ pc[p] = "unbind" /\ Goto(p, "bind")
  /\ sock' = NoProc
  /\ Counting(claimer # p /\ sock \in listening)
  /\ UNCHANGED <<advert, listening, owners, seen, joined, claimer, held, asked, crashes>>

\* start_unix_server removes what socket is at the path and binds its own.
Bind(p) ==
  /\ pc[p] = "bind"
  /\ sock' = p
  /\ listening' = listening \cup {p}
  /\ Goto(p, "advertise")
  /\ UNCHANGED <<advert, owners, seen, joined, claimer, held, asked, crashes, hits>>

\* No socket can be made: start returns None, and the path stays as it was.
BindFails(p) ==
  /\ pc[p] = "bind"
  /\ Goto(p, "serving")
  /\ Release(p)
  /\ UNCHANGED <<advert, sock, listening, owners, seen, joined, asked, crashes>>

Advertise(p) ==
  /\ pc[p] = "advertise"
  /\ advert' = p
  /\ owners' = owners \cup {p}
  /\ Release(p)
  /\ Goto(p, "serving")
  /\ UNCHANGED <<sock, listening, seen, joined, asked, crashes>>

-----------------------------------------------------------------------------
(* The end of serve_loop, and death without it.                             *)

\* AttachServer.stop: the server closes, and from Python 3.13 on removes its
\* own socket file; the unlinks come after the await.
Stop(p) ==
  /\ pc[p] = "serving"
  /\ listening' = listening \ {p}
  /\ sock' \in {sock, IF sock = p THEN NoProc ELSE sock}
  /\ Goto(p, IF p \in owners THEN "stopWipe" ELSE "gone")
  /\ UNCHANGED <<advert, owners, seen, joined, claimer, held, asked, crashes, hits>>

StopWipe(p) ==
  /\ pc[p] = "stopWipe"
  /\ advert' = NoProc
  /\ Counting(advert \in listening)
  /\ Goto(p, "stopWipeSocket")
  /\ UNCHANGED <<sock, listening, owners, seen, joined, claimer, held, asked, crashes>>

StopWipeSocket(p) ==
  /\ pc[p] = "stopWipeSocket"
  /\ sock' = NoProc
  /\ Counting(sock \in listening)
  /\ owners' = owners \ {p}
  /\ Goto(p, "gone")
  /\ UNCHANGED <<advert, listening, seen, joined, claimer, held, asked, crashes>>

\* kill -9: the files stay, a claimer's marker among them; the kernel closes
\* the socket.
Crash(p) ==
  /\ Alive(p) /\ crashes < MaxCrashes
  /\ crashes' = crashes + 1
  /\ Goto(p, "crashed")
  /\ listening' = listening \ {p}
  /\ owners' = owners \ {p}
  /\ joined' = [joined EXCEPT ![p] = NoProc]
  /\ held' = held \ {p}
  /\ UNCHANGED <<advert, sock, seen, claimer, hits, asked>>

Proceed(p) ==
  \/ Look(p) \/ Probe(p) \/ Wipe(p) \/ WipeSocket(p) \/ Connect(p) \/ Boot(p)
  \/ TakeLock(p) \/ BreakLock(p) \/ GoAhead(p)
  \/ Reread(p) \/ Rewipe(p) \/ RewipeSocket(p) \/ Bind(p) \/ BindFails(p) \/ Advertise(p)
  \/ StopWipe(p) \/ StopWipeSocket(p)

AttachNext ==
  \E p \in Procs :
    Open(p) \/ Proceed(p) \/ Detach(p) \/ EnsureAttach(p) \/ Stop(p) \/ Crash(p)

AttachSpec == AttachInit /\ [][AttachNext]_attachVars

\* A process that has begun to open, claim or stop goes on doing so; nothing
\* is assumed about when anyone opens, stops or claims.
FairAttach == AttachSpec /\ \A p \in Procs : WF_attachVars(Proceed(p))

-----------------------------------------------------------------------------
(* Correctness.                                                             *)

Owning == owners \cap listening

\* While the claim was protected throughout, a live owner is findable: the
\* advert and the socket are its own, so there is only one, and whoever is
\* attached to a listening process shares that owner's runtime.  And each
\* second owner has its cause: there are never more owners than one and the
\* times an unlink, a timeout or a lost marker left a claim unprotected
\* (and AttachTypeOK).
OwnerIsFindable ==
  /\ AttachTypeOK
  /\ hits = 0 =>
       /\ \A p \in Owning : advert = p /\ sock = p
       /\ \A p \in Procs : joined[p] \in listening => joined[p] = sock
  /\ Cardinality(Owning) <= 1 + hits

\* A dead owner never wedges the session: whoever opens it ends up as a peer
\* or a runtime (or gives up), and whoever claims it is answered.
NeverWedged ==
  \A p \in Procs :
    pc[p] \in Looking \cup Claiming ~> pc[p] \in {"peer", "serving"} \cup Ended

-----------------------------------------------------------------------------
(* Promises of the comments that the code does not keep.                    *)

\* "two processes racing to own the same session cannot both win"
\* (AttachServer.start, session_attach.py:246).
OneOwner == Cardinality(Owning) <= 1
=============================================================================
