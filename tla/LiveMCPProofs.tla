---------------------------- MODULE LiveMCPProofs ----------------------------
(***************************************************************************)
(* What LiveMCPReconciler keeps for any servers, tools and number of       *)
(* commands, whatever fails and however often: no connection is lost sight *)
(* of, the tools the model sees are served and whole, and what is reported *)
(* is what is.                                                             *)
(***************************************************************************)
EXTENDS LiveMCP, FiniteSetTheorems, TLAPS

Upserts == {"add", "reload"}
Stages == {"idle", "begin", "discover", "unmount", "mount", "undo", "putback", "discard",
           "stopold", "closing", "closed"}
MaySpec == Specs \cup {0}
Requests == [do : {"none", "add", "reload", "remove", "close"},
             server : Servers \cup {"none"}, spec : MaySpec, prev : BOOLEAN]
Connections == [server : Servers, spec : Specs, tools : Seq(Names), runs : BOOLEAN,
                boot : BOOLEAN]

OpIn(k) == [req : Requests, at : Stages, left : Seq(Names), done : Seq(Names),
            new : 0 .. k, broken : BOOLEAN, todo : SUBSET Servers]
Results == [req : Requests, ok : BOOLEAN, connected : {"unknown", "yes", "no"}]

\* The types TypeOK leaves to the records.
Types ==
  /\ config \in [Servers -> MaySpec]
  /\ managers \in Seq(Connections)
  /\ tools \in [Names -> 0 .. Len(managers)]
  /\ owned \in [Servers -> 0 .. Len(managers)]
  /\ stranded \subseteq [manager : 1 .. Len(managers), tools : Seq(Names)]
  /\ queue \in Seq(Requests)
  /\ op \in OpIn(Len(managers)) /\ result \in Results
  /\ asked \in 0 .. MaxAsked /\ failures \in 0 .. MaxFailures
  /\ torn \in BOOLEAN /\ behind \subseteq Servers

\* Where an operation of each kind can stand, and when it has a new manager.
Working == {"discover", "unmount", "mount", "undo", "putback", "discard", "stopold"}

Control ==
  /\ op.at \in {"idle", "closed"} => op.new = 0 /\ op.req.do = "none"
  /\ op.at = "closing" => op.req.do = "close"
  /\ op.at \in Working \cup {"begin"} => s \in Servers
  /\ op.at = "begin" => op.req.do \in Upserts \cup {"remove"}
  /\ op.at \in {"begin", "discover", "unmount", "mount", "undo", "stopold"} => ~op.broken
  /\ op.at \in {"discover", "mount", "undo", "discard"} => op.req.do \in Upserts
  /\ op.at \in {"unmount", "putback", "stopold"} =>
       old # 0 /\ op.req.do \in Upserts \cup {"remove", "close"}
  /\ op.at \in {"begin", "discover"} \/ op.req.do \in {"remove", "close"} => op.new = 0
  /\ op.at \in {"unmount", "stopold", "mount", "undo", "discard"} /\ op.req.do \in Upserts =>
       op.new # 0
  /\ op.req.do \in Upserts => op.req.spec \in Specs
  /\ op.at \in Working => (op.req.do = "close" => s \notin op.todo)
  /\ \A t \in op.todo : op.req.do = "close" /\ owned[t] # 0

\* The commands that wait, and the one under way, have what they need: the
\* last command for a server is what the configuration says of it.
Asked ==
  /\ \A i \in DOMAIN queue :
       /\ queue[i].do \in Upserts \cup {"remove"} => queue[i].server \in Servers
       /\ queue[i].do \in Upserts => queue[i].spec \in Specs
       /\ queue[i].do \in Upserts \cup {"remove", "close"}
  /\ \A i \in DOMAIN queue :
       queue[i].do # "close" =>
         \/ \E j \in DOMAIN queue : j > i /\ queue[j].server = queue[i].server
         \/ config[queue[i].server] = queue[i].spec
  /\ op.at \in Working \cup {"begin"} /\ op.req.do # "close" =>
         \/ \E j \in DOMAIN queue : queue[j].server = s
         \/ config[s] = op.req.spec

\* The new manager, until it is owned or stopped; then the one it replaced.
Holding == op.at \in {"unmount", "mount", "undo", "putback", "discard", "stopold"} /\ op.new # 0

Accounted ==
  /\ \A m \in DOMAIN managers : managers[m].boot => managers[m].runs
  /\ \A t \in Servers : owned[t] # 0 =>
       /\ managers[owned[t]].server = t /\ managers[owned[t]].runs
       /\ ~managers[owned[t]].boot
       /\ \A x \in stranded : x.manager # owned[t]
  /\ \A x \in stranded : ~managers[x.manager].boot
  /\ Holding =>
       /\ managers[op.new].server = s /\ managers[op.new].runs /\ ~managers[op.new].boot
       /\ \A t \in Servers : owned[t] # op.new
       /\ \A x \in stranded : x.manager # op.new
  /\ Holding /\ op.at # "stopold" => managers[op.new].spec = op.req.spec
  /\ Holding /\ op.at = "stopold" => managers[owned[s]].spec = op.req.spec
  /\ \A m \in DOMAIN managers : managers[m].runs =>
       \/ managers[m].boot
       \/ \E t \in Servers : owned[t] = m
       \/ \E x \in stranded : x.manager = m
       \/ m = op.new

\* The tools of the boot's server are nobody else's, and it is left alone.
Unaccepted == op.at \in {"unmount", "mount", "undo"} /\ op.new # 0

BootKept ==
  \A m \in DOMAIN managers : managers[m].boot =>
    /\ Len(managers[m].tools) = 1
    /\ tools[managers[m].tools[1]] = m
    /\ owned[managers[m].server] = 0
    /\ op.at \in Working => s # managers[m].server
    /\ \A t \in Servers : owned[t] # 0 =>
         managers[m].tools[1] \notin ToSet(managers[owned[t]].tools)
    /\ \A x \in stranded : managers[m].tools[1] \notin ToSet(x.tools)
    /\ Unaccepted => managers[m].tools[1] \notin ToSet(managers[op.new].tools)

\* Whose tools the operation still has to handle, and has handled.
NoTools(m) == \A n \in Names : tools[n] # m

Handling ==
  /\ op.at \in {"unmount", "putback"} => ToSet(op.left) \subseteq ToSet(managers[old].tools)
  /\ op.at = "unmount" => ToSet(op.done) \subseteq ToSet(managers[old].tools)
  /\ op.at \in {"mount", "undo"} =>
       ToSet(op.left) \cup ToSet(op.done) \subseteq ToSet(managers[op.new].tools)
  /\ op.at = "unmount" => \A n \in Names : tools[n] = old => n \in ToSet(op.left)
  /\ op.at \in {"unmount", "putback", "discard"} /\ op.new # 0 => NoTools(op.new)
  /\ op.at \in {"mount", "undo"} /\ old # 0 => NoTools(old)
  /\ op.at = "mount" =>
       /\ \A n \in Names : tools[n] = op.new => n \in ToSet(op.done)
       /\ \A n \in ToSet(managers[op.new].tools) : tools[n] = op.new \/ n \in ToSet(op.left)
  /\ op.at = "undo" => \A n \in Names : tools[n] = op.new => n \in ToSet(op.left)
  /\ op.at = "stopold" => NoTools(IF op.new # 0 THEN op.new ELSE old)
  /\ \A x \in stranded : \A n \in Names : tools[n] = x.manager => n \in ToSet(x.tools)
  /\ \A n \in Names : tools[n] # 0 =>
       managers[tools[n]].runs /\ n \in ToSet(managers[tools[n]].tools)

\* As long as every undo has worked: tools that are mounted are the boot's, an
\* owned server's or the new manager's; and an owned server has all its tools
\* but those the operation under way has still to bring back.
OnlyOwned ==
  \A n \in Names : tools[n] # 0 =>
    \/ managers[tools[n]].boot
    \/ tools[n] = owned[managers[tools[n]].server]
    \/ op.at \in {"mount", "undo"} /\ tools[n] = op.new

HasAll(t, n) ==
  \/ tools[n] = owned[t]
  \/ t = s /\ \/ op.at = "unmount" /\ tools[n] = 0 /\ n \in ToSet(op.done)
              \/ op.at \in {"mount", "undo"} /\ tools[n] \in {0, op.new}
              \/ op.at = "putback" /\ n \in ToSet(op.left)
              \/ op.at = "stopold" /\ op.new = 0

AllMounted ==
  \A t \in Servers : owned[t] # 0 => \A n \in ToSet(managers[owned[t]].tools) : HasAll(t, n)

Apart ==
  /\ \A t, u \in Servers : owned[t] # 0 /\ owned[u] # 0 /\ t # u =>
       ToSet(managers[owned[t]].tools) \cap ToSet(managers[owned[u]].tools) = {}
  /\ Unaccepted => \A t \in Servers \ {s} : owned[t] # 0 =>
       ToSet(managers[op.new].tools) \cap ToSet(managers[owned[t]].tools) = {}

Whole ==
  /\ OnlyOwned /\ AllMounted /\ Apart
  /\ \A x \in stranded : x.tools = <<>>
  /\ op.at = "putback" => ~op.broken

\* What is known of a server no command waits for.
Settled(t) == t \notin behind /\ owned[t] # 0 => managers[owned[t]].spec = config[t]

Told ==
  /\ \A t \in Servers :
       \/ \E j \in DOMAIN queue : queue[j].server = t
       \/ op.at \in Working \cup {"begin"} /\ t = s
       \/ op.at \in {"closing", "closed"} \/ op.req.do = "close"
       \/ Settled(t)
  /\ op.at = "idle" /\ ~torn =>
       /\ result.connected = "yes" =>
            \E m \in DOMAIN managers : managers[m].server = result.req.server /\ managers[m].runs
       /\ result.connected = "no" => Mine(result.req.server) = {}

IInv ==
  /\ Types /\ Control /\ Asked /\ Accounted /\ BootKept /\ Handling
  /\ ~torn => Whole
  /\ Told

-----------------------------------------------------------------------------
(* Sequences and the sets of their elements.                                *)

LEMMA NoElements == ToSet(<<>>) = {}
  BY DEF ToSet

LEMMA SetToSeqElements ==
  ASSUME NEW X, IsFiniteSet(X)
  PROVE  SetToSeq(X) \in Seq(X) /\ ToSet(SetToSeq(X)) = X
<1>. DEFINE n == Cardinality(X)
<1>1. n \in Nat /\ ExistsBijection(1..n, X)
  BY FS_CardinalityType
<1>2. PICK g : g \in Bijection(1..n, X)
  BY <1>1 DEF ExistsBijection
<1>3. g \in [1..n -> X] /\ IsInjective(g)
  BY <1>2 DEF Bijection, Injection, IsInjective
<1>4. SetToSeq(X) \in [1..n -> X] /\ IsInjective(SetToSeq(X))
  BY <1>3 DEF SetToSeq
<1>. DEFINE f == SetToSeq(X)
<1>. HIDE DEF f
<1>5. f \in [1..n -> X] /\ IsInjective(f)
  BY <1>4 DEF f
<1>6. f \in Injection(1..n, X)
  BY <1>5 DEF Injection, IsInjective
<1>7. Cardinality(1..n) = n
  BY <1>1, FS_CountingElements, <1>1, FS_Interval
<1>8. f \in Surjection(1..n, X)
  BY <1>6, <1>7, FS_Injection
<1>9. ToSet(f) = X
  BY <1>5, <1>8 DEF ToSet, Surjection
<1>10. f \in Seq(X)
  BY <1>1, <1>5
<1>. QED
  BY <1>9, <1>10 DEF f

LEMMA ReverseElements ==
  ASSUME NEW S, NEW q \in Seq(S)
  PROVE  Reverse(q) \in Seq(S) /\ ToSet(Reverse(q)) = ToSet(q)
<1>1. Len(q) \in Nat /\ DOMAIN q = 1..Len(q)
  OBVIOUS
<1>2. \A i \in 1..Len(q) : Len(q) - i + 1 \in 1..Len(q)
  BY <1>1
<1>3. Reverse(q) \in [1..Len(q) -> S]
  BY <1>1, <1>2 DEF Reverse
<1>4. \A i \in 1..Len(q) : Reverse(q)[i] = q[Len(q) - i + 1]
  BY DEF Reverse
<1>5. DOMAIN Reverse(q) = 1..Len(q)
  BY DEF Reverse
<1>6. \A i \in 1..Len(q) : Reverse(q)[Len(q) - i + 1] = q[i]
  <2>1. \A i \in 1..Len(q) : Len(q) - (Len(q) - i + 1) + 1 = i
    BY <1>1
  <2>. QED
    BY <1>2, <1>4, <2>1
<1>7. ToSet(Reverse(q)) \subseteq ToSet(q)
  BY <1>1, <1>2, <1>4, <1>5 DEF ToSet
<1>8. ToSet(q) \subseteq ToSet(Reverse(q))
  BY <1>1, <1>2, <1>5, <1>6 DEF ToSet
<1>9. Reverse(q) \in Seq(S)
  <2>. DEFINE r == Reverse(q)
              n == Len(q)
  <2>1. r \in [1..n -> S] /\ n \in Nat
    BY <1>1, <1>3
  <2>. HIDE DEF r, n
  <2>2. r \in Seq(S)
    BY <2>1
  <2>. QED
    BY <2>2 DEF r
<1>. QED
  BY <1>7, <1>8, <1>9

LEMMA HeadAndTail ==
  ASSUME NEW S, NEW q \in Seq(S), q # <<>>
  PROVE  /\ Head(q) \in S /\ Tail(q) \in Seq(S)
         /\ ToSet(q) = {Head(q)} \cup ToSet(Tail(q))
<1>1. Len(q) \in Nat \ {0} /\ DOMAIN q = 1..Len(q)
  OBVIOUS
<1>2. /\ Tail(q) \in Seq(S) /\ Head(q) = q[1] /\ Head(q) \in S
      /\ Len(Tail(q)) = Len(q) - 1 /\ DOMAIN Tail(q) = 1..(Len(q) - 1)
      /\ \A i \in 1..(Len(q) - 1) : Tail(q)[i] = q[i + 1]
  BY <1>1
<1>3. \A i \in 1..Len(q) : i = 1 \/ (i - 1 \in 1..(Len(q) - 1) /\ q[i] = Tail(q)[i - 1])
  <2>1. \A i \in 1..Len(q) : i = 1 \/ (i - 1 \in 1..(Len(q) - 1) /\ (i - 1) + 1 = i)
    BY <1>1
  <2>. QED
    BY <1>2, <2>1
<1>4. \A i \in 1..(Len(q) - 1) : i + 1 \in 1..Len(q)
  BY <1>1
<1>5. ToSet(q) \subseteq {Head(q)} \cup ToSet(Tail(q))
  <2>. DEFINE tl == Tail(q)
  <2>1. /\ DOMAIN tl = 1..(Len(q) - 1)
        /\ \A i \in 1..Len(q) : q[i] = Head(q) \/ (i - 1 \in DOMAIN tl /\ q[i] = tl[i - 1])
    BY <1>2, <1>3
  <2>. HIDE DEF tl
  <2>2. ToSet(q) \subseteq {Head(q)} \cup ToSet(tl)
    <3>. SUFFICES ASSUME NEW i \in 1..Len(q), q[i] # Head(q) PROVE q[i] \in ToSet(tl)
      BY <1>1 DEF ToSet
    <3>. QED
      BY <2>1 DEF ToSet
  <2>. QED
    BY <2>2 DEF tl
<1>6. {Head(q)} \cup ToSet(Tail(q)) \subseteq ToSet(q)
  <2>1. 1 \in DOMAIN q
    BY <1>1
  <2>. QED
    BY <1>1, <1>2, <1>4, <2>1 DEF ToSet
<1>. QED
  BY <1>2, <1>5, <1>6

LEMMA AppendElement ==
  ASSUME NEW S, NEW q \in Seq(S), NEW x \in S
  PROVE  /\ Append(q, x) \in Seq(S) /\ ToSet(Append(q, x)) = ToSet(q) \cup {x}
<1>1. Len(q) \in Nat /\ DOMAIN q = 1..Len(q)
  OBVIOUS
<1>. DEFINE a == Append(q, x)
<1>2. /\ a \in Seq(S) /\ DOMAIN a = 1..(Len(q) + 1) /\ a[Len(q) + 1] = x
      /\ \A i \in 1..Len(q) : a[i] = q[i]
  OBVIOUS
<1>. HIDE DEF a
<1>3. \A i \in 1..(Len(q) + 1) : i \in 1..Len(q) \/ i = Len(q) + 1
  BY <1>1
<1>4. 1..Len(q) \subseteq 1..(Len(q) + 1) /\ Len(q) + 1 \in 1..(Len(q) + 1)
  BY <1>1
<1>5. ToSet(a) \subseteq ToSet(q) \cup {x}
  BY <1>1, <1>2, <1>3 DEF ToSet
<1>6. ToSet(q) \cup {x} \subseteq ToSet(a)
  BY <1>1, <1>2, <1>4 DEF ToSet
<1>. QED
  BY <1>2, <1>5, <1>6 DEF a

-----------------------------------------------------------------------------
(* How an operation moves on, and how it reports.                           *)

\* The new record of the operation under way: still the same request.
Stands(a, l, d, n, b) ==
  /\ op'.at = a /\ op'.left = l /\ op'.done = d /\ op'.new = n /\ op'.broken = b
  /\ op'.req = op.req /\ op'.todo = op.todo

LEMMA GoStands ==
  ASSUME Types, NEW a \in Stages, NEW l \in Seq(Names), Go(a, l)
  PROVE  op' \in OpIn(Len(managers)) /\ Stands(a, l, <<>>, op.new, op.broken)
<1>1. op \in OpIn(Len(managers))
  BY DEF Types
<1>2. <<>> \in Seq(Names)
  OBVIOUS
<1>. QED
  BY <1>1, <1>2 DEF Go, Stands, OpIn

LEMMA HandledStands ==
  ASSUME Types, op.left # <<>>, op' = Handled
  PROVE  /\ op' \in OpIn(Len(managers))
         /\ Stands(op.at, Tail(op.left), Append(op.done, Head(op.left)), op.new, op.broken)
<1>1. op \in OpIn(Len(managers))
  BY DEF Types
<1>2. op.left \in Seq(Names) /\ op.done \in Seq(Names)
  BY <1>1 DEF OpIn
<1>3. Tail(op.left) \in Seq(Names) /\ Append(op.done, Head(op.left)) \in Seq(Names)
  BY <1>2, HeadAndTail, AppendElement
<1>. QED
  BY <1>1, <1>3 DEF Handled, Stands, OpIn

\* The lock is free again, or close has it.
Released ==
  \/ op.req.do # "close" /\ op' = Idle
  \/ op.req.do = "close" /\ Stands("closing", op.left, op.done, op.new, op.broken)

LEMMA IdleFields ==
  /\ Idle.req = None /\ Idle.at = "idle" /\ Idle.left = <<>> /\ Idle.done = <<>>
  /\ Idle.new = 0 /\ Idle.broken = FALSE /\ Idle.todo = {}
  /\ None.do = "none" /\ None.server = "none" /\ None.spec = 0 /\ None.prev = FALSE
  BY DEF Idle, None

LEMMA IdleType ==
  ASSUME NEW k \in Nat
  PROVE  Idle \in OpIn(k) /\ None \in Requests
<1>1. None \in Requests
  BY DEF None, Requests, MaySpec
<1>2. <<>> \in Seq(Names) /\ 0 \in 0 .. k
  OBVIOUS
<1>. QED
  BY <1>1, <1>2 DEF Idle, OpIn, Stages

LEMMA ReportReleases ==
  ASSUME Types, s \in Servers, NEW ok \in BOOLEAN, NEW c \in {"unknown", "yes", "no"},
         Report(ok, c)
  PROVE  /\ op' \in OpIn(Len(managers)) /\ Released
         /\ result' \in Results /\ result'.req = op.req /\ result'.connected = c
         /\ behind' \subseteq Servers
         /\ \A t \in Servers \ {s} : t \in behind' <=> t \in behind
         /\ ~ok => s \in behind'
<1>1. op \in OpIn(Len(managers)) /\ Len(managers) \in Nat
  BY DEF Types
<1>2. op' \in OpIn(Len(managers))
  BY <1>1, IdleType DEF Report, OpIn, Stages
<1>3. Released
  <2>1. CASE op.req.do = "close"
    <3>1. op' = [op EXCEPT !.at = "closing"]
      BY <2>1 DEF Report
    <3>2. Stands("closing", op.left, op.done, op.new, op.broken)
      BY <1>1, <3>1 DEF Stands, OpIn
    <3>. QED
      BY <2>1, <3>2 DEF Released
  <2>. QED
    BY <2>1 DEF Report, Released
<1>4. result' = [req |-> op.req, ok |-> ok, connected |-> c]
  BY DEF Report
<1>5. result' \in Results
  BY <1>1, <1>4 DEF Results, OpIn
<1>6. behind' = IF ok THEN behind \ {s} ELSE behind \cup {s}
  BY DEF Report
<1>. QED
  BY <1>2, <1>3, <1>4, <1>5, <1>6 DEF Types

\* The commands that wait are not touched.
LEMMA AskedKept ==
  ASSUME Asked, op.at \in Working \cup {"begin"}, UNCHANGED <<config, queue>>,
         op'.at \in Working \cup {"begin"} => op'.req = op.req
  PROVE  Asked'
  BY DEF Asked, s

LEMMA ToldKept ==
  ASSUME Told, op.at \in Working \cup {"begin"}, UNCHANGED <<config, queue, behind>>,
         op'.at \in Working \cup {"begin"}, op'.req = op.req,
         \A t \in Servers \ {s} : owned'[t] = owned[t]
           /\ (owned[t] # 0 => managers'[owned[t]].spec = managers[owned[t]].spec)
  PROVE  Told'
<1>1. op'.at # "idle" /\ op.at # "closing" /\ op.at # "closed"
  BY DEF Working
<1>2. ASSUME NEW t \in Servers, t # s, Settled(t) PROVE Settled(t)'
  BY <1>2 DEF Settled
<1>. QED
  BY <1>1, <1>2 DEF Told, s

\* After a report the server is settled or behind, and the report is true.
LEMMA ToldReport ==
  ASSUME Types, Asked, Told, op.at \in Working \cup {"begin"}, s \in Servers,
         UNCHANGED <<config, queue, torn>>,
         NEW ok \in BOOLEAN, NEW c \in {"unknown", "yes", "no"}, Report(ok, c),
         \A t \in Servers \ {s} : owned'[t] = owned[t]
           /\ (owned[t] # 0 => managers'[owned[t]].spec = managers[owned[t]].spec),
         ok /\ op.req.do # "close" =>
           (owned'[s] # 0 => managers'[owned'[s]].spec = op.req.spec),
         ~torn /\ c = "yes" =>
           \E m \in DOMAIN managers' : managers'[m].server = s /\ managers'[m].runs,
         ~torn /\ c = "no" =>
           \A n \in Names : tools'[n] # 0 => managers'[tools'[n]].server # s
  PROVE  Told'
<1>1. /\ Released
      /\ result'.req = op.req /\ result'.connected = c
      /\ \A t \in Servers \ {s} : t \in behind' <=> t \in behind
      /\ ~ok => s \in behind'
  BY ReportReleases
<1>2. CASE op.req.do = "close"
  <2>1. op'.at = "closing"
    BY <1>1, <1>2 DEF Released, Stands
  <2>. QED
    BY <2>1 DEF Told
<1>3. CASE op.req.do # "close"
  <2>1. op' = Idle /\ op'.at = "idle" /\ op'.req.do = "none"
    BY <1>1, <1>3, IdleFields DEF Released
  <2>2. op.at # "idle" /\ op.at # "closing" /\ op.at # "closed"
    BY DEF Working
  <2>3. ASSUME NEW t \in Servers, t # s, Settled(t) PROVE Settled(t)'
    BY <1>1, <2>3 DEF Settled
  <2>4. ASSUME NEW t \in Servers, t = s
        PROVE  (\E j \in DOMAIN queue : queue[j].server = t) \/ Settled(t)'
    <3>1. (\E j \in DOMAIN queue : queue[j].server = s) \/ config[s] = op.req.spec
      BY <1>3 DEF Asked
    <3>. QED
      BY <1>1, <1>3, <2>4, <3>1 DEF Settled
  <2>5. \A t \in Servers : (\E j \in DOMAIN queue : queue[j].server = t) \/ Settled(t)'
    BY <1>3, <2>2, <2>3, <2>4 DEF Told
  <2>7. result'.req.server = s
    BY <1>1 DEF s
  <2>9. ~torn' /\ result'.connected = "no" => Mine(result.req.server)' = {}
    BY <1>1, <2>7 DEF Mine
  <2>10. ~torn' /\ result'.connected = "yes" =>
           \E m \in DOMAIN managers' : managers'[m].server = result'.req.server /\ managers'[m].runs
    BY <1>1, <2>7
  <2>. QED
    BY <2>1, <2>5, <2>9, <2>10 DEF Told
<1>. QED
  BY <1>2, <1>3


-----------------------------------------------------------------------------
(* The beginning.                                                           *)

LEMMA InitTorn == ASSUME Init PROVE torn \in BOOLEAN
<1>1. torn = FALSE
  BY Zenon DEF Init
<1>. QED
  BY <1>1

LEMMA InitIInv == Init => IInv
<1>. SUFFICES ASSUME Init PROVE IInv
  OBVIOUS
<1>1. PICK booted \in {<<>>} \cup
       {<<[server |-> b, spec |-> v, tools |-> <<n>>, runs |-> TRUE, boot |-> TRUE]>> :
          b \in Servers, v \in Specs, n \in Names} :
       /\ managers = booted
       /\ config = [t \in Servers |->
                      IF booted # <<>> /\ booted[1].server = t THEN booted[1].spec ELSE 0]
       /\ tools = [n \in Names |-> IF booted # <<>> /\ booted[1].tools = <<n>> THEN 1 ELSE 0]
  BY DEF Init
<1>2. /\ owned = [t \in Servers |-> 0] /\ stranded = {} /\ queue = <<>> /\ op = Idle
      /\ result = [req |-> None, ok |-> TRUE, connected |-> "unknown"]
      /\ asked = 0 /\ failures = 0 /\ torn = FALSE /\ behind = {}
  BY DEF Init
<1>3. \/ managers = <<>> /\ config = [t \in Servers |-> 0] /\ tools = [n \in Names |-> 0]
      \/ \E b \in Servers, v \in Specs, n \in Names :
           /\ managers = <<[server |-> b, spec |-> v, tools |-> <<n>>,
                            runs |-> TRUE, boot |-> TRUE]>>
           /\ config = [t \in Servers |-> IF b = t THEN v ELSE 0]
           /\ tools = [k \in Names |-> IF <<n>> = <<k>> THEN 1 ELSE 0]
  <2>1. CASE booted = <<>>
    BY <1>1, <2>1
  <2>2. ASSUME NEW b \in Servers, NEW v \in Specs, NEW n \in Names,
               booted = <<[server |-> b, spec |-> v, tools |-> <<n>>,
                           runs |-> TRUE, boot |-> TRUE]>>
        PROVE  /\ managers = <<[server |-> b, spec |-> v, tools |-> <<n>>,
                            runs |-> TRUE, boot |-> TRUE]>>
               /\ config = [t \in Servers |-> IF b = t THEN v ELSE 0]
               /\ tools = [k \in Names |-> IF <<n>> = <<k>> THEN 1 ELSE 0]
    <3>1. booted # <<>> /\ booted[1].server = b /\ booted[1].spec = v /\ booted[1].tools = <<n>>
      BY <2>2
    <3>. QED
      BY <1>1, <2>2, <3>1
  <2>. QED
    BY <1>1, <2>1, <2>2
<1>4. \/ managers = <<>> /\ Len(managers) = 0 /\ tools = [n \in Names |-> 0]
      \/ \E b \in Servers, v \in Specs, n \in Names :
           /\ managers \in Seq(Connections) /\ Len(managers) = 1
           /\ managers[1].server = b /\ managers[1].tools = <<n>>
           /\ managers[1].runs /\ managers[1].boot
           /\ tools = [k \in Names |-> IF n = k THEN 1 ELSE 0]
  <2>1. ASSUME NEW b \in Servers, NEW v \in Specs, NEW n \in Names
        PROVE  [server |-> b, spec |-> v, tools |-> <<n>>, runs |-> TRUE, boot |-> TRUE]
                 \in Connections
    BY <2>1 DEF Connections
  <2>2. \A n, k \in Names : <<n>> = <<k>> <=> n = k
    OBVIOUS
  <2>3. ASSUME NEW b \in Servers, NEW v \in Specs, NEW n \in Names,
           managers = <<[server |-> b, spec |-> v, tools |-> <<n>>, runs |-> TRUE, boot |-> TRUE]>>,
           tools = [k \in Names |-> IF <<n>> = <<k>> THEN 1 ELSE 0]
        PROVE
           /\ managers \in Seq(Connections) /\ Len(managers) = 1
           /\ managers[1].server = b /\ managers[1].tools = <<n>>
           /\ managers[1].runs /\ managers[1].boot
           /\ tools = [k \in Names |-> IF n = k THEN 1 ELSE 0]
    <3>1. managers \in Seq(Connections)
      BY <2>1, <2>3
    <3>2. /\ Len(managers) = 1
          /\ managers[1].server = b /\ managers[1].tools = <<n>>
          /\ managers[1].runs /\ managers[1].boot
      BY <2>3
    <3>3. tools = [k \in Names |-> IF n = k THEN 1 ELSE 0]
      BY <2>2, <2>3
    <3>. QED
      BY <3>1, <3>2, <3>3
  <2>4. managers = <<>> => Len(managers) = 0
    OBVIOUS
  <2>. QED
    BY <1>3, <2>3, <2>4
<1>5. Types
  <2>0. <<>> \in Seq(Connections) /\ <<>> \in Seq(Requests)
    OBVIOUS
  <2>1. managers \in Seq(Connections) /\ Len(managers) \in {0, 1}
    <3>1. CASE managers = <<>> /\ Len(managers) = 0
      BY <2>0, <3>1
    <3>2. CASE managers \in Seq(Connections) /\ Len(managers) = 1
      BY <3>2
    <3>. QED
      BY <1>4, <3>1, <3>2
  <2>2. tools \in [Names -> 0 .. Len(managers)]
    BY <1>4
  <2>3. config \in [Servers -> MaySpec]
    BY <1>3 DEF MaySpec
  <2>4. op \in OpIn(Len(managers)) /\ None \in Requests
    BY <1>2, <2>1, IdleType
  <2>5. result \in Results
    BY <1>2, <2>4 DEF Results
  <2>6. owned \in [Servers -> 0 .. Len(managers)]
    BY <1>2, <2>1
  <2>7. queue \in Seq(Requests)
    BY <1>2, <2>0
  <2>8. asked \in 0 .. MaxAsked /\ failures \in 0 .. MaxFailures /\ torn \in BOOLEAN
    <3>1. MaxAsked \in Nat /\ MaxFailures \in Nat
      BY MCPAssumption
    <3>2. asked \in 0 .. MaxAsked /\ failures \in 0 .. MaxFailures
      <4>1. asked = 0 /\ failures = 0
        BY <1>2
      <4>. QED
        BY <3>1, <4>1
    <3>3. torn \in BOOLEAN
      BY InitTorn
    <3>. QED
      BY <3>2, <3>3
  <2>. QED
    BY <1>2, <2>1, <2>2, <2>3, <2>4, <2>5, <2>6, <2>7, <2>8 DEF Types
<1>6. op.at = "idle" /\ op.new = 0 /\ op.req.do = "none" /\ op.todo = {}
  BY <1>2, IdleFields
<1>7. Control
  BY <1>6 DEF Control, Working, Upserts
<1>8. Asked
  BY <1>2, <1>6 DEF Asked, Working
<1>9. DOMAIN managers \subseteq {1} /\ \A m \in DOMAIN managers :
        /\ managers[m].runs /\ managers[m].boot /\ m = 1
        /\ managers[m].server \in Servers
  BY <1>4
<1>10. Accounted
  BY <1>2, <1>6, <1>9 DEF Accounted, Holding
<1>11. BootKept
  <2>1. \A m \in DOMAIN managers : Len(managers[m].tools) = 1 /\ tools[managers[m].tools[1]] = m
    BY <1>4, <1>9
  <2>. QED
    BY <1>2, <1>6, <1>9, <2>1 DEF BootKept, Unaccepted, Working
<1>12. \A n \in Names : tools[n] # 0 =>
        managers[tools[n]].runs /\ n \in ToSet(managers[tools[n]].tools) /\ managers[tools[n]].boot
  <2>1. ASSUME NEW n \in Names PROVE n \in ToSet(<<n>>)
    BY DEF ToSet
  <2>. QED
    BY <1>4, <2>1
<1>13. Handling
  BY <1>2, <1>6, <1>12 DEF Handling
<1>14. Whole
  BY <1>2, <1>6, <1>12 DEF Whole, OnlyOwned, AllMounted, Apart, Unaccepted
<1>15. Told
  BY <1>2, <1>6 DEF Told, Settled
<1>. QED
  BY <1>5, <1>7, <1>8, <1>10, <1>11, <1>13, <1>14, <1>15 DEF IInv


-----------------------------------------------------------------------------
(* The commands, and the lock.                                              *)

Command ==
  \/ \E t \in Servers : (\E v \in Specs : AddServer(t, v)) \/ ReloadServer(t) \/ RemoveServer(t)
  \/ Cleanup

LEMMA CommandStep ==
  ASSUME IInv, Command
  PROVE  IInv'
<1>1. PICK r \in Requests :
        /\ Ask(r)
        /\ \/ /\ r.do \in Upserts \cup {"remove"} /\ r.server \in Servers
              /\ r.do \in Upserts => r.spec \in Specs
              /\ config' \in [Servers -> MaySpec] /\ config'[r.server] = r.spec
              /\ \A t \in Servers \ {r.server} : config'[t] = config[t]
           \/ r.do = "close" /\ r.server = "none" /\ UNCHANGED config
  <2>1. config \in [Servers -> MaySpec] /\ Specs \subseteq MaySpec /\ 0 \in MaySpec
    BY DEF IInv, Types, MaySpec
  <2>2. ASSUME NEW t \in Servers, NEW v \in Specs, AddServer(t, v)
        PROVE  \E r \in Requests :
                 /\ Ask(r) /\ r.do = "add" /\ r.server = t /\ r.spec = v
                 /\ config' \in [Servers -> MaySpec] /\ config'[r.server] = r.spec
                 /\ \A u \in Servers \ {r.server} : config'[u] = config[u]
    <3>. DEFINE q == [do |-> "add", server |-> t, spec |-> v, prev |-> config[t] # 0]
    <3>1. q \in Requests /\ q.do = "add" /\ q.server = t /\ q.spec = v
      BY <2>1 DEF Requests
    <3>2. Ask(q) /\ config' = [config EXCEPT ![t] = v]
      BY <2>2 DEF AddServer
    <3>. HIDE DEF q
    <3>. QED
      BY <2>1, <3>1, <3>2
  <2>3. ASSUME NEW t \in Servers, ReloadServer(t)
        PROVE  \E r \in Requests :
                 /\ Ask(r) /\ r.do = "reload" /\ r.server = t /\ r.spec = config[t]
                 /\ config[t] # 0 /\ UNCHANGED config
    <3>. DEFINE q == [do |-> "reload", server |-> t, spec |-> config[t], prev |-> TRUE]
    <3>1. q \in Requests /\ q.do = "reload" /\ q.server = t /\ q.spec = config[t]
      BY <2>1 DEF Requests
    <3>2. Ask(q) /\ UNCHANGED config /\ config[t] # 0
      BY <2>3 DEF ReloadServer
    <3>. HIDE DEF q
    <3>. QED
      BY <3>1, <3>2
  <2>4. ASSUME NEW t \in Servers, RemoveServer(t)
        PROVE  \E r \in Requests :
                 /\ Ask(r) /\ r.do = "remove" /\ r.server = t /\ r.spec = 0
                 /\ config' \in [Servers -> MaySpec] /\ config'[r.server] = r.spec
                 /\ \A u \in Servers \ {r.server} : config'[u] = config[u]
    <3>. DEFINE q == [do |-> "remove", server |-> t, spec |-> 0, prev |-> TRUE]
    <3>1. q \in Requests /\ q.do = "remove" /\ q.server = t /\ q.spec = 0
      BY <2>1 DEF Requests
    <3>2. Ask(q) /\ config' = [config EXCEPT ![t] = 0]
      BY <2>4 DEF RemoveServer
    <3>. HIDE DEF q
    <3>. QED
      BY <2>1, <3>1, <3>2
  <2>5. ASSUME Cleanup
        PROVE  \E r \in Requests :
                 Ask(r) /\ r.do = "close" /\ r.server = "none" /\ UNCHANGED config
    <3>. DEFINE q == [None EXCEPT !.do = "close"]
    <3>1. q \in Requests /\ q.do = "close" /\ q.server = "none"
      BY DEF None, Requests, MaySpec
    <3>2. Ask(q) /\ UNCHANGED config
      BY <2>5 DEF Cleanup
    <3>. HIDE DEF q
    <3>. QED
      BY <3>1, <3>2
  <2>6. ASSUME NEW t \in Servers, config[t] # 0 PROVE config[t] \in Specs
    BY <2>1, <2>6 DEF MaySpec
  <2>. QED
    BY <2>1, <2>2, <2>3, <2>4, <2>5, <2>6 DEF Command, Upserts
<1>2. /\ UNCHANGED <<managers, tools, owned, stranded, op, result, failures, torn, behind>>
      /\ queue' = Append(queue, r) /\ asked' = asked + 1 /\ asked < MaxAsked
  BY <1>1 DEF Ask
<1>3. /\ queue \in Seq(Requests) /\ queue' \in Seq(Requests)
      /\ Len(queue) \in Nat /\ DOMAIN queue = 1..Len(queue)
      /\ DOMAIN queue' = 1..(Len(queue) + 1) /\ queue'[Len(queue) + 1] = r
      /\ \A i \in 1..Len(queue) : queue'[i] = queue[i]
  BY <1>2 DEF IInv, Types
<1>4. s' = s /\ old' = old
  BY <1>2 DEF s, old
<1>5. Types'
  <2>1. config' \in [Servers -> MaySpec]
    BY <1>1 DEF IInv, Types
  <2>2. asked' \in 0 .. MaxAsked
    <3>1. MaxAsked \in Nat
      BY MCPAssumption
    <3>. QED
      BY <1>2, <3>1 DEF IInv, Types
  <2>. QED
    BY <1>2, <1>3, <2>1, <2>2 DEF IInv, Types
<1>6. Control'
  BY <1>2, <1>4 DEF IInv, Control
<1>7. Asked'
  <2>1. \A i \in DOMAIN queue' :
          /\ queue'[i].do \in Upserts \cup {"remove"} => queue'[i].server \in Servers
          /\ queue'[i].do \in Upserts => queue'[i].spec \in Specs
          /\ queue'[i].do \in Upserts \cup {"remove", "close"}
    <3>1. CASE r.do \in Upserts \cup {"remove"}
      BY <1>1, <1>3, <3>1 DEF IInv, Asked, Upserts
    <3>2. CASE r.do = "close"
      BY <1>1, <1>3, <3>2 DEF IInv, Asked, Upserts
    <3>. QED
      BY <1>1, <3>1, <3>2
  <2>2. ASSUME NEW i \in DOMAIN queue', queue'[i].do # "close"
        PROVE  \/ \E j \in DOMAIN queue' : j > i /\ queue'[j].server = queue'[i].server
               \/ config'[queue'[i].server] = queue'[i].spec
    <3>1. CASE i = Len(queue) + 1
      BY <1>1, <1>3, <2>2, <3>1
    <3>2. CASE i \in 1..Len(queue)
      <4>1. \/ \E j \in DOMAIN queue : j > i /\ queue[j].server = queue[i].server
            \/ config[queue[i].server] = queue[i].spec
        BY <1>3, <2>2, <3>2 DEF IInv, Asked
      <4>2. CASE \E j \in DOMAIN queue : j > i /\ queue[j].server = queue[i].server
        BY <1>3, <3>2, <4>2
      <4>3. CASE config[queue[i].server] = queue[i].spec
        <5>1. queue[i].server \in Servers
          BY <1>3, <2>2, <3>2 DEF IInv, Asked
        <5>2. CASE r.server = queue[i].server
          BY <1>3, <3>2, <5>2
        <5>3. CASE r.server # queue[i].server
          BY <1>1, <1>3, <3>2, <4>3, <5>1, <5>3
        <5>. QED
          BY <5>2, <5>3
      <4>. QED
        BY <4>1, <4>2, <4>3
    <3>. QED
      BY <1>3, <3>1, <3>2
  <2>3. ASSUME op.at \in Working \cup {"begin"}, op.req.do # "close"
        PROVE  \/ \E j \in DOMAIN queue' : queue'[j].server = s
               \/ config'[s] = op.req.spec
    <3>1. s \in Servers
      BY <2>3 DEF IInv, Control
    <3>2. CASE r.server = s
      BY <1>3, <3>2
    <3>3. CASE r.server # s
      <4>1. (\E j \in DOMAIN queue : queue[j].server = s) \/ config[s] = op.req.spec
        BY <2>3 DEF IInv, Asked
      <4>2. config'[s] = config[s]
        BY <1>1, <3>1, <3>3
      <4>. QED
        BY <1>3, <4>1, <4>2
    <3>. QED
      BY <3>2, <3>3
  <2>. QED
    BY <1>2, <1>4, <2>1, <2>2, <2>3 DEF Asked
<1>8. Accounted' /\ BootKept' /\ Handling'
  <2>1. Accounted'
    BY <1>2, <1>4 DEF IInv, Accounted, Holding
  <2>2. BootKept'
    BY <1>2, <1>4 DEF IInv, BootKept, Unaccepted
  <2>3. Handling'
    BY <1>2, <1>4 DEF IInv, Handling, NoTools
  <2>. QED
    BY <2>1, <2>2, <2>3
<1>9. (~torn => Whole)'
  <2>1. OnlyOwned => OnlyOwned'
    BY <1>2 DEF OnlyOwned
  <2>2. AllMounted => AllMounted'
    BY <1>2, <1>4 DEF AllMounted, HasAll
  <2>3. Apart => Apart'
    BY <1>2, <1>4 DEF Apart, Unaccepted
  <2>. QED
    BY <1>2, <2>1, <2>2, <2>3 DEF IInv, Whole
<1>10. Told'
  <2>1. ASSUME NEW t \in Servers, ~\E j \in DOMAIN queue' : queue'[j].server = t, Settled(t)
        PROVE  Settled(t)'
    <3>1. r.server # t
      BY <1>3, <2>1
    <3>2. config'[t] = config[t]
      BY <1>1, <3>1
    <3>. QED
      BY <1>2, <2>1, <3>2 DEF Settled
  <2>2. \A t \in Servers : (\E j \in DOMAIN queue : queue[j].server = t) =>
                             \E j \in DOMAIN queue' : queue'[j].server = t
    BY <1>3
  <2>3. \A t : Mine(t)' = Mine(t)
    BY <1>2 DEF Mine
  <2>. QED
    BY <1>2, <1>4, <2>1, <2>2, <2>3 DEF IInv, Told
<1>. QED
  BY <1>5, <1>6, <1>7, <1>8, <1>9, <1>10 DEF IInv


\* Nothing is in the hands of an operation at these stages.
Resting == {"idle", "begin", "discover", "closing", "closed"}

\* From one such stage to another nothing changes but the stage.
LEMMA RestingKept ==
  ASSUME IInv, UNCHANGED <<managers, tools, owned, stranded, torn>>,
         op.at \in Resting, op'.at \in Resting, op.new = 0, op'.new = 0,
         op'.at = "discover" =>
           \A m \in DOMAIN managers : managers[m].boot => op'.req.server # managers[m].server
  PROVE  Accounted' /\ BootKept' /\ Handling' /\ (~torn => Whole)'
<1>1. Accounted'
  BY DEF IInv, Accounted, Holding, Resting
<1>2. BootKept'
  BY DEF IInv, BootKept, Unaccepted, Resting, Working, s
<1>3. Handling'
  BY DEF IInv, Handling, Resting
<1>4. (~torn => Whole)'
  <2>1. OnlyOwned => OnlyOwned'
    BY DEF OnlyOwned, Resting
  <2>2. AllMounted => AllMounted'
    BY DEF AllMounted, HasAll, Resting
  <2>3. Apart => Apart'
    BY DEF Apart, Unaccepted, Resting
  <2>. QED
    BY <2>1, <2>2, <2>3 DEF IInv, Whole, Resting
<1>. QED
  BY <1>1, <1>2, <1>3, <1>4

LEMMA BeginStep ==
  ASSUME IInv, Begin
  PROVE  IInv'
<1>. DEFINE q == Head(queue)
<1>1. /\ op.at = "idle" /\ queue # <<>> /\ queue' = Tail(queue)
      /\ UNCHANGED <<state, result, asked, failures, torn, behind>>
  BY DEF Begin
<1>2. /\ queue \in Seq(Requests) /\ q \in Requests /\ q = queue[1] /\ queue' \in Seq(Requests)
      /\ Len(queue) \in Nat \ {0} /\ DOMAIN queue = 1..Len(queue)
      /\ DOMAIN queue' = 1..(Len(queue) - 1)
      /\ \A i \in 1..(Len(queue) - 1) : queue'[i] = queue[i + 1]
  BY <1>1 DEF IInv, Types
<1>3. op' = [Idle EXCEPT !.req = q, !.at = IF q.do = "close" THEN "closing" ELSE "begin",
                         !.todo = IF q.do = "close" THEN {t \in Servers : owned[t] # 0} ELSE {}]
  BY DEF Begin
<1>. HIDE DEF q
<1>4. /\ op'.req = q /\ op'.at = (IF q.do = "close" THEN "closing" ELSE "begin")
      /\ op'.todo = (IF q.do = "close" THEN {t \in Servers : owned[t] # 0} ELSE {})
      /\ op'.new = 0 /\ op'.left = <<>> /\ op'.done = <<>> /\ op'.broken = FALSE
      /\ op' \in OpIn(Len(managers))
  <2>1. Idle \in OpIn(Len(managers))
    BY IdleType DEF IInv, Types
  <2>. QED
    BY <1>2, <1>3, <2>1, IdleFields DEF OpIn, Stages
<1>5. q.do \in Upserts \cup {"remove", "close"}
      /\ (q.do # "close" => q.server \in Servers) /\ (q.do \in Upserts => q.spec \in Specs)
  BY <1>1, <1>2 DEF IInv, Asked
<1>6. Types'
  BY <1>1, <1>2, <1>4 DEF IInv, Types, state
<1>7. Control'
  BY <1>1, <1>4, <1>5 DEF Control, Working, s, Upserts, state
<1>0. ASSUME NEW i \in DOMAIN queue
      PROVE  i = 1 \/ (i - 1 \in DOMAIN queue' /\ queue[i] = queue'[i - 1] /\ i \in Nat)
  <2>1. i = 1 \/ (i - 1 \in 1..(Len(queue) - 1) /\ (i - 1) + 1 = i)
    BY <1>2
  <2>. QED
    BY <1>2, <2>1
<1>8. Asked'
  <2>2. \A i \in DOMAIN queue' : i + 1 \in DOMAIN queue /\ queue'[i] = queue[i + 1] /\ i \in Nat \ {0}
    BY <1>2
  <2>3. \A i \in DOMAIN queue' :
          /\ queue'[i].do \in Upserts \cup {"remove"} => queue'[i].server \in Servers
          /\ queue'[i].do \in Upserts => queue'[i].spec \in Specs
          /\ queue'[i].do \in Upserts \cup {"remove", "close"}
    BY <2>2 DEF IInv, Asked
  <2>4. ASSUME NEW i \in DOMAIN queue', queue'[i].do # "close"
        PROVE  \/ \E j \in DOMAIN queue' : j > i /\ queue'[j].server = queue'[i].server
               \/ config'[queue'[i].server] = queue'[i].spec
    <3>1. \/ \E j \in DOMAIN queue : j > i + 1 /\ queue[j].server = queue[i + 1].server
          \/ config[queue[i + 1].server] = queue[i + 1].spec
      BY <2>2, <2>4 DEF IInv, Asked
    <3>2. ASSUME NEW j \in DOMAIN queue, j > i + 1
          PROVE  j - 1 \in DOMAIN queue' /\ j - 1 > i /\ queue'[j - 1] = queue[j]
      <4>1. i \in Nat \ {0} /\ j # 1
        BY <2>2, <3>2, <1>2
      <4>. QED
        BY <1>0, <3>2, <4>1
    <3>. QED
      BY <1>1, <2>2, <3>1, <3>2 DEF state
  <2>5. ASSUME op'.at = "begin"
        PROVE  (\E j \in DOMAIN queue' : queue'[j].server = q.server) \/ config'[q.server] = q.spec
    <3>1. \/ \E j \in DOMAIN queue : j > 1 /\ queue[j].server = queue[1].server
          \/ config[queue[1].server] = queue[1].spec
      <4>1. queue[1].do # "close" /\ 1 \in DOMAIN queue
        BY <1>2, <1>4, <2>5
      <4>. QED
        BY <4>1 DEF IInv, Asked
    <3>2. ASSUME NEW j \in DOMAIN queue, j > 1, queue[j].server = q.server
          PROVE  j - 1 \in DOMAIN queue' /\ queue'[j - 1].server = q.server
      <4>1. j # 1
        BY <1>2, <3>2
      <4>. QED
        BY <1>0, <3>2, <4>1
    <3>. QED
      BY <1>1, <1>2, <3>1, <3>2 DEF state
  <2>. QED
    BY <1>4, <2>3, <2>4, <2>5 DEF Asked, s, Working
<1>9. Accounted' /\ BootKept' /\ Handling' /\ (~torn => Whole)'
  <2>1. op.new = 0
    BY <1>1 DEF IInv, Control
  <2>. QED
    BY <1>1, <1>4, <2>1, RestingKept DEF state, Resting
<1>10. Told'
  <2>1. ASSUME NEW t \in Servers, q.server # t, ~Settled(t)
        PROVE  \E j \in DOMAIN queue' : queue'[j].server = t
    <3>1. \E j \in DOMAIN queue : queue[j].server = t
      <4>1. op.at \notin Working \cup {"begin"}
        BY <1>1 DEF Working
      <4>2. op.req.do # "close"
        BY <1>1 DEF IInv, Control
      <4>. QED
        BY <1>1, <2>1, <4>1, <4>2 DEF IInv, Told
    <3>. QED
      BY <1>0, <1>2, <2>1, <3>1
  <2>2. \A t \in Servers : Settled(t)' <=> Settled(t)
    BY <1>1 DEF Settled, state
  <2>. QED
    BY <1>4, <2>1, <2>2 DEF Told, s
<1>. QED
  BY <1>6, <1>7, <1>8, <1>9, <1>10 DEF IInv


-----------------------------------------------------------------------------
(* Up to the first await.                                                   *)

LEMMA ReleasedControl ==
  ASSUME Types, Control, op.at \in Working \cup {"begin"}, Released,
         \A t \in Servers \ {s} : owned'[t] = owned[t]
  PROVE  /\ Control' /\ op'.at \in {"idle", "closing"} /\ op'.new = 0
         /\ op'.req.do = "close" <=> op.req.do = "close"
<1>1. CASE op.req.do # "close"
  <2>1. op' = Idle
    BY <1>1 DEF Released
  <2>. QED
    BY <1>1, <2>1, IdleFields DEF Control, Working, Upserts
<1>2. CASE op.req.do = "close"
  <2>1. Stands("closing", op.left, op.done, op.new, op.broken)
    BY <1>2 DEF Released
  <2>2. op.new = 0 /\ op.at \in Working
    BY <1>2 DEF Control, Upserts
  <2>3. op.todo \subseteq Servers \ {s}
    BY <1>2, <2>2 DEF Control, Types, OpIn
  <2>4. \A t \in op.todo : owned'[t] # 0
    BY <2>3 DEF Control
  <2>. QED
    BY <1>2, <2>1, <2>2, <2>4 DEF Control, Stands, Working, Upserts
<1>. QED
  BY <1>1, <1>2

LEMMA BeginReports ==
  ASSUME IInv, op.at = "begin", UNCHANGED <<state, queue, asked, failures, torn>>,
         NEW ok \in BOOLEAN, NEW c \in {"unknown", "yes", "no"}, Report(ok, c),
         ok => (owned[s] # 0 => managers[owned[s]].spec = op.req.spec),
         c = "yes" => \E m \in DOMAIN managers : managers[m].server = s /\ managers[m].runs,
         c = "no" => \A n \in Names : tools[n] # 0 => managers[tools[n]].server # s
  PROVE  IInv'
<1>1. s \in Servers /\ op.new = 0 /\ UNCHANGED <<config, managers, tools, owned, stranded>>
  BY DEF IInv, Control, state
<1>2. /\ op' \in OpIn(Len(managers)) /\ Released
      /\ result' \in Results /\ behind' \subseteq Servers
  BY <1>1, ReportReleases DEF IInv
<1>3. Types'
  BY <1>1, <1>2 DEF IInv, Types
<1>4. Control' /\ op'.at \in {"idle", "closing"} /\ op'.new = 0
  BY <1>1, <1>2, ReleasedControl DEF IInv
<1>5. Asked'
  BY <1>1, <1>4, AskedKept DEF IInv, Working
<1>6. Told'
  <2>. USE DEF IInv
  <2>. QED
    BY <1>1, ToldReport
<1>7. Accounted' /\ BootKept' /\ Handling' /\ (~torn => Whole)'
  BY <1>1, <1>4, RestingKept DEF Resting
<1>. QED
  BY <1>3, <1>4, <1>5, <1>6, <1>7 DEF IInv

LEMMA MineIsServed ==
  ASSUME IInv, NEW t \in Servers, Mine(t) # {}
  PROVE  \E m \in DOMAIN managers : managers[m].server = t /\ managers[m].runs
<1>1. PICK n \in Names : tools[n] # 0 /\ managers[tools[n]].server = t
  BY DEF Mine
<1>2. tools[n] \in DOMAIN managers
  BY <1>1 DEF IInv, Types
<1>3. managers[tools[n]].runs
  BY <1>1 DEF IInv, Handling
<1>. QED
  BY <1>1, <1>2, <1>3

LEMMA OwnedRuns ==
  ASSUME Types, Accounted, NEW t \in Servers, owned[t] # 0
  PROVE  /\ owned[t] \in DOMAIN managers /\ owned[t] \in 1 .. Len(managers)
         /\ managers[owned[t]].server = t /\ managers[owned[t]].runs
         /\ ~managers[owned[t]].boot /\ managers[owned[t]].tools \in Seq(Names)
<1>1. owned[t] \in 1 .. Len(managers) /\ DOMAIN managers = 1 .. Len(managers)
  BY DEF Types
<1>2. managers[owned[t]] \in Connections
  BY <1>1 DEF Types
<1>. QED
  BY <1>1, <1>2 DEF Accounted, Connections

\* A boot that still has its tool is not of a server without tools.
LEMMA NotOfTheBoot ==
  ASSUME IInv, NEW t \in Servers, owned[t] # 0 \/ Mine(t) = {}
  PROVE  \A m \in DOMAIN managers : managers[m].boot => t # managers[m].server
<1>. SUFFICES ASSUME NEW m \in DOMAIN managers, managers[m].boot, managers[m].server = t
              PROVE  FALSE
  OBVIOUS
<1>1. owned[t] = 0
  BY DEF IInv, BootKept
<1>2. managers[m] \in Connections /\ m # 0
  BY DEF IInv, Types
<1>3. managers[m].tools \in Seq(Names) /\ Len(managers[m].tools) = 1
  BY <1>2 DEF IInv, BootKept, Connections
<1>4. managers[m].tools[1] \in Names
  BY <1>3
<1>5. managers[m].tools[1] \in Mine(t)
  BY <1>2, <1>4 DEF IInv, BootKept, Mine
<1>. QED
  BY <1>1, <1>5

LEMMA UpsertStep ==
  ASSUME IInv, UpsertTargeted
  PROVE  IInv'
<1>1. op.at = "begin" /\ op.req.do \in Upserts /\ UNCHANGED <<state, queue, asked, failures, torn>>
  BY DEF UpsertTargeted, Upserts
<1>2. s \in Servers /\ op.new = 0 /\ old = owned[s]
  BY <1>1 DEF IInv, Control, old
<1>3. CASE old # 0 /\ SameSpec(op.req.spec) /\ Report(TRUE, "yes")
  <2>1. managers[owned[s]].spec = op.req.spec
    BY <1>2, <1>3 DEF SameSpec
  <2>2. \E m \in DOMAIN managers : managers[m].server = s /\ managers[m].runs
    BY <1>2, <1>3, OwnedRuns DEF IInv
  <2>. QED
    BY <1>1, <1>3, <2>1, <2>2, BeginReports
<1>4. CASE Mine(s) # {} /\ Report(FALSE, "yes")
  BY <1>1, <1>2, <1>4, MineIsServed, BeginReports
<1>5. CASE Report(FALSE, "unknown")
  BY <1>1, <1>5, BeginReports
<1>6. CASE (old # 0 \/ Mine(s) = {}) /\ Go("discover", <<>>) /\ Quiet
  <2>1. op' \in OpIn(Len(managers)) /\ Stands("discover", <<>>, <<>>, op.new, op.broken)
    <3>1. <<>> \in Seq(Names)
      OBVIOUS
    <3>. QED
      BY <1>6, <3>1, GoStands DEF IInv, Stages
  <2>2. UNCHANGED <<config, managers, tools, owned, stranded, result, behind>>
    BY <1>1, <1>6 DEF state, Quiet
  <2>3. /\ op'.req = op.req /\ op'.at = "discover" /\ op'.new = 0 /\ op'.todo = op.todo
        /\ op'.broken = op.broken
    BY <1>2, <2>1 DEF Stands
  <2>4. Types'
    BY <1>1, <2>1, <2>2 DEF IInv, Types
  <2>5. Control'
    BY <1>1, <2>2, <2>3 DEF IInv, Control, Working, Upserts, s
  <2>6. Asked'
    BY <1>1, <2>2, <2>3, AskedKept DEF IInv
  <2>7. Accounted' /\ BootKept' /\ Handling' /\ (~torn => Whole)'
    <3>1. \A m \in DOMAIN managers : managers[m].boot => s # managers[m].server
      BY <1>2, <1>6, NotOfTheBoot
    <3>. QED
      BY <1>1, <1>2, <2>2, <2>3, <3>1, RestingKept DEF Resting, s
  <2>8. Told'
    BY <1>1, <2>2, <2>3, ToldKept DEF IInv, Working
  <2>. QED
    BY <2>4, <2>5, <2>6, <2>7, <2>8 DEF IInv
<1>. QED
  BY <1>3, <1>4, <1>5, <1>6 DEF UpsertTargeted


\* An owned server's tools begin to be taken off, for good.
LEMMA RemovalBegins ==
  ASSUME IInv, UNCHANGED <<managers, tools, owned, stranded, torn>>, NEW t \in Servers,
         op.at \in Resting, op.new = 0, owned[t] # 0,
         op'.at = "unmount", op'.req.server = t, op'.new = 0,
         op'.left = Reverse(managers[owned[t]].tools), op'.done = <<>>
  PROVE  Accounted' /\ BootKept' /\ Handling' /\ (~torn => Whole)'
<1>1. s' = t /\ old' = owned[t]
  BY DEF s, old
<1>2. /\ owned[t] \in DOMAIN managers
      /\ managers[owned[t]].tools \in Seq(Names)
  BY OwnedRuns DEF IInv
<1>3. ToSet(op'.left) = ToSet(managers[owned[t]].tools) /\ ToSet(op'.done) = {}
  BY <1>2, ReverseElements, NoElements
<1>4. Accounted'
  BY DEF IInv, Accounted, Holding, Resting
<1>5. BootKept'
  <2>1. \A m \in DOMAIN managers : managers[m].boot => t # managers[m].server
    BY NotOfTheBoot
  <2>. QED
    BY <1>1, <2>1 DEF IInv, BootKept, Unaccepted, Resting
<1>6. Handling'
  <2>1. \A n \in Names : tools[n] = owned[t] => n \in ToSet(managers[owned[t]].tools)
    BY DEF IInv, Handling
  <2>2. \A n \in Names : tools[n] # 0 =>
          managers[tools[n]].runs /\ n \in ToSet(managers[tools[n]].tools)
    BY DEF IInv, Handling
  <2>3. \A x \in stranded : \A n \in Names : tools[n] = x.manager => n \in ToSet(x.tools)
    BY DEF IInv, Handling
  <2>. QED
    BY <1>1, <1>3, <2>1, <2>2, <2>3 DEF Handling
<1>7. (~torn => Whole)'
  <2>1. OnlyOwned => OnlyOwned'
    BY DEF OnlyOwned, Resting
  <2>2. AllMounted => AllMounted'
    BY DEF AllMounted, HasAll, Resting
  <2>3. Apart => Apart'
    BY DEF Apart, Unaccepted, Resting
  <2>. QED
    BY <2>1, <2>2, <2>3 DEF IInv, Whole, Resting
<1>. QED
  BY <1>4, <1>5, <1>6, <1>7

LEMMA RemoveStep ==
  ASSUME IInv, RemoveTargeted
  PROVE  IInv'
<1>1. op.at = "begin" /\ op.req.do = "remove" /\ UNCHANGED <<state, queue, asked, failures, torn>>
  BY DEF RemoveTargeted
<1>2. s \in Servers /\ op.new = 0 /\ old = owned[s]
  BY <1>1 DEF IInv, Control, old
<1>3. CASE old # 0 /\ Go("unmount", Reverse(Offered(old))) /\ Quiet
  <2>0. managers[owned[s]].tools \in Seq(Names) /\ Offered(old) = managers[owned[s]].tools
    BY <1>2, <1>3, OwnedRuns DEF IInv, Offered
  <2>1. /\ op' \in OpIn(Len(managers))
        /\ Stands("unmount", Reverse(managers[owned[s]].tools), <<>>, op.new, op.broken)
    <3>1. Reverse(managers[owned[s]].tools) \in Seq(Names)
      BY <2>0, ReverseElements
    <3>. QED
      BY <1>3, <2>0, <3>1, GoStands DEF IInv, Stages
  <2>2. UNCHANGED <<config, managers, tools, owned, stranded, result, behind>>
    BY <1>1, <1>3 DEF state, Quiet
  <2>3. /\ op'.req = op.req /\ op'.at = "unmount" /\ op'.new = 0 /\ op'.todo = op.todo
        /\ op'.left = Reverse(managers[owned[s]].tools) /\ op'.done = <<>>
        /\ op'.req.server = s /\ op'.broken = op.broken
    BY <1>2, <2>1 DEF Stands, s
  <2>4. Types'
    BY <1>1, <2>1, <2>2 DEF IInv, Types
  <2>5. Control'
    BY <1>1, <1>2, <1>3, <2>2, <2>3 DEF IInv, Control, Working, Upserts, s, old
  <2>6. Asked'
    BY <1>1, <2>2, <2>3, AskedKept DEF IInv
  <2>7. Accounted' /\ BootKept' /\ Handling' /\ (~torn => Whole)'
    BY <1>1, <1>2, <1>3, <2>2, <2>3, RemovalBegins DEF Resting
  <2>8. Told'
    BY <1>1, <2>2, <2>3, ToldKept DEF IInv, Working
  <2>. QED
    BY <2>4, <2>5, <2>6, <2>7, <2>8 DEF IInv
<1>4. CASE old = 0 /\ Mine(s) # {} /\ Report(FALSE, "yes")
  BY <1>1, <1>2, <1>4, MineIsServed, BeginReports
<1>5. CASE old = 0 /\ Mine(s) = {} /\ Report(TRUE, "no")
  <2>1. \A n \in Names : tools[n] # 0 => managers[tools[n]].server # s
    BY <1>5 DEF Mine
  <2>. QED
    BY <1>1, <1>2, <1>5, <2>1, BeginReports
<1>6. CASE Report(FALSE, "unknown")
  BY <1>1, <1>6, BeginReports
<1>. QED
  BY <1>3, <1>4, <1>5, <1>6 DEF RemoveTargeted

LEMMA CloseServerStep ==
  ASSUME IInv, CloseServer
  PROVE  IInv'
<1>1. op.at = "closing" /\ UNCHANGED <<state, queue, result, asked, failures, torn, behind>>
  BY DEF CloseServer
<1>2. PICK t \in op.todo :
       op' = [op EXCEPT !.todo = @ \ {t}, !.broken = FALSE,
                !.req = [@ EXCEPT !.server = t],
                !.at = "unmount", !.left = Reverse(Offered(owned[t])), !.done = <<>>]
  BY DEF CloseServer
<1>3. /\ t \in Servers /\ owned[t] # 0 /\ op.req.do = "close" /\ op.new = 0
      /\ op \in OpIn(Len(managers)) /\ op.req \in Requests
  BY <1>1 DEF IInv, Control, Types, OpIn
<1>4. /\ managers[owned[t]].tools \in Seq(Names)
      /\ Reverse(managers[owned[t]].tools) \in Seq(Names)
  BY <1>3, OwnedRuns, ReverseElements DEF IInv
<1>5. [op.req EXCEPT !.server = t] \in Requests /\ [op.req EXCEPT !.server = t].server = t
      /\ [op.req EXCEPT !.server = t].do = "close"
  BY <1>3 DEF Requests
<1>6. /\ op' \in OpIn(Len(managers))
      /\ op'.at = "unmount" /\ op'.req.server = t /\ op'.new = 0 /\ op'.req.do = "close"
      /\ op'.left = Reverse(managers[owned[t]].tools) /\ op'.done = <<>>
      /\ op'.todo = op.todo \ {t} /\ ~op'.broken
  <2>1. <<>> \in Seq(Names) /\ "unmount" \in Stages
    BY DEF Stages
  <2>. QED
    BY <1>2, <1>3, <1>4, <1>5, <2>1 DEF OpIn, Offered
<1>7. Types'
  BY <1>1, <1>6 DEF IInv, Types, state
<1>8. Control'
  BY <1>1, <1>3, <1>6 DEF IInv, Control, Working, Upserts, s, old, state
<1>9. Asked'
  BY <1>1, <1>6 DEF IInv, Asked, state
<1>10. Accounted' /\ BootKept' /\ Handling' /\ (~torn => Whole)'
  BY <1>1, <1>3, <1>6, RemovalBegins DEF Resting, state
<1>11. Told'
  BY <1>6 DEF Told
<1>. QED
  BY <1>7, <1>8, <1>9, <1>10, <1>11 DEF IInv


-----------------------------------------------------------------------------
(* Starting the new manager.                                                *)

LEMMA StartedType ==
  ASSUME Types, s \in Servers, op.req.spec \in Specs, NEW X \in SUBSET Names,
         managers' = Started(X)
  PROVE  /\ managers' \in Seq(Connections) /\ Len(managers) \in Nat
         /\ Len(managers') = Len(managers) + 1
         /\ DOMAIN managers' = 1 .. (Len(managers) + 1)
         /\ \A m \in 1 .. Len(managers) : managers'[m] = managers[m]
         /\ managers'[Len(managers)+1].server = s
         /\ managers'[Len(managers)+1].spec = op.req.spec
         /\ managers'[Len(managers)+1].tools = SetToSeq(X)
         /\ managers'[Len(managers)+1].runs /\ ~managers'[Len(managers)+1].boot
         /\ SetToSeq(X) \in Seq(Names) /\ ToSet(SetToSeq(X)) = X
<1>1. IsFiniteSet(X)
  <2>1. IsFiniteSet(Names)
    BY MCPAssumption
  <2>. QED
    BY <2>1, FS_Subset
<1>2. SetToSeq(X) \in Seq(X) /\ ToSet(SetToSeq(X)) = X
  BY <1>1, SetToSeqElements
<1>. DEFINE q == SetToSeq(X)
<1>3. q \in Seq(Names)
  <2>1. q \in Seq(X)
    BY <1>2
  <2>. HIDE DEF q
  <2>. QED
    BY <2>1
<1>. DEFINE c == [server |-> s, spec |-> op.req.spec, tools |-> q, runs |-> TRUE, boot |-> FALSE]
<1>. HIDE DEF q
<1>4. c.server = s /\ c.spec = op.req.spec /\ c.tools = q /\ c.runs /\ ~c.boot
  OBVIOUS
<1>5. c \in Connections
  BY <1>3 DEF Connections
<1>6. managers' = Append(managers, c) /\ managers \in Seq(Connections)
  BY DEF Started, q, Types
<1>. HIDE DEF c
<1>7. /\ managers' \in Seq(Connections) /\ Len(managers) \in Nat
      /\ Len(managers') = Len(managers) + 1
      /\ DOMAIN managers' = 1 .. (Len(managers) + 1)
      /\ \A m \in 1 .. Len(managers) : managers'[m] = managers[m]
      /\ managers'[Len(managers)+1] = c
  BY <1>5, <1>6
<1>. QED
  BY <1>2, <1>3, <1>4, <1>7 DEF q

LEMMA DiscoverFailsStep ==
  ASSUME IInv, DiscoverFails
  PROVE  IInv'
<1>1. /\ op.at = "discover" /\ UNCHANGED <<config, tools, owned, queue, asked, torn>>
      /\ Report(FALSE, IF old # 0 THEN "yes" ELSE "no")
  BY DEF DiscoverFails
<1>2. /\ s \in Servers /\ op.new = 0 /\ old = owned[s] /\ op.req.do \in Upserts
      /\ op.req.spec \in Specs /\ op.at \in Working /\ Len(managers) \in Nat
  BY <1>1 DEF IInv, Control, old, Working, Types
<1>. DEFINE c == IF old # 0 THEN "yes" ELSE "no"
            N == Len(managers) + 1
<1>3. c \in {"unknown", "yes", "no"} /\ Report(FALSE, c) /\ FALSE \in BOOLEAN
  BY <1>1
<1>4. /\ op' \in OpIn(Len(managers)) /\ Released
      /\ result' \in Results /\ behind' \subseteq Servers
  BY <1>2, <1>3, ReportReleases DEF IInv
<1>5. /\ failures' \in 0 .. MaxFailures
      /\ \/ UNCHANGED <<managers, stranded>>
         \/ /\ managers' = Started({})
            /\ stranded' = stranded \cup {[manager |-> N, tools |-> <<>>]}
  <2>1. MaxFailures \in Nat /\ failures \in Nat
    BY MCPAssumption DEF IInv, Types
  <2>2. CASE Fail(1) /\ UNCHANGED <<managers, stranded>>
    BY <2>1, <2>2 DEF Fail
  <2>3. CASE Fail(2) /\ managers' = Started({}) /\ Stranding(Len(managers'), <<>>)
    <3>1. Len(managers') = N
      BY <1>2, <2>3, StartedType DEF IInv
    <3>2. failures' \in 0 .. MaxFailures
      BY <2>1, <2>3 DEF Fail
    <3>. QED
      BY <2>3, <3>1, <3>2 DEF Stranding
  <2>. QED
    BY <2>2, <2>3 DEF DiscoverFails
<1>6. op'.at \in {"idle", "closing"} /\ op'.new = 0 /\ Control'
  BY <1>1, <1>2, <1>4, ReleasedControl DEF IInv
<1>7. Asked'
  BY <1>1, <1>2, <1>6, AskedKept DEF IInv, Working
<1>8. \/ UNCHANGED <<managers, stranded>>
      \/ /\ managers' \in Seq(Connections)
         /\ Len(managers') = N /\ DOMAIN managers' = 1 .. N
         /\ \A m \in 1 .. Len(managers) : managers'[m] = managers[m]
         /\ managers'[N].server = s /\ ~managers'[N].boot
         /\ stranded' = stranded \cup {[manager |-> N, tools |-> <<>>]}
  BY <1>2, <1>5, StartedType DEF IInv
<1>9. /\ DOMAIN managers = 1 .. Len(managers) /\ N \notin 1 .. Len(managers)
      /\ owned \in [Servers -> 0 .. Len(managers)] /\ tools \in [Names -> 0 .. Len(managers)]
      /\ \A t \in Servers : owned[t] # N /\ \A n \in Names : tools[n] # N
      /\ stranded \subseteq [manager : 1 .. Len(managers), tools : Seq(Names)]
      /\ 1 .. N = 1 .. Len(managers) \cup {N}
  BY <1>2 DEF IInv, Types
<1>10. Types'
  <2>1. CASE UNCHANGED <<managers, stranded>>
    BY <1>1, <1>4, <1>5, <2>1 DEF IInv, Types
  <2>2. CASE ~UNCHANGED <<managers, stranded>>
    <3>1. 0 .. Len(managers) \subseteq 0 .. N /\ 1 .. Len(managers) \subseteq 1 .. N
      BY <1>2
    <3>2. op' \in OpIn(N)
      BY <1>4, <3>1 DEF OpIn
    <3>3. [manager |-> N, tools |-> <<>>] \in [manager : 1 .. N, tools : Seq(Names)]
      <4>1. <<>> \in Seq(Names) /\ N \in 1 .. N
        BY <1>2
      <4>. QED
        BY <4>1
    <3>4. stranded' \subseteq [manager : 1 .. N, tools : Seq(Names)]
      <4>1. [manager : 1 .. Len(managers), tools : Seq(Names)]
              \subseteq [manager : 1 .. N, tools : Seq(Names)]
        BY <3>1
      <4>2. stranded' = stranded \cup {[manager |-> N, tools |-> <<>>]}
        BY <1>8, <2>2
      <4>. QED
        BY <1>9, <3>3, <4>1, <4>2
    <3>5. owned' \in [Servers -> 0 .. N] /\ tools' \in [Names -> 0 .. N]
      BY <1>1, <1>9, <3>1
    <3>. HIDE DEF N
    <3>. QED
      BY <1>1, <1>4, <1>5, <1>8, <2>2, <3>2, <3>4, <3>5 DEF IInv, Types
  <2>. QED
    BY <2>1, <2>2
<1>. HIDE DEF N
<1>11. Accounted'
  <2>1. \A x \in stranded' : x \in stranded \/ x.manager = N
    BY <1>8
  <2>2. \A x \in stranded : x.manager \in 1 .. Len(managers)
    BY <1>9
  <2>3. CASE UNCHANGED <<managers, stranded>>
    BY <1>1, <1>2, <1>6, <2>3 DEF IInv, Accounted, Holding
  <2>4. CASE ~UNCHANGED <<managers, stranded>>
    <3>1. \E x \in stranded' : x.manager = N
      <4>1. [manager |-> N, tools |-> <<>>] \in stranded'
        BY <1>8, <2>4
      <4>2. [manager |-> N, tools |-> <<>>].manager = N
        OBVIOUS
      <4>. QED
        BY <4>1, <4>2
    <3>2. \A m \in DOMAIN managers' :
            \/ m \in DOMAIN managers /\ managers'[m] = managers[m]
            \/ m = N
      BY <1>8, <1>9
    <3>3. \A t \in Servers : owned[t] # 0 => managers'[owned[t]] = managers[owned[t]]
      BY <1>8, <1>9
    <3>4. stranded \subseteq stranded' /\ ~managers'[N].boot
      BY <1>8, <2>4
    <3>5. \A m \in DOMAIN managers' : managers'[m].boot => managers'[m].runs
      BY <3>2, <3>4 DEF IInv, Accounted
    <3>6. \A t \in Servers : owned'[t] # 0 =>
            /\ managers'[owned[t]].server = t /\ managers'[owned[t]].runs
            /\ ~managers'[owned[t]].boot
            /\ \A x \in stranded' : x.manager # owned[t]
      BY <1>1, <1>9, <2>1, <3>3 DEF IInv, Accounted
    <3>7. \A x \in stranded' : ~managers'[x.manager].boot
      BY <1>8, <2>1, <2>2, <2>4, <3>4 DEF IInv, Accounted
    <3>8. \A m \in DOMAIN managers' : managers'[m].runs =>
            \/ managers'[m].boot \/ (\E t \in Servers : owned[t] = m)
            \/ \E x \in stranded' : x.manager = m
      <4>1. op.new \notin DOMAIN managers
        BY <1>2, <1>9
      <4>. QED
        BY <3>1, <3>2, <3>4, <4>1 DEF IInv, Accounted
    <3>. QED
      BY <1>1, <1>6, <3>5, <3>6, <3>7, <3>8 DEF Accounted, Holding
  <2>. QED
    BY <2>3, <2>4
<1>12. BootKept'
  <2>1. \A x \in stranded' : x \in stranded \/ ToSet(x.tools) = {}
    BY <1>8, NoElements
  <2>2. \A m \in DOMAIN managers' : managers'[m].boot =>
          m \in DOMAIN managers /\ managers'[m] = managers[m]
    BY <1>8, <1>9
  <2>3. \A t \in Servers : owned[t] # 0 => managers'[owned[t]] = managers[owned[t]]
    BY <1>8, <1>9
  <2>. QED
    BY <1>1, <1>6, <2>1, <2>2, <2>3 DEF IInv, BootKept, Unaccepted, Working
<1>13. Handling'
  <2>1. \A x \in stranded' : x \in stranded \/ x.manager = N
    BY <1>8
  <2>2. \A n \in Names : tools[n] # 0 => managers'[tools[n]] = managers[tools[n]]
    BY <1>8, <1>9
  <2>. QED
    BY <1>1, <1>6, <1>9, <2>1, <2>2 DEF IInv, Handling
<1>14. (~torn => Whole)'
  <2>1. \A n \in Names : tools[n] # 0 => managers'[tools[n]] = managers[tools[n]]
    BY <1>8, <1>9
  <2>2. \A t \in Servers : owned[t] # 0 => managers'[owned[t]] = managers[owned[t]]
    BY <1>8, <1>9
  <2>3. OnlyOwned => OnlyOwned'
    BY <1>1, <1>6, <2>1 DEF OnlyOwned
  <2>4. AllMounted => AllMounted'
    BY <1>1, <1>6, <2>2 DEF AllMounted, HasAll
  <2>5. Apart => Apart'
    BY <1>1, <1>6, <2>2 DEF Apart, Unaccepted
  <2>6. (\A x \in stranded : x.tools = <<>>) => \A x \in stranded' : x.tools = <<>>
    BY <1>8
  <2>. QED
    BY <1>1, <1>6, <2>3, <2>4, <2>5, <2>6 DEF IInv, Whole
<1>15. Told'
  <2>1. \A t \in Servers \ {s} : owned'[t] = owned[t]
           /\ (owned[t] # 0 => managers'[owned[t]].spec = managers[owned[t]].spec)
    BY <1>1, <1>8, <1>9
  <2>2. c = "yes" => \E m \in DOMAIN managers' : managers'[m].server = s /\ managers'[m].runs
    <3>. SUFFICES ASSUME old # 0 PROVE \E m \in DOMAIN managers' :
                                         managers'[m].server = s /\ managers'[m].runs
      OBVIOUS
    <3>1. owned[s] \in 1 .. Len(managers) /\ managers[owned[s]].server = s /\ managers[owned[s]].runs
      BY <1>2, OwnedRuns DEF IInv
    <3>. QED
      BY <1>8, <1>9, <3>1
  <2>3. ~torn /\ c = "no" => \A n \in Names : tools'[n] # 0 => managers'[tools'[n]].server # s
    <3>. SUFFICES ASSUME ~torn, old = 0, NEW n \in Names, tools[n] # 0
                  PROVE  managers[tools[n]].server # s
      BY <1>1, <1>8, <1>9
    <3>1. managers[tools[n]].boot \/ tools[n] = owned[managers[tools[n]].server]
      BY <1>1 DEF IInv, Whole, OnlyOwned
    <3>2. CASE managers[tools[n]].boot
      BY <1>2, <1>9, <3>2 DEF IInv, BootKept
    <3>. QED
      BY <1>2, <3>1, <3>2
  <2>. HIDE DEF c
  <2>4. Types /\ Asked /\ Told
    BY DEF IInv
  <2>. QED
    BY <1>1, <1>2, <1>3, <2>1, <2>2, <2>3, <2>4, ToldReport
<1>. QED
  BY <1>6, <1>7, <1>10, <1>11, <1>12, <1>13, <1>14, <1>15 DEF IInv


LEMMA DiscoverStep ==
  ASSUME IInv, Discover
  PROVE  IInv'
<1>. DEFINE N == Len(managers) + 1
<1>1. /\ op.at = "discover"
      /\ UNCHANGED <<config, tools, owned, stranded, queue, result, asked, failures, torn, behind>>
  BY DEF Discover
<1>2. /\ s \in Servers /\ op.new = 0 /\ old = owned[s] /\ op.req.do \in Upserts
      /\ op.req.spec \in Specs /\ Len(managers) \in Nat /\ op \in OpIn(Len(managers))
  BY <1>1 DEF IInv, Control, old, Working, Types
<1>3. PICK X \in SUBSET Names :
        /\ managers' = Started(X)
        /\ LET next(at, left) == [op EXCEPT !.at = at, !.left = left, !.done = <<>>,
                                            !.new = Len(managers')]
           IN  op' = IF Unexpected(X) # {} THEN next("discard", <<>>)
                     ELSE IF old = 0       THEN next("mount", SetToSeq(X))
                                           ELSE next("unmount", Reverse(Offered(old)))
  BY DEF Discover
<1>4. /\ managers' \in Seq(Connections)
      /\ Len(managers') = N /\ DOMAIN managers' = 1 .. N
      /\ \A m \in 1 .. Len(managers) : managers'[m] = managers[m]
      /\ managers'[N].server = s /\ managers'[N].spec = op.req.spec
      /\ managers'[N].tools = SetToSeq(X) /\ managers'[N].runs /\ ~managers'[N].boot
      /\ SetToSeq(X) \in Seq(Names) /\ ToSet(SetToSeq(X)) = X
  BY <1>2, <1>3, StartedType DEF IInv
<1>5. old # 0 => /\ managers[old].tools \in Seq(Names) /\ old \in 1 .. Len(managers)
                 /\ Reverse(managers[old].tools) \in Seq(Names)
                 /\ ToSet(Reverse(managers[old].tools)) = ToSet(managers[old].tools)
  BY <1>2, OwnedRuns, ReverseElements DEF IInv
<1>6. /\ DOMAIN managers = 1 .. Len(managers) /\ N \notin 1 .. Len(managers)
      /\ owned \in [Servers -> 0 .. Len(managers)] /\ tools \in [Names -> 0 .. Len(managers)]
      /\ \A t \in Servers : owned[t] # N /\ \A n \in Names : tools[n] # N
      /\ stranded \subseteq [manager : 1 .. Len(managers), tools : Seq(Names)]
      /\ 1 .. N = 1 .. Len(managers) \cup {N}
      /\ N \in 0 .. N /\ N # 0 /\ 0 .. Len(managers) \subseteq 0 .. N
      /\ 1 .. Len(managers) \subseteq 1 .. N
  <2>1. /\ DOMAIN managers = 1 .. Len(managers) /\ Len(managers) \in Nat
        /\ owned \in [Servers -> 0 .. Len(managers)] /\ tools \in [Names -> 0 .. Len(managers)]
        /\ stranded \subseteq [manager : 1 .. Len(managers), tools : Seq(Names)]
    BY <1>2 DEF IInv, Types
  <2>. DEFINE L == Len(managers)
  <2>2. L \in Nat
    BY <2>1
  <2>. HIDE DEF L
  <2>3. /\ L + 1 \notin 1 .. L /\ 1 .. (L + 1) = 1 .. L \cup {L + 1}
        /\ L + 1 \in 0 .. (L + 1) /\ L + 1 # 0 /\ 0 .. L \subseteq 0 .. (L + 1)
        /\ 1 .. L \subseteq 1 .. (L + 1) /\ L + 1 \notin 0 .. L
    BY <2>2
  <2>4. \A t \in Servers : owned[t] # N /\ \A n \in Names : tools[n] # N
    BY <2>1, <2>3 DEF L
  <2>. QED
    BY <2>1, <2>3, <2>4 DEF L
<1>. HIDE DEF N
<1>7. \E a \in {"discard", "mount", "unmount"}, l \in Seq(Names) :
        /\ op' = [op EXCEPT !.at = a, !.left = l, !.done = <<>>, !.new = N]
        /\ \/ a = "discard"
           \/ a = "mount" /\ Unexpected(X) = {} /\ old = 0 /\ l = SetToSeq(X)
           \/ a = "unmount" /\ Unexpected(X) = {} /\ old # 0 /\ l = Reverse(managers[old].tools)
  <2>1. CASE Unexpected(X) # {}
    <3>1. <<>> \in Seq(Names)
      OBVIOUS
    <3>2. op' = [op EXCEPT !.at = "discard", !.left = <<>>, !.done = <<>>, !.new = N]
      BY <1>3, <1>4, <2>1
    <3>. QED
      BY <3>1, <3>2
  <2>2. CASE Unexpected(X) = {} /\ old = 0
    <3>1. op' = [op EXCEPT !.at = "mount", !.left = SetToSeq(X), !.done = <<>>, !.new = N]
      BY <1>3, <1>4, <2>2
    <3>. QED
      BY <1>4, <2>2, <3>1
  <2>3. CASE Unexpected(X) = {} /\ old # 0
    <3>1. op' = [op EXCEPT !.at = "unmount", !.left = Reverse(managers[old].tools),
                           !.done = <<>>, !.new = N]
      BY <1>3, <1>4, <2>3 DEF Offered
    <3>. QED
      BY <1>5, <2>3, <3>1
  <2>. QED
    BY <2>1, <2>2, <2>3
<1>8. PICK a \in {"discard", "mount", "unmount"}, l \in Seq(Names) :
        /\ op' = [op EXCEPT !.at = a, !.left = l, !.done = <<>>, !.new = N]
        /\ \/ a = "discard"
           \/ a = "mount" /\ Unexpected(X) = {} /\ old = 0 /\ l = SetToSeq(X)
           \/ a = "unmount" /\ Unexpected(X) = {} /\ old # 0 /\ l = Reverse(managers[old].tools)
  BY <1>7
<1>9. op' \in OpIn(N) /\ Stands(a, l, <<>>, N, op.broken)
  <2>1. <<>> \in Seq(Names) /\ a \in Stages
    BY DEF Stages
  <2>2. op \in OpIn(N)
    BY <1>2, <1>6 DEF OpIn
  <2>. QED
    BY <1>6, <1>8, <2>1, <2>2 DEF OpIn, Stands
<1>10. /\ op'.at = a /\ op'.left = l /\ op'.done = <<>> /\ op'.new = N /\ op'.req = op.req
       /\ op'.todo = op.todo /\ op'.broken = op.broken /\ s' = s /\ old' = old
  BY <1>1, <1>9 DEF Stands, s, old
<1>11. a # "discard" =>
         /\ Unexpected(X) = {}
         /\ \A n \in X : tools[n] = 0 \/ (old # 0 /\ n \in ToSet(managers[old].tools))
  BY <1>8 DEF Unexpected, Offered
<1>12. /\ \A n \in Names : tools[n] # 0 => managers'[tools[n]] = managers[tools[n]]
       /\ \A t \in Servers : owned[t] # 0 => managers'[owned[t]] = managers[owned[t]]
       /\ \A x \in stranded : x.manager \in 1 .. Len(managers)
  BY <1>4, <1>6
<1>13. Types'
  <2>1. stranded' \subseteq [manager : 1 .. N, tools : Seq(Names)]
    <3>1. [manager : 1 .. Len(managers), tools : Seq(Names)]
            \subseteq [manager : 1 .. N, tools : Seq(Names)]
      BY <1>6
    <3>. QED
      BY <1>1, <1>6, <3>1
  <2>2. owned' \in [Servers -> 0 .. N] /\ tools' \in [Names -> 0 .. N]
    BY <1>1, <1>6
  <2>. QED
    BY <1>1, <1>4, <1>9, <2>1, <2>2 DEF IInv, Types
<1>14. Control'
  BY <1>1, <1>2, <1>6, <1>8, <1>10 DEF IInv, Control, Working, Upserts
<1>15. Asked'
  BY <1>1, <1>10, AskedKept DEF IInv, Working
<1>16. Accounted'
  <2>1. \A m \in DOMAIN managers' : (m \in DOMAIN managers /\ managers'[m] = managers[m]) \/ m = N
    BY <1>4, <1>6
  <2>2. \A m \in DOMAIN managers' : managers'[m].boot => managers'[m].runs
    BY <1>4, <2>1 DEF IInv, Accounted
  <2>3. \A t \in Servers : owned'[t] # 0 =>
          /\ managers'[owned[t]].server = t /\ managers'[owned[t]].runs
          /\ ~managers'[owned[t]].boot
          /\ \A x \in stranded' : x.manager # owned[t]
    BY <1>1, <1>12 DEF IInv, Accounted
  <2>4. \A x \in stranded' : ~managers'[x.manager].boot /\ x.manager # N
    BY <1>1, <1>4, <1>6, <1>12 DEF IInv, Accounted
  <2>5. \A m \in DOMAIN managers' : managers'[m].runs =>
          \/ managers'[m].boot \/ (\E t \in Servers : owned[t] = m)
          \/ (\E x \in stranded' : x.manager = m) \/ m = N
    <3>1. op.new \notin DOMAIN managers
      BY <1>2, <1>6
    <3>. QED
      BY <1>1, <2>1, <3>1 DEF IInv, Accounted
  <2>. QED
    BY <1>1, <1>4, <1>6, <1>8, <1>10, <2>2, <2>3, <2>4, <2>5 DEF Accounted, Holding
<1>17. BootKept'
  <2>. SUFFICES ASSUME NEW m \in DOMAIN managers', managers'[m].boot
                PROVE  /\ Len(managers'[m].tools) = 1
                       /\ tools'[managers'[m].tools[1]] = m
                       /\ owned'[managers'[m].server] = 0
                       /\ op'.at \in Working => s' # managers'[m].server
                       /\ \A t \in Servers : owned'[t] # 0 =>
                            managers'[m].tools[1] \notin ToSet(managers'[owned'[t]].tools)
                       /\ \A x \in stranded' : managers'[m].tools[1] \notin ToSet(x.tools)
                       /\ Unaccepted' => managers'[m].tools[1] \notin ToSet(managers'[op'.new].tools)
    BY DEF BootKept
  <2>1. m \in DOMAIN managers /\ managers'[m] = managers[m] /\ managers[m].boot /\ m # 0
    BY <1>4, <1>6
  <2>2. /\ Len(managers[m].tools) = 1 /\ tools[managers[m].tools[1]] = m
        /\ owned[managers[m].server] = 0 /\ s # managers[m].server
        /\ \A t \in Servers : owned[t] # 0 =>
             managers[m].tools[1] \notin ToSet(managers[owned[t]].tools)
        /\ \A x \in stranded : managers[m].tools[1] \notin ToSet(x.tools)
    BY <1>1, <2>1 DEF IInv, BootKept, Working
  <2>3. a # "discard" => managers[m].tools[1] \notin X
    BY <1>2, <1>11, <2>1, <2>2
  <2>. QED
    BY <1>1, <1>4, <1>10, <1>12, <2>1, <2>2, <2>3 DEF Unaccepted
<1>18. Handling'
  <2>1. ToSet(op'.done) = {}
    BY <1>10, NoElements
  <2>2. a = "unmount" =>
          /\ ToSet(l) = ToSet(managers[old].tools) /\ managers'[old] = managers[old]
          /\ \A n \in Names : tools[n] = old => n \in ToSet(managers[old].tools)
    BY <1>2, <1>5, <1>8, <1>12 DEF IInv, Handling
  <2>3. a = "mount" => ToSet(l) = ToSet(managers'[N].tools) /\ old = 0
    BY <1>4, <1>8
  <2>5. \A n \in Names : tools[n] # N
    BY <1>6
  <2>6. \A n \in Names : tools'[n] # 0 =>
          managers'[tools'[n]].runs /\ n \in ToSet(managers'[tools'[n]].tools)
    BY <1>1, <1>12 DEF IInv, Handling
  <2>7. \A x \in stranded' : \A n \in Names : tools'[n] = x.manager => n \in ToSet(x.tools)
    BY <1>1 DEF IInv, Handling
  <2>8. op'.at \in {"unmount", "putback", "discard"} /\ op'.new # 0 => NoTools(op.new)'
    BY <1>1, <1>10, <2>5 DEF NoTools
  <2>. QED
    BY <1>1, <1>10, <2>1, <2>2, <2>3, <2>5, <2>6, <2>7, <2>8 DEF Handling
<1>19. (~torn => Whole)'
  <2>. SUFFICES ASSUME ~torn PROVE Whole'
    BY <1>1
  <2>1. OnlyOwned /\ AllMounted /\ Apart /\ \A x \in stranded : x.tools = <<>>
    BY DEF IInv, Whole
  <2>2. OnlyOwned'
    BY <1>1, <1>12, <2>1 DEF OnlyOwned
  <2>3. \A t \in Servers : owned[t] # 0 =>
          \A n \in ToSet(managers[owned[t]].tools) : tools[n] = owned[t]
    BY <1>1, <2>1 DEF AllMounted, HasAll
  <2>4. AllMounted'
    BY <1>1, <1>12, <2>3 DEF AllMounted, HasAll
  <2>5. Apart'
    <3>1. ASSUME NEW t \in Servers \ {s}, owned[t] # 0, a # "discard",
                 NEW n \in X, n \in ToSet(managers[owned[t]].tools)
          PROVE  FALSE
      <4>1. tools[n] # 0
        BY <2>3, <3>1
      <4>2. old # 0 /\ n \in ToSet(managers[owned[s]].tools)
        BY <1>2, <1>11, <3>1, <4>1
      <4>3. ToSet(managers[owned[t]].tools) \cap ToSet(managers[owned[s]].tools) = {}
        BY <1>2, <2>1, <3>1, <4>2 DEF Apart
      <4>. QED
        BY <3>1, <4>2, <4>3
    <3>2. \A t \in Servers \ {s} : owned[t] # 0 /\ a # "discard" =>
            ToSet(managers'[N].tools) \cap ToSet(managers[owned[t]].tools) = {}
      BY <1>4, <3>1
    <3>3. \A t, u \in Servers : owned[t] # 0 /\ owned[u] # 0 /\ t # u =>
            ToSet(managers'[owned[t]].tools) \cap ToSet(managers'[owned[u]].tools) = {}
      BY <1>12, <2>1 DEF Apart
    <3>. QED
      BY <1>1, <1>10, <1>12, <3>2, <3>3 DEF Apart, Unaccepted
  <2>. QED
    BY <1>1, <1>8, <1>10, <2>1, <2>2, <2>4, <2>5 DEF Whole
<1>20. Told'
  BY <1>1, <1>10, <1>12, ToldKept DEF IInv, Working
<1>. QED
  BY <1>13, <1>14, <1>15, <1>16, <1>17, <1>18, <1>19, <1>20 DEF IInv


-----------------------------------------------------------------------------
(* The old tools off, one by one.                                           *)

\* While an operation works with the tools of a server.
LEMMA WorkingFacts ==
  ASSUME IInv, op.at \in Working
  PROVE  /\ s \in Servers /\ old = owned[s] /\ op.at \in Working \cup {"begin"}
         /\ op \in OpIn(Len(managers)) /\ op.left \in Seq(Names) /\ op.done \in Seq(Names)
         /\ op.left # <<>> => /\ Head(op.left) \in Names /\ Tail(op.left) \in Seq(Names)
                              /\ ToSet(op.left) = {Head(op.left)} \cup ToSet(Tail(op.left))
                              /\ Append(op.done, Head(op.left)) \in Seq(Names)
                              /\ ToSet(Append(op.done, Head(op.left)))
                                   = ToSet(op.done) \cup {Head(op.left)}
         /\ op.left = <<>> => ToSet(op.left) = {}
         /\ op.new \in 0 .. Len(managers) /\ Len(managers) \in Nat
         /\ tools \in [Names -> 0 .. Len(managers)] /\ owned \in [Servers -> 0 .. Len(managers)]
<1>1. s \in Servers
  BY DEF IInv, Control
<1>2. op \in OpIn(Len(managers)) /\ op.left \in Seq(Names) /\ op.done \in Seq(Names)
      /\ op.new \in 0 .. Len(managers)
  BY DEF IInv, Types, OpIn
<1>3. old = owned[s]
  BY <1>1 DEF old
<1>4. op.left # <<>> => /\ Head(op.left) \in Names /\ Tail(op.left) \in Seq(Names)
                        /\ ToSet(op.left) = {Head(op.left)} \cup ToSet(Tail(op.left))
  BY <1>2, HeadAndTail
<1>5. op.left # <<>> => /\ Append(op.done, Head(op.left)) \in Seq(Names)
                        /\ ToSet(Append(op.done, Head(op.left)))
                             = ToSet(op.done) \cup {Head(op.left)}
  BY <1>2, <1>4, AppendElement
<1>6. op.left = <<>> => ToSet(op.left) = {}
  BY NoElements
<1>7. Len(managers) \in Nat /\ tools \in [Names -> 0 .. Len(managers)]
      /\ owned \in [Servers -> 0 .. Len(managers)]
  BY DEF IInv, Types
<1>. QED
  BY <1>1, <1>2, <1>3, <1>4, <1>5, <1>6, <1>7

LEMMA FailCounts ==
  ASSUME Types, Fail(1)
  PROVE  failures' \in 0 .. MaxFailures
<1>1. MaxFailures \in Nat /\ failures \in Nat
  BY MCPAssumption DEF Types
<1>. QED
  BY <1>1 DEF Fail

\* A boot's tool is none of those the operation handles.
LEMMA BootNotHandled ==
  ASSUME IInv, op.at \in {"unmount", "mount", "undo", "putback"},
         NEW m \in DOMAIN managers, managers[m].boot
  PROVE  managers[m].tools[1] \notin ToSet(op.left)
<1>1. s \in Servers /\ old = owned[s]
  BY WorkingFacts DEF Working
<1>2. CASE op.at \in {"unmount", "putback"}
  BY <1>1, <1>2 DEF IInv, Control, Handling, BootKept
<1>3. CASE op.at \in {"mount", "undo"}
  <2>1. op.new # 0
    BY <1>3 DEF IInv, Control
  <2>. QED
    BY <1>3, <2>1 DEF IInv, Handling, BootKept, Unaccepted
<1>. QED
  BY <1>2, <1>3

LEMMA UnmountStep ==
  ASSUME IInv, Unmount
  PROVE  IInv'
<1>1. /\ op.at = "unmount" /\ op.left # <<>>
      /\ UNCHANGED <<config, managers, owned, stranded, queue, result, asked, torn, behind>>
  BY DEF Unmount
<1>2. /\ s \in Servers /\ old = owned[s] /\ op.at \in Working \cup {"begin"}
      /\ op.left \in Seq(Names) /\ op.done \in Seq(Names)
      /\ Head(op.left) \in Names /\ Tail(op.left) \in Seq(Names)
      /\ ToSet(op.left) = {Head(op.left)} \cup ToSet(Tail(op.left))
      /\ ToSet(Append(op.done, Head(op.left))) = ToSet(op.done) \cup {Head(op.left)}
      /\ op.new \in 0 .. Len(managers) /\ Len(managers) \in Nat
      /\ tools \in [Names -> 0 .. Len(managers)] /\ owned \in [Servers -> 0 .. Len(managers)]
  BY <1>1, WorkingFacts DEF Working
<1>. DEFINE h == Head(op.left)
            tl == Tail(op.left)
            d == Append(op.done, h)
<1>3. old # 0 /\ op.req.do \in Upserts \cup {"remove", "close"}
  BY <1>1 DEF IInv, Control
<1>4. CASE tools' = [tools EXCEPT ![h] = 0] /\ op' = Handled /\ UNCHANGED failures
  <2>1. op' \in OpIn(Len(managers)) /\ Stands("unmount", tl, d, op.new, op.broken)
    BY <1>1, <1>4, HandledStands DEF IInv
  <2>2. /\ op'.at = "unmount" /\ op'.left = tl /\ op'.done = d /\ op'.new = op.new
        /\ op'.req = op.req /\ op'.todo = op.todo /\ s' = s /\ old' = old
        /\ op'.broken = op.broken
    BY <1>1, <2>1 DEF Stands, s, old
  <2>. HIDE DEF h, tl, d
  <2>3. /\ h \in Names /\ ToSet(op.left) = {h} \cup ToSet(tl)
        /\ ToSet(d) = ToSet(op.done) \cup {h}
    BY <1>2 DEF h, tl, d
  <2>4. tools'[h] = 0 /\ \A n \in Names \ {h} : tools'[n] = tools[n]
    BY <1>2, <1>4, <2>3
  <2>5. Types'
    <3>1. tools' \in [Names -> 0 .. Len(managers)]
      BY <1>2, <1>4, <2>3
    <3>. QED
      BY <1>1, <1>4, <2>1, <3>1 DEF IInv, Types
  <2>6. Control'
    BY <1>1, <2>2 DEF IInv, Control, Working, Upserts
  <2>7. Asked'
    BY <1>1, <2>2, AskedKept DEF IInv, Working
  <2>8. Accounted'
    BY <1>1, <2>2 DEF IInv, Accounted, Holding
  <2>9. BootKept'
    <3>1. \A m \in DOMAIN managers : managers[m].boot =>
            /\ managers[m].tools[1] # h /\ managers[m].tools[1] \in Names
            /\ tools[managers[m].tools[1]] = m
      <4>. SUFFICES ASSUME NEW m \in DOMAIN managers, managers[m].boot
                    PROVE  /\ managers[m].tools[1] # h /\ managers[m].tools[1] \in Names
                           /\ tools[managers[m].tools[1]] = m
        OBVIOUS
      <4>1. managers[m].tools \in Seq(Names)
        <5>1. managers[m] \in Connections
          BY DEF IInv, Types
        <5>. QED
          BY <5>1 DEF Connections
      <4>2. managers[m].tools[1] \notin ToSet(op.left)
        BY <1>1, BootNotHandled
      <4>3. Len(managers[m].tools) = 1 /\ tools[managers[m].tools[1]] = m
        BY DEF IInv, BootKept
      <4>. QED
        BY <2>3, <4>1, <4>2, <4>3
    <3>. QED
      BY <1>1, <2>2, <2>4, <3>1 DEF IInv, BootKept, Unaccepted
  <2>10. Handling'
    <3>1. ToSet(tl) \cup ToSet(d) \subseteq ToSet(managers[old].tools)
      BY <1>1, <2>3 DEF IInv, Handling
    <3>2. \A n \in Names : tools'[n] = old => n \in ToSet(tl)
      BY <1>1, <1>3, <2>3, <2>4 DEF IInv, Handling
    <3>3. op.new # 0 => \A n \in Names : tools'[n] # op.new
      BY <1>1, <2>4 DEF IInv, Handling, NoTools
    <3>4. \A x \in stranded : x.manager # 0
      BY DEF IInv, Types
    <3>5. \A x \in stranded : \A n \in Names : tools'[n] = x.manager => n \in ToSet(x.tools)
      BY <2>4, <3>4 DEF IInv, Handling
    <3>6. \A n \in Names : tools'[n] # 0 =>
            managers[tools'[n]].runs /\ n \in ToSet(managers[tools'[n]].tools)
      BY <2>4 DEF IInv, Handling
    <3>. QED
      BY <1>1, <2>2, <3>1, <3>2, <3>3, <3>5, <3>6 DEF Handling, NoTools
  <2>11. (~torn => Whole)'
    <3>. SUFFICES ASSUME ~torn PROVE Whole'
      BY <1>1
    <3>1. OnlyOwned /\ AllMounted /\ Apart /\ \A x \in stranded : x.tools = <<>>
      BY DEF IInv, Whole
    <3>2. OnlyOwned'
      BY <1>1, <2>2, <2>4, <3>1 DEF OnlyOwned
    <3>3. AllMounted'
      <4>. SUFFICES ASSUME NEW t \in Servers, owned[t] # 0,
                           NEW n \in ToSet(managers[owned[t]].tools)
                    PROVE  tools'[n] = owned[t] \/ (t = s /\ tools'[n] = 0 /\ n \in ToSet(d))
        BY <1>1, <2>2 DEF AllMounted, HasAll
      <4>1. n \in Names
        <5>1. managers[owned[t]].tools \in Seq(Names)
          BY OwnedRuns DEF IInv
        <5>. QED
          BY <5>1 DEF ToSet
      <4>2. tools[n] = owned[t] \/ (t = s /\ tools[n] = 0 /\ n \in ToSet(op.done))
        BY <1>1, <3>1 DEF AllMounted, HasAll
      <4>3. CASE t = s
        BY <2>3, <2>4, <4>1, <4>2, <4>3
      <4>4. CASE t # s
        <5>1. n \notin ToSet(managers[owned[s]].tools)
          BY <1>2, <1>3, <3>1, <4>4 DEF Apart
        <5>2. h \in ToSet(managers[owned[s]].tools)
          BY <1>1, <1>2, <2>3 DEF IInv, Handling
        <5>. QED
          BY <2>4, <4>1, <4>2, <4>4, <5>1, <5>2
      <4>. QED
        BY <4>3, <4>4
    <3>4. Apart'
      BY <1>1, <2>2, <3>1 DEF Apart, Unaccepted
    <3>. QED
      BY <1>1, <2>2, <3>1, <3>2, <3>3, <3>4 DEF Whole
  <2>12. Told'
    BY <1>1, <2>2, ToldKept DEF IInv, Working
  <2>. QED
    BY <2>5, <2>6, <2>7, <2>8, <2>9, <2>10, <2>11, <2>12 DEF IInv
<1>5. CASE Fail(1) /\ Go("putback", op.done) /\ UNCHANGED tools
  <2>1. op' \in OpIn(Len(managers)) /\ Stands("putback", op.done, <<>>, op.new, op.broken)
    BY <1>2, <1>5, GoStands DEF IInv, Stages
  <2>2. /\ op'.at = "putback" /\ op'.left = op.done /\ op'.done = <<>> /\ op'.new = op.new
        /\ op'.req = op.req /\ op'.todo = op.todo /\ s' = s /\ old' = old
        /\ op'.broken = op.broken
    BY <1>1, <2>1 DEF Stands, s, old
  <2>3. Types'
    BY <1>1, <1>5, <2>1, FailCounts DEF IInv, Types
  <2>. HIDE DEF h, tl, d
  <2>4. Control'
    BY <1>1, <1>3, <2>2 DEF IInv, Control, Working, Upserts
  <2>5. Asked'
    BY <1>1, <2>2, AskedKept DEF IInv, Working
  <2>6. Accounted'
    BY <1>1, <2>2 DEF IInv, Accounted, Holding
  <2>7. BootKept'
    BY <1>1, <1>5, <2>2 DEF IInv, BootKept, Unaccepted, Working
  <2>8. Handling'
    <3>1. ToSet(op.done) \cup ToSet(<<>>) \subseteq ToSet(managers[old].tools)
      BY <1>1, NoElements DEF IInv, Handling
    <3>. QED
      BY <1>1, <1>5, <2>2, <3>1 DEF IInv, Handling, NoTools
  <2>9. (~torn => Whole)'
    <3>. SUFFICES ASSUME ~torn PROVE Whole'
      BY <1>1
    <3>1. OnlyOwned /\ AllMounted /\ Apart /\ \A x \in stranded : x.tools = <<>>
      BY DEF IInv, Whole
    <3>2. OnlyOwned'
      BY <1>1, <1>5, <2>2, <3>1 DEF OnlyOwned
    <3>3. AllMounted'
      BY <1>1, <1>5, <2>2, <3>1 DEF AllMounted, HasAll
    <3>4. Apart'
      BY <1>1, <2>2, <3>1 DEF Apart, Unaccepted
    <3>5. ~op.broken
      BY <1>1 DEF IInv, Control
    <3>. QED
      BY <1>1, <2>2, <3>1, <3>2, <3>3, <3>4, <3>5 DEF Whole
  <2>10. Told'
    BY <1>1, <2>2, ToldKept DEF IInv, Working
  <2>. QED
    BY <2>3, <2>4, <2>5, <2>6, <2>7, <2>8, <2>9, <2>10 DEF IInv
<1>. QED
  BY <1>4, <1>5 DEF Unmount


LEMMA UnmountedStep ==
  ASSUME IInv, Unmounted
  PROVE  IInv'
<1>1. /\ op.at = "unmount" /\ op.left = <<>>
      /\ UNCHANGED <<state, queue, result, asked, failures, torn, behind>>
      /\ UNCHANGED <<config, managers, tools, owned, stranded>>
  BY DEF Unmounted, state
<1>2. /\ s \in Servers /\ old = owned[s] /\ op.at \in Working \cup {"begin"}
      /\ ToSet(op.left) = {} /\ ToSet(<<>>) = {} /\ <<>> \in Seq(Names)
      /\ op.new \in 0 .. Len(managers) /\ Len(managers) \in Nat
  BY <1>1, WorkingFacts, NoElements DEF Working
<1>3. /\ old # 0 /\ op.req.do \in Upserts \cup {"remove", "close"}
      /\ op.new = 0 <=> op.req.do \in {"remove", "close"}
  BY <1>1 DEF IInv, Control, Upserts
<1>4. \A n \in Names : tools[n] # old
  BY <1>1, <1>2 DEF IInv, Handling
<1>5. op.new # 0 => managers[op.new].tools \in Seq(Names) /\ op.new \in DOMAIN managers
  <2>. SUFFICES ASSUME op.new # 0
                PROVE  managers[op.new].tools \in Seq(Names) /\ op.new \in DOMAIN managers
    OBVIOUS
  <2>1. op.new \in DOMAIN managers
    BY <1>2 DEF IInv, Types
  <2>2. managers[op.new] \in Connections
    BY <2>1 DEF IInv, Types
  <2>. QED
    BY <2>1, <2>2 DEF Connections
<1>6. \E a \in {"stopold", "mount"}, l \in Seq(Names) :
        /\ op' \in OpIn(Len(managers)) /\ Stands(a, l, <<>>, op.new, op.broken)
        /\ \/ a = "stopold" /\ op.new = 0
           \/ a = "mount" /\ op.new # 0 /\ l = managers[op.new].tools
  <2>1. CASE op.new = 0 /\ Go("stopold", <<>>)
    BY <1>2, <2>1, GoStands DEF IInv, Stages
  <2>2. CASE op.new # 0 /\ Go("mount", managers[op.new].tools)
    BY <1>5, <2>2, GoStands DEF IInv, Stages
  <2>. QED
    BY <2>1, <2>2 DEF Unmounted, Offered
<1>7. PICK a \in {"stopold", "mount"}, l \in Seq(Names) :
        /\ op' \in OpIn(Len(managers)) /\ Stands(a, l, <<>>, op.new, op.broken)
        /\ \/ a = "stopold" /\ op.new = 0
           \/ a = "mount" /\ op.new # 0 /\ l = managers[op.new].tools
  BY <1>6
<1>8. /\ op'.at = a /\ op'.left = l /\ op'.done = <<>> /\ op'.new = op.new
      /\ op'.req = op.req /\ op'.todo = op.todo /\ s' = s /\ old' = old
      /\ op'.broken = op.broken
  BY <1>1, <1>7 DEF Stands, s, old
<1>9. Types'
  BY <1>1, <1>7 DEF IInv, Types
<1>10. Control'
  BY <1>1, <1>3, <1>7, <1>8 DEF IInv, Control, Working, Upserts
<1>11. Asked'
  BY <1>1, <1>8, AskedKept DEF IInv, Working
<1>12. Accounted'
  BY <1>1, <1>7, <1>8 DEF IInv, Accounted, Holding
<1>13. BootKept'
  BY <1>1, <1>8 DEF IInv, BootKept, Unaccepted, Working
<1>14. Handling'
  <2>1. \A n \in Names : op.new # 0 => tools[n] # op.new
    BY <1>1 DEF IInv, Handling, NoTools
  <2>. QED
    BY <1>1, <1>2, <1>4, <1>7, <1>8, <2>1 DEF IInv, Handling, NoTools
<1>15. (~torn => Whole)'
  <2>. SUFFICES ASSUME ~torn PROVE Whole'
    BY <1>1
  <2>1. OnlyOwned /\ AllMounted /\ Apart /\ \A x \in stranded : x.tools = <<>>
    BY DEF IInv, Whole
  <2>2. OnlyOwned'
    BY <1>1, <1>8, <2>1 DEF OnlyOwned
  <2>3. AllMounted'
    <3>. SUFFICES ASSUME NEW t \in Servers, owned[t] # 0,
                         NEW n \in ToSet(managers[owned[t]].tools)
                  PROVE  tools[n] = owned[t] \/ (t = s /\ (a = "mount" => tools[n] = 0))
      BY <1>1, <1>7, <1>8 DEF AllMounted, HasAll
    <3>. QED
      BY <1>1, <2>1 DEF AllMounted, HasAll, IInv, Handling
  <2>4. Apart'
    BY <1>1, <1>8, <2>1 DEF Apart, Unaccepted
  <2>. QED
    BY <1>1, <1>8, <2>1, <2>2, <2>3, <2>4 DEF Whole
<1>16. Told'
  BY <1>1, <1>8, ToldKept DEF IInv, Working
<1>. QED
  BY <1>9, <1>10, <1>11, <1>12, <1>13, <1>14, <1>15, <1>16 DEF IInv

-----------------------------------------------------------------------------
(* The new tools on, one by one.                                            *)

LEMMA MountStep ==
  ASSUME IInv, Mount
  PROVE  IInv'
<1>1. /\ op.at = "mount" /\ op.left # <<>>
      /\ UNCHANGED <<config, managers, owned, stranded, queue, result, asked, torn, behind>>
  BY DEF Mount
<1>2. /\ s \in Servers /\ old = owned[s] /\ op.at \in Working \cup {"begin"}
      /\ op.left \in Seq(Names) /\ op.done \in Seq(Names)
      /\ Head(op.left) \in Names /\ Tail(op.left) \in Seq(Names)
      /\ ToSet(op.left) = {Head(op.left)} \cup ToSet(Tail(op.left))
      /\ ToSet(Append(op.done, Head(op.left))) = ToSet(op.done) \cup {Head(op.left)}
      /\ op.new \in 0 .. Len(managers) /\ Len(managers) \in Nat
      /\ tools \in [Names -> 0 .. Len(managers)] /\ owned \in [Servers -> 0 .. Len(managers)]
  BY <1>1, WorkingFacts DEF Working
<1>. DEFINE h == Head(op.left)
            tl == Tail(op.left)
            d == Append(op.done, h)
<1>3. op.new # 0 /\ op.req.do \in Upserts
  BY <1>1 DEF IInv, Control
<1>4. /\ managers[op.new].server = s /\ managers[op.new].runs /\ ~managers[op.new].boot
      /\ \A t \in Servers : owned[t] # op.new
      /\ \A x \in stranded : x.manager # op.new
  BY <1>1, <1>3 DEF IInv, Accounted, Holding
<1>5. CASE tools' = [tools EXCEPT ![h] = op.new] /\ op' = Handled /\ UNCHANGED failures
  <2>1. op' \in OpIn(Len(managers)) /\ Stands("mount", tl, d, op.new, op.broken)
    BY <1>1, <1>5, HandledStands DEF IInv
  <2>2. /\ op'.at = "mount" /\ op'.left = tl /\ op'.done = d /\ op'.new = op.new
        /\ op'.req = op.req /\ op'.todo = op.todo /\ s' = s /\ old' = old
        /\ op'.broken = op.broken
    BY <1>1, <2>1 DEF Stands, s, old
  <2>. HIDE DEF h, tl, d
  <2>3. /\ h \in Names /\ ToSet(op.left) = {h} \cup ToSet(tl)
        /\ ToSet(d) = ToSet(op.done) \cup {h}
    BY <1>2 DEF h, tl, d
  <2>4. tools'[h] = op.new /\ \A n \in Names \ {h} : tools'[n] = tools[n]
    BY <1>2, <1>5, <2>3
  <2>5. Types'
    <3>1. tools' \in [Names -> 0 .. Len(managers)]
      BY <1>2, <1>5, <2>3
    <3>. QED
      BY <1>1, <1>5, <2>1, <3>1 DEF IInv, Types
  <2>6. Control'
    BY <1>1, <2>2 DEF IInv, Control, Working, Upserts
  <2>7. Asked'
    BY <1>1, <2>2, AskedKept DEF IInv, Working
  <2>8. Accounted'
    BY <1>1, <2>2 DEF IInv, Accounted, Holding
  <2>9. BootKept'
    <3>1. \A m \in DOMAIN managers : managers[m].boot =>
            /\ managers[m].tools[1] # h /\ managers[m].tools[1] \in Names
            /\ tools[managers[m].tools[1]] = m
      <4>. SUFFICES ASSUME NEW m \in DOMAIN managers, managers[m].boot
                    PROVE  /\ managers[m].tools[1] # h /\ managers[m].tools[1] \in Names
                           /\ tools[managers[m].tools[1]] = m
        OBVIOUS
      <4>1. managers[m].tools \in Seq(Names)
        <5>1. managers[m] \in Connections
          BY DEF IInv, Types
        <5>. QED
          BY <5>1 DEF Connections
      <4>2. managers[m].tools[1] \notin ToSet(op.left)
        BY <1>1, BootNotHandled
      <4>3. Len(managers[m].tools) = 1 /\ tools[managers[m].tools[1]] = m
        BY DEF IInv, BootKept
      <4>. QED
        BY <2>3, <4>1, <4>2, <4>3
    <3>. QED
      BY <1>1, <2>2, <2>4, <3>1 DEF IInv, BootKept, Unaccepted
  <2>10. Handling'
    <3>0. h \in ToSet(managers[op.new].tools)
      BY <1>1, <2>3 DEF IInv, Handling
    <3>1. ToSet(tl) \cup ToSet(d) \subseteq ToSet(managers[op.new].tools)
      BY <1>1, <2>3 DEF IInv, Handling
    <3>2. old # 0 => \A n \in Names : tools'[n] # old
      BY <1>1, <1>2, <1>4, <2>4 DEF IInv, Handling, NoTools
    <3>3. /\ \A n \in Names : tools'[n] = op.new => n \in ToSet(d)
          /\ \A n \in ToSet(managers[op.new].tools) : tools'[n] = op.new \/ n \in ToSet(tl)
      <4>1. \A n \in Names : tools'[n] = op.new => n \in ToSet(d)
        BY <1>1, <2>3, <2>4 DEF IInv, Handling
      <4>2. ToSet(managers[op.new].tools) \subseteq Names
        <5>1. op.new \in DOMAIN managers
          BY <1>2, <1>3 DEF IInv, Types
        <5>2. managers[op.new] \in Connections
          BY <5>1 DEF IInv, Types
        <5>3. managers[op.new].tools \in Seq(Names)
          BY <5>2 DEF Connections
        <5>. QED
          BY <5>3 DEF ToSet
      <4>3. \A n \in ToSet(managers[op.new].tools) : tools'[n] = op.new \/ n \in ToSet(tl)
        BY <1>1, <2>3, <2>4, <4>2 DEF IInv, Handling
      <4>. QED
        BY <4>1, <4>3
    <3>4. \A x \in stranded : \A n \in Names : tools'[n] = x.manager => n \in ToSet(x.tools)
      BY <1>4, <2>4 DEF IInv, Handling
    <3>5. \A n \in Names : tools'[n] # 0 =>
            managers[tools'[n]].runs /\ n \in ToSet(managers[tools'[n]].tools)
      BY <1>4, <2>4, <3>0 DEF IInv, Handling
    <3>. QED
      BY <1>1, <2>2, <3>1, <3>2, <3>3, <3>4, <3>5 DEF Handling, NoTools
  <2>11. (~torn => Whole)'
    <3>. SUFFICES ASSUME ~torn PROVE Whole'
      BY <1>1
    <3>1. OnlyOwned /\ AllMounted /\ Apart /\ \A x \in stranded : x.tools = <<>>
      BY DEF IInv, Whole
    <3>2. OnlyOwned'
      BY <1>1, <2>2, <2>4, <3>1 DEF OnlyOwned
    <3>3. AllMounted'
      <4>. SUFFICES ASSUME NEW t \in Servers, owned[t] # 0,
                           NEW n \in ToSet(managers[owned[t]].tools)
                    PROVE  tools'[n] = owned[t] \/ (t = s /\ tools'[n] \in {0, op.new})
        BY <1>1, <2>2 DEF AllMounted, HasAll
      <4>1. n \in Names
        <5>1. managers[owned[t]].tools \in Seq(Names)
          BY OwnedRuns DEF IInv
        <5>. QED
          BY <5>1 DEF ToSet
      <4>2. tools[n] = owned[t] \/ (t = s /\ tools[n] \in {0, op.new})
        BY <1>1, <3>1 DEF AllMounted, HasAll
      <4>3. CASE t = s
        BY <2>3, <2>4, <4>1, <4>2, <4>3
      <4>4. CASE t # s
        <5>1. n \notin ToSet(managers[op.new].tools)
          BY <1>1, <1>3, <3>1, <4>4 DEF Apart, Unaccepted
        <5>2. h \in ToSet(managers[op.new].tools)
          BY <1>1, <2>3 DEF IInv, Handling
        <5>. QED
          BY <2>4, <4>1, <4>2, <4>4, <5>1, <5>2
      <4>. QED
        BY <4>3, <4>4
    <3>4. Apart'
      BY <1>1, <2>2, <3>1 DEF Apart, Unaccepted
    <3>. QED
      BY <1>1, <2>2, <3>1, <3>2, <3>3, <3>4 DEF Whole
  <2>12. Told'
    BY <1>1, <2>2, ToldKept DEF IInv, Working
  <2>. QED
    BY <2>5, <2>6, <2>7, <2>8, <2>9, <2>10, <2>11, <2>12 DEF IInv
<1>6. CASE Fail(1) /\ Go("undo", Reverse(op.done)) /\ UNCHANGED tools
  <2>0. Reverse(op.done) \in Seq(Names) /\ ToSet(Reverse(op.done)) = ToSet(op.done)
        /\ ToSet(<<>>) = {}
    BY <1>2, ReverseElements, NoElements
  <2>1. op' \in OpIn(Len(managers)) /\ Stands("undo", Reverse(op.done), <<>>, op.new, op.broken)
    BY <1>6, <2>0, GoStands DEF IInv, Stages
  <2>2. /\ op'.at = "undo" /\ op'.left = Reverse(op.done) /\ op'.done = <<>> /\ op'.new = op.new
        /\ op'.req = op.req /\ op'.todo = op.todo /\ s' = s /\ old' = old
        /\ op'.broken = op.broken
    BY <1>1, <2>1 DEF Stands, s, old
  <2>3. Types'
    BY <1>1, <1>6, <2>1, FailCounts DEF IInv, Types
  <2>. HIDE DEF h, tl, d
  <2>4. Control'
    BY <1>1, <1>3, <2>2 DEF IInv, Control, Working, Upserts
  <2>5. Asked'
    BY <1>1, <2>2, AskedKept DEF IInv, Working
  <2>6. Accounted'
    BY <1>1, <2>2 DEF IInv, Accounted, Holding
  <2>7. BootKept'
    BY <1>1, <1>6, <2>2 DEF IInv, BootKept, Unaccepted, Working
  <2>8. Handling'
    BY <1>1, <1>6, <2>0, <2>2 DEF IInv, Handling, NoTools
  <2>9. (~torn => Whole)'
    <3>. SUFFICES ASSUME ~torn PROVE Whole'
      BY <1>1
    <3>1. OnlyOwned /\ AllMounted /\ Apart /\ \A x \in stranded : x.tools = <<>>
      BY DEF IInv, Whole
    <3>2. OnlyOwned'
      BY <1>1, <1>6, <2>2, <3>1 DEF OnlyOwned
    <3>3. AllMounted'
      BY <1>1, <1>6, <2>2, <3>1 DEF AllMounted, HasAll
    <3>4. Apart'
      BY <1>1, <2>2, <3>1 DEF Apart, Unaccepted
    <3>. QED
      BY <1>1, <2>2, <3>1, <3>2, <3>3, <3>4 DEF Whole
  <2>10. Told'
    BY <1>1, <2>2, ToldKept DEF IInv, Working
  <2>. QED
    BY <2>3, <2>4, <2>5, <2>6, <2>7, <2>8, <2>9, <2>10 DEF IInv
<1>. QED
  BY <1>5, <1>6 DEF Mount


LEMMA MountedStep ==
  ASSUME IInv, Mounted
  PROVE  IInv'
<1>1. /\ op.at = "mount" /\ op.left = <<>>
      /\ owned' = [owned EXCEPT ![s] = op.new]
      /\ UNCHANGED <<config, managers, tools, stranded, queue, asked, failures, torn>>
  BY DEF Mounted
<1>2. /\ s \in Servers /\ old = owned[s] /\ op.at \in Working \cup {"begin"}
      /\ op.left \in Seq(Names) /\ op.done \in Seq(Names) /\ ToSet(op.left) = {}
      /\ op.new \in 0 .. Len(managers) /\ Len(managers) \in Nat
      /\ tools \in [Names -> 0 .. Len(managers)] /\ owned \in [Servers -> 0 .. Len(managers)]
      /\ op \in OpIn(Len(managers))
  BY <1>1, WorkingFacts DEF Working
<1>3. op.new # 0 /\ op.req.do \in Upserts /\ op.todo = {} /\ ~op.broken
  BY <1>1 DEF IInv, Control, Upserts
<1>4. /\ managers[op.new].server = s /\ managers[op.new].runs /\ ~managers[op.new].boot
      /\ \A t \in Servers : owned[t] # op.new
      /\ \A x \in stranded : x.manager # op.new
      /\ managers[op.new].spec = op.req.spec
  BY <1>1, <1>3 DEF IInv, Accounted, Holding
<1>5. /\ owned'[s] = op.new /\ \A t \in Servers \ {s} : owned'[t] = owned[t]
      /\ owned' \in [Servers -> 0 .. Len(managers)]
  BY <1>1, <1>2
<1>6. old # 0 => op' = [op EXCEPT !.at = "stopold", !.new = old]
                 /\ UNCHANGED <<result, behind>>
  BY DEF Mounted, Quiet
<1>7. old # 0 =>
        /\ op' \in OpIn(Len(managers)) /\ Stands("stopold", op.left, op.done, old, op.broken)
  BY <1>2, <1>6 DEF OpIn, Stages, Stands
<1>8. old = 0 => Report(TRUE, "yes")
  BY DEF Mounted
<1>9. old = 0 => /\ op' \in OpIn(Len(managers)) /\ Released
                 /\ result' \in Results /\ behind' \subseteq Servers
  BY <1>2, <1>8, ReportReleases DEF IInv
<1>10. old # 0 => /\ op'.at = "stopold" /\ op'.new = old /\ op'.req = op.req /\ op'.todo = {}
                  /\ op'.broken = op.broken /\ s' = s /\ old' = op.new
  BY <1>2, <1>3, <1>5, <1>7 DEF Stands, s, old
<1>11. old = 0 => op'.at = "idle" /\ op'.new = 0 /\ Control'
  <2>. SUFFICES ASSUME old = 0 PROVE op'.at = "idle" /\ op'.new = 0 /\ Control'
    OBVIOUS
  <2>1. op' = Idle
    BY <1>3, <1>9 DEF Released, Upserts
  <2>2. Control'
    BY <1>2, <1>5, <1>9, ReleasedControl DEF IInv
  <2>. QED
    BY <2>1, <2>2, IdleFields
<1>12. Types'
  <2>1. op' \in OpIn(Len(managers)) /\ result' \in Results /\ behind' \subseteq Servers
    BY <1>6, <1>7, <1>9 DEF IInv, Types
  <2>. QED
    BY <1>1, <1>5, <2>1 DEF IInv, Types
<1>13. Control'
  <2>1. CASE old # 0
    <3>1. op'.at = "stopold" /\ op'.new # 0 /\ op'.req = op.req /\ op'.todo = {}
          /\ s' \in Servers /\ old' # 0 /\ ~op'.broken
      BY <1>2, <1>3, <1>10, <2>1
    <3>2. op.req.do \in Upserts => op.req.spec \in Specs
      BY DEF IInv, Control
    <3>. QED
      BY <1>3, <3>1, <3>2 DEF Control, Working, Upserts
  <2>. QED
    BY <1>11, <2>1
<1>14. Asked'
  BY <1>1, <1>2, <1>10, <1>11, AskedKept DEF IInv, Working
<1>15. \A t \in Servers \ {s} : owned[t] # 0 =>
          /\ managers[owned[t]].server = t /\ owned[t] # old /\ owned[t] # op.new
  BY <1>2, <1>4 DEF IInv, Accounted
<1>16. old # 0 => /\ managers[old].server = s /\ managers[old].runs /\ ~managers[old].boot
                  /\ old # op.new /\ \A x \in stranded : x.manager # old
  BY <1>2, <1>4 DEF IInv, Accounted
<1>17. Accounted'
  <2>1. \A t \in Servers : owned'[t] # 0 =>
          /\ managers[owned'[t]].server = t /\ managers[owned'[t]].runs
          /\ ~managers[owned'[t]].boot
          /\ \A x \in stranded : x.manager # owned'[t]
    BY <1>4, <1>5 DEF IInv, Accounted
  <2>2. old # 0 => \A t \in Servers : owned'[t] # old
    BY <1>4, <1>5, <1>15, <1>16
  <2>3. \A m \in DOMAIN managers : managers[m].runs =>
          \/ managers[m].boot \/ (\E t \in Servers : owned'[t] = m)
          \/ (\E x \in stranded : x.manager = m) \/ m = op'.new
    <3>. SUFFICES ASSUME NEW m \in DOMAIN managers, managers[m].runs, ~managers[m].boot,
                         ~\E x \in stranded : x.manager = m
                  PROVE  (\E t \in Servers : owned'[t] = m) \/ m = op'.new
      OBVIOUS
    <3>1. m = op.new \/ \E t \in Servers : owned[t] = m
      BY DEF IInv, Accounted
    <3>2. m # 0
      BY DEF IInv, Types
    <3>. QED
      BY <1>2, <1>5, <1>10, <3>1, <3>2
  <2>4. old = 0 => ~Holding'
    BY <1>11 DEF Holding
  <2>5. Holding' => op'.at = "stopold" /\ old # 0
    BY <1>10, <1>11 DEF Holding
  <2>. QED
    BY <1>1, <1>4, <1>5, <1>10, <1>16, <2>1, <2>2, <2>3, <2>5 DEF IInv, Accounted
<1>18. BootKept'
  <2>. SUFFICES ASSUME NEW m \in DOMAIN managers, managers[m].boot
                PROVE  /\ Len(managers[m].tools) = 1
                       /\ tools[managers[m].tools[1]] = m
                       /\ owned'[managers[m].server] = 0
                       /\ op'.at \in Working => s' # managers[m].server
                       /\ \A t \in Servers : owned'[t] # 0 =>
                            managers[m].tools[1] \notin ToSet(managers[owned'[t]].tools)
                       /\ \A x \in stranded : managers[m].tools[1] \notin ToSet(x.tools)
                       /\ ~Unaccepted'
    BY <1>1 DEF BootKept
  <2>1. /\ Len(managers[m].tools) = 1 /\ tools[managers[m].tools[1]] = m
        /\ owned[managers[m].server] = 0 /\ s # managers[m].server
        /\ \A t \in Servers : owned[t] # 0 =>
             managers[m].tools[1] \notin ToSet(managers[owned[t]].tools)
        /\ \A x \in stranded : managers[m].tools[1] \notin ToSet(x.tools)
        /\ managers[m].tools[1] \notin ToSet(managers[op.new].tools)
    BY <1>1, <1>3 DEF IInv, BootKept, Working, Unaccepted
  <2>2. managers[m].server \in Servers
    <3>1. managers[m] \in Connections
      BY DEF IInv, Types
    <3>. QED
      BY <3>1 DEF Connections
  <2>3. ~Unaccepted' /\ (op'.at \in Working => s' = s)
    BY <1>10, <1>11 DEF Unaccepted, Working
  <2>. QED
    BY <1>5, <2>1, <2>2, <2>3
<1>19. Handling'
  <2>1. old # 0 => \A n \in Names : tools[n] # old
    BY <1>1 DEF IInv, Handling, NoTools
  <2>2. op'.at \in {"stopold", "idle"}
    BY <1>10, <1>11
  <2>. QED
    BY <1>1, <1>10, <1>11, <2>1, <2>2 DEF IInv, Handling, NoTools
<1>20. (~torn => Whole)'
  <2>. SUFFICES ASSUME ~torn PROVE Whole'
    BY <1>1
  <2>1. OnlyOwned /\ AllMounted /\ Apart /\ \A x \in stranded : x.tools = <<>>
    BY DEF IInv, Whole
  <2>2. op'.at \in {"stopold", "idle"} /\ (op'.at = "stopold" => op'.new # 0)
    BY <1>10, <1>11
  <2>3. OnlyOwned'
    <3>. SUFFICES ASSUME NEW n \in Names, tools[n] # 0, ~managers[tools[n]].boot
                  PROVE  tools[n] = owned'[managers[tools[n]].server]
      BY <1>1 DEF OnlyOwned
    <3>1. tools[n] = op.new \/ tools[n] = owned[managers[tools[n]].server]
      BY <2>1 DEF OnlyOwned
    <3>2. managers[tools[n]].server \in Servers
      <4>1. tools[n] \in DOMAIN managers
        BY DEF IInv, Types
      <4>2. managers[tools[n]] \in Connections
        BY <4>1 DEF IInv, Types
      <4>. QED
        BY <4>2 DEF Connections
    <3>3. old # 0 => tools[n] # old
      BY <1>1 DEF IInv, Handling, NoTools
    <3>. QED
      BY <1>2, <1>4, <1>5, <3>1, <3>2, <3>3
  <2>4. \A t \in Servers : owned'[t] # 0 =>
          \A n \in ToSet(managers[owned'[t]].tools) : tools[n] = owned'[t]
    <3>1. \A n \in ToSet(managers[op.new].tools) : tools[n] = op.new
      BY <1>1, <1>2 DEF IInv, Handling
    <3>2. \A t \in Servers \ {s} : owned[t] # 0 =>
            \A n \in ToSet(managers[owned[t]].tools) : tools[n] = owned[t]
      BY <2>1 DEF AllMounted, HasAll
    <3>. QED
      BY <1>5, <3>1, <3>2
  <2>5. AllMounted'
    BY <1>1, <2>4 DEF AllMounted, HasAll
  <2>6. Apart'
    <3>1. \A t, u \in Servers : owned'[t] # 0 /\ owned'[u] # 0 /\ t # u =>
            ToSet(managers[owned'[t]].tools) \cap ToSet(managers[owned'[u]].tools) = {}
      <4>1. \A t \in Servers \ {s} : owned[t] # 0 =>
              /\ ToSet(managers[op.new].tools) \cap ToSet(managers[owned[t]].tools) = {}
              /\ ToSet(managers[owned[t]].tools) \cap ToSet(managers[op.new].tools) = {}
        BY <1>1, <1>3, <2>1 DEF Apart, Unaccepted
      <4>2. \A t, u \in Servers \ {s} : owned[t] # 0 /\ owned[u] # 0 /\ t # u =>
              ToSet(managers[owned[t]].tools) \cap ToSet(managers[owned[u]].tools) = {}
        BY <2>1 DEF Apart
      <4>. QED
        BY <1>5, <4>1, <4>2
    <3>. QED
      BY <1>1, <2>2, <3>1 DEF Apart, Unaccepted
  <2>. QED
    BY <1>1, <2>1, <2>2, <2>3, <2>5, <2>6 DEF Whole
<1>21. Told'
  <2>1. CASE old # 0
    BY <1>1, <1>2, <1>5, <1>6, <1>10, <2>1, ToldKept DEF IInv, Working
  <2>2. CASE old = 0
    <3>1. \E m \in DOMAIN managers' : managers'[m].server = s /\ managers'[m].runs
      <4>1. op.new \in DOMAIN managers
        BY <1>2, <1>3 DEF IInv, Types
      <4>. QED
        BY <1>1, <1>4, <4>1
    <3>2. owned'[s] # 0 => managers'[owned'[s]].spec = op.req.spec
      BY <1>1, <1>4, <1>5
    <3>3. Types /\ Asked /\ Told /\ Report(TRUE, "yes") /\ TRUE \in BOOLEAN
      BY <1>8, <2>2 DEF IInv
    <3>4. \A t \in Servers \ {s} : owned'[t] = owned[t]
           /\ (owned[t] # 0 => managers'[owned[t]].spec = managers[owned[t]].spec)
      BY <1>1, <1>5
    <3>. QED
      BY <1>1, <1>2, <3>1, <3>2, <3>3, <3>4, ToldReport
  <2>. QED
    BY <2>1, <2>2
<1>. QED
  BY <1>12, <1>13, <1>14, <1>17, <1>18, <1>19, <1>20, <1>21 DEF IInv


-----------------------------------------------------------------------------
(* The new tools off again.                                                 *)

LEMMA GoneElements ==
  ASSUME Types, Accounted, s \in Servers, old # 0
  PROVE  /\ Gone \in Seq(Names)
         /\ ToSet(Gone) = {n \in ToSet(managers[old].tools) : tools[n] = 0}
<1>1. managers[old].tools \in Seq(Names)
  BY OwnedRuns DEF old
<1>. DEFINE X == {n \in ToSet(managers[old].tools) : tools[n] = 0}
<1>2. ToSet(managers[old].tools) \subseteq Names
  BY <1>1 DEF ToSet
<1>3. X \in SUBSET Names
  BY <1>2
<1>4. IsFiniteSet(X)
  <2>1. IsFiniteSet(Names)
    BY MCPAssumption
  <2>. HIDE DEF X
  <2>. QED
    BY <1>3, <2>1, FS_Subset
<1>5. Gone = SetToSeq(X)
  BY DEF Gone, Offered
<1>. HIDE DEF X
<1>6. SetToSeq(X) \in Seq(X) /\ ToSet(SetToSeq(X)) = X
  BY <1>4, SetToSeqElements
<1>7. Gone \in Seq(Names)
  BY <1>3, <1>5, <1>6
<1>. QED
  BY <1>5, <1>6, <1>7 DEF X

LEMMA UndoStep ==
  ASSUME IInv, Undo
  PROVE  IInv'
<1>1. /\ op.at = "undo" /\ op.left # <<>>
      /\ UNCHANGED <<config, managers, owned, queue, asked>>
  BY DEF Undo
<1>2. /\ s \in Servers /\ old = owned[s] /\ op.at \in Working \cup {"begin"}
      /\ op.left \in Seq(Names) /\ op.done \in Seq(Names)
      /\ Head(op.left) \in Names /\ Tail(op.left) \in Seq(Names)
      /\ ToSet(op.left) = {Head(op.left)} \cup ToSet(Tail(op.left))
      /\ ToSet(Append(op.done, Head(op.left))) = ToSet(op.done) \cup {Head(op.left)}
      /\ op.new \in 0 .. Len(managers) /\ Len(managers) \in Nat
      /\ tools \in [Names -> 0 .. Len(managers)] /\ owned \in [Servers -> 0 .. Len(managers)]
      /\ op \in OpIn(Len(managers))
  BY <1>1, WorkingFacts DEF Working
<1>. DEFINE h == Head(op.left)
            tl == Tail(op.left)
            d == Append(op.done, h)
<1>3. op.new # 0 /\ op.req.do \in Upserts /\ op.todo = {}
  BY <1>1 DEF IInv, Control, Upserts
<1>4. /\ managers[op.new].server = s /\ managers[op.new].runs /\ ~managers[op.new].boot
      /\ \A t \in Servers : owned[t] # op.new
      /\ \A x \in stranded : x.manager # op.new
  BY <1>1, <1>3 DEF IInv, Accounted, Holding
<1>5. op.new \in DOMAIN managers /\ op.new \in 1 .. Len(managers)
      /\ managers[op.new].tools \in Seq(Names)
  <2>1. op.new \in DOMAIN managers /\ op.new \in 1 .. Len(managers)
    BY <1>2, <1>3 DEF IInv, Types
  <2>2. managers[op.new] \in Connections
    BY <2>1 DEF IInv, Types
  <2>. QED
    BY <2>1, <2>2 DEF Connections
<1>6. CASE /\ tools' = [tools EXCEPT ![h] = 0] /\ op' = Handled
           /\ Quiet /\ UNCHANGED <<failures, stranded, torn>>
  <2>1. op' \in OpIn(Len(managers)) /\ Stands("undo", tl, d, op.new, op.broken)
    BY <1>1, <1>6, HandledStands DEF IInv
  <2>2. /\ op'.at = "undo" /\ op'.left = tl /\ op'.done = d /\ op'.new = op.new
        /\ op'.req = op.req /\ op'.todo = op.todo /\ s' = s /\ old' = old
        /\ op'.broken = op.broken
        /\ UNCHANGED <<result, behind, failures, stranded, torn>>
    BY <1>1, <1>6, <2>1 DEF Stands, s, old, Quiet
  <2>. HIDE DEF h, tl, d
  <2>3. /\ h \in Names /\ ToSet(op.left) = {h} \cup ToSet(tl)
        /\ ToSet(d) = ToSet(op.done) \cup {h}
    BY <1>2 DEF h, tl, d
  <2>4. tools'[h] = 0 /\ \A n \in Names \ {h} : tools'[n] = tools[n]
    BY <1>2, <1>6, <2>3
  <2>5. Types'
    <3>1. tools' \in [Names -> 0 .. Len(managers)]
      BY <1>2, <1>6, <2>3
    <3>. QED
      BY <1>1, <2>1, <2>2, <3>1 DEF IInv, Types
  <2>6. Control'
    BY <1>1, <2>2 DEF IInv, Control, Working, Upserts
  <2>7. Asked'
    BY <1>1, <2>2, AskedKept DEF IInv, Working
  <2>8. Accounted'
    BY <1>1, <2>2 DEF IInv, Accounted, Holding
  <2>9. BootKept'
    <3>1. \A m \in DOMAIN managers : managers[m].boot =>
            /\ managers[m].tools[1] # h /\ managers[m].tools[1] \in Names
            /\ tools[managers[m].tools[1]] = m
      <4>. SUFFICES ASSUME NEW m \in DOMAIN managers, managers[m].boot
                    PROVE  /\ managers[m].tools[1] # h /\ managers[m].tools[1] \in Names
                           /\ tools[managers[m].tools[1]] = m
        OBVIOUS
      <4>1. managers[m].tools \in Seq(Names)
        <5>1. managers[m] \in Connections
          BY DEF IInv, Types
        <5>. QED
          BY <5>1 DEF Connections
      <4>2. managers[m].tools[1] \notin ToSet(op.left)
        BY <1>1, BootNotHandled
      <4>3. Len(managers[m].tools) = 1 /\ tools[managers[m].tools[1]] = m
        BY DEF IInv, BootKept
      <4>. QED
        BY <2>3, <4>1, <4>2, <4>3
    <3>. QED
      BY <1>1, <2>2, <2>4, <3>1 DEF IInv, BootKept, Unaccepted
  <2>10. Handling'
    <3>1. ToSet(tl) \cup ToSet(d) \subseteq ToSet(managers[op.new].tools)
      BY <1>1, <2>3 DEF IInv, Handling
    <3>2. old # 0 => \A n \in Names : tools'[n] # old
      BY <1>1, <2>4 DEF IInv, Handling, NoTools
    <3>3. \A n \in Names : tools'[n] = op.new => n \in ToSet(tl)
      BY <1>1, <1>3, <2>3, <2>4 DEF IInv, Handling
    <3>4. \A x \in stranded : x.manager # 0
      BY DEF IInv, Types
    <3>5. \A x \in stranded : \A n \in Names : tools'[n] = x.manager => n \in ToSet(x.tools)
      BY <2>4, <3>4 DEF IInv, Handling
    <3>6. \A n \in Names : tools'[n] # 0 =>
            managers[tools'[n]].runs /\ n \in ToSet(managers[tools'[n]].tools)
      BY <2>4 DEF IInv, Handling
    <3>. QED
      BY <1>1, <2>2, <3>1, <3>2, <3>3, <3>5, <3>6 DEF Handling, NoTools
  <2>11. (~torn => Whole)'
    <3>. SUFFICES ASSUME ~torn PROVE Whole'
      BY <2>2
    <3>1. OnlyOwned /\ AllMounted /\ Apart /\ \A x \in stranded : x.tools = <<>>
      BY DEF IInv, Whole
    <3>2. OnlyOwned'
      BY <1>1, <2>2, <2>4, <3>1 DEF OnlyOwned
    <3>3. AllMounted'
      <4>. SUFFICES ASSUME NEW t \in Servers, owned[t] # 0,
                           NEW n \in ToSet(managers[owned[t]].tools)
                    PROVE  tools'[n] = owned[t] \/ (t = s /\ tools'[n] \in {0, op.new})
        BY <1>1, <2>2 DEF AllMounted, HasAll
      <4>1. n \in Names
        <5>1. managers[owned[t]].tools \in Seq(Names)
          BY OwnedRuns DEF IInv
        <5>. QED
          BY <5>1 DEF ToSet
      <4>2. tools[n] = owned[t] \/ (t = s /\ tools[n] \in {0, op.new})
        BY <1>1, <3>1 DEF AllMounted, HasAll
      <4>3. CASE t = s
        BY <1>1, <1>2, <2>3, <2>4, <4>1, <4>2, <4>3 DEF IInv, Handling, NoTools
      <4>4. CASE t # s
        <5>1. n \notin ToSet(managers[op.new].tools)
          BY <1>1, <1>3, <3>1, <4>4 DEF Apart, Unaccepted
        <5>2. h \in ToSet(managers[op.new].tools)
          BY <1>1, <2>3 DEF IInv, Handling
        <5>. QED
          BY <2>4, <4>1, <4>2, <4>4, <5>1, <5>2
      <4>. QED
        BY <4>3, <4>4
    <3>4. Apart'
      BY <1>1, <2>2, <3>1 DEF Apart, Unaccepted
    <3>. QED
      BY <1>1, <2>2, <3>1, <3>2, <3>3, <3>4 DEF Whole
  <2>12. Told'
    BY <1>1, <2>2, ToldKept DEF IInv, Working
  <2>. QED
    BY <2>5, <2>6, <2>7, <2>8, <2>9, <2>10, <2>11, <2>12 DEF IInv
<1>7. CASE /\ Fail(1) /\ torn' = TRUE
           /\ Stranding(op.new, Offered(op.new))
           /\ IF old = 0 THEN Report(FALSE, "unknown")
                         ELSE /\ op' = [op EXCEPT !.at = "putback", !.left = Gone, !.new = 0,
                                                  !.broken = TRUE]
                              /\ Quiet
           /\ UNCHANGED tools
  <2>. HIDE DEF h, tl, d
  <2>. DEFINE y == [manager |-> op.new, tools |-> managers[op.new].tools]
  <2>1. /\ stranded' = stranded \cup {y}
        /\ y \in [manager : 1 .. Len(managers), tools : Seq(Names)]
        /\ y.manager = op.new /\ y.tools = managers[op.new].tools
    BY <1>5, <1>7 DEF Stranding, Offered
  <2>. HIDE DEF y
  <2>2. torn' /\ torn' \in BOOLEAN /\ UNCHANGED tools
    <3>1. torn' = TRUE
      BY <1>7
    <3>. QED
      BY <1>7, <3>1
  <2>3. CASE old = 0
    <3>1. Report(FALSE, "unknown")
      BY <1>7, <2>3
    <3>2. /\ op' \in OpIn(Len(managers)) /\ Released
          /\ result' \in Results /\ behind' \subseteq Servers
      BY <1>2, <3>1, ReportReleases DEF IInv
    <3>3. Control'
      BY <1>1, <1>2, <3>2, ReleasedControl DEF IInv
    <3>4. op'.at = "idle" /\ op'.new = 0
      <4>1. op' = Idle
        BY <1>3, <3>2 DEF Released, Upserts
      <4>. QED
        BY <4>1, IdleFields
    <3>5. Types /\ Asked /\ Told
      BY DEF IInv
    <3>6. Told'
      <4>1. op'.req.do # "close" /\ torn'
        BY <2>2, <3>3, <3>4 DEF Control
      <4>2. ASSUME NEW t \in Servers, t # s, Settled(t) PROVE Settled(t)'
        <5>1. t \notin behind => t \notin behind'
          <6>. HIDE DEF IInv
          <6>. QED
            BY <1>2, <3>1, <3>5, <4>2, ReportReleases
        <5>2. t \in behind => t \in behind'
          BY <1>2, <3>1, <3>5, <4>2, ReportReleases
        <5>. QED
          BY <1>1, <4>2, <5>1, <5>2 DEF Settled
      <4>3. \A t \in Servers : t = s => t \in behind'
        BY <1>2, <3>1, <3>5, ReportReleases
      <4>4. \A t \in Servers : (\E j \in DOMAIN queue : queue[j].server = t) \/ Settled(t)'
        <5>1. op.at \notin {"closing", "closed"} /\ op.req.do # "close"
          BY <1>1, <1>3 DEF Upserts
        <5>2. \A t \in Servers : t = s => Settled(t)'
          BY <4>3 DEF Settled
        <5>. QED
          BY <3>5, <4>2, <5>1, <5>2 DEF Told
      <4>. QED
        BY <1>1, <4>1, <4>4 DEF Told
    <3>. HIDE DEF IInv
    <3>7. Types'
      BY <1>1, <1>7, <2>1, <2>2, <3>2, FailCounts DEF IInv, Types
    <3>8. Asked'
      BY <1>1, <1>2, <3>4, AskedKept DEF IInv, Working
    <3>9. Accounted'
      <4>1. \A m \in DOMAIN managers : managers[m].runs =>
              \/ managers[m].boot \/ (\E t \in Servers : owned[t] = m)
              \/ \E x \in stranded' : x.manager = m
        BY <2>1 DEF IInv, Accounted
      <4>. QED
        BY <1>1, <1>4, <2>1, <3>4, <4>1 DEF IInv, Accounted, Holding
    <3>10. BootKept'
      BY <1>1, <1>3, <2>1, <2>2, <3>4 DEF IInv, BootKept, Unaccepted, Working
    <3>11. Handling'
      BY <1>1, <2>1, <2>2, <3>4 DEF IInv, Handling
    <3>. QED
      BY <2>2, <3>3, <3>6, <3>7, <3>8, <3>9, <3>10, <3>11 DEF IInv
  <2>4. CASE old # 0
    <3>1. Gone \in Seq(Names) /\ ToSet(Gone) \subseteq ToSet(managers[old].tools)
      BY <1>2, <2>4, GoneElements DEF IInv
    <3>2. op' = [op EXCEPT !.at = "putback", !.left = Gone, !.new = 0, !.broken = TRUE]
          /\ UNCHANGED <<result, behind>>
      BY <1>7, <2>4 DEF Quiet
    <3>3. op' \in OpIn(Len(managers))
      <4>1. "putback" \in Stages /\ TRUE \in BOOLEAN /\ 0 \in 0 .. Len(managers)
        BY <1>2 DEF Stages
      <4>. QED
        BY <1>2, <3>1, <3>2, <4>1 DEF OpIn
    <3>4. /\ op'.at = "putback" /\ op'.left = Gone /\ op'.new = 0
          /\ op'.req = op.req /\ op'.todo = op.todo /\ s' = s /\ old' = old
      BY <1>1, <1>2, <3>2 DEF OpIn, s, old
    <3>5. Types'
      BY <1>1, <1>7, <2>1, <2>2, <3>2, <3>3, FailCounts DEF IInv, Types
    <3>6. Control'
      BY <1>1, <1>3, <2>4, <3>4 DEF IInv, Control, Working, Upserts
    <3>7. Asked'
      BY <1>1, <3>4, AskedKept DEF IInv, Working
    <3>8. Accounted'
      <4>1. \A m \in DOMAIN managers : managers[m].runs =>
              \/ managers[m].boot \/ (\E t \in Servers : owned[t] = m)
              \/ \E x \in stranded' : x.manager = m
        BY <2>1 DEF IInv, Accounted
      <4>. QED
        BY <1>1, <1>4, <2>1, <3>4, <4>1 DEF IInv, Accounted, Holding
    <3>9. BootKept'
      BY <1>1, <1>3, <2>1, <2>2, <3>4 DEF IInv, BootKept, Unaccepted, Working
    <3>10. Handling'
      BY <1>1, <2>1, <2>2, <3>1, <3>4 DEF IInv, Handling
    <3>11. Told'
      BY <1>1, <3>2, <3>4, ToldKept DEF IInv, Working
    <3>. QED
      BY <2>2, <3>5, <3>6, <3>7, <3>8, <3>9, <3>10, <3>11 DEF IInv
  <2>. QED
    BY <2>3, <2>4
<1>. QED
  BY <1>6, <1>7 DEF Undo


LEMMA UndoneStep ==
  ASSUME IInv, Undone
  PROVE  IInv'
<1>1. /\ op.at = "undo" /\ op.left = <<>>
      /\ UNCHANGED <<state, queue, result, asked, failures, torn, behind>>
      /\ UNCHANGED <<config, managers, tools, owned, stranded>>
  BY DEF Undone, state
<1>2. /\ s \in Servers /\ old = owned[s] /\ op.at \in Working \cup {"begin"}
      /\ ToSet(op.left) = {} /\ ToSet(<<>>) = {} /\ <<>> \in Seq(Names)
      /\ op.new \in 0 .. Len(managers) /\ Len(managers) \in Nat
  BY <1>1, WorkingFacts, NoElements DEF Working
<1>3. op.new # 0 /\ op.req.do \in Upserts /\ op.todo = {} /\ ~op.broken
  BY <1>1 DEF IInv, Control, Upserts
<1>4. \A n \in Names : tools[n] # op.new
  BY <1>1, <1>2 DEF IInv, Handling
<1>5. old # 0 => /\ Gone \in Seq(Names)
                 /\ ToSet(Gone) = {n \in ToSet(managers[old].tools) : tools[n] = 0}
  BY <1>2, GoneElements DEF IInv
<1>6. \E a \in {"discard", "putback"}, l \in Seq(Names) :
        /\ op' \in OpIn(Len(managers)) /\ Stands(a, l, <<>>, op.new, op.broken)
        /\ \/ a = "discard" /\ old = 0
           \/ a = "putback" /\ old # 0
              /\ ToSet(l) = {n \in ToSet(managers[old].tools) : tools[n] = 0}
  <2>1. CASE old = 0 /\ Go("discard", <<>>)
    BY <1>2, <2>1, GoStands DEF IInv, Stages
  <2>2. CASE old # 0 /\ Go("putback", Gone)
    BY <1>5, <2>2, GoStands DEF IInv, Stages
  <2>. QED
    BY <2>1, <2>2 DEF Undone
<1>7. PICK a \in {"discard", "putback"}, l \in Seq(Names) :
        /\ op' \in OpIn(Len(managers)) /\ Stands(a, l, <<>>, op.new, op.broken)
        /\ \/ a = "discard" /\ old = 0
           \/ a = "putback" /\ old # 0
              /\ ToSet(l) = {n \in ToSet(managers[old].tools) : tools[n] = 0}
  BY <1>6
<1>8. /\ op'.at = a /\ op'.left = l /\ op'.done = <<>> /\ op'.new = op.new
      /\ op'.req = op.req /\ op'.todo = op.todo /\ s' = s /\ old' = old
      /\ op'.broken = op.broken
  BY <1>1, <1>7 DEF Stands, s, old
<1>9. Types'
  BY <1>1, <1>7 DEF IInv, Types
<1>10. Control'
  BY <1>1, <1>3, <1>7, <1>8 DEF IInv, Control, Working, Upserts
<1>11. Asked'
  BY <1>1, <1>8, AskedKept DEF IInv, Working
<1>12. Accounted'
  BY <1>1, <1>7, <1>8 DEF IInv, Accounted, Holding
<1>13. BootKept'
  BY <1>1, <1>8 DEF IInv, BootKept, Unaccepted, Working
<1>14. Handling'
  BY <1>1, <1>4, <1>7, <1>8 DEF IInv, Handling, NoTools
<1>15. (~torn => Whole)'
  <2>. SUFFICES ASSUME ~torn PROVE Whole'
    BY <1>1
  <2>1. OnlyOwned /\ AllMounted /\ Apart /\ \A x \in stranded : x.tools = <<>>
    BY DEF IInv, Whole
  <2>2. OnlyOwned'
    BY <1>1, <1>4, <1>8, <2>1 DEF OnlyOwned
  <2>3. AllMounted'
    <3>. SUFFICES ASSUME NEW t \in Servers, owned[t] # 0,
                         NEW n \in ToSet(managers[owned[t]].tools)
                  PROVE  tools[n] = owned[t] \/ (t = s /\ a = "putback" /\ n \in ToSet(l))
      BY <1>1, <1>7, <1>8 DEF AllMounted, HasAll
    <3>1. n \in Names
      <4>1. managers[owned[t]].tools \in Seq(Names)
        BY OwnedRuns DEF IInv
      <4>. QED
        BY <4>1 DEF ToSet
    <3>2. tools[n] = owned[t] \/ (t = s /\ tools[n] \in {0, op.new})
      BY <1>1, <2>1 DEF AllMounted, HasAll
    <3>. QED
      BY <1>2, <1>4, <1>7, <3>1, <3>2
  <2>4. Apart'
    BY <1>1, <1>8, <2>1 DEF Apart, Unaccepted
  <2>. QED
    BY <1>1, <1>3, <1>8, <2>1, <2>2, <2>3, <2>4 DEF Whole
<1>16. Told'
  BY <1>1, <1>8, ToldKept DEF IInv, Working
<1>. QED
  BY <1>9, <1>10, <1>11, <1>12, <1>13, <1>14, <1>15, <1>16 DEF IInv

-----------------------------------------------------------------------------
(* The old tools on again.                                                  *)

LEMMA PutBackStep ==
  ASSUME IInv, PutBack
  PROVE  IInv'
<1>1. /\ op.at = "putback" /\ op.left # <<>>
      /\ UNCHANGED <<config, managers, owned, stranded, queue, result, asked, behind>>
  BY DEF PutBack
<1>2. /\ s \in Servers /\ old = owned[s] /\ op.at \in Working \cup {"begin"}
      /\ op.left \in Seq(Names) /\ op.done \in Seq(Names)
      /\ Head(op.left) \in Names /\ Tail(op.left) \in Seq(Names)
      /\ ToSet(op.left) = {Head(op.left)} \cup ToSet(Tail(op.left))
      /\ Append(op.done, Head(op.left)) \in Seq(Names)
      /\ op.new \in 0 .. Len(managers) /\ Len(managers) \in Nat
      /\ tools \in [Names -> 0 .. Len(managers)] /\ owned \in [Servers -> 0 .. Len(managers)]
      /\ op \in OpIn(Len(managers))
  BY <1>1, WorkingFacts DEF Working
<1>. DEFINE h == Head(op.left)
            tl == Tail(op.left)
            d == Append(op.done, h)
<1>3. old # 0 /\ op.req.do \in Upserts \cup {"remove", "close"}
  BY <1>1 DEF IInv, Control
<1>4. /\ managers[old].server = s /\ managers[old].runs /\ ~managers[old].boot
      /\ \A x \in stranded : x.manager # old
      /\ op.new # 0 => op.new # old
  BY <1>1, <1>2, <1>3 DEF IInv, Accounted, Holding
<1>5. /\ \/ tools' = [tools EXCEPT ![h] = old] /\ UNCHANGED <<failures, torn>>
         \/ Fail(1) /\ torn' = TRUE /\ UNCHANGED tools
      /\ op'.at = "putback" /\ op'.left = tl /\ op'.new = op.new
      /\ op'.req = op.req /\ op'.todo = op.todo
      /\ op' \in OpIn(Len(managers))
      /\ (~torn' => op'.broken = op.broken)
  <2>1. CASE tools' = [tools EXCEPT ![h] = old] /\ op' = Handled /\ UNCHANGED <<failures, torn>>
    <3>1. op' \in OpIn(Len(managers)) /\ Stands("putback", tl, d, op.new, op.broken)
      BY <1>1, <2>1, HandledStands DEF IInv
    <3>. QED
      BY <2>1, <3>1 DEF Stands
  <2>2. CASE Fail(1) /\ torn' = TRUE /\ op' = [Handled EXCEPT !.broken = TRUE] /\ UNCHANGED tools
    <3>1. op' = [op EXCEPT !.left = tl, !.done = d, !.broken = TRUE]
      BY <1>2, <2>2 DEF Handled, OpIn
    <3>. HIDE DEF tl, d
    <3>2. tl \in Seq(Names) /\ d \in Seq(Names) /\ TRUE \in BOOLEAN
      BY <1>2 DEF tl, d
    <3>3. op' \in OpIn(Len(managers))
      BY <1>2, <3>1, <3>2 DEF OpIn
    <3>4. op'.at = "putback" /\ op'.left = tl /\ op'.new = op.new
          /\ op'.req = op.req /\ op'.todo = op.todo
      BY <1>1, <1>2, <3>1 DEF OpIn
    <3>5. torn'
      BY <2>2
    <3>. QED
      BY <2>2, <3>3, <3>4, <3>5
  <2>. QED
    BY <2>1, <2>2 DEF PutBack
<1>6. s' = s /\ old' = old
  BY <1>1, <1>5 DEF s, old
<1>. HIDE DEF h, tl, d
<1>7. h \in Names /\ ToSet(op.left) = {h} \cup ToSet(tl)
  BY <1>2 DEF h, tl
<1>8. h \in ToSet(managers[old].tools)
  BY <1>1, <1>7 DEF IInv, Handling
<1>9. /\ \A n \in Names \ {h} : tools'[n] = tools[n]
      /\ tools'[h] \in {old, tools[h]} /\ (~torn' => tools'[h] = old)
  BY <1>2, <1>5, <1>7
<1>10. Types'
  <2>1. tools' \in [Names -> 0 .. Len(managers)]
    <3>1. old \in 0 .. Len(managers)
      BY <1>2
    <3>. QED
      BY <1>2, <1>5, <1>7, <3>1
  <2>2. torn' \in BOOLEAN
    <3>1. CASE torn' = TRUE
      BY <3>1
    <3>2. CASE UNCHANGED torn
      BY <3>2 DEF IInv, Types
    <3>. QED
      BY <1>5, <3>1, <3>2
  <2>3. failures' \in 0 .. MaxFailures
    BY <1>5, FailCounts DEF IInv, Types
  <2>. QED
    BY <1>1, <1>5, <2>1, <2>2, <2>3 DEF IInv, Types
<1>11. Control'
  BY <1>1, <1>5, <1>6 DEF IInv, Control, Working, Upserts
<1>12. Asked'
  BY <1>1, <1>5, AskedKept DEF IInv, Working
<1>13. Accounted'
  BY <1>1, <1>5, <1>6 DEF IInv, Accounted, Holding
<1>14. BootKept'
  <2>1. \A m \in DOMAIN managers : managers[m].boot =>
          /\ managers[m].tools[1] # h /\ managers[m].tools[1] \in Names
          /\ tools[managers[m].tools[1]] = m
    <3>. SUFFICES ASSUME NEW m \in DOMAIN managers, managers[m].boot
                  PROVE  /\ managers[m].tools[1] # h /\ managers[m].tools[1] \in Names
                         /\ tools[managers[m].tools[1]] = m
      OBVIOUS
    <3>1. managers[m].tools \in Seq(Names)
      <4>1. managers[m] \in Connections
        BY DEF IInv, Types
      <4>. QED
        BY <4>1 DEF Connections
    <3>2. managers[m].tools[1] \notin ToSet(op.left)
      BY <1>1, BootNotHandled
    <3>3. Len(managers[m].tools) = 1 /\ tools[managers[m].tools[1]] = m
      BY DEF IInv, BootKept
    <3>. QED
      BY <1>7, <3>1, <3>2, <3>3
  <2>. QED
    BY <1>1, <1>5, <1>6, <1>9, <2>1 DEF IInv, BootKept, Unaccepted
<1>15. Handling'
  <2>1. ToSet(tl) \subseteq ToSet(managers[old].tools)
    BY <1>1, <1>7 DEF IInv, Handling
  <2>2. op.new # 0 => \A n \in Names : tools'[n] # op.new
    BY <1>1, <1>4, <1>9 DEF IInv, Handling, NoTools
  <2>3. \A x \in stranded : \A n \in Names : tools'[n] = x.manager => n \in ToSet(x.tools)
    BY <1>4, <1>9 DEF IInv, Handling
  <2>4. \A n \in Names : tools'[n] # 0 =>
          managers[tools'[n]].runs /\ n \in ToSet(managers[tools'[n]].tools)
    BY <1>4, <1>8, <1>9 DEF IInv, Handling
  <2>. QED
    BY <1>1, <1>5, <1>6, <2>1, <2>2, <2>3, <2>4 DEF Handling, NoTools
<1>16. (~torn => Whole)'
  <2>. SUFFICES ASSUME ~torn' PROVE Whole'
    OBVIOUS
  <2>1. ~torn
    BY <1>5
  <2>2. OnlyOwned /\ AllMounted /\ Apart /\ (\A x \in stranded : x.tools = <<>>) /\ ~op.broken
    BY <1>1, <2>1 DEF IInv, Whole
  <2>3. OnlyOwned'
    <3>1. tools'[h] = old /\ old = owned[s] /\ managers[old].server = s
      BY <1>2, <1>3, <1>4, <1>9
    <3>2. ASSUME NEW n \in Names, tools'[n] # 0
          PROVE  \/ managers[tools'[n]].boot
                 \/ tools'[n] = owned[managers[tools'[n]].server]
      <4>1. CASE n = h
        BY <3>1, <4>1
      <4>2. CASE n # h
        BY <1>1, <1>9, <2>2, <3>2, <4>2 DEF OnlyOwned
      <4>. QED
        BY <4>1, <4>2
    <3>. QED
      BY <1>1, <3>2 DEF OnlyOwned
  <2>4. AllMounted'
    <3>. SUFFICES ASSUME NEW t \in Servers, owned[t] # 0,
                         NEW n \in ToSet(managers[owned[t]].tools)
                  PROVE  tools'[n] = owned[t] \/ (t = s /\ n \in ToSet(tl))
      BY <1>1, <1>5, <1>6 DEF AllMounted, HasAll
    <3>1. n \in Names
      <4>1. managers[owned[t]].tools \in Seq(Names)
        BY OwnedRuns DEF IInv
      <4>. QED
        BY <4>1 DEF ToSet
    <3>2. tools[n] = owned[t] \/ (t = s /\ n \in ToSet(op.left))
      BY <1>1, <2>2 DEF AllMounted, HasAll
    <3>3. CASE t = s
      BY <1>2, <1>7, <1>9, <3>1, <3>2, <3>3
    <3>4. CASE t # s
      <4>1. n \notin ToSet(managers[owned[s]].tools)
        BY <1>2, <1>3, <2>2, <3>4 DEF Apart
      <4>. QED
        BY <1>2, <1>8, <1>9, <3>1, <3>2, <3>4, <4>1
    <3>. QED
      BY <3>3, <3>4
  <2>5. Apart'
    BY <1>1, <1>5, <1>6, <2>2 DEF Apart, Unaccepted
  <2>. QED
    BY <1>1, <1>5, <2>2, <2>3, <2>4, <2>5 DEF Whole
<1>17. Told'
  BY <1>1, <1>5, ToldKept DEF IInv, Working
<1>. QED
  BY <1>10, <1>11, <1>12, <1>13, <1>14, <1>15, <1>16, <1>17 DEF IInv


LEMMA PutBackDoneStep ==
  ASSUME IInv, PutBackDone
  PROVE  IInv'
<1>1. /\ op.at = "putback" /\ op.left = <<>>
      /\ UNCHANGED <<state, queue, asked, failures, torn>>
      /\ UNCHANGED <<config, managers, tools, owned, stranded>>
  BY DEF PutBackDone, state
<1>2. /\ s \in Servers /\ old = owned[s] /\ op.at \in Working \cup {"begin"}
      /\ ToSet(op.left) = {} /\ <<>> \in Seq(Names)
      /\ op.new \in 0 .. Len(managers) /\ Len(managers) \in Nat
  BY <1>1, WorkingFacts DEF Working
<1>3. old # 0 /\ op.req.do \in Upserts \cup {"remove", "close"}
      /\ (op.new # 0 => op.req.do \in Upserts)
  BY <1>1 DEF IInv, Control
<1>4. ~torn => /\ OnlyOwned /\ Apart /\ (\A x \in stranded : x.tools = <<>>)
               /\ \A t \in Servers : owned[t] # 0 =>
                    \A n \in ToSet(managers[owned[t]].tools) : tools[n] = owned[t]
  <2>. SUFFICES ASSUME ~torn
                PROVE  /\ OnlyOwned /\ Apart /\ (\A x \in stranded : x.tools = <<>>)
                       /\ \A t \in Servers : owned[t] # 0 =>
                            \A n \in ToSet(managers[owned[t]].tools) : tools[n] = owned[t]
    OBVIOUS
  <2>1. Whole
    BY DEF IInv
  <2>2. \A t \in Servers : owned[t] # 0 =>
          \A n \in ToSet(managers[owned[t]].tools) : tools[n] = owned[t]
    BY <1>1, <1>2, <2>1 DEF Whole, AllMounted, HasAll
  <2>. QED
    BY <2>1, <2>2 DEF Whole
<1>5. ASSUME op'.at \in {"idle", "closing", "discard"} PROVE (~torn => Whole)'
  <2>. SUFFICES ASSUME ~torn PROVE Whole'
    BY <1>1
  <2>1. OnlyOwned'
    BY <1>1, <1>4 DEF OnlyOwned
  <2>2. AllMounted'
    BY <1>1, <1>4 DEF AllMounted, HasAll
  <2>3. Apart'
    BY <1>1, <1>4, <1>5 DEF Apart, Unaccepted
  <2>. QED
    BY <1>1, <1>4, <1>5, <2>1, <2>2, <2>3 DEF Whole
<1>6. CASE op.new = 0 /\ RolledBack
  <2>. DEFINE c == IF op.broken THEN "unknown" ELSE "yes"
  <2>1. Report(FALSE, c) /\ c \in {"unknown", "yes", "no"} /\ FALSE \in BOOLEAN /\ c # "no"
    BY <1>6 DEF RolledBack
  <2>. HIDE DEF c
  <2>2. /\ op' \in OpIn(Len(managers)) /\ Released
        /\ result' \in Results /\ behind' \subseteq Servers
    BY <1>2, <2>1, ReportReleases DEF IInv
  <2>3. Types'
    BY <1>1, <2>2 DEF IInv, Types
  <2>4. Control' /\ op'.at \in {"idle", "closing"} /\ op'.new = 0
    BY <1>1, <1>2, <2>2, ReleasedControl DEF IInv
  <2>5. Asked'
    BY <1>1, <1>2, <2>4, AskedKept DEF IInv, Working
  <2>6. Accounted'
    BY <1>1, <1>6, <2>4 DEF IInv, Accounted, Holding
  <2>7. BootKept'
    BY <1>1, <2>4 DEF IInv, BootKept, Unaccepted, Working
  <2>8. Handling'
    BY <1>1, <2>4 DEF IInv, Handling
  <2>9. Told'
    <3>1. \E m \in DOMAIN managers' : managers'[m].server = s /\ managers'[m].runs
      BY <1>1, <1>2, <1>3, OwnedRuns DEF IInv
    <3>2. Types /\ Asked /\ Told
      BY DEF IInv
    <3>. QED
      BY <1>1, <1>2, <2>1, <3>1, <3>2, ToldReport
  <2>. QED
    BY <1>5, <2>3, <2>4, <2>5, <2>6, <2>7, <2>8, <2>9 DEF IInv
<1>7. CASE op.new # 0 /\ Go("discard", <<>>) /\ Quiet
  <2>1. op' \in OpIn(Len(managers)) /\ Stands("discard", <<>>, <<>>, op.new, op.broken)
    BY <1>2, <1>7, GoStands DEF IInv, Stages
  <2>2. /\ op'.at = "discard" /\ op'.new = op.new
        /\ op'.req = op.req /\ op'.todo = op.todo /\ s' = s /\ old' = old
        /\ UNCHANGED <<result, behind>>
    BY <1>1, <1>7, <2>1 DEF Stands, s, old, Quiet
  <2>3. Types'
    BY <1>1, <2>1, <2>2 DEF IInv, Types
  <2>4. Control'
    BY <1>1, <1>3, <1>7, <2>2 DEF IInv, Control, Working, Upserts
  <2>5. Asked'
    BY <1>1, <2>2, AskedKept DEF IInv, Working
  <2>6. Accounted'
    BY <1>1, <2>2 DEF IInv, Accounted, Holding
  <2>7. BootKept'
    BY <1>1, <2>2 DEF IInv, BootKept, Unaccepted, Working
  <2>8. Handling'
    BY <1>1, <1>7, <2>2 DEF IInv, Handling, NoTools
  <2>9. Told'
    BY <1>1, <2>2, ToldKept DEF IInv, Working
  <2>. QED
    BY <1>5, <2>2, <2>3, <2>4, <2>5, <2>6, <2>7, <2>8, <2>9 DEF IInv
<1>. QED
  BY <1>6, <1>7 DEF PutBackDone

-----------------------------------------------------------------------------
(* Stopping a manager.                                                      *)

LEMMA StoppedType ==
  ASSUME Types, NEW k \in DOMAIN managers, managers' = Stopped(k)
  PROVE  /\ managers' \in Seq(Connections) /\ Len(managers') = Len(managers)
         /\ DOMAIN managers' = DOMAIN managers
         /\ ~managers'[k].runs
         /\ \A m \in DOMAIN managers :
              /\ managers'[m].server = managers[m].server /\ managers'[m].spec = managers[m].spec
              /\ managers'[m].tools = managers[m].tools
              /\ managers'[m].boot <=> managers[m].boot
         /\ \A m \in DOMAIN managers \ {k} : managers'[m] = managers[m]
<1>1. managers \in Seq(Connections) /\ managers[k] \in Connections
      /\ Len(managers) \in Nat /\ DOMAIN managers = 1 .. Len(managers)
  BY DEF Types
<1>. DEFINE c == [managers[k] EXCEPT !.runs = FALSE]
<1>2. /\ c.server = managers[k].server /\ c.spec = managers[k].spec
      /\ c.tools = managers[k].tools /\ c.boot = managers[k].boot /\ ~c.runs
  BY <1>1 DEF Connections
<1>3. c \in Connections
  <2>1. FALSE \in BOOLEAN
    OBVIOUS
  <2>. QED
    BY <1>1, <2>1 DEF Connections
<1>4. managers' = [managers EXCEPT ![k] = c]
  BY DEF Stopped
<1>. HIDE DEF c
<1>5. managers' \in Seq(Connections) /\ Len(managers') = Len(managers)
      /\ DOMAIN managers' = DOMAIN managers
  BY <1>1, <1>3, <1>4
<1>6. managers'[k] = c /\ \A m \in DOMAIN managers \ {k} : managers'[m] = managers[m]
  BY <1>1, <1>4
<1>. QED
  BY <1>2, <1>5, <1>6


\* A manager without tools is stopped, or stranded if that fails; who owned it
\* owns nothing any more.
LEMMA RetiredKept ==
  ASSUME IInv, op.at \in {"discard", "stopold"},
         NEW k \in DOMAIN managers, \A n \in Names : tools[n] # k, ~managers[k].boot,
         UNCHANGED <<tools, torn>>,
         \/ managers' = Stopped(k) /\ UNCHANGED stranded
         \/ UNCHANGED managers /\ stranded' = stranded \cup {[manager |-> k, tools |-> <<>>]},
         \A t \in Servers : owned'[t] # k
           /\ (owned'[t] = owned[t] \/ (owned[t] = k /\ owned'[t] = 0)),
         op.new \in {0, k},
         op.at = "stopold" /\ op.new = 0 => owned'[s] = 0,
         op'.at \in {"idle", "closing"}, op'.new = 0
  PROVE  Accounted' /\ BootKept' /\ Handling' /\ (~torn => Whole)'
<1>1. /\ DOMAIN managers' = DOMAIN managers
      /\ \A m \in DOMAIN managers :
           /\ managers'[m].server = managers[m].server /\ managers'[m].spec = managers[m].spec
           /\ managers'[m].tools = managers[m].tools
           /\ managers'[m].boot <=> managers[m].boot
           /\ managers'[m].runs => managers[m].runs
           /\ m # k => (managers'[m].runs <=> managers[m].runs)
  <2>1. Types
    BY DEF IInv
  <2>2. CASE managers' = Stopped(k)
    BY <2>1, <2>2, StoppedType
  <2>. QED
    BY <2>2
<1>2. k # 0 /\ \A n \in Names : tools[n] # 0 => tools[n] \in DOMAIN managers
  BY DEF IInv, Types
<1>3. \A t \in Servers : owned[t] # 0 => owned[t] \in DOMAIN managers
  BY DEF IInv, Types
<1>4. \A x \in stranded' : x \in stranded \/ (x.manager = k /\ x.tools = <<>>)
  OBVIOUS
<1>5. \A x \in stranded : x \in stranded' /\ x.manager \in DOMAIN managers
  BY DEF IInv, Types
<1>6. managers'[k].runs => \E x \in stranded' : x.manager = k
  <2>1. CASE managers' = Stopped(k)
    <3>1. ~managers'[k].runs
      BY <2>1, StoppedType DEF IInv
    <3>. QED
      BY <3>1
  <2>2. CASE stranded' = stranded \cup {[manager |-> k, tools |-> <<>>]}
    <3>1. [manager |-> k, tools |-> <<>>].manager = k
      OBVIOUS
    <3>. QED
      BY <2>2, <3>1
  <2>. QED
    BY <2>1, <2>2
<1>7. Accounted'
  <2>1. \A m \in DOMAIN managers' : managers'[m].boot => managers'[m].runs
    BY <1>1 DEF IInv, Accounted
  <2>2. \A t \in Servers : owned'[t] # 0 =>
          /\ managers'[owned'[t]].server = t /\ managers'[owned'[t]].runs
          /\ ~managers'[owned'[t]].boot
          /\ \A x \in stranded' : x.manager # owned'[t]
    BY <1>1, <1>3, <1>4 DEF IInv, Accounted
  <2>3. \A x \in stranded' : ~managers'[x.manager].boot
    BY <1>1, <1>4, <1>5 DEF IInv, Accounted
  <2>4. \A m \in DOMAIN managers' : managers'[m].runs =>
          \/ managers'[m].boot \/ (\E t \in Servers : owned'[t] = m)
          \/ \E x \in stranded' : x.manager = m
    <3>. SUFFICES ASSUME NEW m \in DOMAIN managers, managers'[m].runs, ~managers'[m].boot,
                         m # k
                  PROVE  (\E t \in Servers : owned'[t] = m) \/ \E x \in stranded' : x.manager = m
      BY <1>1, <1>6
    <3>1. m # 0
      BY DEF IInv, Types
    <3>2. \/ \E t \in Servers : owned[t] = m
          \/ \E x \in stranded : x.manager = m
      BY <1>1, <3>1 DEF IInv, Accounted
    <3>. QED
      BY <1>5, <3>2
  <2>. QED
    BY <2>1, <2>2, <2>3, <2>4 DEF Accounted, Holding
<1>8. BootKept'
  <2>. SUFFICES ASSUME NEW m \in DOMAIN managers, managers[m].boot
                PROVE  /\ Len(managers[m].tools) = 1
                       /\ tools[managers[m].tools[1]] = m
                       /\ owned'[managers[m].server] = 0
                       /\ \A t \in Servers : owned'[t] # 0 =>
                            managers[m].tools[1] \notin ToSet(managers[owned'[t]].tools)
                       /\ \A x \in stranded' : managers[m].tools[1] \notin ToSet(x.tools)
    BY <1>1, <1>3 DEF BootKept, Unaccepted, Working
  <2>1. managers[m].server \in Servers
    <3>1. managers[m] \in Connections
      BY DEF IInv, Types
    <3>. QED
      BY <3>1 DEF Connections
  <2>. QED
    BY <1>2, <1>4, <2>1, NoElements DEF IInv, BootKept
<1>9. Handling'
  <2>1. \A x \in stranded' : \A n \in Names : tools[n] = x.manager => n \in ToSet(x.tools)
    BY <1>4 DEF IInv, Handling
  <2>2. \A n \in Names : tools[n] # 0 =>
          managers'[tools[n]].runs /\ n \in ToSet(managers'[tools[n]].tools)
    BY <1>1, <1>2 DEF IInv, Handling
  <2>. QED
    BY <2>1, <2>2 DEF Handling
<1>10. (~torn => Whole)'
  <2>. SUFFICES ASSUME ~torn PROVE Whole'
    OBVIOUS
  <2>1. OnlyOwned /\ AllMounted /\ Apart /\ \A x \in stranded : x.tools = <<>>
    BY DEF IInv, Whole
  <2>2. OnlyOwned'
    <3>. SUFFICES ASSUME NEW n \in Names, tools[n] # 0, ~managers[tools[n]].boot
                  PROVE  tools[n] = owned'[managers[tools[n]].server]
      BY <1>1, <1>2 DEF OnlyOwned
    <3>1. tools[n] = owned[managers[tools[n]].server]
      BY <2>1 DEF OnlyOwned
    <3>2. managers[tools[n]].server \in Servers
      <4>1. managers[tools[n]] \in Connections
        BY <1>2 DEF IInv, Types
      <4>. QED
        BY <4>1 DEF Connections
    <3>. QED
      BY <3>1, <3>2
  <2>3. AllMounted'
    <3>. SUFFICES ASSUME NEW t \in Servers, owned'[t] # 0,
                         NEW n \in ToSet(managers[owned'[t]].tools)
                  PROVE  tools[n] = owned'[t]
      BY <1>1, <1>3 DEF AllMounted, HasAll
    <3>1. owned'[t] = owned[t] /\ owned[t] # 0
      OBVIOUS
    <3>2. HasAll(t, n)
      BY <2>1, <3>1 DEF AllMounted
    <3>3. ~(t = s /\ op.at = "stopold" /\ op.new = 0)
      OBVIOUS
    <3>. QED
      BY <3>1, <3>2, <3>3 DEF HasAll
  <2>4. Apart'
    <3>1. \A t, u \in Servers : owned'[t] # 0 /\ owned'[u] # 0 /\ t # u =>
            ToSet(managers'[owned'[t]].tools) \cap ToSet(managers'[owned'[u]].tools) = {}
      <4>. SUFFICES ASSUME NEW t \in Servers, NEW u \in Servers,
                           owned'[t] # 0, owned'[u] # 0, t # u
                    PROVE  ToSet(managers'[owned'[t]].tools)
                             \cap ToSet(managers'[owned'[u]].tools) = {}
        OBVIOUS
      <4>1. owned'[t] = owned[t] /\ owned'[u] = owned[u] /\ owned[t] # 0 /\ owned[u] # 0
        OBVIOUS
      <4>2. /\ managers'[owned[t]].tools = managers[owned[t]].tools
            /\ managers'[owned[u]].tools = managers[owned[u]].tools
        BY <1>1, <1>3, <4>1
      <4>. QED
        BY <2>1, <4>1, <4>2 DEF Apart
    <3>2. ~Unaccepted'
      BY DEF Unaccepted
    <3>. QED
      BY <3>1, <3>2 DEF Apart
  <2>. QED
    BY <1>4, <2>1, <2>2, <2>3, <2>4 DEF Whole
<1>. QED
  BY <1>7, <1>8, <1>9, <1>10


\* What the report says of the connection is put together with what stays.
LEMMA DiscardStep ==
  ASSUME IInv, Discard
  PROVE  IInv'
<1>. DEFINE k == op.new
            c == IF old = 0 THEN "no" ELSE IF op.broken THEN "unknown" ELSE "yes"
<1>1. /\ op.at = "discard" /\ UNCHANGED <<config, tools, owned, queue, asked, torn>>
      /\ \/ managers' = Stopped(k) /\ UNCHANGED <<failures, stranded>>
         \/ Fail(1) /\ Stranding(k, <<>>) /\ UNCHANGED managers
  BY DEF Discard
<1>2. Report(FALSE, c) /\ c \in {"unknown", "yes", "no"} /\ FALSE \in BOOLEAN
      /\ (c = "no" => old = 0) /\ (c = "yes" => old # 0)
  BY DEF Discard, RolledBack
<1>. HIDE DEF c
<1>3. /\ s \in Servers /\ old = owned[s] /\ op.at \in Working \cup {"begin"}
      /\ op.new \in 0 .. Len(managers) /\ Len(managers) \in Nat
      /\ tools \in [Names -> 0 .. Len(managers)] /\ owned \in [Servers -> 0 .. Len(managers)]
  BY <1>1, WorkingFacts DEF Working
<1>4. op.req.do \in Upserts /\ op.req.do # "close" /\ k # 0 /\ k \in DOMAIN managers
  <2>1. op.req.do \in Upserts
    BY <1>1 DEF IInv, Control
  <2>2. op.new # 0
    BY <1>1, <2>1 DEF IInv, Control
  <2>3. DOMAIN managers = 1 .. Len(managers)
    BY DEF IInv, Types
  <2>. QED
    BY <1>3, <2>1, <2>2, <2>3 DEF Upserts
<1>5. /\ managers[k].server = s /\ ~managers[k].boot
      /\ \A t \in Servers : owned[t] # k
      /\ \A n \in Names : tools[n] # k
  BY <1>1, <1>4 DEF IInv, Accounted, Holding, Handling, NoTools
<1>6. /\ op' \in OpIn(Len(managers)) /\ Released
      /\ result' \in Results /\ behind' \subseteq Servers
  BY <1>2, <1>3, ReportReleases DEF IInv
<1>7. Control' /\ op'.at \in {"idle", "closing"} /\ op'.new = 0
  BY <1>1, <1>3, <1>6, ReleasedControl DEF IInv
<1>8. \/ managers' = Stopped(k) /\ UNCHANGED stranded
      \/ UNCHANGED managers /\ stranded' = stranded \cup {[manager |-> k, tools |-> <<>>]}
  BY <1>1 DEF Stranding
<1>. HIDE DEF k
<1>9. /\ managers' \in Seq(Connections) /\ Len(managers') = Len(managers)
      /\ DOMAIN managers' = DOMAIN managers
      /\ \A m \in DOMAIN managers :
           /\ managers'[m].server = managers[m].server
           /\ managers'[m].spec = managers[m].spec
           /\ m # k => (managers'[m].runs <=> managers[m].runs)
  <2>1. Types /\ managers \in Seq(Connections)
    BY DEF IInv, Types
  <2>2. CASE managers' = Stopped(k)
    BY <1>4, <2>1, <2>2, StoppedType
  <2>3. CASE UNCHANGED managers
    BY <2>1, <2>3
  <2>. QED
    BY <1>8, <2>2, <2>3
<1>10. Types'
  <2>1. stranded' \subseteq [manager : 1 .. Len(managers), tools : Seq(Names)]
    <3>1. stranded \subseteq [manager : 1 .. Len(managers), tools : Seq(Names)]
          /\ DOMAIN managers = 1 .. Len(managers)
      BY DEF IInv, Types
    <3>2. [manager |-> k, tools |-> <<>>] \in [manager : 1 .. Len(managers), tools : Seq(Names)]
      BY <1>4, <3>1
    <3>. QED
      BY <1>8, <3>1, <3>2
  <2>2. failures' \in 0 .. MaxFailures
    BY <1>1, FailCounts DEF IInv, Types
  <2>. QED
    BY <1>1, <1>6, <1>9, <2>1, <2>2 DEF IInv, Types
<1>11. Asked'
  BY <1>1, <1>3, <1>7, AskedKept DEF IInv, Working
<1>12. Accounted' /\ BootKept' /\ Handling' /\ (~torn => Whole)'
  <2>1. op.new \in {0, k} /\ op.new # 0
    BY <1>4 DEF k
  <2>2. \A t \in Servers : owned'[t] # k
           /\ (owned'[t] = owned[t] \/ (owned[t] = k /\ owned'[t] = 0))
    BY <1>1, <1>5
  <2>. QED
    BY <1>1, <1>4, <1>5, <1>7, <1>8, <2>1, <2>2, RetiredKept
<1>13. Told'
  <2>1. \A t \in Servers \ {s} : owned'[t] = owned[t]
           /\ (owned[t] # 0 => managers'[owned[t]].spec = managers[owned[t]].spec)
    <3>1. \A t \in Servers : owned[t] # 0 => owned[t] \in DOMAIN managers
      BY OwnedRuns DEF IInv
    <3>. QED
      BY <1>1, <1>9, <3>1
  <2>2. ASSUME c = "yes"
        PROVE  \E m \in DOMAIN managers' : managers'[m].server = s /\ managers'[m].runs
    <3>1. owned[s] # 0
      BY <1>2, <1>3, <2>2
    <3>2. /\ owned[s] \in DOMAIN managers
          /\ managers[owned[s]].server = s /\ managers[owned[s]].runs
      BY <1>3, <3>1, OwnedRuns DEF IInv
    <3>. QED
      BY <1>3, <1>5, <1>9, <3>2
  <2>3. ASSUME c = "no", ~torn
        PROVE  \A n \in Names : tools'[n] # 0 => managers'[tools'[n]].server # s
    <3>. SUFFICES ASSUME NEW n \in Names, tools[n] # 0, managers[tools[n]].server = s
                  PROVE  FALSE
      <4>1. \A n \in Names : tools[n] # 0 => tools[n] \in DOMAIN managers
        BY DEF IInv, Types
      <4>. QED
        BY <1>1, <1>9, <4>1
    <3>1. owned[s] = 0
      BY <1>2, <1>3, <2>3
    <3>2. ~managers[tools[n]].boot
      <4>1. tools[n] \in DOMAIN managers
        BY DEF IInv, Types
      <4>. QED
        BY <1>1, <4>1 DEF IInv, BootKept, Working
    <3>3. OnlyOwned
      BY <2>3 DEF IInv, Whole
    <3>. QED
      BY <1>1, <3>1, <3>2, <3>3 DEF OnlyOwned
  <2>4. Types /\ Asked /\ Told
    BY DEF IInv
  <2>. QED
    BY <1>1, <1>2, <1>3, <2>1, <2>2, <2>3, <2>4, ToldReport
<1>. QED
  BY <1>7, <1>10, <1>11, <1>12, <1>13 DEF IInv



\* The manager is stopped or stranded, and the operation has succeeded.
LEMMA StopSucceeds ==
  ASSUME IInv, op.at = "stopold", UNCHANGED <<config, tools, queue, asked, torn>>,
         NEW k \in DOMAIN managers, k = (IF Replacing THEN op.new ELSE old),
         \/ managers' = Stopped(k) /\ UNCHANGED <<failures, stranded>>
         \/ Fail(1) /\ Stranding(k, <<>>) /\ UNCHANGED managers /\ Replacing,
         owned' = IF Replacing THEN owned ELSE [owned EXCEPT ![s] = 0],
         NEW c \in {"yes", "no"}, c = (IF Replacing THEN "yes" ELSE "no"),
         Report(TRUE, c)
  PROVE  IInv'
<1>1. /\ s \in Servers /\ old = owned[s] /\ op.at \in Working \cup {"begin"}
      /\ op.new \in 0 .. Len(managers) /\ Len(managers) \in Nat
      /\ tools \in [Names -> 0 .. Len(managers)] /\ owned \in [Servers -> 0 .. Len(managers)]
      /\ c \in {"unknown", "yes", "no"} /\ TRUE \in BOOLEAN
  BY WorkingFacts DEF Working
<1>2. old # 0
  BY DEF IInv, Control
<1>3. /\ owned[s] \in DOMAIN managers /\ managers[owned[s]].server = s
      /\ managers[owned[s]].runs /\ ~managers[owned[s]].boot
  BY <1>1, <1>2, OwnedRuns DEF IInv
<1>4. /\ \A n \in Names : tools[n] # k
      /\ ~managers[k].boot
      /\ Replacing => k = op.new /\ (\A t \in Servers : owned[t] # k)
                      /\ managers[owned[s]].spec = op.req.spec
      /\ ~Replacing => k = owned[s] /\ op.new = 0
  <2>1. CASE Replacing
    <3>1. k = op.new /\ op.new # 0
      BY <2>1 DEF Replacing
    <3>2. Holding
      BY <3>1 DEF Holding
    <3>3. NoTools(op.new)
      BY <3>1 DEF IInv, Handling
    <3>. QED
      BY <2>1, <3>1, <3>2, <3>3 DEF IInv, Accounted, NoTools
  <2>2. CASE ~Replacing
    <3>1. k = owned[s] /\ op.new = 0
      BY <1>1, <2>2 DEF Replacing
    <3>2. NoTools(old)
      BY <3>1 DEF IInv, Handling
    <3>. QED
      BY <1>1, <1>3, <2>2, <3>1, <3>2 DEF NoTools
  <2>. QED
    BY <2>1, <2>2
<1>5. /\ \A t \in Servers : owned'[t] # k
           /\ (owned'[t] = owned[t] \/ (owned[t] = k /\ owned'[t] = 0))
      /\ \A t \in Servers \ {s} : owned'[t] = owned[t]
      /\ owned' \in [Servers -> 0 .. Len(managers)]
      /\ ~Replacing => owned'[s] = 0
  <2>1. CASE Replacing
    BY <1>1, <1>4, <2>1
  <2>2. CASE ~Replacing
    <3>1. owned' = [owned EXCEPT ![s] = 0] /\ k = owned[s] /\ k # 0
      BY <1>1, <1>2, <1>4, <2>2
    <3>2. \A t \in Servers \ {s} : owned[t] # k
      <4>1. \A t \in Servers : owned[t] # 0 => managers[owned[t]].server = t
        BY OwnedRuns DEF IInv
      <4>. QED
        BY <1>3, <3>1, <4>1
    <3>. QED
      BY <1>1, <2>2, <3>1, <3>2
  <2>. QED
    BY <2>1, <2>2
<1>6. /\ op' \in OpIn(Len(managers)) /\ Released
      /\ result' \in Results /\ behind' \subseteq Servers
  BY <1>1, ReportReleases DEF IInv
<1>7. Control' /\ op'.at \in {"idle", "closing"} /\ op'.new = 0
  BY <1>1, <1>5, <1>6, ReleasedControl DEF IInv
<1>8. \/ managers' = Stopped(k) /\ UNCHANGED stranded
      \/ UNCHANGED managers /\ stranded' = stranded \cup {[manager |-> k, tools |-> <<>>]}
  BY DEF Stranding
<1>9. /\ managers' \in Seq(Connections) /\ Len(managers') = Len(managers)
      /\ DOMAIN managers' = DOMAIN managers
      /\ \A m \in DOMAIN managers :
           /\ managers'[m].server = managers[m].server
           /\ managers'[m].spec = managers[m].spec
           /\ m # k => (managers'[m].runs <=> managers[m].runs)
  <2>1. Types /\ managers \in Seq(Connections)
    BY DEF IInv, Types
  <2>2. CASE managers' = Stopped(k)
    BY <2>1, <2>2, StoppedType
  <2>3. CASE UNCHANGED managers
    BY <2>1, <2>3
  <2>. QED
    BY <1>8, <2>2, <2>3
<1>10. Types'
  <2>1. stranded' \subseteq [manager : 1 .. Len(managers), tools : Seq(Names)]
    <3>1. stranded \subseteq [manager : 1 .. Len(managers), tools : Seq(Names)]
          /\ DOMAIN managers = 1 .. Len(managers)
      BY DEF IInv, Types
    <3>2. [manager |-> k, tools |-> <<>>] \in [manager : 1 .. Len(managers), tools : Seq(Names)]
      BY <3>1
    <3>. QED
      BY <1>8, <3>1, <3>2
  <2>2. failures' \in 0 .. MaxFailures
    BY FailCounts DEF IInv, Types
  <2>. QED
    BY <1>5, <1>6, <1>9, <2>1, <2>2 DEF IInv, Types
<1>11. Asked'
  BY <1>1, <1>7, AskedKept DEF IInv, Working
<1>12. Accounted' /\ BootKept' /\ Handling' /\ (~torn => Whole)'
  <2>1. op.new \in {0, k}
    BY <1>4
  <2>2. op.new = 0 => owned'[s] = 0
    BY <1>5 DEF Replacing
  <2>. QED
    BY <1>4, <1>5, <1>7, <1>8, <2>1, <2>2, RetiredKept
<1>13. Told'
  <2>1. \A t \in Servers : owned[t] # 0 => owned[t] \in DOMAIN managers
    BY OwnedRuns DEF IInv
  <2>2. \A t \in Servers \ {s} : owned'[t] = owned[t]
           /\ (owned[t] # 0 => managers'[owned[t]].spec = managers[owned[t]].spec)
    BY <1>5, <1>9, <2>1
  <2>3. owned'[s] # 0 => managers'[owned'[s]].spec = op.req.spec
    <3>1. owned'[s] # 0 => Replacing /\ owned'[s] = owned[s]
      BY <1>1, <1>5
    <3>. QED
      BY <1>3, <1>4, <1>9, <3>1
  <2>4. ASSUME c = "yes"
        PROVE  \E m \in DOMAIN managers' : managers'[m].server = s /\ managers'[m].runs
    <3>1. owned[s] # k
      BY <1>1, <1>4, <2>4
    <3>. QED
      BY <1>3, <1>9, <3>1
  <2>5. ASSUME c = "no", ~torn
        PROVE  \A n \in Names : tools'[n] # 0 => managers'[tools'[n]].server # s
    <3>. SUFFICES ASSUME NEW n \in Names, tools[n] # 0, managers[tools[n]].server = s
                  PROVE  FALSE
      <4>1. \A n \in Names : tools[n] # 0 => tools[n] \in DOMAIN managers
        BY DEF IInv, Types
      <4>. QED
        BY <1>9, <4>1
    <3>1. ~Replacing /\ k = owned[s]
      BY <1>4, <2>5
    <3>2. ~managers[tools[n]].boot
      <4>1. tools[n] \in DOMAIN managers
        BY DEF IInv, Types
      <4>. QED
        BY <4>1 DEF IInv, BootKept, Working
    <3>3. OnlyOwned
      BY <2>5 DEF IInv, Whole
    <3>. QED
      BY <1>4, <3>1, <3>2, <3>3 DEF OnlyOwned
  <2>6. Types /\ Asked /\ Told
    BY DEF IInv
  <2>. QED
    BY <1>1, <2>2, <2>3, <2>4, <2>5, <2>6, ToldReport
<1>. QED
  BY <1>7, <1>10, <1>11, <1>12, <1>13 DEF IInv

\* The old manager does not stop: its tools are all to be put back.
LEMMA StopFails ==
  ASSUME IInv, op.at = "stopold", ~Replacing, Fail(1), Go("putback", Offered(old)), Quiet,
         UNCHANGED <<config, managers, tools, owned, stranded, queue, asked, torn>>
  PROVE  IInv'
<1>1. /\ s \in Servers /\ old = owned[s] /\ op.at \in Working \cup {"begin"}
      /\ owned \in [Servers -> 0 .. Len(managers)]
  BY WorkingFacts DEF Working
<1>2. old # 0 /\ op.req.do \in Upserts \cup {"remove", "close"} /\ op.new = 0 /\ ~op.broken
  BY DEF IInv, Control, Replacing
<1>3. Offered(old) \in Seq(Names) /\ Offered(old) = managers[old].tools
  BY <1>1, <1>2, OwnedRuns DEF IInv, Offered
<1>4. /\ op' \in OpIn(Len(managers))
      /\ Stands("putback", Offered(old), <<>>, op.new, op.broken)
  BY <1>3, GoStands DEF IInv, Stages
<1>5. /\ op'.at = "putback" /\ op'.left = managers[old].tools /\ op'.new = 0
      /\ op'.broken = op.broken
      /\ op'.req = op.req /\ op'.todo = op.todo /\ s' = s /\ old' = old
      /\ UNCHANGED <<result, behind>>
  BY <1>2, <1>3, <1>4 DEF Stands, s, old, Quiet
<1>6. Types'
  <2>1. failures' \in 0 .. MaxFailures
    BY FailCounts DEF IInv, Types
  <2>. QED
    BY <1>4, <1>5, <2>1 DEF IInv, Types
<1>7. Control'
  BY <1>2, <1>5 DEF IInv, Control, Working, Upserts
<1>8. Asked'
  BY <1>1, <1>5, AskedKept DEF IInv, Working
<1>9. Accounted'
  BY <1>2, <1>5 DEF IInv, Accounted, Holding
<1>10. BootKept'
  BY <1>5 DEF IInv, BootKept, Unaccepted, Working
<1>11. Handling'
  BY <1>5 DEF IInv, Handling, NoTools
<1>12. (~torn => Whole)'
  <2>. SUFFICES ASSUME ~torn PROVE Whole'
    OBVIOUS
  <2>1. OnlyOwned /\ AllMounted /\ Apart /\ \A x \in stranded : x.tools = <<>>
    BY DEF IInv, Whole
  <2>2. OnlyOwned'
    BY <1>5, <2>1 DEF OnlyOwned
  <2>3. AllMounted'
    BY <1>1, <1>5, <2>1 DEF AllMounted, HasAll
  <2>4. Apart'
    BY <1>5, <2>1 DEF Apart, Unaccepted
  <2>. QED
    BY <1>2, <1>5, <2>1, <2>2, <2>3, <2>4 DEF Whole
<1>13. Told'
  BY <1>1, <1>5, ToldKept DEF IInv, Working
<1>. QED
  BY <1>6, <1>7, <1>8, <1>9, <1>10, <1>11, <1>12, <1>13 DEF IInv

LEMMA StopOldStep ==
  ASSUME IInv, StopOld
  PROVE  IInv'
<1>. DEFINE k == IF Replacing THEN op.new ELSE old
            c == IF Replacing THEN "yes" ELSE "no"
<1>1. op.at = "stopold" /\ UNCHANGED <<config, tools, queue, asked, torn>>
  BY DEF StopOld
<1>2. k \in DOMAIN managers /\ c \in {"yes", "no"}
  <2>1. /\ s \in Servers /\ old = owned[s] /\ op.new \in 0 .. Len(managers)
        /\ DOMAIN managers = 1 .. Len(managers)
    BY <1>1, WorkingFacts DEF Working, IInv, Types
  <2>2. old # 0
    BY <1>1 DEF IInv, Control
  <2>3. owned[s] \in DOMAIN managers
    BY <2>1, <2>2, OwnedRuns DEF IInv
  <2>. QED
    BY <2>1, <2>3 DEF Replacing
<1>3. CASE /\ managers' = Stopped(k)
           /\ owned' = IF Replacing THEN owned ELSE [owned EXCEPT ![s] = 0]
           /\ IF Replacing THEN Report(TRUE, "yes") ELSE Report(TRUE, "no")
           /\ UNCHANGED <<failures, stranded>>
  <2>1. Report(TRUE, c)
    BY <1>3
  <2>. QED
    BY <1>1, <1>2, <1>3, <2>1, StopSucceeds
<1>4. CASE Fail(1) /\ Replacing /\ Stranding(op.new, <<>>) /\ Report(TRUE, "yes")
           /\ UNCHANGED <<managers, owned>>
  <2>1. Report(TRUE, c) /\ Stranding(k, <<>>)
        /\ owned' = IF Replacing THEN owned ELSE [owned EXCEPT ![s] = 0]
    BY <1>4
  <2>. QED
    BY <1>1, <1>2, <1>4, <2>1, StopSucceeds
<1>5. CASE Fail(1) /\ ~Replacing /\ Go("putback", Offered(old)) /\ Quiet
           /\ UNCHANGED <<managers, owned, stranded>>
  BY <1>1, <1>5, StopFails
<1>. QED
  BY <1>3, <1>4, <1>5 DEF StopOld


-----------------------------------------------------------------------------
(* close releases what is stranded.                                         *)

\* Only finitely many managers are ever stranded, so failures can be counted.
LEMMA StrandedFinitely ==
  ASSUME IsFiniteSet(stranded), [Next]_vars
  PROVE  IsFiniteSet(stranded')
<1>1. \/ UNCHANGED stranded
      \/ \E m, names : Stranding(m, names)
      \/ stranded' \subseteq stranded
  BY DEF Next, vars, state, AddServer, ReloadServer, RemoveServer, Cleanup, Ask, Begin,
         UpsertTargeted, RemoveTargeted, DiscoverFails, Discover, Unmount, Unmounted, Mount,
         Mounted, Undo, Undone, PutBack, PutBackDone, Discard, StopOld, CloseServer, Sweep
<1>2. CASE \E m, names : Stranding(m, names)
  <2>1. PICK m, names : stranded' = stranded \cup {[manager |-> m, tools |-> names]}
    BY <1>2 DEF Stranding
  <2>. QED
    BY <2>1, FS_AddElement
<1>3. CASE stranded' \subseteq stranded
  BY <1>3, FS_Subset
<1>. QED
  BY <1>1, <1>2, <1>3

\* What a sweep does, in terms of the managers it releases.
LEMMA SweepReleases ==
  ASSUME IInv, Sweep
  PROVE  \E left \in SUBSET stranded :
           /\ Fail(Cardinality(left)) /\ stranded' = left
           /\ managers' \in Seq(Connections) /\ Len(managers') = Len(managers)
           /\ DOMAIN managers' = DOMAIN managers
           /\ \A m \in DOMAIN managers :
                /\ managers'[m].server = managers[m].server
                /\ managers'[m].spec = managers[m].spec
                /\ managers'[m].tools = managers[m].tools
                /\ managers'[m].boot <=> managers[m].boot
                /\ managers'[m].runs <=>
                     managers[m].runs /\ \A x \in stranded \ left : x.manager # m
           /\ tools' \in [Names -> 0 .. Len(managers)]
           /\ \A n \in Names : tools'[n] \in {0, tools[n]}
           /\ \A n \in Names : (\E x \in stranded \ left : n \in ToSet(x.tools)) => tools'[n] = 0
           /\ \A n \in Names : (\A x \in stranded : n \notin ToSet(x.tools)) =>
                tools'[n] = tools[n]
<1>1. PICK left \in SUBSET stranded :
       /\ Fail(Cardinality(left))
       /\ \E off \in SUBSET UNION {ToSet(x.tools) : x \in left} :
            LET freed == UNION {ToSet(x.tools) : x \in stranded \ left}
            IN  tools' = [n \in Names |-> IF n \in freed \cup off THEN 0 ELSE tools[n]]
       /\ managers' = [m \in DOMAIN managers |->
            [managers[m] EXCEPT !.runs = @ /\ m \notin {x.manager : x \in stranded \ left}]]
       /\ stranded' = left
  BY DEF Sweep
<1>. DEFINE freed == UNION {ToSet(x.tools) : x \in stranded \ left}
<1>2. PICK off \in SUBSET UNION {ToSet(x.tools) : x \in left} :
        tools' = [n \in Names |-> IF n \in freed \cup off THEN 0 ELSE tools[n]]
  BY <1>1
<1>3. /\ managers \in Seq(Connections) /\ Len(managers) \in Nat
      /\ DOMAIN managers = 1 .. Len(managers) /\ tools \in [Names -> 0 .. Len(managers)]
  BY DEF IInv, Types
<1>. DEFINE stays(m) == managers[m].runs /\ m \notin {x.manager : x \in stranded \ left}
<1>4. \A m \in DOMAIN managers :
        /\ managers'[m] = [managers[m] EXCEPT !.runs = stays(m)]
        /\ managers[m] \in Connections
  BY <1>1, <1>3
<1>5. \A m : stays(m) \in BOOLEAN
  OBVIOUS
<1>6. \A m : stays(m) <=> managers[m].runs /\ \A x \in stranded \ left : x.manager # m
  OBVIOUS
<1>7. DOMAIN managers' = DOMAIN managers
  BY <1>1
<1>. HIDE DEF stays
<1>8. ASSUME NEW m \in DOMAIN managers
      PROVE  /\ managers'[m] \in Connections
             /\ managers'[m].server = managers[m].server
             /\ managers'[m].spec = managers[m].spec
             /\ managers'[m].tools = managers[m].tools
             /\ managers'[m].boot = managers[m].boot
             /\ managers'[m].runs = stays(m)
  <2>1. managers[m] \in Connections /\ stays(m) \in BOOLEAN
        /\ managers'[m] = [managers[m] EXCEPT !.runs = stays(m)]
    BY <1>4, <1>5
  <2>. DEFINE b == stays(m)
  <2>. HIDE DEF b
  <2>2. b \in BOOLEAN /\ managers'[m] = [managers[m] EXCEPT !.runs = b]
    BY <2>1 DEF b
  <2>3. /\ managers'[m].server = managers[m].server
        /\ managers'[m].spec = managers[m].spec
        /\ managers'[m].tools = managers[m].tools
        /\ managers'[m].boot = managers[m].boot
        /\ managers'[m].runs = b
    BY <2>1, <2>2 DEF Connections
  <2>4. managers'[m] \in Connections
    BY <2>1, <2>2 DEF Connections
  <2>. QED
    BY <2>3, <2>4 DEF b
<1>9. managers' \in Seq(Connections) /\ Len(managers') = Len(managers)
  <2>1. managers' = [m \in 1 .. Len(managers) |-> managers'[m]]
    BY <1>1, <1>3
  <2>2. managers' \in [1 .. Len(managers) -> Connections]
    BY <1>3, <1>8, <2>1
  <2>. QED
    BY <1>3, <2>2
<1>10. \A n \in Names : tools'[n] = IF n \in freed \cup off THEN 0 ELSE tools[n]
  BY <1>2
<1>11. \A n \in Names : n \in freed \cup off => \E x \in stranded : n \in ToSet(x.tools)
  BY <1>2
<1>12. \A n \in Names : (\E x \in stranded \ left : n \in ToSet(x.tools)) => n \in freed
  OBVIOUS
<1>. HIDE DEF freed
<1>13. /\ tools' \in [Names -> 0 .. Len(managers)]
       /\ \A n \in Names : tools'[n] \in {0, tools[n]}
  BY <1>2, <1>3
<1>14. \A n \in Names : (\E x \in stranded \ left : n \in ToSet(x.tools)) => tools'[n] = 0
  BY <1>10, <1>12
<1>15. \A n \in Names : (\A x \in stranded : n \notin ToSet(x.tools)) => tools'[n] = tools[n]
  BY <1>10, <1>11
<1>16. \A m \in DOMAIN managers :
          managers'[m].runs <=> managers[m].runs /\ \A x \in stranded \ left : x.manager # m
  BY <1>6, <1>8
<1>17. \A m \in DOMAIN managers :
          /\ managers'[m].server = managers[m].server /\ managers'[m].spec = managers[m].spec
          /\ managers'[m].tools = managers[m].tools
          /\ managers'[m].boot <=> managers[m].boot
  BY <1>8
<1>18. Fail(Cardinality(left)) /\ stranded' = left
  BY <1>1
<1>. QED
  BY <1>7, <1>9, <1>13, <1>14, <1>15, <1>16, <1>17, <1>18


LEMMA SweepStep ==
  ASSUME IInv, IsFiniteSet(stranded), Sweep
  PROVE  IInv'
<1>1. /\ op.at = "closing" /\ op.todo = {} /\ op' = [Idle EXCEPT !.at = "closed"]
      /\ UNCHANGED <<config, owned, queue, result, asked, torn, behind>>
  BY DEF Sweep
<1>2. PICK left \in SUBSET stranded :
        /\ Fail(Cardinality(left)) /\ stranded' = left
        /\ managers' \in Seq(Connections) /\ Len(managers') = Len(managers)
        /\ DOMAIN managers' = DOMAIN managers
        /\ \A m \in DOMAIN managers :
             /\ managers'[m].server = managers[m].server
             /\ managers'[m].spec = managers[m].spec
             /\ managers'[m].tools = managers[m].tools
             /\ managers'[m].boot <=> managers[m].boot
             /\ managers'[m].runs <=>
                  managers[m].runs /\ \A x \in stranded \ left : x.manager # m
        /\ tools' \in [Names -> 0 .. Len(managers)]
        /\ \A n \in Names : tools'[n] \in {0, tools[n]}
        /\ \A n \in Names : (\E x \in stranded \ left : n \in ToSet(x.tools)) => tools'[n] = 0
        /\ \A n \in Names : (\A x \in stranded : n \notin ToSet(x.tools)) => tools'[n] = tools[n]
  BY SweepReleases
<1>3. op.req.do = "close" /\ op.new = 0
  BY <1>1 DEF IInv, Control
<1>4. /\ op'.at = "closed" /\ op'.new = 0 /\ op'.req = None /\ op'.todo = {}
      /\ op'.broken = FALSE /\ op' \in OpIn(Len(managers))
  <2>1. Idle \in OpIn(Len(managers))
    BY IdleType DEF IInv, Types
  <2>2. op' \in OpIn(Len(managers)) /\ op'.at = "closed" /\ op'.new = Idle.new
        /\ op'.req = Idle.req /\ op'.todo = Idle.todo
    BY <1>1, <2>1 DEF OpIn, Stages
  <2>3. op'.broken = Idle.broken
    BY <1>1, <2>1 DEF OpIn
  <2>. QED
    BY <2>2, <2>3, IdleFields
<1>5. /\ \A x \in stranded : x.manager \in DOMAIN managers /\ x.manager # 0
      /\ \A t \in Servers : owned[t] # 0 => owned[t] \in DOMAIN managers
      /\ \A n \in Names : tools[n] # 0 => tools[n] \in DOMAIN managers
      /\ \A n \in Names : tools'[n] # 0 => tools'[n] = tools[n] /\ tools[n] # 0
      /\ \A m \in DOMAIN managers : m # 0
  BY <1>2 DEF IInv, Types
<1>6. Types'
  <2>1. failures' \in 0 .. MaxFailures
    <3>1. Cardinality(left) \in Nat
      BY FS_Subset, FS_CardinalityType
    <3>. QED
      BY <1>2, <3>1, MCPAssumption DEF Fail, IInv, Types
  <2>2. stranded' \subseteq [manager : 1 .. Len(managers'), tools : Seq(Names)]
    BY <1>2 DEF IInv, Types
  <2>. QED
    BY <1>1, <1>2, <1>4, <2>1, <2>2 DEF IInv, Types
<1>7. Control'
  BY <1>4, IdleFields DEF Control, Working, Upserts
<1>8. Asked'
  BY <1>1, <1>4 DEF IInv, Asked, Working
<1>9. Accounted'
  <2>1. \A m \in DOMAIN managers' : managers'[m].boot => managers'[m].runs
    BY <1>2 DEF IInv, Accounted
  <2>2. \A t \in Servers : owned'[t] # 0 =>
          /\ managers'[owned'[t]].server = t /\ managers'[owned'[t]].runs
          /\ ~managers'[owned'[t]].boot
          /\ \A x \in stranded' : x.manager # owned'[t]
    BY <1>1, <1>2, <1>5 DEF IInv, Accounted
  <2>3. \A x \in stranded' : ~managers'[x.manager].boot
    BY <1>2, <1>5 DEF IInv, Accounted
  <2>4. \A m \in DOMAIN managers' : managers'[m].runs =>
          \/ managers'[m].boot \/ (\E t \in Servers : owned'[t] = m)
          \/ \E x \in stranded' : x.manager = m
    BY <1>1, <1>2, <1>3, <1>5 DEF IInv, Accounted
  <2>. QED
    BY <1>4, <2>1, <2>2, <2>3, <2>4 DEF Accounted, Holding
<1>10. BootKept'
  <2>. SUFFICES ASSUME NEW m \in DOMAIN managers, managers[m].boot
                PROVE  /\ Len(managers[m].tools) = 1
                       /\ tools'[managers[m].tools[1]] = m
                       /\ owned[managers[m].server] = 0
                       /\ \A t \in Servers : owned[t] # 0 =>
                            managers[m].tools[1] \notin ToSet(managers[owned[t]].tools)
                       /\ \A x \in stranded' : managers[m].tools[1] \notin ToSet(x.tools)
    BY <1>1, <1>2, <1>4, <1>5 DEF BootKept, Unaccepted, Working
  <2>1. managers[m].tools \in Seq(Names)
    <3>1. managers[m] \in Connections
      BY DEF IInv, Types
    <3>. QED
      BY <3>1 DEF Connections
  <2>2. Len(managers[m].tools) = 1 /\ \A x \in stranded : managers[m].tools[1] \notin ToSet(x.tools)
    BY DEF IInv, BootKept
  <2>3. managers[m].tools[1] \in Names
    BY <2>1, <2>2
  <2>4. tools'[managers[m].tools[1]] = tools[managers[m].tools[1]]
    BY <1>2, <2>2, <2>3
  <2>. QED
    BY <1>2, <2>2, <2>4 DEF IInv, BootKept
<1>11. Handling'
  <2>1. \A x \in stranded' : \A n \in Names : tools'[n] = x.manager => n \in ToSet(x.tools)
    BY <1>2, <1>5 DEF IInv, Handling
  <2>2. \A n \in Names : tools'[n] # 0 =>
          managers'[tools'[n]].runs /\ n \in ToSet(managers'[tools'[n]].tools)
    <3>. SUFFICES ASSUME NEW n \in Names, tools'[n] # 0
                  PROVE  managers'[tools[n]].runs /\ n \in ToSet(managers'[tools[n]].tools)
      BY <1>5
    <3>1. tools[n] # 0 /\ tools[n] \in DOMAIN managers
          /\ managers[tools[n]].runs /\ n \in ToSet(managers[tools[n]].tools)
      BY <1>5 DEF IInv, Handling
    <3>2. \A x \in stranded \ left : x.manager # tools[n]
      <4>1. \A x \in stranded \ left : n \notin ToSet(x.tools)
        BY <1>2
      <4>. QED
        BY <4>1 DEF IInv, Handling
    <3>. QED
      BY <1>2, <3>1, <3>2
  <2>. QED
    BY <1>4, <2>1, <2>2 DEF Handling
<1>12. (~torn => Whole)'
  <2>. SUFFICES ASSUME ~torn PROVE Whole'
    BY <1>1
  <2>1. OnlyOwned /\ AllMounted /\ Apart /\ \A x \in stranded : x.tools = <<>>
    BY DEF IInv, Whole
  <2>2. \A n \in Names : tools'[n] = tools[n]
    BY <1>2, <2>1, NoElements
  <2>3. OnlyOwned'
    BY <1>1, <1>2, <1>5, <2>1, <2>2 DEF OnlyOwned
  <2>4. AllMounted'
    <3>. SUFFICES ASSUME NEW t \in Servers, owned[t] # 0,
                         NEW n \in ToSet(managers[owned[t]].tools)
                  PROVE  tools'[n] = owned[t]
      BY <1>1, <1>2, <1>5 DEF AllMounted, HasAll
    <3>1. n \in Names
      <4>1. managers[owned[t]].tools \in Seq(Names)
        BY OwnedRuns DEF IInv
      <4>. QED
        BY <4>1 DEF ToSet
    <3>. QED
      BY <1>1, <2>1, <2>2, <3>1 DEF AllMounted, HasAll
  <2>5. Apart'
    BY <1>1, <1>2, <1>4, <1>5, <2>1 DEF Apart, Unaccepted
  <2>. QED
    BY <1>2, <1>4, <2>1, <2>3, <2>4, <2>5 DEF Whole
<1>13. Told'
  BY <1>4 DEF Told
<1>. QED
  BY <1>6, <1>7, <1>8, <1>9, <1>10, <1>11, <1>12, <1>13 DEF IInv

-----------------------------------------------------------------------------
(* The invariant, and what it says.                                         *)

LEMMA StutterStep ==
  ASSUME IInv, UNCHANGED vars
  PROVE  IInv'
<1>1. UNCHANGED <<config, managers, tools, owned, stranded, queue, op, result, asked,
                  failures, torn, behind>>
  BY DEF vars, state
<1>2. Types' /\ Control' /\ Asked'
  BY <1>1 DEF IInv, Types, Control, Asked, s, old
<1>3. Accounted' /\ BootKept'
  BY <1>1 DEF IInv, Accounted, Holding, BootKept, Unaccepted, s
<1>4. Handling'
  BY <1>1 DEF IInv, Handling, NoTools, s, old
<1>5. (~torn => Whole)'
  <2>. SUFFICES ASSUME ~torn PROVE Whole'
    BY <1>1
  <2>1. Whole
    BY DEF IInv
  <2>2. OnlyOwned' /\ Apart'
    BY <1>1, <2>1 DEF Whole, OnlyOwned, Apart, Unaccepted, s
  <2>3. AllMounted'
    BY <1>1, <2>1 DEF Whole, AllMounted, HasAll, s
  <2>. QED
    BY <1>1, <2>1, <2>2, <2>3 DEF Whole
<1>6. Told'
  BY <1>1 DEF IInv, Told, Settled, Mine, s
<1>. QED
  BY <1>2, <1>3, <1>4, <1>5, <1>6 DEF IInv

LEMMA NextStep ==
  ASSUME IInv, IsFiniteSet(stranded), [Next]_vars
  PROVE  IInv'
<1>1. CASE UNCHANGED vars
  BY <1>1, StutterStep
<1>2. CASE Command
  BY <1>2, CommandStep
<1>3. CASE Begin
  BY <1>3, BeginStep
<1>4. CASE UpsertTargeted
  BY <1>4, UpsertStep
<1>5. CASE RemoveTargeted
  BY <1>5, RemoveStep
<1>6. CASE Discover
  BY <1>6, DiscoverStep
<1>7. CASE DiscoverFails
  BY <1>7, DiscoverFailsStep
<1>8. CASE Unmount
  BY <1>8, UnmountStep
<1>9. CASE Unmounted
  BY <1>9, UnmountedStep
<1>10. CASE Mount
  BY <1>10, MountStep
<1>11. CASE Mounted
  BY <1>11, MountedStep
<1>12. CASE Undo
  BY <1>12, UndoStep
<1>13. CASE Undone
  BY <1>13, UndoneStep
<1>14. CASE PutBack
  BY <1>14, PutBackStep
<1>15. CASE PutBackDone
  BY <1>15, PutBackDoneStep
<1>16. CASE Discard
  BY <1>16, DiscardStep
<1>17. CASE StopOld
  BY <1>17, StopOldStep
<1>18. CASE CloseServer
  BY <1>18, CloseServerStep
<1>19. CASE Sweep
  BY <1>19, SweepStep
<1>. QED
  BY <1>1, <1>2, <1>3, <1>4, <1>5, <1>6, <1>7, <1>8, <1>9, <1>10, <1>11, <1>12, <1>13,
     <1>14, <1>15, <1>16, <1>17, <1>18, <1>19 DEF Next, Command

LEMMA Invariant == Spec => [](IInv /\ IsFiniteSet(stranded))
<1>1. Init => IInv /\ IsFiniteSet(stranded)
  BY InitIInv, FS_EmptySet DEF Init
<1>2. IInv /\ IsFiniteSet(stranded) /\ [Next]_vars => (IInv /\ IsFiniteSet(stranded))'
  BY NextStep, StrandedFinitely
<1>. QED
  BY <1>1, <1>2, PTL DEF Spec


\* Whatever fails in whatever order, no connection is lost sight of: a manager
\* that runs is the boot's, or owned, or stranded for close to release, or in the
\* hands of the operation under way (_stop_discarded and _stranded in
\* kernel/live_mcp.py), and the variables keep their types.
THEOREM NoConnectionIsLost == Spec => []NothingLeaks
<1>1. ASSUME IInv PROVE TypeOK
  <2>1. /\ config \in [Servers -> Specs \cup {0}]
        /\ tools \in [Names -> Managers] /\ owned \in [Servers -> Managers]
        /\ asked \in 0 .. MaxAsked /\ failures \in 0 .. MaxFailures
        /\ behind \subseteq Servers
    BY <1>1 DEF IInv, Types, MaySpec, Managers
  <2>2. torn \in BOOLEAN
    BY <1>1 DEF IInv, Types
  <2>3. \A x \in stranded : x.manager \in Managers /\ x.tools \in Seq(Names)
    BY <1>1 DEF IInv, Types, Managers
  <2>4. op \in OpIn(Len(managers))
    BY <1>1 DEF IInv, Types
  <2>5. op.new \in Managers
    BY <2>4 DEF OpIn, Managers
  <2>6. op.left \in Seq(Names) /\ op.done \in Seq(Names)
    BY <2>4 DEF OpIn
  <2>7. ToSet(op.left) \cup ToSet(op.done) \subseteq Names
    BY <2>6 DEF ToSet
  <2>. QED
    BY <2>1, <2>2, <2>3, <2>5, <2>7 DEF TypeOK
<1>2. ASSUME IInv, NEW m \in DOMAIN managers, Runs(m)
      PROVE  \/ managers[m].boot
             \/ m \in {owned[t] : t \in Servers}
             \/ m \in {x.manager : x \in stranded}
             \/ m = op.new
  <2>1. \/ managers[m].boot
        \/ \E t \in Servers : owned[t] = m
        \/ \E x \in stranded : x.manager = m
        \/ m = op.new
    BY <1>2 DEF IInv, Accounted, Runs
  <2>. QED
    BY <2>1
<1>3. IInv => NothingLeaks
  BY <1>1, <1>2 DEF NothingLeaks
<1>. QED
  BY <1>3, Invariant, PTL

\* At every await a mounted tool belongs to a manager that runs and offers it and
\* the boot's tool is its own; between operations, unless an undo failed, an
\* owned server has all its tools mounted and nothing else of the reconciler's is
\* (_replace_owned, _remove_owned and their rollbacks in kernel/live_mcp.py).
THEOREM ToolsStayServed == Spec => []ToolsAreServed
<1>1. ASSUME IInv PROVE Served
  <2>1. \A n \in Names : tools[n] # 0 => Runs(tools[n]) /\ n \in ToSet(Offered(tools[n]))
    BY <1>1 DEF IInv, Handling, Runs, Offered
  <2>2. \A m \in DOMAIN managers : managers[m].boot => tools[Offered(m)[1]] = m
    BY <1>1 DEF IInv, BootKept, Offered
  <2>. QED
    BY <2>1, <2>2 DEF Served
<1>2. ASSUME IInv, op.at \in {"idle", "closed"}, ~torn, NEW n \in Names, NEW t \in Servers
      PROVE  LET has  == owned[t] # 0 /\ n \in ToSet(Offered(owned[t]))
                 mine == tools[n] # 0 /\ ~managers[tools[n]].boot
                           /\ managers[tools[n]].server = t
             IN  (mine <=> has) /\ (mine => tools[n] = owned[t])
  <2>1. OnlyOwned /\ AllMounted
    BY <1>2 DEF IInv, Whole
  <2>2. ASSUME tools[n] # 0, ~managers[tools[n]].boot, managers[tools[n]].server = t
        PROVE  tools[n] = owned[t] /\ owned[t] # 0 /\ n \in ToSet(Offered(owned[t]))
    <3>1. tools[n] = owned[t]
      BY <1>2, <2>1, <2>2 DEF OnlyOwned
    <3>. QED
      BY <1>2, <2>2, <3>1 DEF IInv, Handling, Offered
  <2>3. ASSUME owned[t] # 0, n \in ToSet(Offered(owned[t]))
        PROVE  tools[n] = owned[t] /\ tools[n] # 0 /\ ~managers[tools[n]].boot
                 /\ managers[tools[n]].server = t
    <3>1. tools[n] = owned[t]
      BY <1>2, <2>1, <2>3 DEF AllMounted, HasAll, Offered
    <3>2. managers[owned[t]].server = t /\ ~managers[owned[t]].boot
      BY <1>2, <2>3, OwnedRuns DEF IInv
    <3>. QED
      BY <2>3, <3>1, <3>2
  <2>. QED
    BY <2>2, <2>3
<1>3. IInv => ToolsAreServed
  BY <1>1, <1>2 DEF ToolsAreServed, AllOrNothing
<1>. QED
  BY <1>3, Invariant, PTL

\* Unless an undo failed, a result that says "connected" is of a server with a
\* live connection and one that says "not connected" of a server without a tool;
\* and once the operations asked for are done, a server whose last operation
\* succeeded lives by the saved configuration (MCPReconcileResult).
THEOREM ReportsHold == Spec => []ReportsAreTrue
<1>1. ASSUME IInv, op.at = "idle", ~torn
      PROVE  /\ result.connected = "yes" =>
                  \E m \in DOMAIN managers : managers[m].server = result.req.server /\ Runs(m)
             /\ result.connected = "no" => Mine(result.req.server) = {}
  BY <1>1 DEF IInv, Told, Runs
<1>2. ASSUME IInv, op.at = "idle", queue = <<>>,
             NEW t \in Servers \ behind, owned[t] # 0
      PROVE  config[t] = managers[owned[t]].spec
  <2>1. op.req.do = "none"
    BY <1>2 DEF IInv, Control
  <2>2. Settled(t)
    BY <1>2, <2>1 DEF IInv, Told, Working
  <2>. QED
    BY <1>2, <2>2 DEF Settled
<1>3. IInv => ReportsAreTrue
  BY <1>1, <1>2 DEF ReportsAreTrue
<1>. QED
  BY <1>3, Invariant, PTL
=============================================================================
