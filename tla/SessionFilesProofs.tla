------------------------- MODULE SessionFilesProofs -------------------------
(***************************************************************************)
(* What is stored keeps: the files of a session, for any conversation, any *)
(* number of renames and any number of faults, wherever they fall; and     *)
(* what the repair makes of a conversation of any length.                  *)
(***************************************************************************)
EXTENDS SessionFiles, FiniteSetTheorems, SequenceTheorems, WellFoundedInduction,
        NaturalsInduction, TLAPS

MetaFiles == {None, Bad} \cup {Holding(c) : c \in Metadata}
TextFiles == {None, Bad} \cup {Holding(c) : c \in Seq(Messages)}

\* What an actor has still to write.
AllLeft == {SaveAll, <<"tfile", "mback", "mfile">>, SaveMeta, <<"mfile">>}
MetaLeft == {SaveMeta, <<"mfile">>}
Plans == [left : AllLeft, t : Seq(Messages), m : Metadata, kind : {"repair", "save"}]
           \cup [left : MetaLeft, t : {<<>>}, m : Metadata, kind : {"take", "rename"}]
Has(a, kind) == ~Free(a) /\ writing[a].kind = kind
\* The transcript of a save or a repair is still to be written.
Unwritten == ~Free("live") /\ writing["live"].left \notin MetaLeft
AtTranscript == ~Free("live") /\ Head(writing["live"].left) = "tfile"
AtMetadata(a) == ~Free(a) /\ Head(writing[a].left) = "mfile"

FilesTyped ==
  /\ {mfile, mback} \subseteq MetaFiles /\ {tfile, tback} \subseteq TextFiles
  /\ writing \in [Actors -> {Idle} \cup Plans]
  /\ ~Free("shell") => writing["shell"].kind = "rename"
ProcessTyped ==
  /\ live \in {"down", "booting", "starting", "idle", "turn"}
  /\ context \in Seq(Messages) /\ mark \in Nat /\ directive \in BOOLEAN
CountsTyped ==
  /\ names \in 0 .. MaxNames /\ faults \in Nat /\ spoils \in Nat
  /\ faults + spoils <= MaxFaults
HistoryTyped ==
  /\ last \in Seq(Messages) \X Seq(Messages)
  /\ named \in 0 .. MaxNames /\ runs \in Nat
  /\ overlapped \in BOOLEAN /\ refused \in BOOLEAN /\ bare \in BOOLEAN /\ shrunk \in BOOLEAN
Typed == FilesTyped /\ ProcessTyped /\ CountsTyped /\ HistoryTyped

\* What the live process writes, and from where.
Standing ==
  /\ live = "down" => Free("live") /\ context = <<>>
  /\ live \in {"down", "booting", "starting"} => mark = 0 /\ ~shrunk
  /\ live \in {"down", "booting"} => ~directive
  /\ Has("live", "repair") => live = "booting"
  /\ Has("live", "take") => live = "starting"
  /\ Has("live", "save") \/ Has("live", "rename") => live \in {"idle", "turn"}
  /\ Has("live", "repair") \/ Has("live", "save") => writing["live"].t = context

\* The metadata, as long as no file is spoiled: nobody else has written it since
\* an actor read it.
Changed(w) ==
  CASE w.kind = "take" -> [mfile.content EXCEPT !.directive = FALSE]
    [] w.kind = "rename" -> [mfile.content EXCEPT !.name = w.m.name]
    [] OTHER -> mfile.content
Merged ==
  spoils = 0 =>
    /\ Readable(mfile)
    /\ ~overlapped =>
         /\ mfile.content.name = named
         /\ \A a \in Actors : ~Free(a) => writing[a].m = Changed(writing[a])
Cleared ==
  spoils = 0 /\ ~overlapped /\ ~refused =>
    /\ directive => Has("live", "take") \/ ~mfile.content.directive
    /\ runs <= 1
    /\ runs = 1 => ~directive /\ ~mfile.content.directive

\* The transcript.
Stored ==
  spoils = 0 =>
    /\ tfile = Holding(last[1])
    /\ live # "down" /\ ~shrunk =>
         /\ mark <= Len(last[1]) /\ mark <= Len(context)
         /\ \A i \in 1 .. mark : context[i] = last[1][i]
    /\ (Has("live", "repair") \/ Has("live", "save")) /\ ~Unwritten => last[1] = context
    /\ faults = 0 /\ ~shrunk /\ live \in {"booting", "starting", "idle"} =>
         Unwritten \/ last[1] = context

\* One fault.
TextSurvives ==
  faults + spoils <= 1 /\ ~bare =>
    /\ \/ tfile = Holding(last[1])
       \/ /\ tfile = Bad /\ spoils = 1
          /\ tback \in {Holding(last[1]), Holding(last[2])} \/ AtTranscript
    /\ faults = 0 /\ spoils = 0 =>
         /\ tback \in {None, Holding(last[1]), Holding(last[2])}
         /\ AtTranscript => tback = Holding(last[1])
Whole(f) == Readable(f) /\ ~f.content.recovered
MetaSurvives ==
  faults + spoils <= 1 /\ ~bare /\ ~overlapped =>
    /\ \/ Whole(mfile)
       \/ /\ mfile = Bad /\ spoils = 1
          /\ Whole(mback) \/ \E a \in Actors : AtMetadata(a) /\ ~writing[a].m.recovered
    /\ spoils = 0 => mback = None \/ Whole(mback)
    /\ \A a \in Actors : ~Free(a) /\ writing[a].m.recovered =>
         /\ ~Whole(mfile)
         /\ \E b \in Actors \ {a} : AtMetadata(b) /\ ~writing[b].m.recovered

IInv == Typed /\ Standing /\ Merged /\ Cleared /\ Stored /\ TextSurvives /\ MetaSurvives

-----------------------------------------------------------------------------
(* The repair.                                                              *)

\* A set of numbers that is not empty has a least one.
LEMMA Least ==
  ASSUME NEW I \in SUBSET Nat, I # {}
  PROVE  \E i \in I : \A j \in I : i <= j
<1> DEFINE R == {p \in Nat \X Nat : p[1] < p[2]}
<1>1. IsWellFoundedOn(R, Nat)
  BY NatLessThanWellFounded, Zenon DEF OpToRel
<1>2. PICK i \in I : \A j \in I : ~ (<<j, i>> \in R)
  <2> HIDE DEF R
  <2> QED BY <1>1, WFMin
<1>3. \A j \in I : ~ (j < i)
  BY <1>2
<1> QED
  BY <1>3

\* The sequences put together up to each place.
Joins(q, n, f) ==
  /\ f = [i \in 1 .. n |-> f[i]]
  /\ \A i \in 1 .. n : f[i] = IF i = 1 THEN q[i] ELSE f[i - 1] \o q[i]

LEMMA JoinsExist ==
  ASSUME NEW q, NEW n \in Nat
  PROVE  \E f : Joins(q, n, f)
<1> DEFINE Wrong == {m \in Nat : \A f : ~Joins(q, m, f)}
<1>1. SUFFICES ASSUME n \in Wrong PROVE FALSE
  OBVIOUS
<1>2. PICK m \in Wrong : \A k \in Wrong : m <= k
  <2>1. Wrong \in SUBSET Nat /\ Wrong # {}
    BY <1>1
  <2>2. QED
    BY <2>1, Least
<1>3. CASE m = 0
  <2>1. Joins(q, 0, [i \in 1 .. 0 |-> <<>>])
    BY DEF Joins
  <2>2. QED
    BY <1>2, <1>3, <2>1
<1>4. CASE m # 0
  <2>1. m - 1 \in Nat /\ m - 1 \notin Wrong
    BY <1>2, <1>4
  <2>2. PICK f : Joins(q, m - 1, f)
    BY <2>1
  <2>3. PICK x : x = (IF m = 1 THEN q[m] ELSE f[m - 1] \o q[m])
    OBVIOUS
  <2>4. PICK g : g = [i \in 1 .. m |-> IF i = m THEN x ELSE f[i]]
    OBVIOUS
  <2>5. \A i \in 1 .. m : g[i] = IF i = 1 THEN q[i] ELSE g[i - 1] \o q[i]
    <3>1. TAKE i \in 1 .. m
    <3>2. CASE i = m
      <4>1. g[i] = x
        BY <2>4, <3>2
      <4>2. i # 1 => g[i - 1] = f[m - 1]
        BY <2>1, <2>4, <3>2
      <4>3. QED
        BY <2>3, <3>2, <4>1, <4>2
    <3>3. CASE i # m
      <4>1. i \in 1 .. (m - 1) /\ g[i] = f[i]
        BY <2>1, <2>4, <3>3
      <4>2. i # 1 => i - 1 \in 1 .. m /\ i - 1 # m /\ g[i - 1] = f[i - 1]
        BY <2>1, <2>4, <3>3
      <4>3. QED
        BY <2>2, <4>1, <4>2 DEF Joins
    <3>4. QED
      BY <3>2, <3>3
  <2>6. g = [i \in 1 .. m |-> g[i]]
    BY <2>4
  <2>7. Joins(q, m, g)
    BY <2>5, <2>6 DEF Joins
  <2>8. QED
    BY <1>2, <2>7
<1>5. QED
  BY <1>3, <1>4

LEMMA JoinsType ==
  ASSUME NEW S, NEW n \in Nat, NEW q, \A i \in 1 .. n : q[i] \in Seq(S), NEW f, Joins(q, n, f)
  PROVE  \A i \in 1 .. n : f[i] \in Seq(S)
<1> DEFINE Wrong == {i \in 1 .. n : f[i] \notin Seq(S)}
<1>1. SUFFICES ASSUME Wrong # {} PROVE FALSE
  OBVIOUS
<1>2. PICK i \in Wrong : \A k \in Wrong : i <= k
  <2>1. Wrong \in SUBSET Nat
    OBVIOUS
  <2>2. QED
    BY <1>1, <2>1, Least
<1>3. i # 1 => f[i - 1] \in Seq(S)
  BY <1>2
<1>4. f[i] = IF i = 1 THEN q[i] ELSE f[i - 1] \o q[i]
  BY <1>2 DEF Joins
<1>5. q[i] \in Seq(S) /\ f[i] \notin Seq(S)
  BY <1>2
<1>6. CASE i # 1
  <2>1. PICK a, b \in Seq(S) : a = f[i - 1] /\ b = q[i]
    BY <1>3, <1>5, <1>6
  <2>2. a \o b \in Seq(S)
    OBVIOUS
  <2>3. QED
    BY <1>4, <1>5, <1>6, <2>1, <2>2
<1>7. QED
  BY <1>4, <1>5, <1>6

\* The last of them is what FlattenSeq returns.
LEMMA FlattenIs ==
  ASSUME NEW n \in Nat \ {0}, NEW q, Len(q) = n
  PROVE  \E f : Joins(q, n, f) /\ FlattenSeq(q) = f[n]
<1>1. PICK f : f = CHOOSE g : g = [i \in 1 .. Len(q) |-> IF i = 1 THEN q[i] ELSE g[i - 1] \o q[i]]
  OBVIOUS
<1>2. FlattenSeq(q) = f[Len(q)]
  BY <1>1 DEF FlattenSeq
<1>3. \E g : g = [i \in 1 .. Len(q) |-> IF i = 1 THEN q[i] ELSE g[i - 1] \o q[i]]
  <2>1. PICK g : Joins(q, n, g)
    BY JoinsExist
  <2>2. g = [i \in 1 .. n |-> IF i = 1 THEN q[i] ELSE g[i - 1] \o q[i]]
    BY <2>1 DEF Joins
  <2>3. QED
    BY <2>2
<1>4. f = [i \in 1 .. Len(q) |-> IF i = 1 THEN q[i] ELSE f[i - 1] \o q[i]]
  BY <1>1, <1>3, Zenon
<1>5. Joins(q, n, f)
  BY <1>4 DEF Joins
<1>6. QED
  BY <1>2, <1>5

\* Sequences put together are a sequence of the same things.
LEMMA FlattenType ==
  ASSUME NEW S, NEW n \in Nat, NEW q, q \in [1 .. n -> Seq(S)]
  PROVE  FlattenSeq(q) \in Seq(S)
<1>1. Len(q) = n /\ \A i \in 1 .. n : q[i] \in Seq(S)
  OBVIOUS
<1>2. CASE n = 0
  <2>1. q = <<>> /\ <<>> \in Seq(S)
    BY <1>2
  <2>2. QED
    BY <2>1 DEF FlattenSeq
<1>3. CASE n # 0
  <2>1. PICK f : Joins(q, n, f) /\ FlattenSeq(q) = f[n]
    BY <1>1, <1>3, FlattenIs
  <2>2. n \in 1 .. n
    BY <1>3
  <2>3. QED
    BY <1>1, <2>1, <2>2, JoinsType
<1>4. QED
  BY <1>2, <1>3

LEMMA PlaceholdersType ==
  ASSUME NEW X \in SUBSET Ids
  PROVE  Placeholders(X) \in Seq(Messages)
<1>1. IsFiniteSet(X)
  <2>1. IsFiniteSet(Ids)
    BY FilesAssumption
  <2>2. QED
    BY <2>1, FS_Subset
<1>2. Cardinality(X) \in Nat /\ \E g \in [1 .. Cardinality(X) -> X] : IsInjective(g)
  <2>1. Cardinality(X) \in Nat /\ ExistsBijection(1 .. Cardinality(X), X)
    BY <1>1, FS_CardinalityType
  <2>2. PICK g : g \in Bijection(1 .. Cardinality(X), X)
    BY <2>1 DEF ExistsBijection
  <2>3. g \in [1 .. Cardinality(X) -> X] /\ IsInjective(g)
    BY <2>2 DEF Bijection, Injection, IsInjective
  <2>4. QED
    BY <2>1, <2>3
<1>3. SetToSeq(X) \in [1 .. Cardinality(X) -> X]
  BY <1>2, Zenon DEF SetToSeq
<1>n. PICK n \in Nat : n = Cardinality(X)
  BY <1>2
<1>4. PICK ids : ids = SetToSeq(X) /\ ids \in [1 .. n -> X]
  BY <1>3, <1>n
<1>d. DOMAIN ids = 1 .. n
  BY <1>4
<1>5. Placeholders(X) = [k \in 1 .. n |-> Placeholder(ids[k])]
  BY <1>4, <1>d, Zenon DEF Placeholders
<1>6. \A x \in X : Placeholder(x) \in Messages
  <2>1. TAKE x \in X
  <2>2. {x} \in SUBSET Ids
    OBVIOUS
  <2>3. Says("tool") \in Messages
    BY DEF Says, Messages
  <2>4. Result("tool", x) \in Messages
    BY <2>2, <2>3 DEF Result, Messages
  <2>5. QED
    BY <2>4 DEF Placeholder, Messages
<1>7. Placeholders(X) \in [1 .. n -> Messages]
  BY <1>4, <1>5, <1>6
<1>8. QED
  BY <1>7

\* The repair of a conversation is a conversation.
LEMMA RepairedType ==
  ASSUME NEW t \in Seq(Messages)
  PROVE  Repaired(t) \in Seq(Messages)
<1>1. Staged(t) \in Seq(Messages)
  <2>1. PICK q : q = [i \in DOMAIN t |->
                        IF t[i].role = "tool" /\ t[i].results \cap Misplaced(t) # {}
                          THEN <<>> ELSE <<t[i]>>]
    OBVIOUS
  <2>2. q \in [1 .. Len(t) -> Seq(Messages)] /\ Len(t) \in Nat
    <3>1. <<>> \in Seq(Messages) /\ \A i \in DOMAIN t : <<t[i]>> \in Seq(Messages)
      OBVIOUS
    <3>2. DOMAIN t = 1 .. Len(t) /\ Len(t) \in Nat
      OBVIOUS
    <3>3. \A i \in 1 .. Len(t) : q[i] \in Seq(Messages)
      BY <2>1, <3>1, <3>2, Zenon
    <3>4. q = [i \in 1 .. Len(t) |-> q[i]]
      BY <2>1, <3>2, Zenon
    <3>5. QED
      BY <3>2, <3>3, <3>4
  <2>3. Staged(t) = FlattenSeq(q)
    BY <2>1 DEF Staged
  <2>4. QED
    BY <2>2, <2>3, FlattenType
<1>2. ASSUME NEW s \in Seq(Messages)
      PROVE  Filled(s) \in Seq(Messages)
  <2>1. PICK q : q = [i \in DOMAIN s |-> <<s[i]>> \o Placeholders(Missing(s, i))]
    OBVIOUS
  <2>2. \A i \in DOMAIN s : Missing(s, i) \in SUBSET Ids
    <3>0. \A i \in DOMAIN s : s[i] \in Messages
      OBVIOUS
    <3>1. \A i \in DOMAIN s : s[i].calls \in SUBSET Ids
      BY <3>0 DEF Messages
    <3>2. QED
      BY <3>1 DEF Missing
  <2>3. \A i \in DOMAIN s : <<s[i]>> \o Placeholders(Missing(s, i)) \in Seq(Messages)
    <3>1. TAKE i \in DOMAIN s
    <3>p. /\ Placeholders(Missing(s, i)) \in Seq(Messages)
          /\ <<s[i]>> \in Seq(Messages)
      <4>1. Missing(s, i) \in SUBSET Ids
        BY <2>2, <3>1
      <4>2. Placeholders(Missing(s, i)) \in Seq(Messages)
        BY <4>1, PlaceholdersType
      <4>3. <<s[i]>> \in Seq(Messages)
        BY <3>1
      <4>4. QED
        BY <4>2, <4>3
    <3>2. PICK a, b \in Seq(Messages) : a = <<s[i]>> /\ b = Placeholders(Missing(s, i))
      BY <3>p
    <3>3. a \o b \in Seq(Messages)
      OBVIOUS
    <3>4. QED
      BY <3>2, <3>3
  <2>4. q \in [1 .. Len(s) -> Seq(Messages)] /\ Len(s) \in Nat
    BY <2>1, <2>3
  <2>5. QED
    BY <2>1, <2>4, FlattenType DEF Filled
<1>3. QED
  BY <1>1, <1>2 DEF Repaired

-----------------------------------------------------------------------------
(* What an actor has still to write.                                        *)

FromText == <<"tfile", "mback", "mfile">>
OneLeft == <<"mfile">>

LEMMA Lefts ==
  /\ Head(SaveAll) = "tback" /\ Tail(SaveAll) = FromText
  /\ Head(FromText) = "tfile" /\ Tail(FromText) = SaveMeta
  /\ Head(SaveMeta) = "mback" /\ Tail(SaveMeta) = OneLeft
  /\ Head(OneLeft) = "mfile" /\ AllLeft = {SaveAll, FromText, SaveMeta, OneLeft}
  /\ MetaLeft = {SaveMeta, OneLeft} /\ \A l \in AllLeft : l # <<>>
  /\ SaveAll # FromText /\ SaveAll # SaveMeta /\ SaveAll # OneLeft
  /\ FromText # SaveMeta /\ FromText # OneLeft /\ SaveMeta # OneLeft
BY DEF SaveAll, FromText, SaveMeta, OneLeft, AllLeft, MetaLeft

LEMMA PlanIs ==
  ASSUME FilesTyped, NEW a \in Actors
  PROVE  /\ Free(a) <=> writing[a] = Idle
         /\ ~Free(a) => writing[a] \in Plans /\ writing[a].left \in AllLeft
<1>1. Idle.left = <<>>
  BY DEF Idle
<1>2. \A w \in Plans : w.left \in AllLeft
  BY DEF Plans, AllLeft, MetaLeft
<1>3. writing[a] \in {Idle} \cup Plans
  BY DEF FilesTyped
<1>4. QED
  BY <1>1, <1>2, <1>3, Lefts DEF Free

\* The plan moves on.
Moves(a, l) == writing' = [writing EXCEPT ![a] = [@ EXCEPT !.left = l]]
Stops(a) == writing' = [writing EXCEPT ![a] = Idle]

LEMMA MovesIs ==
  ASSUME FilesTyped, NEW a \in Actors, ~Free(a), NEW l \in AllLeft, Moves(a, l),
         l \in MetaLeft \/ writing[a].left \notin MetaLeft
  PROVE  /\ writing' \in [Actors -> {Idle} \cup Plans]
         /\ writing'[a].left = l /\ writing'[a].t = writing[a].t
         /\ writing'[a].m = writing[a].m /\ writing'[a].kind = writing[a].kind
         /\ \A b \in Actors \ {a} : writing'[b] = writing[b]
<1>1. writing[a] \in Plans /\ writing \in [Actors -> {Idle} \cup Plans]
  BY PlanIs DEF FilesTyped
<1>2. \A w \in Plans : l \in MetaLeft \/ w.left \notin MetaLeft =>
        /\ [w EXCEPT !.left = l] \in Plans
        /\ [w EXCEPT !.left = l].left = l /\ [w EXCEPT !.left = l].t = w.t
        /\ [w EXCEPT !.left = l].m = w.m /\ [w EXCEPT !.left = l].kind = w.kind
  BY Lefts DEF Plans
<1>3. writing'[a] = [writing[a] EXCEPT !.left = l]
  BY <1>1 DEF Moves
<1>4. writing' \in [Actors -> {Idle} \cup Plans]
  BY <1>1, <1>2 DEF Moves
<1>5. \A b \in Actors \ {a} : writing'[b] = writing[b]
  BY <1>1 DEF Moves
<1>6. QED
  BY <1>1, <1>2, <1>3, <1>4, <1>5

LEMMA StopsIs ==
  ASSUME FilesTyped, NEW a \in Actors, Stops(a)
  PROVE  /\ writing' \in [Actors -> {Idle} \cup Plans]
         /\ Free(a)' /\ \A b \in Actors \ {a} : writing'[b] = writing[b]
BY DEF FilesTyped, Stops, Free, Idle

LEMMA FileIs ==
  /\ None # Bad /\ ~Readable(None) /\ ~Readable(Bad)
  /\ \A c : Readable(Holding(c)) /\ Holding(c).content = c /\ Holding(c) # None /\ Holding(c) # Bad
  /\ \A f \in MetaFiles : IF Readable(f) THEN f.content \in Metadata /\ f = Holding(f.content)
                                         ELSE f \in {None, Bad}
  /\ \A f \in TextFiles : IF Readable(f) THEN f.content \in Seq(Messages) /\ f = Holding(f.content)
                                         ELSE f \in {None, Bad}
  /\ \A c \in Metadata : Holding(c) \in MetaFiles
  /\ \A c \in Seq(Messages) : Holding(c) \in TextFiles
<1>1. /\ None # Bad /\ ~Readable(None) /\ ~Readable(Bad)
      /\ \A c : /\ Readable(Holding(c)) /\ Holding(c).content = c
                /\ Holding(c) # None /\ Holding(c) # Bad
  BY DEF None, Bad, Readable, Holding
<1>2. QED
  BY <1>1 DEF MetaFiles, TextFiles

\* What is loaded (_load_metadata, _load_transcript).
LEMMA Loaded ==
  ASSUME FilesTyped
  PROVE  /\ metadata \in Metadata /\ transcript \in Seq(Messages)
         /\ Readable(mfile) => metadata = mfile.content
         /\ ~Readable(mfile) /\ Readable(mback) => metadata = mback.content
         /\ ~Readable(mfile) /\ ~Readable(mback) => metadata = Shell
         /\ Readable(tfile) => transcript = tfile.content
         /\ ~Readable(tfile) /\ Readable(tback) => transcript = tback.content
<1>1. {mfile, mback} \subseteq MetaFiles /\ {tfile, tback} \subseteq TextFiles
  BY DEF FilesTyped
<1>2. Shell \in Metadata
  BY FilesAssumption DEF Shell, Metadata
<1>3. <<>> \in Seq(Messages)
  OBVIOUS
<1>4. /\ Readable(mfile) => metadata = mfile.content
      /\ ~Readable(mfile) /\ Readable(mback) => metadata = mback.content
      /\ ~Readable(mfile) /\ ~Readable(mback) => metadata = Shell
  BY DEF metadata, Load
<1>5. /\ Readable(tfile) => transcript = tfile.content
      /\ ~Readable(tfile) /\ Readable(tback) => transcript = tback.content
      /\ ~Readable(tfile) /\ ~Readable(tback) => transcript = <<>>
  BY DEF transcript, Load
<1>6. QED
  BY <1>1, <1>2, <1>3, <1>4, <1>5, FileIs

-----------------------------------------------------------------------------
(* The steps.                                                               *)

Planned(a, w) == writing' = [writing EXCEPT ![a] = w]

LEMMA PlannedIs ==
  ASSUME FilesTyped, NEW a \in Actors, NEW w \in Plans, Planned(a, w)
  PROVE  /\ writing' \in [Actors -> {Idle} \cup Plans]
         /\ writing'[a] = w /\ ~Free(a)'
         /\ \A b \in Actors \ {a} : writing'[b] = writing[b]
<1>1. w.left \in AllLeft
  BY DEF Plans, AllLeft, MetaLeft
<1>2. writing'[a] = w
  BY DEF FilesTyped, Planned
<1>3. QED
  BY <1>1, <1>2, Lefts DEF FilesTyped, Planned, Free

Writes(a) ==
  /\ ~Free(a)
  /\ UNCHANGED <<live, context, directive, names, faults, spoils, refused, bare, runs>>
  /\ \/ /\ writing[a].left = SaveAll /\ Moves(a, FromText)
        /\ tback' = tfile
        /\ UNCHANGED <<tfile, mfile, mback, mark, shrunk, last, overlapped, named>>
     \/ /\ writing[a].left = FromText /\ Moves(a, SaveMeta)
        /\ tfile' = Holding(writing[a].t) /\ last' = <<writing[a].t, last[1]>>
        /\ UNCHANGED <<tback, mfile, mback, mark, shrunk, overlapped, named>>
     \/ /\ writing[a].left = SaveMeta /\ Moves(a, OneLeft)
        /\ mback' = mfile
        /\ UNCHANGED <<tfile, tback, mfile, mark, shrunk, last, overlapped, named>>
     \/ /\ writing[a].left = OneLeft /\ Stops(a)
        /\ mfile' = Holding(writing[a].m)
        /\ mark' = (IF writing[a].kind = "save" THEN Len(writing[a].t) ELSE mark)
        /\ shrunk' = (shrunk /\ writing[a].kind # "save")
        /\ overlapped' = (overlapped \/ Contended(a))
        /\ named' = (IF writing[a].kind = "rename" THEN writing[a].m.name ELSE named)
        /\ UNCHANGED <<tfile, tback, mback, last>>

LEMMA WriteIs ==
  ASSUME Typed, NEW a \in Actors, Write(a)
  PROVE  Writes(a)
<1>1. ~Free(a) /\ UNCHANGED <<live, context, directive, names, faults, spoils, refused, bare, runs>>
  BY DEF Write, counts
<1>2. writing[a].left \in {SaveAll, FromText, SaveMeta, OneLeft}
  BY <1>1, PlanIs, Lefts DEF Typed
<1>3. shrunk \in BOOLEAN /\ overlapped \in BOOLEAN
  BY Zenon DEF Typed, HistoryTyped
<1>4. PICK step : step = Head(writing[a].left)
  OBVIOUS
<1>5. /\ tback' = IF step = "tback" THEN tfile ELSE tback
      /\ tfile' = IF step = "tfile" THEN Holding(writing[a].t) ELSE tfile
      /\ mback' = IF step = "mback" THEN mfile ELSE mback
      /\ mfile' = IF step = "mfile" THEN Holding(writing[a].m) ELSE mfile
      /\ writing' = [writing EXCEPT ![a] =
                       IF step = "mfile" THEN Idle ELSE [writing[a] EXCEPT !.left = Tail(@)]]
      /\ mark' = IF step = "mfile" /\ writing[a].kind = "save" THEN Len(writing[a].t) ELSE mark
      /\ shrunk' = (shrunk /\ ~(step = "mfile" /\ writing[a].kind = "save"))
      /\ last' = IF step = "tfile" THEN <<writing[a].t, last[1]>> ELSE last
      /\ overlapped' = (overlapped \/ (step = "mfile" /\ Contended(a)))
      /\ named' = IF step = "mfile" /\ writing[a].kind = "rename" THEN writing[a].m.name ELSE named
  BY <1>4 DEF Write
<1>6. CASE writing[a].left = SaveAll
  <2>1. step = "tback" /\ Tail(writing[a].left) = FromText
    BY <1>4, <1>6, Lefts
  <2>2. Moves(a, FromText)
    BY <1>5, <2>1 DEF Moves
  <2>3. tback' = tfile /\ UNCHANGED <<tfile, mfile, mback, mark, shrunk, last, overlapped, named>>
    BY <1>3, <1>5, <2>1
  <2>4. QED
    BY <1>1, <1>6, <2>2, <2>3 DEF Writes
<1>7. CASE writing[a].left = FromText
  <2>1. step = "tfile" /\ Tail(writing[a].left) = SaveMeta
    BY <1>4, <1>7, Lefts
  <2>2. Moves(a, SaveMeta)
    BY <1>5, <2>1 DEF Moves
  <2>3. /\ tfile' = Holding(writing[a].t) /\ last' = <<writing[a].t, last[1]>>
        /\ UNCHANGED <<tback, mfile, mback, mark, shrunk, overlapped, named>>
    BY <1>3, <1>5, <2>1
  <2>4. QED
    BY <1>1, <1>7, <2>2, <2>3 DEF Writes
<1>8. CASE writing[a].left = SaveMeta
  <2>1. step = "mback" /\ Tail(writing[a].left) = OneLeft
    BY <1>4, <1>8, Lefts
  <2>2. Moves(a, OneLeft)
    BY <1>5, <2>1 DEF Moves
  <2>3. mback' = mfile /\ UNCHANGED <<tfile, tback, mfile, mark, shrunk, last, overlapped, named>>
    BY <1>3, <1>5, <2>1
  <2>4. QED
    BY <1>1, <1>8, <2>2, <2>3 DEF Writes
<1>9. CASE writing[a].left = OneLeft
  <2>1. step = "mfile"
    BY <1>4, <1>9, Lefts
  <2>2. Stops(a)
    BY <1>5, <2>1 DEF Stops
  <2>3. /\ mfile' = Holding(writing[a].m)
        /\ mark' = (IF writing[a].kind = "save" THEN Len(writing[a].t) ELSE mark)
        /\ shrunk' = (shrunk /\ writing[a].kind # "save")
        /\ overlapped' = (overlapped \/ Contended(a))
        /\ named' = (IF writing[a].kind = "rename" THEN writing[a].m.name ELSE named)
        /\ UNCHANGED <<tfile, tback, mback, last>>
    BY <1>5, <2>1
  <2>4. QED
    BY <1>1, <1>9, <2>2, <2>3 DEF Writes
<1>10. QED
  BY <1>2, <1>6, <1>7, <1>8, <1>9

Fails(a) ==
  /\ ~Free(a) /\ faults + spoils < MaxFaults /\ faults' = faults + 1
  /\ UNCHANGED <<tfile, tback, mfile, mback, live, context, mark, directive, names, spoils,
                 last, named, overlapped, bare, shrunk, runs>>
  /\ \/ writing[a].left = SaveAll /\ Moves(a, FromText) /\ UNCHANGED refused
     \/ writing[a].left = FromText /\ Stops(a) /\ UNCHANGED refused
     \/ writing[a].left = SaveMeta /\ Moves(a, OneLeft) /\ UNCHANGED refused
     \/ /\ writing[a].left = OneLeft /\ Stops(a)
        /\ refused' = (refused \/ writing[a].kind = "take")

LEMMA FailsIs ==
  ASSUME Typed, NEW a \in Actors, WriteFails(a)
  PROVE  Fails(a)
<1>1. /\ ~Free(a) /\ faults + spoils < MaxFaults /\ faults' = faults + 1
      /\ UNCHANGED <<tfile, tback, mfile, mback, live, context, mark, directive, names, spoils,
                     last, named, overlapped, bare, shrunk, runs>>
  BY DEF WriteFails, files
<1>2. writing[a].left \in {SaveAll, FromText, SaveMeta, OneLeft}
  BY <1>1, PlanIs, Lefts DEF Typed
<1>3. refused \in BOOLEAN
  BY Zenon DEF Typed, HistoryTyped
<1>4. PICK step : step = Head(writing[a].left)
  OBVIOUS
<1>5. /\ writing' = [writing EXCEPT ![a] =
                       IF step \in {"tback", "mback"}
                         THEN [writing[a] EXCEPT !.left = Tail(@)] ELSE Idle]
      /\ refused' = (refused \/ (step = "mfile" /\ writing[a].kind = "take"))
  BY <1>4 DEF WriteFails
<1>6. CASE writing[a].left = SaveAll
  <2>1. step = "tback" /\ Tail(writing[a].left) = FromText
    BY <1>4, <1>6, Lefts
  <2>2. UNCHANGED refused
    BY <1>3, <1>5, <2>1
  <2>3. writing' = [writing EXCEPT ![a] = [writing[a] EXCEPT !.left = FromText]]
    BY <1>5, <2>1
  <2>4. Moves(a, FromText)
    BY <2>3 DEF Moves
  <2>5. QED
    BY <1>1, <1>6, <2>2, <2>4 DEF Fails
<1>7. CASE writing[a].left = FromText
  <2>1. step = "tfile"
    BY <1>4, <1>7, Lefts
  <2>2. Stops(a) /\ UNCHANGED refused
    BY <1>3, <1>5, <2>1 DEF Stops
  <2>3. QED
    BY <1>1, <1>7, <2>2 DEF Fails
<1>8. CASE writing[a].left = SaveMeta
  <2>1. step = "mback" /\ Tail(writing[a].left) = OneLeft
    BY <1>4, <1>8, Lefts
  <2>2. UNCHANGED refused
    BY <1>3, <1>5, <2>1
  <2>3. writing' = [writing EXCEPT ![a] = [writing[a] EXCEPT !.left = OneLeft]]
    BY <1>5, <2>1
  <2>4. Moves(a, OneLeft)
    BY <2>3 DEF Moves
  <2>5. QED
    BY <1>1, <1>8, <2>2, <2>4 DEF Fails
<1>9. CASE writing[a].left = OneLeft
  <2>1. step = "mfile"
    BY <1>4, <1>9, Lefts
  <2>2. Stops(a) /\ refused' = (refused \/ writing[a].kind = "take")
    BY <1>5, <2>1 DEF Stops
  <2>3. QED
    BY <1>1, <1>9, <2>2 DEF Fails
<1>10. QED
  BY <1>2, <1>6, <1>7, <1>8, <1>9

LEMMA PlanTypes ==
  ASSUME NEW m \in Metadata
  PROVE  /\ \A t \in Seq(Messages), kind \in {"repair", "save"} :
              /\ Plan(SaveAll, t, m, kind) \in Plans
              /\ Plan(SaveAll, t, m, kind).left = SaveAll /\ Plan(SaveAll, t, m, kind).t = t
              /\ Plan(SaveAll, t, m, kind).m = m /\ Plan(SaveAll, t, m, kind).kind = kind
         /\ \A kind \in {"take", "rename"} :
              /\ Plan(SaveMeta, <<>>, m, kind) \in Plans
              /\ Plan(SaveMeta, <<>>, m, kind).left = SaveMeta
              /\ Plan(SaveMeta, <<>>, m, kind).m = m /\ Plan(SaveMeta, <<>>, m, kind).kind = kind
BY Lefts DEF Plan, Plans

\* Everything but the live process and what is being written.
Stay == UNCHANGED <<tfile, tback, mfile, mback, names, faults, spoils, last, named, overlapped,
                    refused, bare>>

Boots ==
  /\ live = "down" /\ live' = "booting" /\ context' \in Seq(Messages)
  /\ Stay /\ UNCHANGED <<mark, directive, shrunk, runs>>
  /\ \/ Planned("live", Plan(SaveAll, context', metadata, "repair"))
     \/ Stops("live") /\ context' = transcript

LEMMA BootIs ==
  ASSUME Typed, Boot
  PROVE  Boots
<1>1. live = "down" /\ live' = "booting" /\ Stay /\ UNCHANGED <<mark, directive, shrunk, runs>>
  BY DEF Boot, Stay, files, counts, history
<1>2. context' \in Seq(Messages)
  BY Loaded, RepairedType DEF Boot, Typed
<1>3. CASE Damaged(transcript)
  <2>1. Planned("live", Plan(SaveAll, context', metadata, "repair"))
    BY <1>3 DEF Boot, Planned
  <2>2. QED
    BY <1>1, <1>2, <2>1 DEF Boots
<1>4. CASE ~Damaged(transcript)
  <2>1. Stops("live") /\ context' = transcript
    BY <1>4 DEF Boot, Stops, Repaired
  <2>2. QED
    BY <1>1, <1>2, <2>1 DEF Boots
<1>5. QED
  BY <1>3, <1>4

Takes ==
  /\ live = "booting" /\ Free("live") /\ live' = "starting"
  /\ directive' = metadata.directive
  /\ Stay /\ UNCHANGED <<context, mark, shrunk, runs>>
  /\ \/ /\ metadata.directive
        /\ Planned("live", Plan(SaveMeta, <<>>, [metadata EXCEPT !.directive = FALSE], "take"))
     \/ ~metadata.directive /\ Stops("live")

LEMMA TakeIs ==
  ASSUME Take
  PROVE  Takes
<1>1. /\ live = "booting" /\ Free("live") /\ live' = "starting"
      /\ directive' = metadata.directive
      /\ Stay /\ UNCHANGED <<context, mark, shrunk, runs>>
  BY DEF Take, Stay, files, counts, history
<1>2. CASE metadata.directive
  <2>1. Planned("live", Plan(SaveMeta, <<>>, [metadata EXCEPT !.directive = FALSE], "take"))
    BY <1>2 DEF Take, Planned
  <2>2. QED
    BY <1>1, <1>2, <2>1 DEF Takes
<1>3. CASE ~metadata.directive
  <2>1. Stops("live")
    BY <1>3 DEF Take, Stops
  <2>2. QED
    BY <1>1, <1>3, <2>1 DEF Takes
<1>4. QED
  BY <1>2, <1>3

Starts ==
  /\ live = "starting" /\ Free("live") /\ Stay /\ UNCHANGED <<writing, runs>>
  /\ \/ Gone
     \/ live' = "idle" /\ UNCHANGED <<context, mark, directive, shrunk>>

LEMMA StartIs ==
  ASSUME Start
  PROVE  Starts
BY DEF Start, Starts, Stay, files, counts

\* A message is added.
Grown == \E m \in Messages : context' = Append(context, m)

LEMMA GrownIs ==
  ASSUME ProcessTyped, Grown
  PROVE  /\ context' \in Seq(Messages) /\ Len(context') = Len(context) + 1
         /\ \A i \in 1 .. Len(context) : context'[i] = context[i]
<1>1. PICK m \in Messages : context' = Append(context, m)
  BY DEF Grown
<1>2. context \in Seq(Messages)
  BY DEF ProcessTyped
<1>3. QED
  BY <1>1, <1>2

LEMMA MessageTypes ==
  /\ \A role \in {"user", "assistant", "tool"} : Says(role) \in Messages
  /\ \A X \in SUBSET Ids : Calling(X) \in Messages
  /\ \A role \in {"user", "assistant", "tool"}, x \in Ids : Result(role, x) \in Messages
<1>1. \A role \in {"user", "assistant", "tool"} : Says(role) \in Messages
  BY DEF Says, Messages
<1>2. \A X \in SUBSET Ids : Calling(X) \in Messages
  BY <1>1 DEF Calling, Messages
<1>3. \A role \in {"user", "assistant", "tool"}, x \in Ids : Result(role, x) \in Messages
  <2>1. TAKE role \in {"user", "assistant", "tool"}, x \in Ids
  <2>2. {x} \in SUBSET Ids
    BY <2>1
  <2>3. Says(role) \in Messages
    BY <1>1, <2>1
  <2>4. QED
    BY <2>2, <2>3 DEF Result, Messages
<1>4. QED
  BY <1>1, <1>2, <1>3

LEMMA CalledType ==
  ASSUME ProcessTyped
  PROVE  Called(context) \in SUBSET Ids
<1>1. context \in Seq(Messages)
  BY DEF ProcessTyped
<1>2. \A i \in DOMAIN context : context[i] \in Messages
  BY <1>1
<1>3. \A i \in DOMAIN context : context[i].calls \in SUBSET Ids
  BY <1>2 DEF Messages
<1>4. QED
  BY <1>3 DEF Called

Turns ==
  /\ live = "idle" /\ Free("live") /\ Grown /\ live' = "turn" /\ directive' = FALSE
  /\ runs' = (IF directive THEN runs + 1 ELSE runs)
  /\ Stay /\ UNCHANGED <<mark, writing, shrunk>>

LEMMA TurnIs ==
  ASSUME Turn
  PROVE  Turns
<1>1. Grown
  BY MessageTypes DEF Turn, Grow, Grown
<1>2. QED
  BY <1>1 DEF Turn, Turns, Stay, files, counts

Calls ==
  /\ live = "turn" /\ Free("live") /\ Grown
  /\ Stay /\ UNCHANGED <<live, mark, directive, writing, shrunk, runs>>

LEMMA CallIs ==
  ASSUME Typed, Call
  PROVE  Calls
<1>1. PICK X \in SUBSET (Ids \ Called(context)) : Grow(Calling(X))
  BY DEF Call
<1>2. X \in SUBSET Ids
  OBVIOUS
<1>3. Grown
  BY <1>1, <1>2, MessageTypes DEF Grow, Grown
<1>4. QED
  BY <1>3 DEF Call, Calls, Stay, files, counts, history

\* A result comes, or the turn ends.
Saves ==
  /\ live = "turn" /\ Free("live") /\ Grown /\ live' \in {"turn", "idle"}
  /\ Stay /\ UNCHANGED <<mark, directive, shrunk, runs>>
  /\ \/ Planned("live", Plan(SaveAll, context', metadata, "save"))
     \/ ~ (Len(context') > mark) /\ UNCHANGED writing

LEMMA SavedIs ==
  ASSUME Saved
  PROVE  \/ Planned("live", Plan(SaveAll, context', metadata, "save"))
         \/ ~ (Len(context') > mark) /\ UNCHANGED writing
BY DEF Saved, Planned

LEMMA ReturnIs ==
  ASSUME Typed, Return
  PROVE  Saves
<1>1. PICK x \in Called(context) \ Answered(context), role \in {"tool", "user"} :
        Grow(Result(role, x))
  BY DEF Return
<1>2. x \in Ids
  BY <1>1, CalledType DEF Typed
<1>3. Grown
  BY <1>1, <1>2, MessageTypes DEF Grow, Grown
<1>4. QED
  BY <1>3, SavedIs DEF Return, Saves, Stay, files, counts, history

LEMMA EndIs ==
  ASSUME End
  PROVE  Saves
<1>1. Grown
  BY MessageTypes DEF End, Grow, Grown
<1>2. QED
  BY <1>1, SavedIs DEF End, Saves, Stay, files, counts, history

Clears ==
  /\ live = "idle" /\ Free("live") /\ context' = <<>> /\ shrunk' = TRUE
  /\ Stay /\ UNCHANGED <<live, mark, directive, writing, runs>>

LEMMA ClearIs ==
  ASSUME Clear
  PROVE  Clears
BY DEF Clear, Clears, Stay, files, counts

Renames(a) ==
  /\ Free(a) /\ names < MaxNames
  /\ a = "live" => live \in {"idle", "turn"}
  /\ names' = names + 1
  /\ Planned(a, Plan(SaveMeta, <<>>, [metadata EXCEPT !.name = names + 1], "rename"))
  /\ UNCHANGED <<tfile, tback, mfile, mback, live, context, mark, directive, faults, spoils,
                 last, named, overlapped, refused, bare, shrunk, runs>>

LEMMA RenameIs ==
  ASSUME NEW a \in Actors, Rename(a)
  PROVE  Renames(a)
BY DEF Rename, Renames, Planned, files, history

Crashes(a) ==
  /\ faults + spoils < MaxFaults /\ faults' = faults + 1 /\ Stops(a)
  /\ IF a = "live" THEN Gone ELSE UNCHANGED <<live, context, mark, directive, shrunk>>
  /\ UNCHANGED <<tfile, tback, mfile, mback, names, spoils, last, named, overlapped, refused,
                 bare, runs>>

LEMMA CrashIs ==
  ASSUME NEW a \in Actors, Crash(a)
  PROVE  Crashes(a)
BY DEF Crash, Crashes, Stops, files

Spoils ==
  /\ faults + spoils < MaxFaults /\ spoils' = spoils + 1
  /\ UNCHANGED <<live, context, mark, directive, writing, names, faults,
                 last, named, overlapped, refused, shrunk, runs>>
  /\ \/ /\ tfile' = Bad /\ (bare' = (bare \/ ~Readable(tback)))
        /\ UNCHANGED <<tback, mfile, mback>>
     \/ /\ mfile' = Bad /\ (bare' = (bare \/ ~Readable(mback)))
        /\ UNCHANGED <<tfile, tback, mback>>

LEMMA SpoilIs ==
  ASSUME Spoil
  PROVE  Spoils
BY DEF Spoil, Spoils

\* The steps by what they do.
Step ==
  \/ Boots \/ Takes \/ Starts \/ Turns \/ Calls \/ Saves \/ Clears \/ Spoils
  \/ \E a \in Actors : Writes(a) \/ Fails(a) \/ Renames(a) \/ Crashes(a)
  \/ UNCHANGED vars

LEMMA Steps ==
  ASSUME Typed, [Next]_vars
  PROVE  Step
<1>1. CASE Next
  BY <1>1, BootIs, TakeIs, StartIs, TurnIs, CallIs, ReturnIs, EndIs, ClearIs, SpoilIs, WriteIs,
     FailsIs, RenameIs, CrashIs, Zenon DEF Next, Step
<1>2. CASE UNCHANGED vars
  BY <1>2 DEF Step
<1>3. QED
  BY <1>1, <1>2

\* What the plans become.
Plain == writing' \in [Actors -> {Idle} \cup Plans]
Others(a) == \A b \in Actors \ {a} : writing'[b] = writing[b]
Newly(a, left, m, kind) ==
  /\ ~Free(a)' /\ writing'[a].left = left /\ writing'[a].m = m /\ writing'[a].kind = kind

LEMMA LiveAndShell ==
  /\ Actors = {"live", "shell"} /\ "live" \in Actors /\ "shell" \in Actors
  /\ "shell" \in Actors \ {"live"} /\ "live" \in Actors \ {"shell"}
BY DEF Actors

LEMMA BootsPlans ==
  ASSUME Typed, Boots
  PROVE  /\ Plain /\ Others("live")
         /\ \/ Newly("live", SaveAll, metadata, "repair") /\ writing'["live"].t = context'
            \/ Free("live")' /\ context' = transcript
<1>1. CASE Planned("live", Plan(SaveAll, context', metadata, "repair"))
  <2>1. PICK w \in Plans : /\ w = Plan(SaveAll, context', metadata, "repair")
                           /\ w.left = SaveAll /\ w.t = context' /\ w.m = metadata
                           /\ w.kind = "repair"
    <3>1. metadata \in Metadata /\ context' \in Seq(Messages)
      BY Loaded DEF Boots, Typed
    <3>2. QED
      BY <3>1, PlanTypes
  <2>2. Planned("live", w)
    BY <1>1, <2>1
  <2>3. QED
    BY <2>1, <2>2, PlannedIs, LiveAndShell DEF Typed, Plain, Others, Newly
<1>2. CASE Stops("live") /\ context' = transcript
  BY <1>2, StopsIs, LiveAndShell DEF Typed, Plain, Others
<1>3. QED
  BY <1>1, <1>2 DEF Boots

LEMMA TakesPlans ==
  ASSUME Typed, Takes
  PROVE  /\ Plain /\ Others("live")
         /\ \/ /\ Newly("live", SaveMeta, [metadata EXCEPT !.directive = FALSE], "take")
               /\ metadata.directive
            \/ Free("live")' /\ ~metadata.directive
<1>1. CASE /\ metadata.directive
           /\ Planned("live", Plan(SaveMeta, <<>>, [metadata EXCEPT !.directive = FALSE], "take"))
  <2>1. PICK m \in Metadata : m = [metadata EXCEPT !.directive = FALSE]
    BY Loaded DEF Typed, Metadata
  <2>2. PICK w \in Plans : /\ w = Plan(SaveMeta, <<>>, m, "take")
                           /\ w.left = SaveMeta /\ w.m = m /\ w.kind = "take"
    BY PlanTypes
  <2>3. Planned("live", w)
    BY <1>1, <2>1, <2>2
  <2>4. Plain /\ Others("live") /\ Newly("live", SaveMeta, m, "take")
    BY <2>2, <2>3, PlannedIs, LiveAndShell DEF Typed, Plain, Others, Newly
  <2>5. QED
    BY <1>1, <2>1, <2>4
<1>2. CASE ~metadata.directive /\ Stops("live")
  BY <1>2, StopsIs, LiveAndShell DEF Typed, Plain, Others
<1>3. QED
  BY <1>1, <1>2 DEF Takes

LEMMA SavesPlans ==
  ASSUME Typed, Saves
  PROVE  /\ Plain /\ Others("live")
         /\ \/ Newly("live", SaveAll, metadata, "save") /\ writing'["live"].t = context'
            \/ ~ (Len(context') > mark) /\ UNCHANGED writing /\ Free("live")'
<1>1. CASE Planned("live", Plan(SaveAll, context', metadata, "save"))
  <2>1. PICK w \in Plans : /\ w = Plan(SaveAll, context', metadata, "save")
                           /\ w.left = SaveAll /\ w.t = context' /\ w.m = metadata
                           /\ w.kind = "save"
    <3>1. metadata \in Metadata /\ context' \in Seq(Messages)
      BY Loaded, GrownIs DEF Saves, Typed
    <3>2. QED
      BY <3>1, PlanTypes
  <2>2. Planned("live", w)
    BY <1>1, <2>1
  <2>3. QED
    BY <2>1, <2>2, PlannedIs, LiveAndShell DEF Typed, Plain, Others, Newly
<1>2. CASE ~ (Len(context') > mark) /\ UNCHANGED writing
  <2>1. Free("live")'
    BY <1>2 DEF Saves, Free
  <2>2. Plain /\ Others("live")
    BY <1>2 DEF Typed, FilesTyped, Plain, Others
  <2>3. QED
    BY <1>2, <2>1, <2>2
<1>3. QED
  BY <1>1, <1>2 DEF Saves

LEMMA RenamesPlans ==
  ASSUME Typed, NEW a \in Actors, Renames(a)
  PROVE  /\ Plain /\ Others(a)
         /\ Newly(a, SaveMeta, [metadata EXCEPT !.name = names + 1], "rename")
         /\ names + 1 \in 0 .. MaxNames
<1>0. names + 1 \in 0 .. MaxNames
  BY FilesAssumption DEF Typed, CountsTyped, Renames
<1>1. PICK m \in Metadata : m = [metadata EXCEPT !.name = names + 1]
  BY <1>0, Loaded DEF Typed, Metadata
<1>2. PICK w \in Plans : /\ w = Plan(SaveMeta, <<>>, m, "rename")
                         /\ w.left = SaveMeta /\ w.m = m /\ w.kind = "rename"
  BY PlanTypes
<1>3. Planned(a, w)
  BY <1>1, <1>2 DEF Renames
<1>4. QED
  BY <1>0, <1>1, <1>2, <1>3, PlannedIs DEF Typed, Plain, Others, Newly

\* The next write is done, or done without.
Advances(a) ==
  \/ /\ writing[a].left = SaveAll /\ ~Free(a)' /\ writing'[a].left = FromText
     /\ writing'[a].t = writing[a].t
     /\ writing'[a].m = writing[a].m /\ writing'[a].kind = writing[a].kind
  \/ /\ writing[a].left = FromText /\ ~Free(a)' /\ writing'[a].left = SaveMeta
     /\ writing'[a].t = writing[a].t
     /\ writing'[a].m = writing[a].m /\ writing'[a].kind = writing[a].kind
  \/ /\ writing[a].left = SaveMeta /\ ~Free(a)' /\ writing'[a].left = OneLeft
     /\ writing'[a].t = writing[a].t
     /\ writing'[a].m = writing[a].m /\ writing'[a].kind = writing[a].kind
  \/ writing[a].left \in {FromText, OneLeft} /\ Free(a)'

LEMMA AdvancesIs ==
  ASSUME Typed, NEW a \in Actors, Writes(a) \/ Fails(a)
  PROVE  Plain /\ Others(a) /\ Advances(a)
<1>0. FilesTyped /\ ~Free(a)
  BY DEF Typed, Writes, Fails
<1>1. CASE writing[a].left = SaveAll /\ Moves(a, FromText)
  <2>1. Plain /\ Others(a) /\ ~Free(a)' /\ writing'[a].left = FromText
        /\ writing'[a].t = writing[a].t
        /\ writing'[a].m = writing[a].m /\ writing'[a].kind = writing[a].kind
    BY <1>0, <1>1, MovesIs, Lefts DEF Plain, Others, Free
  <2>2. QED
    BY <1>1, <2>1 DEF Advances
<1>2. CASE writing[a].left = FromText /\ Moves(a, SaveMeta)
  <2>1. Plain /\ Others(a) /\ ~Free(a)' /\ writing'[a].left = SaveMeta
        /\ writing'[a].t = writing[a].t
        /\ writing'[a].m = writing[a].m /\ writing'[a].kind = writing[a].kind
    BY <1>0, <1>2, MovesIs, Lefts DEF Plain, Others, Free
  <2>2. QED
    BY <1>2, <2>1 DEF Advances
<1>3. CASE writing[a].left = SaveMeta /\ Moves(a, OneLeft)
  <2>1. Plain /\ Others(a) /\ ~Free(a)' /\ writing'[a].left = OneLeft
        /\ writing'[a].t = writing[a].t
        /\ writing'[a].m = writing[a].m /\ writing'[a].kind = writing[a].kind
    BY <1>0, <1>3, MovesIs, Lefts DEF Plain, Others, Free
  <2>2. QED
    BY <1>3, <2>1 DEF Advances
<1>4. CASE writing[a].left \in {FromText, OneLeft} /\ Stops(a)
  BY <1>0, <1>4, StopsIs DEF Plain, Others, Advances
<1>5. QED
  BY <1>1, <1>2, <1>3, <1>4 DEF Writes, Fails

LEMMA PlanFacts ==
  ASSUME Typed, NEW a \in Actors, ~Free(a)
  PROVE  /\ writing[a].m \in Metadata /\ writing[a].t \in Seq(Messages)
         /\ writing[a].left \in {SaveAll, FromText, SaveMeta, OneLeft}
         /\ writing[a].kind \in {"repair", "save", "take", "rename"}
         /\ writing[a].left \in {SaveAll, FromText} => writing[a].kind \in {"repair", "save"}
         /\ writing[a].kind = "repair" => a = "live"
         /\ writing[a].kind = "save" => a = "live"
         /\ writing[a].kind = "take" => a = "live"
<1>1. writing[a] \in Plans /\ writing[a].left \in {SaveAll, FromText, SaveMeta, OneLeft}
  BY PlanIs, Lefts DEF Typed
<1>2. <<>> \in Seq(Messages)
  OBVIOUS
<1>3. \A w \in Plans :
         /\ w.m \in Metadata /\ w.t \in Seq(Messages)
         /\ w.kind \in {"repair", "save", "take", "rename"}
         /\ w.kind \in {"repair", "save"} \/ w.left \in MetaLeft
  BY <1>2 DEF Plans
<1>4. a # "live" => writing[a].kind = "rename"
  BY DEF Typed, FilesTyped, Actors
<1>5. QED
  BY <1>1, <1>3, <1>4, Lefts

LEMMA GoneTypes ==
  ASSUME Gone
  PROVE  ProcessTyped'
<1>1. <<>> \in Seq(Messages)
  OBVIOUS
<1>2. context' \in Seq(Messages) /\ mark' \in Nat
  BY <1>1 DEF Gone
<1>3. live' = "down" /\ directive' = FALSE
  BY DEF Gone
<1>4. QED
  BY <1>2, <1>3 DEF ProcessTyped

LEMMA TypedStep ==
  ASSUME Typed, Step
  PROVE  Typed'
<1> USE LiveAndShell
<1>t. FilesTyped /\ ProcessTyped /\ CountsTyped /\ HistoryTyped
  BY DEF Typed
<1>w. ~Free("shell") => writing["shell"].kind = "rename"
  BY <1>t DEF FilesTyped
<1>1. CASE Boots
  <2>1. FilesTyped'
    BY <1>1, <1>t, <1>w, BootsPlans DEF FilesTyped, Boots, Stay, Plain, Others, Free
  <2>2. ProcessTyped' /\ CountsTyped' /\ HistoryTyped'
    BY <1>1, <1>t DEF ProcessTyped, CountsTyped, HistoryTyped, Boots, Stay
  <2>3. QED
    BY <2>1, <2>2 DEF Typed
<1>2. CASE Takes
  <2>1. FilesTyped'
    BY <1>2, <1>t, <1>w, TakesPlans DEF FilesTyped, Takes, Stay, Plain, Others, Free
  <2>2. CountsTyped' /\ HistoryTyped'
    BY <1>2, <1>t DEF CountsTyped, HistoryTyped, Takes, Stay
  <2>3. metadata.directive \in BOOLEAN
    BY <1>t, Loaded, Zenon DEF Metadata
  <2>4. directive' \in BOOLEAN
    BY <1>2, <2>3 DEF Takes
  <2>5. ProcessTyped'
    BY <1>2, <1>t, <2>4 DEF ProcessTyped, Takes
  <2>6. QED
    BY <2>1, <2>2, <2>5 DEF Typed
<1>3. CASE Starts
  <2>1. FilesTyped' /\ CountsTyped'
    BY <1>3, <1>t DEF FilesTyped, CountsTyped, Starts, Stay, Free
  <2>a. \/ shrunk' = FALSE /\ directive' = FALSE
        \/ shrunk' = shrunk /\ directive' = directive
    BY <1>3 DEF Starts, Gone
  <2>2. shrunk' \in BOOLEAN /\ directive' \in BOOLEAN
    BY <1>t, <2>a, Zenon DEF ProcessTyped, HistoryTyped
  <2>3. HistoryTyped'
    BY <1>3, <1>t, <2>2 DEF HistoryTyped, Starts, Stay
  <2>4. live' = "idle" /\ UNCHANGED <<context, mark, directive>> => ProcessTyped'
    BY <1>t DEF ProcessTyped
  <2>5. ProcessTyped'
    BY <1>3, <2>4, GoneTypes DEF Starts
  <2>6. QED
    BY <2>1, <2>3, <2>5 DEF Typed
<1>4. CASE Turns
  <2>1. FilesTyped' /\ CountsTyped'
    BY <1>4, <1>t DEF FilesTyped, CountsTyped, Turns, Stay, Free
  <2>2. context' \in Seq(Messages)
    BY <1>4, <1>t, GrownIs DEF Turns
  <2>a. ProcessTyped'
    BY <1>4, <1>t, <2>2 DEF ProcessTyped, Turns
  <2>b. runs' \in Nat
    BY <1>4, <1>t DEF HistoryTyped, Turns
  <2>c. HistoryTyped'
    BY <1>4, <1>t, <2>b DEF HistoryTyped, Turns, Stay
  <2>3. QED
    BY <2>1, <2>a, <2>c DEF Typed
<1>5. CASE Calls
  <2>1. FilesTyped' /\ CountsTyped'
    BY <1>5, <1>t DEF FilesTyped, CountsTyped, Calls, Stay, Free
  <2>2. ProcessTyped' /\ HistoryTyped'
    BY <1>5, <1>t, GrownIs DEF ProcessTyped, HistoryTyped, Calls, Stay
  <2>3. QED
    BY <2>1, <2>2 DEF Typed
<1>6. CASE Saves
  <2>1. FilesTyped'
    BY <1>6, <1>t, <1>w, SavesPlans DEF FilesTyped, Saves, Stay, Plain, Others, Free
  <2>2. ProcessTyped' /\ CountsTyped' /\ HistoryTyped'
    BY <1>6, <1>t, GrownIs DEF ProcessTyped, CountsTyped, HistoryTyped, Saves, Stay
  <2>3. QED
    BY <2>1, <2>2 DEF Typed
<1>7. CASE Clears
  <2>1. FilesTyped' /\ CountsTyped'
    BY <1>7, <1>t DEF FilesTyped, CountsTyped, Clears, Stay, Free
  <2>2. ProcessTyped' /\ HistoryTyped'
    BY <1>7, <1>t DEF ProcessTyped, HistoryTyped, Clears, Stay
  <2>3. QED
    BY <2>1, <2>2 DEF Typed
<1>8. CASE Spoils
  <2>1. Bad \in MetaFiles /\ Bad \in TextFiles
    BY DEF MetaFiles, TextFiles
  <2>2. FilesTyped'
    BY <1>8, <1>t, <2>1 DEF FilesTyped, Spoils, Free
  <2>3. CountsTyped' /\ ProcessTyped'
    BY <1>8, <1>t, FilesAssumption DEF CountsTyped, ProcessTyped, Spoils
  <2>4. bare' \in BOOLEAN
    BY <1>8, <1>t, Zenon DEF HistoryTyped, Spoils
  <2>5. HistoryTyped'
    BY <1>8, <1>t, <2>4 DEF HistoryTyped, Spoils
  <2>6. QED
    BY <2>2, <2>3, <2>5 DEF Typed
<1>9. ASSUME NEW a \in Actors, Writes(a)
      PROVE  Typed'
  <2>0. ~Free(a)
    BY <1>9 DEF Writes
  <2>m. Holding(writing[a].m) \in MetaFiles /\ Holding(writing[a].t) \in TextFiles
    BY <2>0, PlanFacts, FileIs
  <2>1. {mfile, mback, mfile', mback'} \subseteq MetaFiles
    <3>1. mfile \in MetaFiles /\ mback \in MetaFiles
      BY <1>t DEF FilesTyped
    <3>2. mfile' \in {mfile, Holding(writing[a].m)} /\ mback' \in {mback, mfile}
      BY <1>9 DEF Writes
    <3>3. QED
      BY <2>m, <3>1, <3>2
  <2>2. {tfile, tback, tfile', tback'} \subseteq TextFiles
    <3>1. tfile \in TextFiles /\ tback \in TextFiles
      BY <1>t DEF FilesTyped
    <3>2. tfile' \in {tfile, Holding(writing[a].t)} /\ tback' \in {tback, tfile}
      BY <1>9 DEF Writes
    <3>3. QED
      BY <2>m, <3>1, <3>2
  <2>3. ~Free("shell")' => writing'["shell"].kind = "rename"
    BY <1>9, <1>w, <2>0, AdvancesIs DEF Others, Advances, Free, Actors
  <2>4. FilesTyped'
    BY <1>9, <2>1, <2>2, <2>3, AdvancesIs DEF FilesTyped, Plain
  <2>5. CountsTyped'
    BY <1>9, <1>t DEF CountsTyped, Writes
  <2>6. mark' \in Nat /\ named' \in 0 .. MaxNames
    <3>1. Len(writing[a].t) \in Nat
      BY <2>0, PlanFacts
    <3>2. writing[a].m.name \in 0 .. MaxNames
      BY <2>0, PlanFacts, Zenon DEF Metadata
    <3>3. mark' \in {mark, Len(writing[a].t)} /\ named' \in {named, writing[a].m.name}
      BY <1>9 DEF Writes
    <3>4. mark \in Nat /\ named \in 0 .. MaxNames
      BY <1>t DEF ProcessTyped, HistoryTyped
    <3>5. QED
      BY <3>1, <3>2, <3>3, <3>4
  <2>7. ProcessTyped'
    BY <1>9, <1>t, <2>6 DEF ProcessTyped, Writes
  <2>8. last' \in Seq(Messages) \X Seq(Messages)
    <3>1. last[1] \in Seq(Messages) /\ writing[a].t \in Seq(Messages)
      BY <1>t, <2>0, PlanFacts DEF HistoryTyped
    <3>2. last' = last \/ last' = <<writing[a].t, last[1]>>
      BY <1>9 DEF Writes
    <3>3. QED
      BY <1>t, <3>1, <3>2 DEF HistoryTyped
  <2>9. shrunk' \in BOOLEAN /\ overlapped' \in BOOLEAN
    BY <1>9, <1>t, Zenon DEF Writes, HistoryTyped
  <2>10. HistoryTyped'
    BY <1>9, <1>t, <2>6, <2>8, <2>9 DEF HistoryTyped, Writes
  <2>11. QED
    BY <2>4, <2>5, <2>7, <2>10 DEF Typed
<1>10. ASSUME NEW a \in Actors, Fails(a)
       PROVE  Typed'
  <2>1. ~Free("shell")' => writing'["shell"].kind = "rename"
    BY <1>10, <1>w, AdvancesIs DEF Others, Advances, Free, Actors, Fails
  <2>2. FilesTyped'
    BY <1>10, <1>t, <2>1, AdvancesIs DEF FilesTyped, Plain, Fails
  <2>3. CountsTyped' /\ ProcessTyped'
    BY <1>10, <1>t, FilesAssumption DEF CountsTyped, ProcessTyped, Fails
  <2>4. refused' \in BOOLEAN
    BY <1>10, <1>t, Zenon DEF HistoryTyped, Fails
  <2>5. HistoryTyped'
    BY <1>10, <1>t, <2>4 DEF HistoryTyped, Fails
  <2>6. QED
    BY <2>2, <2>3, <2>5 DEF Typed
<1>11. ASSUME NEW a \in Actors, Renames(a)
       PROVE  Typed'
  <2>1. ~Free("shell")' => writing'["shell"].kind = "rename"
    BY <1>11, <1>w, RenamesPlans DEF Others, Newly, Free, Actors
  <2>2. FilesTyped'
    BY <1>11, <1>t, <2>1, RenamesPlans DEF FilesTyped, Plain, Renames
  <2>3. CountsTyped' /\ ProcessTyped' /\ HistoryTyped'
    BY <1>11, <1>t, RenamesPlans DEF CountsTyped, ProcessTyped, HistoryTyped, Renames
  <2>4. QED
    BY <2>2, <2>3 DEF Typed
<1>12. ASSUME NEW a \in Actors, Crashes(a)
       PROVE  Typed'
  <2>1. Plain /\ Others(a) /\ Free(a)'
    BY <1>12, <1>t, StopsIs DEF Plain, Others, Crashes
  <2>2. ~Free("shell")' => writing'["shell"].kind = "rename"
    BY <1>w, <2>1 DEF Others, Free, Actors
  <2>3. FilesTyped'
    BY <1>12, <1>t, <2>1, <2>2 DEF FilesTyped, Plain, Crashes
  <2>4. CountsTyped'
    BY <1>12, <1>t, FilesAssumption DEF CountsTyped, Crashes
  <2>b. \/ shrunk' = FALSE /\ directive' = FALSE
        \/ shrunk' = shrunk /\ directive' = directive
    BY <1>12 DEF Crashes, Gone
  <2>5. shrunk' \in BOOLEAN /\ directive' \in BOOLEAN
    BY <1>t, <2>b, Zenon DEF ProcessTyped, HistoryTyped
  <2>6. UNCHANGED <<live, context, mark, directive>> => ProcessTyped'
    BY <1>t DEF ProcessTyped
  <2>7. ProcessTyped'
    BY <1>12, <2>6, GoneTypes DEF Crashes
  <2>8. HistoryTyped'
    BY <1>12, <1>t, <2>5 DEF HistoryTyped, Crashes
  <2>9. QED
    BY <2>3, <2>4, <2>7, <2>8 DEF Typed
<1>13. CASE UNCHANGED vars
  BY <1>13, <1>t DEF vars, files, counts, history, Typed, FilesTyped, ProcessTyped, CountsTyped,
     HistoryTyped, Free
<1>14. QED
  BY <1>1, <1>2, <1>3, <1>4, <1>5, <1>6, <1>7, <1>8, <1>9, <1>10, <1>11, <1>12, <1>13 DEF Step

\* An actor's plan is where it was.
Same(a) == writing'[a] = writing[a] /\ (Free(a)' <=> Free(a))

LEMMA SameIs ==
  ASSUME NEW a \in Actors, Others(a)
  PROVE  \A b \in Actors \ {a} : Same(b)
BY DEF Others, Same, Free

\* Of the live process: it goes on with its plan, or ends it.
GoesOn(a) ==
  \/ Same(a)
  \/ Free(a)' /\ ~Free(a) /\ writing[a].left \in {FromText, OneLeft}
  \/ /\ ~Free(a)' /\ ~Free(a) /\ writing'[a].t = writing[a].t
     /\ writing'[a].m = writing[a].m /\ writing'[a].kind = writing[a].kind
     /\ \/ writing[a].left = SaveAll /\ writing'[a].left = FromText
        \/ writing[a].left = FromText /\ writing'[a].left = SaveMeta
        \/ writing[a].left = SaveMeta /\ writing'[a].left = OneLeft

LEMMA GoesOnIs ==
  ASSUME Typed, NEW a \in Actors, Writes(a) \/ Fails(a)
  PROVE  \A b \in Actors : GoesOn(b) /\ (b # a => Same(b))
<1>1. ~Free(a)
  BY DEF Writes, Fails
<1>2. GoesOn(a)
  BY <1>1, AdvancesIs DEF Advances, GoesOn
<1>3. \A b \in Actors \ {a} : Same(b)
  BY AdvancesIs, SameIs
<1>4. QED
  BY <1>2, <1>3 DEF GoesOn

LEMMA StandingStep ==
  ASSUME Typed, Standing, Step
  PROVE  Standing'
<1> USE LiveAndShell
<1>k. /\ "repair" # "take" /\ "repair" # "save" /\ "repair" # "rename" /\ "take" # "save"
      /\ "take" # "rename" /\ "save" # "rename"
  OBVIOUS
<1>b. shrunk \in BOOLEAN /\ directive \in BOOLEAN
  BY Zenon DEF Typed, ProcessTyped, HistoryTyped
<1>1. CASE Boots
  <2>1. mark' = 0 /\ ~shrunk' /\ ~directive' /\ live' = "booting"
    BY <1>1 DEF Boots, Standing
  <2>2. \/ ~Free("live")' /\ writing'["live"].kind = "repair" /\ writing'["live"].t = context'
        \/ Free("live")'
    BY <1>1, BootsPlans DEF Newly
  <2>3. QED
    BY <1>k, <2>1, <2>2 DEF Standing, Has
<1>2. CASE Takes
  <2>1. mark' = 0 /\ ~shrunk' /\ live' = "starting"
    BY <1>2 DEF Takes, Standing
  <2>2. (~Free("live")' /\ writing'["live"].kind = "take") \/ Free("live")'
    BY <1>2, TakesPlans DEF Newly
  <2>3. QED
    BY <1>k, <2>1, <2>2 DEF Standing, Has
<1>3. CASE Starts
  <2>1. Free("live")'
    BY <1>3 DEF Starts, Free
  <2>2. CASE Gone
    BY <2>1, <2>2 DEF Standing, Has, Gone
  <2>3. CASE live' = "idle"
    BY <2>1, <2>3 DEF Standing, Has
  <2>4. QED
    BY <1>3, <2>2, <2>3 DEF Starts
<1>4. CASE Turns
  <2>1. Free("live")' /\ live' = "turn"
    BY <1>4 DEF Turns, Free
  <2>2. QED
    BY <2>1 DEF Standing, Has
<1>5. CASE Calls
  <2>1. Free("live")' /\ live' = "turn"
    BY <1>5 DEF Calls, Free
  <2>2. QED
    BY <2>1 DEF Standing, Has
<1>6. CASE Saves
  <2>1. live' \in {"turn", "idle"}
    BY <1>6 DEF Saves
  <2>2. \/ ~Free("live")' /\ writing'["live"].kind = "save" /\ writing'["live"].t = context'
        \/ Free("live")'
    BY <1>6, SavesPlans DEF Newly
  <2>3. QED
    BY <1>k, <2>1, <2>2 DEF Standing, Has
<1>7. CASE Clears
  <2>1. Free("live")' /\ live' = "idle"
    BY <1>7 DEF Clears, Free
  <2>2. QED
    BY <2>1 DEF Standing, Has
<1>8. CASE Spoils
  BY <1>8 DEF Spoils, Standing, Has, Free
<1>9. ASSUME NEW a \in Actors, Writes(a) \/ Fails(a)
      PROVE  Standing'
  <2>1. UNCHANGED <<live, context, directive>>
    BY <1>9 DEF Writes, Fails
  <2>2. \/ mark' = mark /\ shrunk' = shrunk
        \/ a = "live" /\ writing["live"].kind = "save"
    <3>1. ~Free(a)
      BY <1>9 DEF Writes, Fails
    <3>2. writing[a].kind = "save" => a = "live"
      BY <3>1, PlanFacts
    <3>3. QED
      BY <1>b, <1>9, <3>2 DEF Writes, Fails
  <2>3. GoesOn("live")
    BY <1>9, GoesOnIs
  <2>4. ~Free(a)
    BY <1>9 DEF Writes, Fails
  <2>5. live' = "down" => Free("live")' /\ context' = <<>>
    BY <2>1, <2>3 DEF Standing, GoesOn, Same
  <2>6. live' \in {"down", "booting", "starting"} => mark' = 0 /\ ~shrunk'
    BY <1>b, <2>1, <2>2, <2>4 DEF Standing, Has
  <2>7. /\ Has("live", "repair")' => live' = "booting"
        /\ Has("live", "take")' => live' = "starting"
        /\ Has("live", "save")' \/ Has("live", "rename")' => live' \in {"idle", "turn"}
        /\ Has("live", "repair")' \/ Has("live", "save")' => writing'["live"].t = context'
    BY <2>1, <2>3 DEF Standing, Has, GoesOn, Same
  <2>8. live' \in {"down", "booting"} => ~directive'
    BY <2>1 DEF Standing
  <2>9. QED
    BY <2>5, <2>6, <2>7, <2>8 DEF Standing
<1>10. ASSUME NEW a \in Actors, Renames(a)
       PROVE  Standing'
  <2>1. UNCHANGED <<live, context, mark, directive, shrunk>>
    BY <1>10 DEF Renames
  <2>2. CASE a = "live"
    <3>1. ~Free("live")' /\ writing'["live"].kind = "rename" /\ live \in {"idle", "turn"}
      BY <1>10, <2>2, RenamesPlans DEF Renames, Newly
    <3>2. QED
      BY <1>k, <2>1, <3>1 DEF Standing, Has
  <2>3. CASE a # "live"
    <3>1. Same("live")
      BY <1>10, <2>3, RenamesPlans, SameIs
    <3>2. QED
      BY <2>1, <3>1 DEF Standing, Has, Same
  <2>4. QED
    BY <2>2, <2>3
<1>11. ASSUME NEW a \in Actors, Crashes(a)
       PROVE  Standing'
  <2>1. Free(a)' /\ Others(a)
    BY <1>11, StopsIs DEF Crashes, Others, Typed
  <2>2. CASE a = "live"
    <3>1. Free("live")' /\ Gone
      BY <1>11, <2>1, <2>2 DEF Crashes
    <3>2. QED
      BY <3>1 DEF Standing, Has, Gone
  <2>3. CASE a # "live"
    <3>1. Same("live") /\ UNCHANGED <<live, context, mark, directive, shrunk>>
      BY <1>11, <2>1, <2>3, SameIs DEF Crashes
    <3>2. QED
      BY <3>1 DEF Standing, Has, Same
  <2>4. QED
    BY <2>2, <2>3
<1>12. CASE UNCHANGED vars
  BY <1>12 DEF vars, files, counts, history, Standing, Has, Free
<1>13. QED
  BY <1>1, <1>2, <1>3, <1>4, <1>5, <1>6, <1>7, <1>8, <1>9, <1>10, <1>11, <1>12 DEF Step

\* The metadata is not written, and who has now read it has read what is there.
LEMMA MergedStays ==
  ASSUME Merged, UNCHANGED <<mfile, spoils, overlapped, named>>,
         \A a \in Actors :
           \/ Free(a)'
           \/ ~Free(a) /\ writing'[a].m = writing[a].m /\ writing'[a].kind = writing[a].kind
           \/ spoils = 0 => writing'[a].m = Changed(writing'[a])
  PROVE  Merged'
<1>1. SUFFICES ASSUME spoils = 0 PROVE Merged'
  BY DEF Merged
<1>2. Readable(mfile)' /\ Readable(mfile)
  BY <1>1 DEF Merged, Readable
<1>3. ASSUME ~overlapped'
      PROVE  /\ mfile'.content.name = named'
             /\ \A a \in Actors : ~Free(a)' => writing'[a].m = Changed(writing[a])'
  <2>1. mfile.content.name = named
    BY <1>1, <1>3 DEF Merged
  <2>2. ASSUME NEW a \in Actors, ~Free(a)'
        PROVE  writing'[a].m = Changed(writing[a])'
    <3>1. CASE ~Free(a) /\ writing'[a].m = writing[a].m /\ writing'[a].kind = writing[a].kind
      <4>1. writing[a].m = Changed(writing[a])
        BY <1>1, <1>3, <3>1 DEF Merged
      <4>2. QED
        BY <3>1, <4>1 DEF Changed
    <3>2. CASE writing'[a].m = Changed(writing'[a])
      BY <3>2 DEF Changed
    <3>3. QED
      BY <1>1, <2>2, <3>1, <3>2
  <2>3. QED
    BY <2>1, <2>2
<1>4. QED
  BY <1>2, <1>3 DEF Merged

LEMMA SameMerged ==
  ASSUME NEW a \in Actors, Same(a)
  PROVE  \/ Free(a)'
         \/ ~Free(a) /\ writing'[a].m = writing[a].m /\ writing'[a].kind = writing[a].kind
BY DEF Same

LEMMA MergedStep ==
  ASSUME Typed, Merged, Step
  PROVE  Merged'
<1> USE LiveAndShell
<1>k. /\ "repair" # "take" /\ "repair" # "save" /\ "repair" # "rename" /\ "take" # "save"
      /\ "take" # "rename" /\ "save" # "rename"
  OBVIOUS
<1>m. spoils = 0 => metadata = mfile.content /\ mfile.content \in Metadata
  BY Loaded DEF Merged, Typed
<1>u. \A a \in Actors : UNCHANGED writing => Same(a)
  BY DEF Same, Free
<1>1. CASE Boots
  <2>1. UNCHANGED <<mfile, spoils, overlapped, named>>
    BY <1>1 DEF Boots, Stay
  <2>2. Same("shell")
    BY <1>1, BootsPlans, SameIs
  <2>3. Free("live")' \/ (writing'["live"].kind = "repair" /\ writing'["live"].m = metadata)
    BY <1>1, BootsPlans DEF Newly
  <2>4. Free("live")' \/ (spoils = 0 => writing'["live"].m = Changed(writing'["live"]))
    BY <1>k, <1>m, <2>3 DEF Changed
  <2>5. QED
    BY <2>1, <2>2, <2>4, MergedStays, SameMerged
<1>2. CASE Takes
  <2>1. UNCHANGED <<mfile, spoils, overlapped, named>>
    BY <1>2 DEF Takes, Stay
  <2>2. Same("shell")
    BY <1>2, TakesPlans, SameIs
  <2>3. \/ Free("live")'
        \/ /\ writing'["live"].kind = "take"
           /\ writing'["live"].m = [metadata EXCEPT !.directive = FALSE]
    BY <1>2, TakesPlans DEF Newly
  <2>4. Free("live")' \/ (spoils = 0 => writing'["live"].m = Changed(writing'["live"]))
    BY <1>k, <1>m, <2>3 DEF Changed
  <2>5. QED
    BY <2>1, <2>2, <2>4, MergedStays, SameMerged
<1>3. CASE Starts \/ Turns \/ Calls \/ Clears
  <2>1. UNCHANGED <<mfile, spoils, overlapped, named, writing>>
    BY <1>3 DEF Starts, Turns, Calls, Clears, Stay
  <2>2. QED
    BY <1>u, <2>1, MergedStays, SameMerged
<1>4. CASE Saves
  <2>1. UNCHANGED <<mfile, spoils, overlapped, named>>
    BY <1>4 DEF Saves, Stay
  <2>2. Same("shell")
    BY <1>4, SavesPlans, SameIs
  <2>3. Free("live")' \/ (writing'["live"].kind = "save" /\ writing'["live"].m = metadata)
    BY <1>4, SavesPlans DEF Newly
  <2>4. Free("live")' \/ (spoils = 0 => writing'["live"].m = Changed(writing'["live"]))
    BY <1>k, <1>m, <2>3 DEF Changed
  <2>5. QED
    BY <2>1, <2>2, <2>4, MergedStays, SameMerged
<1>5. CASE Spoils
  <2>1. spoils' # 0
    BY <1>5 DEF Spoils, Typed, CountsTyped
  <2>2. QED
    BY <2>1 DEF Merged
<1>6. ASSUME NEW a \in Actors, Writes(a), writing[a].left = OneLeft
      PROVE  Merged'
  <2>1. /\ mfile' = Holding(writing[a].m) /\ spoils' = spoils /\ ~Free(a)
        /\ overlapped' = (overlapped \/ Contended(a))
        /\ named' = (IF writing[a].kind = "rename" THEN writing[a].m.name ELSE named)
    BY <1>6, Lefts DEF Writes
  <2>2. Readable(mfile)' /\ mfile'.content = writing[a].m
    BY <2>1, FileIs DEF Readable
  <2>3. SUFFICES ASSUME spoils = 0, ~overlapped'
                 PROVE  /\ mfile'.content.name = named'
                        /\ \A b \in Actors : ~Free(b)' => writing'[b].m = Changed(writing[b])'
    BY <2>1, <2>2 DEF Merged
  <2>4. ~overlapped /\ ~Contended(a)
    BY <2>1, <2>3
  <2>5. writing[a].m = Changed(writing[a]) /\ mfile.content.name = named
    BY <2>1, <2>3, <2>4 DEF Merged
  <2>6. mfile'.content.name = named'
    <3>1. CASE writing[a].kind = "rename"
      BY <2>1, <2>2, <3>1
    <3>2. CASE writing[a].kind # "rename"
      <4>1. writing[a].m.name = mfile.content.name
        BY <1>m, <2>3, <2>5, <3>2 DEF Changed, Metadata
      <4>2. QED
        BY <2>1, <2>2, <2>5, <3>2, <4>1
    <3>3. QED
      BY <3>1, <3>2
  <2>7. Free(a)'
    <3>1. Stops(a)
      BY <1>6, Lefts DEF Writes
    <3>2. QED
      BY <3>1, StopsIs DEF Typed
  <2>8. \A b \in Actors \ {a} : Free(b)'
    BY <1>6, <2>4, GoesOnIs DEF Contended, Same
  <2>9. QED
    BY <2>6, <2>7, <2>8
<1>7. ASSUME NEW a \in Actors, Fails(a) \/ (Writes(a) /\ writing[a].left # OneLeft)
      PROVE  Merged'
  <2>1. UNCHANGED <<mfile, spoils, overlapped, named>>
    BY <1>7 DEF Writes, Fails
  <2>2. \A b \in Actors : GoesOn(b)
    BY <1>7, GoesOnIs
  <2>3. \A b \in Actors :
          \/ Free(b)'
          \/ ~Free(b) /\ writing'[b].m = writing[b].m /\ writing'[b].kind = writing[b].kind
    BY <2>2 DEF GoesOn, Same
  <2>4. QED
    BY <2>1, <2>3, MergedStays
<1>8. ASSUME NEW a \in Actors, Renames(a)
      PROVE  Merged'
  <2>1. UNCHANGED <<mfile, spoils, overlapped, named>>
    BY <1>8 DEF Renames
  <2>2. \A b \in Actors \ {a} : Same(b)
    BY <1>8, RenamesPlans, SameIs
  <2>3. /\ writing'[a].kind = "rename" /\ writing'[a].m = [metadata EXCEPT !.name = names + 1]
    BY <1>8, RenamesPlans DEF Newly
  <2>4. spoils = 0 => writing'[a].m = Changed(writing'[a])
    <3>1. SUFFICES ASSUME spoils = 0 PROVE writing'[a].m = Changed(writing'[a])
      OBVIOUS
    <3>2. writing'[a].m = [mfile.content EXCEPT !.name = names + 1]
      BY <1>m, <2>3, <3>1
    <3>3. writing'[a].m.name = names + 1
      BY <1>m, <3>1, <3>2 DEF Metadata
    <3>4. QED
      BY <1>k, <2>3, <3>2, <3>3 DEF Changed
  <2>5. QED
    BY <2>1, <2>2, <2>4, MergedStays, SameMerged
<1>9. ASSUME NEW a \in Actors, Crashes(a)
      PROVE  Merged'
  <2>1. UNCHANGED <<mfile, spoils, overlapped, named>>
    BY <1>9 DEF Crashes
  <2>2. Free(a)' /\ \A b \in Actors \ {a} : Same(b)
    BY <1>9, StopsIs, SameIs DEF Crashes, Others, Typed
  <2>3. QED
    BY <2>1, <2>2, MergedStays, SameMerged
<1>10. CASE UNCHANGED vars
  <2>1. UNCHANGED <<mfile, spoils, overlapped, named, writing>>
    BY <1>10 DEF vars, files, counts, history
  <2>2. QED
    BY <1>u, <2>1, MergedStays, SameMerged
<1>11. QED
  BY <1>1, <1>2, <1>3, <1>4, <1>5, <1>6, <1>7, <1>8, <1>9, <1>10 DEF Step

\* The process knows of no directive, or of the one it already knew of.
LEMMA ClearedStays ==
  ASSUME Cleared, UNCHANGED <<mfile, spoils, overlapped, refused, runs>>,
         ~directive' \/ (directive' = directive /\ (Has("live", "take") => Has("live", "take")'))
  PROVE  Cleared'
<1>1. SUFFICES ASSUME spoils = 0, ~overlapped, ~refused PROVE Cleared'
  BY DEF Cleared
<1>2. /\ directive => Has("live", "take") \/ ~mfile.content.directive
      /\ runs <= 1 /\ (runs = 1 => ~directive /\ ~mfile.content.directive)
  BY <1>1 DEF Cleared
<1>3. directive' => Has("live", "take")' \/ ~mfile'.content.directive
  BY <1>2
<1>4. runs' <= 1
  BY <1>2
<1>5. runs' = 1 => ~directive' /\ ~mfile'.content.directive
  BY <1>2
<1>6. QED
  BY <1>3, <1>4, <1>5 DEF Cleared

LEMMA ClearedStep ==
  ASSUME Typed, Standing, Merged, Cleared, Step
  PROVE  Cleared'
<1> USE LiveAndShell
<1>m. spoils = 0 => metadata = mfile.content /\ mfile.content \in Metadata
  BY Loaded DEF Merged, Typed
<1>1. CASE Boots
  <2>1. ~directive' /\ UNCHANGED <<mfile, spoils, overlapped, refused, runs>>
    BY <1>1 DEF Boots, Stay, Standing
  <2>2. QED
    BY <2>1, ClearedStays
<1>2. CASE Takes
  <2>1. UNCHANGED <<mfile, spoils, overlapped, refused, runs>> /\ directive' = metadata.directive
    BY <1>2 DEF Takes, Stay
  <2>2. metadata.directive => Has("live", "take")'
    BY <1>2, TakesPlans DEF Newly, Has
  <2>3. SUFFICES ASSUME spoils = 0, ~overlapped, ~refused PROVE Cleared'
    BY <2>1 DEF Cleared
  <2>4. runs <= 1 /\ (runs = 1 => ~mfile.content.directive)
    BY <2>3 DEF Cleared
  <2>5. directive' = mfile.content.directive
    BY <1>m, <2>1, <2>3
  <2>6. directive' => Has("live", "take")'
    BY <2>1, <2>2
  <2>7. runs' <= 1
    BY <2>1, <2>4
  <2>8. runs' = 1 => ~directive' /\ ~mfile'.content.directive
    BY <2>1, <2>4, <2>5
  <2>9. QED
    BY <2>6, <2>7, <2>8 DEF Cleared
<1>3. CASE Starts
  <2>1. /\ UNCHANGED <<mfile, spoils, overlapped, refused, runs>>
        /\ directive' = FALSE \/ directive' = directive
        /\ ~Has("live", "take")
    BY <1>3 DEF Starts, Stay, Gone, Has
  <2>2. QED
    BY <2>1, ClearedStays
<1>4. CASE Turns
  <2>1. /\ UNCHANGED <<mfile, spoils, overlapped, refused>> /\ directive' = FALSE
        /\ runs' = (IF directive THEN runs + 1 ELSE runs) /\ ~Has("live", "take")
    BY <1>4 DEF Turns, Stay, Has
  <2>2. SUFFICES ASSUME spoils = 0, ~overlapped, ~refused PROVE Cleared'
    BY <2>1 DEF Cleared
  <2>3. /\ directive => ~mfile.content.directive
        /\ runs <= 1 /\ (runs = 1 => ~directive /\ ~mfile.content.directive)
    BY <2>1, <2>2 DEF Cleared
  <2>4. runs \in Nat
    BY DEF Typed, HistoryTyped
  <2>5. CASE directive
    <3>1. runs = 0 /\ ~mfile.content.directive
      BY <2>3, <2>4, <2>5
    <3>2. runs' = 1
      BY <2>1, <2>5, <3>1
    <3>3. QED
      BY <2>1, <3>1, <3>2 DEF Cleared
  <2>6. CASE ~directive
    <3>1. runs' = runs
      BY <2>1, <2>6
    <3>2. QED
      BY <2>1, <2>3, <3>1 DEF Cleared
  <2>7. QED
    BY <2>5, <2>6
<1>5. CASE Calls \/ Clears \/ Saves
  <2>1. /\ UNCHANGED <<mfile, spoils, overlapped, refused, runs, directive>>
        /\ ~Has("live", "take")
    BY <1>5 DEF Calls, Clears, Saves, Stay, Has
  <2>2. QED
    BY <2>1, ClearedStays
<1>6. CASE Spoils
  <2>1. spoils' # 0
    BY <1>6 DEF Spoils, Typed, CountsTyped
  <2>2. QED
    BY <2>1 DEF Cleared
<1>7. ASSUME NEW a \in Actors, Writes(a), writing[a].left = OneLeft
      PROVE  Cleared'
  <2>1. /\ mfile' = Holding(writing[a].m) /\ ~Free(a)
        /\ UNCHANGED <<spoils, refused, runs, directive>>
        /\ overlapped' = (overlapped \/ Contended(a))
    BY <1>7, Lefts DEF Writes
  <2>2. mfile'.content = writing[a].m
    BY <2>1, FileIs
  <2>3. SUFFICES ASSUME spoils = 0, ~overlapped', ~refused PROVE Cleared'
    BY <2>1 DEF Cleared
  <2>4. ~overlapped /\ ~Contended(a)
    BY <2>1, <2>3
  <2>5. writing[a].m = Changed(writing[a])
    BY <2>1, <2>3, <2>4 DEF Merged
  <2>6. /\ writing[a].kind = "take" => writing[a].m.directive = FALSE
        /\ writing[a].kind # "take" => writing[a].m.directive = mfile.content.directive
    BY <1>m, <2>3, <2>5 DEF Changed, Metadata
  <2>7. Has("live", "take") => writing[a].kind = "take"
    <3>1. SUFFICES ASSUME Has("live", "take"), a # "live" PROVE FALSE
      BY DEF Has
    <3>2. QED
      BY <2>4, <3>1 DEF Contended, Has
  <2>8. /\ directive => Has("live", "take") \/ ~mfile.content.directive
        /\ runs <= 1 /\ (runs = 1 => ~directive /\ ~mfile.content.directive)
    BY <2>3, <2>4 DEF Cleared
  <2>9. directive => ~writing[a].m.directive
    BY <2>6, <2>7, <2>8
  <2>10. runs = 1 => ~directive /\ ~writing[a].m.directive
    BY <2>6, <2>8
  <2>11. QED
    BY <2>1, <2>2, <2>8, <2>9, <2>10 DEF Cleared
<1>8. ASSUME NEW a \in Actors, Writes(a), writing[a].left # OneLeft
      PROVE  Cleared'
  <2>1. UNCHANGED <<mfile, spoils, overlapped, refused, runs, directive>>
    BY <1>8 DEF Writes
  <2>2. writing[a].left \in {SaveAll, FromText, SaveMeta} /\ ~Free(a)
    BY <1>8, PlanFacts DEF Writes
  <2>3. Has("live", "take") => Has("live", "take")'
    <3>1. SUFFICES ASSUME Has("live", "take") PROVE Has("live", "take")'
      OBVIOUS
    <3>2. GoesOn("live") /\ (a # "live" => Same("live"))
      BY <1>8, GoesOnIs
    <3>3. ~Free("live") /\ writing["live"].kind = "take"
      BY <3>1 DEF Has
    <3>4. writing["live"].left \notin {FromText}
      BY <3>3, PlanFacts
    <3>5. a = "live" => writing["live"].left # OneLeft
      BY <1>8
    <3>6. CASE a = "live"
      BY <3>2, <3>3, <3>4, <3>5, <3>6 DEF GoesOn, Has, Same
    <3>7. CASE a # "live"
      BY <3>2, <3>3, <3>7 DEF Has, Same
    <3>8. QED
      BY <3>6, <3>7
  <2>4. QED
    BY <2>1, <2>3, ClearedStays
<1>9. ASSUME NEW a \in Actors, Fails(a)
      PROVE  Cleared'
  <2>1. UNCHANGED <<mfile, spoils, overlapped, runs, directive>>
    BY <1>9 DEF Fails
  <2>2. GoesOn("live") /\ (a # "live" => Same("live")) /\ ~Free(a)
    BY <1>9, GoesOnIs DEF Fails
  <2>3. CASE Has("live", "take") /\ ~Has("live", "take")'
    <3>1. a = "live" /\ writing["live"].left \in {FromText, OneLeft}
      BY <2>2, <2>3 DEF GoesOn, Same, Has
    <3>2. ~Free("live") /\ writing["live"].kind = "take"
      BY <2>3 DEF Has
    <3>3. writing["live"].left = OneLeft
      BY <3>1, <3>2, PlanFacts
    <3>4. refused'
      BY <1>9, <3>1, <3>2, <3>3, Lefts DEF Fails
    <3>5. QED
      BY <3>4 DEF Cleared
  <2>4. CASE Has("live", "take") => Has("live", "take")'
    <3>1. SUFFICES ASSUME ~refused' PROVE Cleared'
      BY DEF Cleared
    <3>2. refused' = refused
      <4>1. refused \in BOOLEAN
        BY Zenon DEF Typed, HistoryTyped
      <4>2. refused' = refused \/ refused' = (refused \/ writing[a].kind = "take")
        BY <1>9 DEF Fails
      <4>3. QED
        BY <3>1, <4>1, <4>2, Zenon
    <3>3. QED
      BY <2>1, <2>4, <3>2, ClearedStays
  <2>5. QED
    BY <2>3, <2>4
<1>10. ASSUME NEW a \in Actors, Renames(a)
       PROVE  Cleared'
  <2>1. UNCHANGED <<mfile, spoils, overlapped, refused, runs, directive>>
    BY <1>10 DEF Renames
  <2>2. Has("live", "take") => Has("live", "take")'
    <3>1. CASE a = "live"
      BY <1>10, <3>1 DEF Renames, Has
    <3>2. CASE a # "live"
      <4>1. Same("live")
        BY <1>10, <3>2, RenamesPlans, SameIs
      <4>2. QED
        BY <4>1 DEF Same, Has
    <3>3. QED
      BY <3>1, <3>2
  <2>3. QED
    BY <2>1, <2>2, ClearedStays
<1>11. ASSUME NEW a \in Actors, Crashes(a)
       PROVE  Cleared'
  <2>1. UNCHANGED <<mfile, spoils, overlapped, refused, runs>>
    BY <1>11 DEF Crashes
  <2>2. CASE a = "live"
    <3>1. ~directive'
      BY <1>11, <2>2 DEF Crashes, Gone
    <3>2. QED
      BY <2>1, <3>1, ClearedStays
  <2>3. CASE a # "live"
    <3>1. Same("live") /\ directive' = directive
      BY <1>11, <2>3, StopsIs, SameIs DEF Crashes, Others, Typed
    <3>2. Has("live", "take") => Has("live", "take")'
      BY <3>1 DEF Same, Has
    <3>3. QED
      BY <2>1, <3>1, <3>2, ClearedStays
  <2>4. QED
    BY <2>2, <2>3
<1>12. CASE UNCHANGED vars
  <2>1. UNCHANGED <<mfile, spoils, overlapped, refused, runs, directive, writing>>
    BY <1>12 DEF vars, files, counts, history
  <2>2. Has("live", "take") => Has("live", "take")'
    BY <2>1 DEF Has, Free
  <2>3. QED
    BY <2>1, <2>2, ClearedStays
<1>13. QED
  BY <1>1, <1>2, <1>3, <1>4, <1>5, <1>6, <1>7, <1>8, <1>9, <1>10, <1>11, <1>12 DEF Step

LEMMA UnwrittenIs ==
  ASSUME FilesTyped
  PROVE  Unwritten <=> ~Free("live") /\ writing["live"].left \in {SaveAll, FromText}
<1>1. ~Free("live") => writing["live"].left \in {SaveAll, FromText, SaveMeta, OneLeft}
  BY PlanIs, Lefts, LiveAndShell
<1>2. QED
  BY <1>1, Lefts DEF Unwritten

LEMMA UnwrittenNext ==
  ASSUME FilesTyped'
  PROVE  Unwritten' <=> ~Free("live")' /\ writing'["live"].left \in {SaveAll, FromText}
<1>1. writing'["live"] \in {Idle} \cup Plans
  BY LiveAndShell DEF FilesTyped
<1>2. ~Free("live")' => writing'["live"].left \in AllLeft
  BY <1>1 DEF Free, Idle, Plans, AllLeft, MetaLeft
<1>3. QED
  BY <1>2, Lefts DEF Unwritten

Saving == Has("live", "repair") \/ Has("live", "save")
\* The saver takes nothing for stored that is not.
Marked ==
  live # "down" /\ ~shrunk =>
    /\ mark <= Len(last[1]) /\ mark <= Len(context)
    /\ \A i \in 1 .. mark : context[i] = last[1][i]

LEMMA StoredParts ==
  Stored <=> (spoils = 0 =>
    /\ tfile = Holding(last[1]) /\ Marked
    /\ Saving /\ ~Unwritten => last[1] = context
    /\ faults = 0 /\ ~shrunk /\ live \in {"booting", "starting", "idle"} =>
         Unwritten \/ last[1] = context)
BY DEF Stored, Saving, Marked

\* The conversation grows and nothing else happens to what is stored.
LEMMA MarkedGrows ==
  ASSUME Typed, Marked, Grown, UNCHANGED <<last, mark, shrunk>>, live # "down"
  PROVE  Marked'
<1>1. SUFFICES ASSUME ~shrunk
               PROVE  /\ mark <= Len(last[1]) /\ mark <= Len(context')
                      /\ \A i \in 1 .. mark : context'[i] = last[1][i]
  BY DEF Marked
<1>2. /\ mark <= Len(last[1]) /\ mark <= Len(context)
      /\ \A i \in 1 .. mark : context[i] = last[1][i]
  BY <1>1 DEF Marked
<1>3. mark \in Nat /\ context \in Seq(Messages)
  BY DEF Typed, ProcessTyped
<1>4. Len(context) \in Nat /\ Len(context') = Len(context) + 1
      /\ \A i \in 1 .. Len(context) : context'[i] = context[i]
  BY <1>3, GrownIs DEF Typed
<1>5. mark <= Len(context')
  BY <1>2, <1>3, <1>4
<1>6. \A i \in 1 .. mark : i \in 1 .. Len(context)
  BY <1>2, <1>3, <1>4
<1>7. QED
  BY <1>2, <1>4, <1>5, <1>6

LEMMA StoredStep ==
  ASSUME Typed, FilesTyped', Standing, Stored, Step
  PROVE  Stored'
<1> USE LiveAndShell
<1>0. spoils \in Nat /\ faults \in Nat /\ mark \in Nat /\ context \in Seq(Messages)
  BY DEF Typed, CountsTyped, ProcessTyped
<1>l. last[1] \in Seq(Messages)
  BY DEF Typed, HistoryTyped
<1>u. /\ Unwritten <=> ~Free("live") /\ writing["live"].left \in {SaveAll, FromText}
      /\ Unwritten' <=> ~Free("live")' /\ writing'["live"].left \in {SaveAll, FromText}
  BY UnwrittenIs, UnwrittenNext DEF Typed
<1>s. SUFFICES ASSUME spoils = 0, spoils' = 0
               PROVE  /\ tfile' = Holding(last'[1]) /\ Marked'
                      /\ Saving' /\ ~Unwritten' => last'[1] = context'
                      /\ faults' = 0 /\ ~shrunk' /\ live' \in {"booting", "starting", "idle"} =>
                           Unwritten' \/ last'[1] = context'
  <2>1. spoils' = 0 => spoils = 0
    <3>1. spoils' = spoils \/ spoils' = spoils + 1
      BY DEF Step, Boots, Takes, Starts, Turns, Calls, Saves, Clears, Stay, Spoils, Writes, Fails,
         Renames, Crashes, vars, counts
    <3>2. QED
      BY <1>0, <3>1
  <2>2. QED
    BY <2>1 DEF Stored, Saving, Marked
<1>h. /\ tfile = Holding(last[1]) /\ Marked
      /\ Saving /\ ~Unwritten => last[1] = context
      /\ faults = 0 /\ ~shrunk /\ live \in {"booting", "starting", "idle"} =>
           Unwritten \/ last[1] = context
  BY <1>s, StoredParts
<1>1. CASE Boots
  <2>1. UNCHANGED <<tfile, last, mark, shrunk>> /\ mark = 0 /\ ~shrunk
    BY <1>1 DEF Boots, Stay, Standing
  <2>2. Marked'
    <3>1. Len(context') \in Nat /\ Len(last[1]) \in Nat
      BY <1>1, <1>l DEF Boots
    <3>2. QED
      BY <2>1, <3>1 DEF Marked
  <2>3. Unwritten' \/ (Free("live")' /\ last'[1] = context')
    <3>1. transcript = last[1]
      BY <1>h, Loaded, FileIs DEF Typed
    <3>2. QED
      BY <1>1, <1>u, <2>1, <3>1, BootsPlans DEF Newly
  <2>4. QED
    BY <1>h, <2>1, <2>2, <2>3
<1>2. CASE Takes
  <2>1. UNCHANGED <<tfile, last, mark, shrunk, context, faults>> /\ mark = 0 /\ ~shrunk
    BY <1>2 DEF Takes, Stay, Standing
  <2>2. live = "booting" /\ ~Unwritten
    BY <1>2, <1>u DEF Takes
  <2>3. Marked'
    <3>1. Len(context) \in Nat /\ Len(last[1]) \in Nat
      BY <1>0, <1>l
    <3>2. QED
      BY <2>1, <3>1 DEF Marked
  <2>4. ~Saving'
    BY <1>2, TakesPlans DEF Newly, Saving, Has
  <2>5. faults' = 0 => last'[1] = context'
    BY <1>h, <2>1, <2>2
  <2>6. QED
    BY <1>h, <2>1, <2>3, <2>4, <2>5
<1>3. CASE Starts
  <2>1. UNCHANGED <<tfile, last, faults>> /\ live = "starting" /\ Free("live") /\ Free("live")'
    BY <1>3 DEF Starts, Stay, Free
  <2>2. ~Saving' /\ ~Unwritten
    BY <1>u, <2>1 DEF Saving, Has
  <2>3. CASE Gone
    BY <1>h, <2>1, <2>2, <2>3 DEF Gone, Marked
  <2>4. CASE live' = "idle" /\ UNCHANGED <<context, mark, directive, shrunk>>
    <3>1. Marked'
      BY <1>h, <2>1, <2>4 DEF Marked
    <3>2. QED
      BY <1>h, <2>1, <2>2, <2>4, <3>1
  <2>5. QED
    BY <1>3, <2>3, <2>4 DEF Starts
<1>4. CASE Turns \/ Calls
  <2>1. /\ UNCHANGED <<tfile, last, mark, shrunk>> /\ live' = "turn" /\ live # "down"
        /\ Free("live")' /\ Grown
    BY <1>4 DEF Turns, Calls, Stay, Free
  <2>2. Marked'
    BY <1>h, <2>1, MarkedGrows
  <2>3. ~Saving'
    BY <2>1 DEF Saving, Has
  <2>4. QED
    BY <1>h, <2>1, <2>2, <2>3
<1>5. CASE Saves
  <2>1. UNCHANGED <<tfile, last, mark, shrunk, faults>> /\ live = "turn" /\ Grown
    BY <1>5 DEF Saves, Stay
  <2>2. Marked'
    BY <1>h, <2>1, MarkedGrows
  <2>3. CASE Unwritten'
    BY <1>h, <2>1, <2>2, <2>3
  <2>4. CASE ~Unwritten'
    <3>1. ~ (Len(context') > mark) /\ Free("live")'
      BY <1>5, <1>u, <2>4, SavesPlans DEF Newly
    <3>2. ~Saving'
      BY <3>1 DEF Saving, Has
    <3>3. shrunk
      <4>1. SUFFICES ASSUME ~shrunk PROVE FALSE
        OBVIOUS
      <4>2. mark <= Len(context)
        BY <1>h, <2>1, <4>1 DEF Marked
      <4>3. Len(context') = Len(context) + 1 /\ Len(context) \in Nat
        BY <1>0, <2>1, GrownIs DEF Typed
      <4>4. QED
        BY <1>0, <3>1, <4>2, <4>3
    <3>4. shrunk'
      BY <2>1, <3>3
    <3>5. QED
      BY <1>h, <2>1, <2>2, <3>2, <3>4
  <2>5. QED
    BY <2>3, <2>4
<1>6. CASE Clears
  <2>1. UNCHANGED <<tfile, last>> /\ shrunk' /\ Free("live")'
    BY <1>6 DEF Clears, Stay, Free
  <2>2. ~Saving'
    BY <2>1 DEF Saving, Has
  <2>3. QED
    BY <1>h, <2>1, <2>2 DEF Marked
<1>7. CASE Spoils
  BY <1>7, <1>s DEF Spoils
<1>8. ASSUME NEW a \in Actors, Writes(a)
      PROVE  /\ tfile' = Holding(last'[1]) /\ Marked'
             /\ Saving' /\ ~Unwritten' => last'[1] = context'
             /\ faults' = 0 /\ ~shrunk' /\ live' \in {"booting", "starting", "idle"} =>
                  Unwritten' \/ last'[1] = context'
  <2>0. UNCHANGED <<live, context, faults>> /\ ~Free(a)
    BY <1>8 DEF Writes
  <2>g. GoesOn("live") /\ (a # "live" => Same("live"))
    BY <1>8, GoesOnIs
  <2>1. CASE writing[a].left = SaveAll
    <3>1. UNCHANGED <<tfile, last, mark, shrunk>>
      BY <1>8, <2>1, Lefts DEF Writes
    <3>2. Saving /\ a = "live" /\ Unwritten
      BY <1>u, <2>0, <2>1, PlanFacts DEF Saving, Has
    <3>3. Unwritten'
      BY <1>u, <2>1, <2>g, <3>2, Lefts DEF GoesOn, Same
    <3>4. QED
      BY <1>h, <2>0, <3>1, <3>3 DEF Marked
  <2>2. CASE writing[a].left = FromText
    <3>1. /\ tfile' = Holding(writing[a].t) /\ last' = <<writing[a].t, last[1]>>
          /\ UNCHANGED <<mark, shrunk>>
      BY <1>8, <2>2, Lefts DEF Writes
    <3>2. Saving /\ a = "live" /\ live # "down"
      BY <2>0, <2>2, PlanFacts DEF Saving, Has, Standing
    <3>3. last'[1] = context /\ tfile' = Holding(last'[1])
      BY <3>1, <3>2 DEF Saving, Standing
    <3>4. Marked'
      BY <1>h, <2>0, <3>1, <3>2, <3>3 DEF Marked
    <3>5. QED
      BY <2>0, <3>3, <3>4
  <2>3. CASE writing[a].left = SaveMeta
    <3>1. UNCHANGED <<tfile, last, mark, shrunk>>
      BY <1>8, <2>3, Lefts DEF Writes
    <3>2. Marked'
      BY <1>h, <2>0, <3>1 DEF Marked
    <3>3. (Saving' => Saving) /\ (Unwritten' <=> Unwritten)
      BY <1>u, <2>3, <2>g, Lefts DEF Saving, Has, GoesOn, Same
    <3>4. QED
      BY <1>h, <2>0, <3>1, <3>2, <3>3
  <2>4. CASE writing[a].left = OneLeft
    <3>1. /\ UNCHANGED <<tfile, last>>
          /\ mark' = (IF writing[a].kind = "save" THEN Len(writing[a].t) ELSE mark)
          /\ shrunk' = (shrunk /\ writing[a].kind # "save")
      BY <1>8, <2>4, Lefts DEF Writes
    <3>2. (Saving' => Saving) /\ (Unwritten' <=> Unwritten)
      BY <1>u, <2>4, <2>g, Lefts DEF Saving, Has, GoesOn, Same
    <3>3. CASE writing[a].kind = "save"
      <4>1. a = "live" /\ Saving /\ ~Unwritten
        BY <1>u, <2>0, <2>4, <3>3, PlanFacts, Lefts DEF Saving, Has
      <4>2. last[1] = context /\ writing[a].t = context
        BY <1>h, <2>0, <3>3, <4>1 DEF Standing, Saving, Has
      <4>3. mark' = Len(context) /\ Len(context) \in Nat
        BY <1>0, <3>1, <3>3, <4>2
      <4>4. Marked'
        BY <2>0, <3>1, <4>2, <4>3 DEF Marked
      <4>5. QED
        BY <1>h, <2>0, <3>1, <4>2, <4>4
    <3>4. CASE writing[a].kind # "save"
      <4>1. mark' = mark /\ (shrunk' <=> shrunk)
        BY <3>1, <3>4
      <4>2. Marked'
        BY <1>h, <2>0, <3>1, <4>1 DEF Marked
      <4>3. QED
        BY <1>h, <2>0, <3>1, <3>2, <4>1, <4>2
    <3>5. QED
      BY <3>3, <3>4
  <2>5. QED
    BY <2>0, <2>1, <2>2, <2>3, <2>4, PlanFacts
<1>9. ASSUME NEW a \in Actors, Fails(a)
      PROVE  /\ tfile' = Holding(last'[1]) /\ Marked'
             /\ Saving' /\ ~Unwritten' => last'[1] = context'
             /\ faults' = 0 /\ ~shrunk' /\ live' \in {"booting", "starting", "idle"} =>
                  Unwritten' \/ last'[1] = context'
  <2>1. UNCHANGED <<tfile, last, live, context, mark, shrunk>> /\ faults' # 0
    BY <1>0, <1>9 DEF Fails
  <2>2. GoesOn("live") /\ (a # "live" => Same("live"))
    BY <1>9, GoesOnIs
  <2>3. Marked'
    BY <1>h, <2>1 DEF Marked
  <2>4. Saving' /\ ~Unwritten' => Saving /\ ~Unwritten
    <3>1. ~(writing["live"].left = FromText /\ a = "live" /\ ~Free("live")')
      BY <1>9, StopsIs, Lefts DEF Fails, Typed
    <3>2. QED
      BY <1>u, <2>2, <3>1, Lefts DEF Saving, Has, GoesOn, Same
  <2>5. QED
    BY <1>h, <2>1, <2>3, <2>4
<1>10. ASSUME NEW a \in Actors, Renames(a)
       PROVE  /\ tfile' = Holding(last'[1]) /\ Marked'
              /\ Saving' /\ ~Unwritten' => last'[1] = context'
              /\ faults' = 0 /\ ~shrunk' /\ live' \in {"booting", "starting", "idle"} =>
                   Unwritten' \/ last'[1] = context'
  <2>1. UNCHANGED <<tfile, last, live, context, mark, shrunk, faults>>
    BY <1>10 DEF Renames
  <2>2. Marked'
    BY <1>h, <2>1 DEF Marked
  <2>3. CASE a = "live"
    <3>1. Free("live") /\ ~Unwritten /\ ~Saving'
      BY <1>10, <1>u, <2>3, RenamesPlans DEF Renames, Newly, Saving, Has
    <3>2. QED
      BY <1>h, <2>1, <2>2, <3>1
  <2>4. CASE a # "live"
    <3>1. Same("live")
      BY <1>10, <2>4, RenamesPlans, SameIs
    <3>2. (Saving' => Saving) /\ (Unwritten' <=> Unwritten)
      BY <1>u, <3>1 DEF Same, Saving, Has
    <3>3. QED
      BY <1>h, <2>1, <2>2, <3>2
  <2>5. QED
    BY <2>3, <2>4
<1>11. ASSUME NEW a \in Actors, Crashes(a)
       PROVE  /\ tfile' = Holding(last'[1]) /\ Marked'
              /\ Saving' /\ ~Unwritten' => last'[1] = context'
              /\ faults' = 0 /\ ~shrunk' /\ live' \in {"booting", "starting", "idle"} =>
                   Unwritten' \/ last'[1] = context'
  <2>1. UNCHANGED <<tfile, last>> /\ faults' # 0
    BY <1>0, <1>11 DEF Crashes
  <2>2. CASE a = "live"
    <3>1. Free("live")' /\ live' = "down"
      BY <1>11, <2>2, StopsIs DEF Crashes, Gone, Typed
    <3>2. QED
      BY <1>h, <2>1, <3>1 DEF Marked, Saving, Has
  <2>3. CASE a # "live"
    <3>1. Same("live") /\ UNCHANGED <<live, context, mark, shrunk>>
      BY <1>11, <2>3, StopsIs, SameIs DEF Crashes, Others, Typed
    <3>2. (Saving' => Saving) /\ (Unwritten' <=> Unwritten)
      BY <1>u, <3>1 DEF Same, Saving, Has
    <3>3. Marked'
      BY <1>h, <2>1, <3>1 DEF Marked
    <3>4. QED
      BY <1>h, <2>1, <3>1, <3>2, <3>3
  <2>4. QED
    BY <2>2, <2>3
<1>12. CASE UNCHANGED vars
  <2>1. UNCHANGED <<tfile, last, live, context, mark, shrunk, faults, writing>>
    BY <1>12 DEF vars, files, counts, history
  <2>2. (Saving' => Saving) /\ (Unwritten' <=> Unwritten) /\ (Marked' <=> Marked)
    BY <2>1 DEF Saving, Has, Free, Unwritten, Marked
  <2>3. QED
    BY <1>h, <2>1, <2>2
<1>13. QED
  BY <1>1, <1>2, <1>3, <1>4, <1>5, <1>6, <1>7, <1>8, <1>9, <1>10, <1>11, <1>12 DEF Step

LEMMA AtMostOne ==
  ASSUME NEW f \in Nat, NEW g \in {f, f + 1}, NEW s \in Nat, g + s <= 1
  PROVE  f + s <= 1 /\ (g = 0 => f = 0)
OBVIOUS

\* The copies of the transcript are where they were.
LEMMA TextStays ==
  ASSUME TextSurvives, UNCHANGED <<tfile, tback, last, spoils, bare>>,
         faults \in Nat, faults' \in {faults, faults + 1}, spoils \in Nat,
         AtTranscript' <=> AtTranscript
  PROVE  TextSurvives'
<1>1. SUFFICES ASSUME faults' + spoils <= 1, ~bare PROVE TextSurvives'
  BY DEF TextSurvives
<1>2. faults + spoils <= 1 /\ (faults' = 0 => faults = 0)
  BY <1>1, AtMostOne, Zenon
<1>3. /\ \/ tfile = Holding(last[1])
         \/ /\ tfile = Bad /\ spoils = 1
            /\ tback \in {Holding(last[1]), Holding(last[2])} \/ AtTranscript
      /\ faults = 0 /\ spoils = 0 =>
           /\ tback \in {None, Holding(last[1]), Holding(last[2])}
           /\ AtTranscript => tback = Holding(last[1])
  BY <1>1, <1>2 DEF TextSurvives
<1>4. \/ tfile' = Holding(last'[1])
      \/ /\ tfile' = Bad /\ spoils' = 1
         /\ tback' \in {Holding(last'[1]), Holding(last'[2])} \/ AtTranscript'
  BY <1>3
<1>5. faults' = 0 /\ spoils' = 0 =>
           /\ tback' \in {None, Holding(last'[1]), Holding(last'[2])}
           /\ AtTranscript' => tback' = Holding(last'[1])
  BY <1>2, <1>3
<1>6. QED
  BY <1>4, <1>5 DEF TextSurvives

LEMMA AtTranscriptIs ==
  ASSUME FilesTyped
  PROVE  AtTranscript <=> ~Free("live") /\ writing["live"].left = FromText
<1>1. ~Free("live") => writing["live"].left \in {SaveAll, FromText, SaveMeta, OneLeft}
  BY PlanIs, Lefts, LiveAndShell
<1>2. QED
  BY <1>1, Lefts DEF AtTranscript

LEMMA AtTranscriptNext ==
  ASSUME FilesTyped'
  PROVE  AtTranscript' <=> ~Free("live")' /\ writing'["live"].left = FromText
<1>1. writing'["live"] \in {Idle} \cup Plans
  BY LiveAndShell DEF FilesTyped
<1>2. ~Free("live")' => writing'["live"].left \in AllLeft
  BY <1>1 DEF Free, Idle, Plans, AllLeft, MetaLeft
<1>3. QED
  BY <1>2, Lefts DEF AtTranscript

LEMMA TextStep ==
  ASSUME Typed, FilesTyped', Standing, TextSurvives, Step
  PROVE  TextSurvives'
<1> USE LiveAndShell
<1>0. faults \in Nat /\ spoils \in Nat
  BY DEF Typed, CountsTyped
<1>a. /\ AtTranscript <=> ~Free("live") /\ writing["live"].left = FromText
      /\ AtTranscript' <=> ~Free("live")' /\ writing'["live"].left = FromText
  BY AtTranscriptIs, AtTranscriptNext DEF Typed
<1>1. CASE Boots \/ Takes \/ Saves
  <2>1. UNCHANGED <<tfile, tback, last, spoils, bare, faults>>
    BY <1>1 DEF Boots, Takes, Saves, Stay
  <2>2. Free("live")
    BY <1>1 DEF Boots, Takes, Saves, Standing
  <2>3. ~AtTranscript'
    <3>1. Boots => ~AtTranscript'
      BY <1>a, Lefts, BootsPlans DEF Newly
    <3>2. Takes => ~AtTranscript'
      BY <1>a, Lefts, TakesPlans DEF Newly
    <3>3. Saves => ~AtTranscript'
      BY <1>a, Lefts, SavesPlans DEF Newly
    <3>4. QED
      BY <1>1, <3>1, <3>2, <3>3
  <2>4. QED
    BY <1>0, <1>a, <2>1, <2>2, <2>3, TextStays
<1>2. CASE Starts \/ Turns \/ Calls \/ Clears
  <2>1. UNCHANGED <<tfile, tback, last, spoils, bare, faults, writing>>
    BY <1>2 DEF Starts, Turns, Calls, Clears, Stay
  <2>2. AtTranscript' <=> AtTranscript
    BY <2>1 DEF AtTranscript, Free
  <2>3. QED
    BY <1>0, <2>1, <2>2, TextStays
<1>3. CASE Spoils
  <2>1. SUFFICES ASSUME faults' + spoils' <= 1, ~bare' PROVE TextSurvives'
    BY DEF TextSurvives
  <2>2. faults = 0 /\ spoils = 0 /\ spoils' = 1 /\ UNCHANGED <<last, faults>>
    BY <1>0, <1>3, <2>1 DEF Spoils
  <2>3. ~bare
    <3>1. \E x : bare' = (bare \/ ~Readable(x))
      BY <1>3 DEF Spoils
    <3>2. QED
      BY <2>1, <3>1
  <2>4. tfile = Holding(last[1]) /\ tback \in {None, Holding(last[1]), Holding(last[2])}
    BY <2>2, <2>3 DEF TextSurvives
  <2>5. CASE tfile' = tfile
    BY <2>2, <2>4, <2>5 DEF TextSurvives
  <2>6. CASE tfile' # tfile
    <3>1. tfile' = Bad /\ (bare' = (bare \/ ~Readable(tback))) /\ tback' = tback
      BY <1>3, <2>6 DEF Spoils
    <3>2. Readable(tback)
      BY <2>1, <3>1
    <3>3. tback \in {Holding(last[1]), Holding(last[2])}
      BY <2>4, <3>2, FileIs
    <3>4. QED
      BY <2>2, <3>1, <3>3 DEF TextSurvives
  <2>7. QED
    BY <2>5, <2>6
<1>4. ASSUME NEW a \in Actors, Writes(a)
      PROVE  TextSurvives'
  <2>0. UNCHANGED <<spoils, bare, faults>> /\ ~Free(a)
    BY <1>4 DEF Writes
  <2>g. GoesOn("live") /\ (a # "live" => Same("live"))
    BY <1>4, GoesOnIs
  <2>1. CASE writing[a].left = SaveAll
    <3>1. tback' = tfile /\ UNCHANGED <<tfile, last>>
      BY <1>4, <2>1, Lefts DEF Writes
    <3>2. a = "live"
      BY <2>0, <2>1, PlanFacts
    <3>3. AtTranscript'
      BY <1>4, <1>a, <2>1, <3>2, AdvancesIs, Lefts DEF Advances
    <3>4. SUFFICES ASSUME faults + spoils <= 1, ~bare PROVE TextSurvives'
      BY <2>0 DEF TextSurvives
    <3>5. /\ tfile = Holding(last[1]) \/ (tfile = Bad /\ spoils = 1)
      BY <3>4 DEF TextSurvives
    <3>6. spoils = 0 => tback' = Holding(last'[1])
      BY <3>1, <3>5
    <3>7. QED
      BY <2>0, <3>1, <3>3, <3>5, <3>6 DEF TextSurvives
  <2>2. CASE writing[a].left = FromText
    <3>1. /\ tfile' = Holding(writing[a].t) /\ last' = <<writing[a].t, last[1]>>
          /\ tback' = tback
      BY <1>4, <2>2, Lefts DEF Writes
    <3>2. a = "live" /\ AtTranscript
      BY <1>a, <2>0, <2>2, PlanFacts
    <3>3. ~AtTranscript'
      BY <1>a, <2>2, <2>g, <3>2, Lefts, <1>4, AdvancesIs DEF Advances
    <3>4. SUFFICES ASSUME faults + spoils <= 1, ~bare PROVE TextSurvives'
      BY <2>0 DEF TextSurvives
    <3>5. tfile' = Holding(last'[1])
      BY <3>1
    <3>6. faults = 0 /\ spoils = 0 => tback = Holding(last[1])
      BY <3>2, <3>4 DEF TextSurvives
    <3>7. faults = 0 /\ spoils = 0 => tback' = Holding(last'[2])
      BY <3>1, <3>6
    <3>8. QED
      BY <2>0, <3>3, <3>5, <3>7 DEF TextSurvives
  <2>3. CASE writing[a].left \in {SaveMeta, OneLeft}
    <3>1. UNCHANGED <<tfile, tback, last>>
      BY <1>4, <2>3, Lefts DEF Writes
    <3>2. AtTranscript' <=> AtTranscript
      BY <1>a, <2>3, <2>g, Lefts DEF GoesOn, Same
    <3>3. QED
      BY <1>0, <2>0, <3>1, <3>2, TextStays
  <2>4. QED
    BY <2>0, <2>1, <2>2, <2>3, PlanFacts
<1>5. ASSUME NEW a \in Actors, Fails(a) \/ Crashes(a)
      PROVE  TextSurvives'
  <2>1. faults' = faults + 1 /\ UNCHANGED <<tfile, tback, last, spoils, bare>>
    BY <1>5 DEF Fails, Crashes
  <2>2. SUFFICES ASSUME faults' + spoils' <= 1, ~bare' PROVE TextSurvives'
    BY DEF TextSurvives
  <2>3. faults = 0 /\ spoils = 0 /\ faults' # 0
    BY <1>0, <2>1, <2>2
  <2>4. tfile = Holding(last[1])
    BY <2>1, <2>2, <2>3 DEF TextSurvives
  <2>5. QED
    BY <2>1, <2>3, <2>4 DEF TextSurvives
<1>6. ASSUME NEW a \in Actors, Renames(a)
      PROVE  TextSurvives'
  <2>1. UNCHANGED <<tfile, tback, last, spoils, bare, faults>>
    BY <1>6 DEF Renames
  <2>2. AtTranscript' <=> AtTranscript
    <3>1. CASE a = "live"
      BY <1>6, <1>a, <3>1, RenamesPlans, Lefts DEF Renames, Newly
    <3>2. CASE a # "live"
      <4>1. Same("live")
        BY <1>6, <3>2, RenamesPlans, SameIs
      <4>2. QED
        BY <1>a, <4>1 DEF Same
    <3>3. QED
      BY <3>1, <3>2
  <2>3. QED
    BY <1>0, <2>1, <2>2, TextStays
<1>7. CASE UNCHANGED vars
  <2>1. UNCHANGED <<tfile, tback, last, spoils, bare, faults, writing>>
    BY <1>7 DEF vars, files, counts, history
  <2>2. AtTranscript' <=> AtTranscript
    BY <2>1 DEF AtTranscript, Free
  <2>3. QED
    BY <1>0, <2>1, <2>2, TextStays
<1>8. QED
  BY <1>1, <1>2, <1>3, <1>4, <1>5, <1>6, <1>7 DEF Step

\* An actor is about to write metadata that names the session.
Sound(a) == AtMetadata(a) /\ ~writing[a].m.recovered
Blind(a) == ~Free(a) /\ writing[a].m.recovered

LEMMA AtMetadataIs ==
  ASSUME FilesTyped, NEW a \in Actors
  PROVE  AtMetadata(a) <=> ~Free(a) /\ writing[a].left = OneLeft
<1>1. ~Free(a) => writing[a].left \in {SaveAll, FromText, SaveMeta, OneLeft}
  BY PlanIs, Lefts
<1>2. QED
  BY <1>1, Lefts DEF AtMetadata

LEMMA AtMetadataNext ==
  ASSUME FilesTyped', NEW a \in Actors
  PROVE  AtMetadata(a)' <=> ~Free(a)' /\ writing'[a].left = OneLeft
<1>1. writing'[a] \in {Idle} \cup Plans
  BY DEF FilesTyped
<1>2. ~Free(a)' => writing'[a].left \in AllLeft
  BY <1>1 DEF Free, Idle, Plans, AllLeft, MetaLeft
<1>3. QED
  BY <1>2, Lefts DEF AtMetadata

Backed ==
  /\ Whole(mfile) \/ (mfile = Bad /\ spoils = 1 /\ (Whole(mback) \/ \E a \in Actors : Sound(a)))
  /\ spoils = 0 => mback = None \/ Whole(mback)
  /\ \A a \in Actors : Blind(a) => ~Whole(mfile) /\ \E b \in Actors \ {a} : Sound(b)

LEMMA MetaParts == MetaSurvives <=> (faults + spoils <= 1 /\ ~bare /\ ~overlapped => Backed)
BY DEF MetaSurvives, Backed, Sound, Blind

\* Who reads metadata that names no session has another about to write some.
LEMMA BlindRead ==
  ASSUME Typed, Backed, NEW a \in Actors, Free(a), metadata.recovered
  PROVE  ~Whole(mfile) /\ \E b \in Actors \ {a} : Sound(b)
<1>1. ~Whole(mfile)
  BY Loaded DEF Whole, Typed
<1>2. mfile = Bad /\ (Whole(mback) \/ \E b \in Actors : Sound(b))
  BY <1>1 DEF Backed
<1>3. ~Whole(mback)
  BY <1>2, Loaded, FileIs DEF Whole, Typed
<1>4. ~Sound(a)
  BY DEF Sound, AtMetadata
<1>5. QED
  BY <1>1, <1>2, <1>3, <1>4

\* The copies of the metadata are where they were.
LEMMA BackedStays ==
  ASSUME Backed, UNCHANGED <<mfile, mback, spoils>>,
         \A a \in Actors : Sound(a) => Sound(a)',
         \A a \in Actors :
           Blind(a)' => Blind(a) \/ (~Whole(mfile) /\ \E b \in Actors \ {a} : Sound(b))
  PROVE  Backed'
<1>1. Whole(mfile)' <=> Whole(mfile)
  BY DEF Whole, Readable
<1>2. Whole(mback)' <=> Whole(mback)
  BY DEF Whole, Readable
<1>3. \A a \in Actors : Blind(a)' => ~Whole(mfile)' /\ \E b \in Actors \ {a} : Sound(b)'
  BY <1>1 DEF Backed
<1>4. \/ Whole(mfile)'
      \/ mfile' = Bad /\ spoils' = 1 /\ (Whole(mback)' \/ \E a \in Actors : Sound(a)')
  BY <1>1, <1>2 DEF Backed
<1>5. spoils' = 0 => mback' = None \/ Whole(mback)'
  BY <1>2 DEF Backed
<1>6. QED
  BY <1>3, <1>4, <1>5 DEF Backed

LEMMA SameSound ==
  ASSUME NEW a \in Actors, Same(a)
  PROVE  (Sound(a) <=> Sound(a)') /\ (Blind(a)' <=> Blind(a))
BY DEF Same, Sound, Blind, AtMetadata

LEMMA MetaStep ==
  ASSUME Typed, FilesTyped', Standing, MetaSurvives, Step
  PROVE  MetaSurvives'
<1> USE LiveAndShell
<1>0. faults \in Nat /\ spoils \in Nat
  BY DEF Typed, CountsTyped
<1>s. SUFFICES ASSUME faults' + spoils' <= 1, ~bare', ~overlapped' PROVE Backed'
  BY DEF MetaSurvives, Backed, Sound, Blind
<1>u. \A a \in Actors : UNCHANGED writing => Same(a)
  BY DEF Same, Free
<1>a. \A a \in Actors : AtMetadata(a) <=> ~Free(a) /\ writing[a].left = OneLeft
  BY AtMetadataIs DEF Typed
<1>1. CASE Boots
  <2>1. UNCHANGED <<mfile, mback, spoils, faults, bare, overlapped>> /\ Free("live")
    BY <1>1 DEF Boots, Stay, Standing
  <2>2. Backed
    BY <1>s, <2>1, MetaParts
  <2>3. Same("shell")
    BY <1>1, BootsPlans, SameIs
  <2>4. ~Sound("live")
    BY <2>1 DEF Sound, AtMetadata
  <2>5. Blind("live")' => metadata.recovered
    BY <1>1, BootsPlans DEF Newly, Blind
  <2>6. QED
    BY <2>1, <2>2, <2>3, <2>4, <2>5, BlindRead, BackedStays, SameSound
<1>2. CASE Takes
  <2>1. UNCHANGED <<mfile, mback, spoils, faults, bare, overlapped>> /\ Free("live")
    BY <1>2 DEF Takes, Stay
  <2>2. Backed
    BY <1>s, <2>1, MetaParts
  <2>3. Same("shell")
    BY <1>2, TakesPlans, SameIs
  <2>4. ~Sound("live")
    BY <2>1 DEF Sound, AtMetadata
  <2>5. Blind("live")' => metadata.recovered
    <3>1. [metadata EXCEPT !.directive = FALSE].recovered = metadata.recovered
      BY Loaded DEF Typed, Metadata
    <3>2. QED
      BY <1>2, <3>1, TakesPlans DEF Newly, Blind
  <2>6. QED
    BY <2>1, <2>2, <2>3, <2>4, <2>5, BlindRead, BackedStays, SameSound
<1>3. CASE Saves
  <2>1. UNCHANGED <<mfile, mback, spoils, faults, bare, overlapped>> /\ Free("live")
    BY <1>3 DEF Saves, Stay
  <2>2. Backed
    BY <1>s, <2>1, MetaParts
  <2>3. Same("shell")
    BY <1>3, SavesPlans, SameIs
  <2>4. ~Sound("live")
    BY <2>1 DEF Sound, AtMetadata
  <2>5. Blind("live")' => metadata.recovered
    BY <1>3, SavesPlans DEF Newly, Blind
  <2>6. QED
    BY <2>1, <2>2, <2>3, <2>4, <2>5, BlindRead, BackedStays, SameSound
<1>4. CASE Starts \/ Turns \/ Calls \/ Clears
  <2>1. UNCHANGED <<mfile, mback, spoils, faults, bare, overlapped, writing>>
    BY <1>4 DEF Starts, Turns, Calls, Clears, Stay
  <2>2. Backed
    BY <1>s, <2>1, MetaParts
  <2>3. QED
    BY <1>u, <2>1, <2>2, BackedStays, SameSound
<1>5. CASE Spoils
  <2>1. faults = 0 /\ spoils = 0 /\ spoils' = 1 /\ UNCHANGED <<mback, writing, overlapped>>
    BY <1>0, <1>s, <1>5 DEF Spoils
  <2>2. ~bare
    <3>1. \E x : bare' = (bare \/ ~Readable(x))
      BY <1>5 DEF Spoils
    <3>2. QED
      BY <1>s, <3>1
  <2>3. Whole(mfile) /\ (mback = None \/ Whole(mback)) /\ \A a \in Actors : ~Blind(a)
    BY <1>s, <2>1, <2>2, MetaParts DEF Backed
  <2>4. \A a \in Actors : ~Blind(a)'
    BY <2>1, <2>3 DEF Blind, Free
  <2>5. CASE mfile' = mfile
    BY <2>1, <2>3, <2>4, <2>5 DEF Backed, Whole, Readable
  <2>6. CASE mfile' # mfile
    <3>1. mfile' = Bad /\ (bare' = (bare \/ ~Readable(mback)))
      BY <1>5, <2>6 DEF Spoils
    <3>2. Readable(mback)
      BY <1>s, <3>1
    <3>3. Whole(mback)'
      BY <2>1, <2>3, <3>2, FileIs DEF Whole, Readable
    <3>4. QED
      BY <2>1, <2>4, <3>1, <3>3 DEF Backed
  <2>7. QED
    BY <2>5, <2>6
<1>6. ASSUME NEW a \in Actors, Writes(a)
      PROVE  Backed'
  <2>0. UNCHANGED <<spoils, bare, faults>> /\ ~Free(a)
    BY <1>6 DEF Writes
  <2>g. GoesOn(a) /\ \A b \in Actors \ {a} : Same(b)
    BY <1>6, GoesOnIs
  <2>1. CASE writing[a].left \in {SaveAll, FromText}
    <3>1. UNCHANGED <<mfile, mback, overlapped>>
      BY <1>6, <2>1, Lefts DEF Writes
    <3>2. Backed
      BY <1>s, <2>0, <3>1, MetaParts
    <3>3. ~Sound(a)
      BY <1>a, <2>1, Lefts DEF Sound
    <3>4. Blind(a)' => Blind(a)
      BY <2>g DEF GoesOn, Same, Blind
    <3>5. QED
      BY <2>0, <2>g, <3>1, <3>2, <3>3, <3>4, BackedStays, SameSound
  <2>2. CASE writing[a].left = SaveMeta
    <3>1. mback' = mfile /\ UNCHANGED <<mfile, overlapped>>
      BY <1>6, <2>2, Lefts DEF Writes
    <3>2. Backed
      BY <1>s, <2>0, <3>1, MetaParts
    <3>3. ~Sound(a)
      BY <1>a, <2>2, Lefts DEF Sound
    <3>4. (Blind(a)' <=> Blind(a)) /\ writing'[a].left = OneLeft /\ ~Free(a)'
      BY <1>6, <2>0, <2>2, Lefts, AdvancesIs DEF Advances, Blind
    <3>5. ~Blind(a) => Sound(a)'
      BY <2>0, <3>4, AtMetadataNext DEF Sound, Blind
    <3>6. \A b \in Actors : Sound(b) => Sound(b)'
      BY <2>g, <3>3, SameSound
    <3>7. \A b \in Actors : Blind(b)' => ~Whole(mfile) /\ \E c \in Actors \ {b} : Sound(c)'
      BY <2>g, <3>2, <3>4, <3>6, SameSound DEF Backed
    <3>8. \E c \in Actors : Sound(c)'
      BY <3>4, <3>5, <3>7
    <3>9. Whole(mfile)' <=> Whole(mfile)
      BY <3>1 DEF Whole, Readable
    <3>10. Whole(mback)' <=> Whole(mfile)
      BY <3>1 DEF Whole, Readable
    <3>11. Whole(mfile) \/ (mfile = Bad /\ spoils = 1)
      BY <3>2 DEF Backed
    <3>12. QED
      BY <2>0, <3>1, <3>7, <3>8, <3>9, <3>10, <3>11 DEF Backed
  <2>3. CASE writing[a].left = OneLeft
    <3>1. /\ mfile' = Holding(writing[a].m) /\ mback' = mback /\ Free(a)'
          /\ overlapped' = (overlapped \/ Contended(a))
      <4>1. Stops(a)
        BY <1>6, <2>3, Lefts DEF Writes
      <4>2. Free(a)'
        BY <4>1, StopsIs DEF Typed
      <4>3. QED
        BY <1>6, <2>3, <4>2, Lefts DEF Writes
    <3>2. ~overlapped /\ ~Contended(a)
      BY <1>s, <3>1
    <3>3. Backed
      BY <1>s, <2>0, <3>2, MetaParts
    <3>4. \A b \in Actors \ {a} : Free(b)
      BY <3>2 DEF Contended
    <3>5. ~Blind(a)
      BY <3>3, <3>4 DEF Backed, Sound, AtMetadata
    <3>6. Whole(mfile)'
      BY <2>0, <3>1, <3>5, FileIs DEF Whole, Readable, Blind
    <3>7. \A b \in Actors : ~Blind(b)'
      BY <2>g, <3>1, <3>4 DEF Blind, Same
    <3>8. spoils' = 0 => mback' = None \/ Whole(mback)'
      BY <2>0, <3>1, <3>3 DEF Backed, Whole, Readable
    <3>9. QED
      BY <3>6, <3>7, <3>8 DEF Backed
  <2>4. QED
    BY <2>0, <2>1, <2>2, <2>3, PlanFacts
<1>7. ASSUME NEW a \in Actors, Fails(a) \/ Crashes(a)
      PROVE  Backed'
  <2>1. faults' = faults + 1 /\ UNCHANGED <<mfile, mback, spoils, bare, overlapped>>
    BY <1>7 DEF Fails, Crashes
  <2>2. faults = 0 /\ spoils = 0
    BY <1>0, <1>s, <2>1
  <2>3. Whole(mfile) /\ (mback = None \/ Whole(mback)) /\ \A b \in Actors : ~Blind(b)
    BY <1>s, <2>1, <2>2, MetaParts DEF Backed
  <2>4. \A b \in Actors : Blind(b)' => Blind(b)
    <3>1. CASE Fails(a)
      BY <3>1, GoesOnIs DEF GoesOn, Same, Blind
    <3>2. CASE Crashes(a)
      <4>1. Free(a)' /\ \A b \in Actors \ {a} : Same(b)
        BY <3>2, StopsIs, SameIs DEF Crashes, Others, Typed
      <4>2. QED
        BY <4>1, SameSound DEF Blind
    <3>3. QED
      BY <1>7, <3>1, <3>2
  <2>5. QED
    BY <2>1, <2>2, <2>3, <2>4 DEF Backed, Whole, Readable
<1>8. ASSUME NEW a \in Actors, Renames(a)
      PROVE  Backed'
  <2>1. UNCHANGED <<mfile, mback, spoils, faults, bare, overlapped>> /\ Free(a)
    BY <1>8 DEF Renames
  <2>2. Backed
    BY <1>s, <2>1, MetaParts
  <2>3. \A b \in Actors \ {a} : Same(b)
    BY <1>8, RenamesPlans, SameIs
  <2>4. ~Sound(a)
    BY <2>1 DEF Sound, AtMetadata
  <2>5. Blind(a)' => metadata.recovered
    <3>1. [metadata EXCEPT !.name = names + 1].recovered = metadata.recovered
      BY Loaded DEF Typed, Metadata
    <3>2. QED
      BY <1>8, <3>1, RenamesPlans DEF Newly, Blind
  <2>6. QED
    BY <2>1, <2>2, <2>3, <2>4, <2>5, BlindRead, BackedStays, SameSound
<1>9. CASE UNCHANGED vars
  <2>1. UNCHANGED <<mfile, mback, spoils, faults, bare, overlapped, writing>>
    BY <1>9 DEF vars, files, counts, history
  <2>2. Backed
    BY <1>s, <2>1, MetaParts
  <2>3. QED
    BY <1>u, <2>1, <2>2, BackedStays, SameSound
<1>10. QED
  BY <1>1, <1>2, <1>3, <1>4, <1>5, <1>6, <1>7, <1>8, <1>9 DEF Step

LEMMA InitHolds ==
  ASSUME Init
  PROVE  IInv
<1> USE LiveAndShell
<1>1. PICK t \in {<<>>, <<Calling(Ids)>>} : tfile = Holding(t) /\ last = <<t, t>>
  BY DEF Init
<1>2. t \in Seq(Messages)
  <2>1. <<>> \in Seq(Messages)
    OBVIOUS
  <2>2. Calling(Ids) \in Messages
    BY MessageTypes
  <2>3. <<Calling(Ids)>> \in Seq(Messages)
    BY <2>2
  <2>4. QED
    BY <2>1, <2>3
<1>3. PICK m : /\ m = [name |-> 0, directive |-> TRUE, recovered |-> FALSE]
               /\ mfile = Holding(m)
  BY DEF Init
<1>4. m \in Metadata /\ m.name = 0 /\ m.directive /\ ~m.recovered
  BY <1>3, FilesAssumption DEF Metadata
<1>5. \A a \in Actors : writing[a] = Idle /\ Free(a)
  BY DEF Init, Free, Idle
<1>6. /\ mback = None /\ tback = None /\ live = "down" /\ context = <<>> /\ mark = 0
      /\ directive = FALSE /\ names = 0 /\ faults = 0 /\ spoils = 0 /\ named = 0 /\ runs = 0
      /\ overlapped = FALSE /\ refused = FALSE /\ bare = FALSE /\ shrunk = FALSE
  BY DEF Init
<1>7. FilesTyped
  <2>1. mfile \in MetaFiles /\ tfile \in TextFiles /\ None \in MetaFiles /\ None \in TextFiles
    BY <1>1, <1>2, <1>3, <1>4, FileIs DEF MetaFiles, TextFiles
  <2>2. writing \in [Actors -> {Idle} \cup Plans]
    BY DEF Init
  <2>3. QED
    BY <1>5, <1>6, <2>1, <2>2 DEF FilesTyped
<1>8. ProcessTyped /\ CountsTyped
  <2>1. <<>> \in Seq(Messages)
    OBVIOUS
  <2>2. 0 \in Nat /\ 0 \in 0 .. MaxNames /\ 0 + 0 <= MaxFaults
    BY FilesAssumption
  <2>3. FALSE \in BOOLEAN
    OBVIOUS
  <2>4. ProcessTyped
    BY <1>6, <2>1, <2>2, <2>3, Zenon DEF ProcessTyped
  <2>5. CountsTyped
    BY <1>6, <2>2 DEF CountsTyped
  <2>6. QED
    BY <2>4, <2>5
<1>9. HistoryTyped
  <2>1. last \in Seq(Messages) \X Seq(Messages)
    BY <1>1, <1>2
  <2>2. named \in 0 .. MaxNames /\ runs \in Nat
    BY <1>6, FilesAssumption
  <2>3. overlapped \in BOOLEAN /\ refused \in BOOLEAN /\ bare \in BOOLEAN /\ shrunk \in BOOLEAN
    BY <1>6
  <2>4. QED
    BY <2>1, <2>2, <2>3 DEF HistoryTyped
<1>10. Standing
  BY <1>5, <1>6 DEF Standing, Has
<1>11. Readable(mfile) /\ mfile.content = m
  BY <1>3, FileIs
<1>12. Merged /\ Cleared
  BY <1>4, <1>5, <1>6, <1>11 DEF Merged, Cleared
<1>13. last[1] = t /\ last[2] = t
  BY <1>1
<1>14. Stored
  BY <1>1, <1>5, <1>6, <1>13 DEF Stored, Has
<1>15. TextSurvives
  BY <1>1, <1>5, <1>6, <1>13 DEF TextSurvives, AtTranscript
<1>16. MetaSurvives
  BY <1>4, <1>5, <1>6, <1>11 DEF MetaSurvives, Whole
<1>17. QED
  BY <1>7, <1>8, <1>9, <1>10, <1>12, <1>14, <1>15, <1>16 DEF IInv, Typed

LEMMA NextKeeps ==
  ASSUME IInv, [Next]_vars
  PROVE  IInv'
<1>1. Typed /\ Standing /\ Merged /\ Cleared /\ Stored /\ TextSurvives /\ MetaSurvives
  BY DEF IInv
<1>2. Step
  BY <1>1, Steps
<1>3. Typed' /\ FilesTyped'
  BY <1>1, <1>2, TypedStep DEF Typed
<1>4. Standing' /\ Merged' /\ Cleared'
  BY <1>1, <1>2, StandingStep, MergedStep, ClearedStep
<1>5. Stored' /\ TextSurvives' /\ MetaSurvives'
  BY <1>1, <1>2, <1>3, StoredStep, TextStep, MetaStep
<1>6. QED
  BY <1>3, <1>4, <1>5 DEF IInv

\* The inductive invariant.
THEOREM Inductive == Spec => []IInv
<1>1. IInv /\ [Next]_vars => IInv'
  BY NextKeeps
<1>2. QED
  BY <1>1, InitHolds, PTL DEF Spec

\* The types of the files, of the process and of what is written to them.
THEOREM TypeCorrect == Spec => []TypeOK
<1>1. IInv => TypeOK
  <2>1. SUFFICES ASSUME Typed PROVE TypeOK
    BY DEF IInv
  <2>2. \A f \in {mfile, mback} : f \in {None, Bad} \/ (Readable(f) /\ f.content \in Metadata)
    BY <2>1, FileIs DEF Typed, FilesTyped
  <2>3. \A f \in {tfile, tback} : f \in {None, Bad} \/ (Readable(f) /\ f.content \in Seq(Messages))
    BY <2>1, FileIs DEF Typed, FilesTyped
  <2>4. \A a \in Actors : Free(a) \/ writing[a].m \in Metadata
    BY <2>1, PlanFacts
  <2>5. QED
    BY <2>1, <2>2, <2>3, <2>4 DEF TypeOK, Typed, ProcessTyped, CountsTyped
<1>2. QED
  BY <1>1, Inductive, PTL

\* A fork's directive is run by at most one resume, and the session has the name
\* it was given last: an update is merged into the metadata its actor read, which
\* nobody else has written unless two updates overlapped (take_pending_directive,
\* update_metadata).
THEOREM UpdatesHold == Spec => []UpdatesSurvive
<1>1. IInv /\ TypeOK => UpdatesSurvive
  <2>1. SUFFICES ASSUME IInv, TypeOK, ~overlapped, ~refused, spoils = 0
                 PROVE  runs <= 1 /\ metadata.name = named
    BY DEF UpdatesSurvive
  <2>2. runs <= 1 /\ Readable(mfile) /\ mfile.content.name = named
    BY <2>1 DEF IInv, Cleared, Merged
  <2>3. QED
    BY <2>1, <2>2, Loaded DEF IInv, Typed
<1>2. QED
  BY <1>1, Inductive, TypeCorrect, PTL

\* One fault, wherever it falls, costs no more than the last save: between the
\* write of a backup and the write of its file one of the two can be read
\* (_write_with_backup, _load_transcript, _load_metadata).
THEOREM OneFault == Spec => []OneFaultIsSurvived
<1>1. IInv => OneFaultIsSurvived
  <2>1. SUFFICES ASSUME IInv, faults + spoils <= 1, ~bare, ~overlapped, \A a \in Actors : Free(a)
                 PROVE  Resumable /\ (transcript = last[1] \/ (spoils = 1 /\ transcript = last[2]))
    BY DEF OneFaultIsSurvived
  <2>2. Typed /\ TextSurvives /\ MetaSurvives
    BY <2>1 DEF IInv
  <2>3. ~AtTranscript /\ \A a \in Actors : ~AtMetadata(a)
    BY <2>1, LiveAndShell DEF AtTranscript, AtMetadata
  <2>4. Whole(mfile) \/ (mfile = Bad /\ Whole(mback))
    BY <2>1, <2>2, <2>3 DEF MetaSurvives
  <2>5. Resumable
    BY <2>2, <2>4, Loaded, FileIs DEF Resumable, Whole, Typed
  <2>6. \/ tfile = Holding(last[1])
        \/ tfile = Bad /\ spoils = 1 /\ tback \in {Holding(last[1]), Holding(last[2])}
    BY <2>1, <2>2, <2>3 DEF TextSurvives
  <2>7. transcript = last[1] \/ (spoils = 1 /\ transcript = last[2])
    BY <2>2, <2>6, Loaded, FileIs DEF Typed
  <2>8. QED
    BY <2>5, <2>7
<1>2. QED
  BY <1>1, Inductive, PTL

\* The conversation of an ended turn is in the store unless a write failed or the
\* conversation was cleared, and the saver's mark is never ahead of the store
\* (maybe_save, _last_message_count).
THEOREM TurnsAreStored == Spec => []EndedTurnIsStored
<1>1. IInv => EndedTurnIsStored
  <2>1. SUFFICES ASSUME IInv, live = "idle", Free("live"), spoils = 0, ~shrunk
                 PROVE  /\ faults = 0 => transcript = context
                        /\ mark <= Len(transcript)
                        /\ SubSeq(context, 1, mark) = SubSeq(transcript, 1, mark)
    BY DEF EndedTurnIsStored
  <2>2. Typed /\ Stored
    BY <2>1 DEF IInv
  <2>3. tfile = Holding(last[1]) /\ ~Unwritten
    BY <2>1, <2>2 DEF Stored, Unwritten
  <2>4. transcript = last[1]
    BY <2>2, <2>3, Loaded, FileIs DEF Typed
  <2>5. faults = 0 => transcript = context
    BY <2>1, <2>2, <2>3, <2>4 DEF Stored
  <2>6. /\ mark <= Len(last[1]) /\ mark <= Len(context)
        /\ \A i \in 1 .. mark : context[i] = last[1][i]
    BY <2>1, <2>2 DEF Stored
  <2>7. mark \in Nat /\ context \in Seq(Messages) /\ last[1] \in Seq(Messages)
    BY <2>2 DEF Typed, ProcessTyped, HistoryTyped
  <2>8. SubSeq(context, 1, mark) = SubSeq(last[1], 1, mark)
    BY <2>6, <2>7
  <2>9. QED
    BY <2>4, <2>5, <2>6, <2>8
<1>2. QED
  BY <1>1, Inductive, PTL
-----------------------------------------------------------------------------
(* Sequences put together.                                                  *)

\* Where the elements of the sequences are when these are put together: b is the sequence
\* an element comes from, and o its place there.
Places(q, n, r, b, o) ==
  /\ \A m \in DOMAIN r :
       /\ b[m] \in 1 .. n /\ o[m] \in DOMAIN q[b[m]] /\ r[m] = q[b[m]][o[m]]
  /\ \A i \in 1 .. n : \A k \in DOMAIN q[i] : \E m \in DOMAIN r : b[m] = i /\ o[m] = k
  /\ \A m, l \in DOMAIN r : m < l <=> b[m] < b[l] \/ (b[m] = b[l] /\ o[m] < o[l])

LEMMA PlacesNext ==
  ASSUME NEW S, NEW q, NEW i \in Nat, NEW r \in Seq(S), NEW b, NEW o, Places(q, i, r, b, o),
         NEW e \in Seq(S), e = q[i + 1], \A k \in 1 .. i : q[k] \in Seq(S)
  PROVE  \E b2, o2 : Places(q, i + 1, r \o e, b2, o2)
<1>1. PICK n, k \in Nat : n = Len(r) /\ k = Len(e)
  OBVIOUS
<1>2. DOMAIN r = 1 .. n /\ DOMAIN e = 1 .. k
  BY <1>1
<1>3. PICK s : s = r \o e
  OBVIOUS
<1>4. DOMAIN s = 1 .. (n + k) /\ \A m \in 1 .. (n + k) : s[m] = IF m <= n THEN r[m] ELSE e[m - n]
  <2>1. s \in Seq(S) /\ Len(s) = n + k
    BY <1>1, <1>3
  <2>2. DOMAIN s = 1 .. (n + k)
    BY <2>1
  <2>3. QED
    BY <1>1, <1>3, <2>2
<1>5. PICK c : c = [m \in 1 .. (n + k) |-> IF m <= n THEN b[m] ELSE i + 1]
  OBVIOUS
<1>6. PICK d : d = [m \in 1 .. (n + k) |-> IF m <= n THEN o[m] ELSE m - n]
  OBVIOUS
<1>7. /\ \A m \in 1 .. n : m \in 1 .. (n + k) /\ c[m] = b[m] /\ d[m] = o[m] /\ s[m] = r[m]
      /\ \A m \in (1 .. (n + k)) \ (1 .. n) :
           m - n \in 1 .. k /\ c[m] = i + 1 /\ d[m] = m - n /\ s[m] = e[m - n]
  BY <1>4, <1>5, <1>6
<1>8. \A m \in 1 .. n : /\ b[m] \in 1 .. i /\ o[m] \in DOMAIN q[b[m]] /\ r[m] = q[b[m]][o[m]]
                        /\ o[m] \in Nat
  <2>1. TAKE m \in 1 .. n
  <2>2. b[m] \in 1 .. i /\ o[m] \in DOMAIN q[b[m]] /\ r[m] = q[b[m]][o[m]]
    BY <1>2, <2>1 DEF Places
  <2>3. q[b[m]] \in Seq(S)
    BY <2>2
  <2>4. o[m] \in Nat
    BY <2>2, <2>3
  <2>5. QED
    BY <2>2, <2>4
<1>9. \A m \in 1 .. (n + k) :
        /\ c[m] \in 1 .. (i + 1) /\ d[m] \in DOMAIN q[c[m]] /\ s[m] = q[c[m]][d[m]]
  <2>1. TAKE m \in 1 .. (n + k)
  <2>2. CASE m \in 1 .. n
    <3>1. c[m] = b[m] /\ d[m] = o[m] /\ s[m] = r[m]
      BY <1>7, <2>2
    <3>2. PICK x, y : x = b[m] /\ y = o[m]
      OBVIOUS
    <3>3. x \in 1 .. i /\ y \in DOMAIN q[x] /\ r[m] = q[x][y]
      BY <1>8, <2>2, <3>2
    <3>4. x \in 1 .. (i + 1)
      BY <3>3
    <3>5. QED
      BY <3>1, <3>2, <3>3, <3>4
  <2>3. CASE m \notin 1 .. n
    BY <1>2, <1>7, <2>1, <2>3
  <2>4. QED
    BY <2>2, <2>3
<1>10. ASSUME NEW j \in 1 .. (i + 1), NEW h \in DOMAIN q[j]
       PROVE  \E m \in 1 .. (n + k) : c[m] = j /\ d[m] = h
  <2>1. CASE j = i + 1
    <3>1. h \in 1 .. k /\ n + h \in (1 .. (n + k)) \ (1 .. n)
      BY <1>2, <2>1
    <3>2. c[n + h] = j /\ d[n + h] = h
      BY <1>7, <2>1, <3>1
    <3>3. QED
      BY <3>1, <3>2
  <2>2. CASE j # i + 1
    <3>1. j \in 1 .. i
      BY <2>2
    <3>2. PICK m \in 1 .. n : b[m] = j /\ o[m] = h
      BY <1>2, <3>1 DEF Places
    <3>3. QED
      BY <1>7, <3>2
  <2>3. QED
    BY <2>1, <2>2
<1>11. ASSUME NEW m \in 1 .. (n + k), NEW l \in 1 .. (n + k)
       PROVE  m < l <=> c[m] < c[l] \/ (c[m] = c[l] /\ d[m] < d[l])
  <2>1. CASE m \in 1 .. n /\ l \in 1 .. n
    <3>1. m < l <=> b[m] < b[l] \/ (b[m] = b[l] /\ o[m] < o[l])
      BY <1>2, <2>1 DEF Places
    <3>2. QED
      BY <1>7, <2>1, <3>1
  <2>2. CASE m \in 1 .. n /\ l \notin 1 .. n
    <3>1. c[m] \in 1 .. i /\ c[l] = i + 1
      BY <1>7, <1>8, <2>2
    <3>2. QED
      BY <2>2, <3>1
  <2>3. CASE m \notin 1 .. n /\ l \in 1 .. n
    <3>1. c[l] \in 1 .. i /\ c[m] = i + 1
      BY <1>7, <1>8, <2>3
    <3>2. QED
      BY <2>3, <3>1
  <2>4. CASE m \notin 1 .. n /\ l \notin 1 .. n
    <3>1. c[m] = i + 1 /\ c[l] = i + 1 /\ d[m] = m - n /\ d[l] = l - n
      BY <1>7, <2>4
    <3>2. QED
      BY <3>1
  <2>5. QED
    BY <2>1, <2>2, <2>3, <2>4
<1>12. Places(q, i + 1, s, c, d)
  <2>1. DOMAIN s = 1 .. (n + k)
    BY <1>4
  <2>2. \A m \in DOMAIN s : /\ c[m] \in 1 .. (i + 1) /\ d[m] \in DOMAIN q[c[m]]
                            /\ s[m] = q[c[m]][d[m]]
    BY <1>9, <2>1
  <2>3. \A j \in 1 .. (i + 1) : \A h \in DOMAIN q[j] : \E m \in DOMAIN s : c[m] = j /\ d[m] = h
    <3>1. TAKE j \in 1 .. (i + 1)
    <3>h. TAKE h \in DOMAIN q[j]
    <3>2. PICK m \in 1 .. (n + k) : c[m] = j /\ d[m] = h
      BY <1>10, <3>h
    <3>3. QED
      BY <2>1, <3>2
  <2>4. \A m, l \in DOMAIN s : m < l <=> c[m] < c[l] \/ (c[m] = c[l] /\ d[m] < d[l])
    BY <1>11, <2>1, Zenon
  <2>5. QED
    BY <2>2, <2>3, <2>4, Zenon DEF Places
<1>13. QED
  BY <1>3, <1>12

LEMMA FlattenPlaces ==
  ASSUME NEW S, NEW n \in Nat, NEW q, q \in [1 .. n -> Seq(S)]
  PROVE  /\ FlattenSeq(q) \in Seq(S)
         /\ \E b, o : Places(q, n, FlattenSeq(q), b, o)
<1>1. Len(q) = n /\ \A i \in 1 .. n : q[i] \in Seq(S)
  OBVIOUS
<1>2. FlattenSeq(q) \in Seq(S)
  BY FlattenType
<1>3. Places(q, 0, <<>>, <<>>, <<>>)
  BY DEF Places
<1>4. CASE n = 0
  <2>1. q = <<>>
    BY <1>4
  <2>2. FlattenSeq(q) = <<>>
    BY <2>1 DEF FlattenSeq
  <2>3. QED
    BY <1>2, <1>3, <1>4, <2>2
<1>5. CASE n # 0
  <2>1. PICK f : Joins(q, n, f) /\ FlattenSeq(q) = f[n]
    BY <1>1, <1>5, FlattenIs
  <2>2. \A i \in 1 .. n : f[i] \in Seq(S)
    BY <1>1, <2>1, JoinsType
  <2>3. \A i \in 1 .. n : \E b, o : Places(q, i, f[i], b, o)
    <3> DEFINE Wrong == {i \in 1 .. n : \A b, o : ~Places(q, i, f[i], b, o)}
    <3>1. SUFFICES ASSUME Wrong # {} PROVE FALSE
      OBVIOUS
    <3>2. PICK i \in Wrong : \A k \in Wrong : i <= k
      <4>1. Wrong \in SUBSET Nat
        OBVIOUS
      <4>2. QED
        BY <3>1, <4>1, Least
    <3>3. i \in 1 .. n /\ \A b, o : ~Places(q, i, f[i], b, o)
      BY <3>2
    <3>4. f[i] = IF i = 1 THEN q[i] ELSE f[i - 1] \o q[i]
      BY <2>1, <3>3 DEF Joins
    <3>5. \E r \in Seq(S) : \E b, o : Places(q, i - 1, r, b, o) /\ f[i] = r \o q[i]
      <4>1. CASE i = 1
        <5>1. q[1] \in Seq(S) /\ <<>> \in Seq(S)
          BY <1>1, <3>3, <4>1
        <5>2. <<>> \o q[1] = q[1]
          BY <5>1
        <5>3. i - 1 = 0
          BY <4>1
        <5>4. QED
          BY <1>3, <3>4, <4>1, <5>1, <5>2, <5>3
      <4>2. CASE i # 1
        <5>1. i - 1 \in 1 .. n /\ i - 1 \notin Wrong
          <6>1. i \in 1 .. n
            BY <3>3
          <6>2. i - 1 \in 1 .. n /\ ~ (i <= i - 1)
            BY <4>2, <6>1
          <6>3. QED
            BY <3>2, <6>2
        <5>2. PICK b, o : Places(q, i - 1, f[i - 1], b, o)
          BY <5>1
        <5>3. QED
          BY <2>2, <3>4, <4>2, <5>1, <5>2
      <4>3. QED
        BY <4>1, <4>2
    <3>6. PICK r \in Seq(S) : \E b, o : Places(q, i - 1, r, b, o) /\ f[i] = r \o q[i]
      BY <3>5
    <3>7. PICK b, o : Places(q, i - 1, r, b, o) /\ f[i] = r \o q[i]
      BY <3>6
    <3>8. i - 1 \in Nat /\ (i - 1) + 1 = i /\ q[i] \in Seq(S)
          /\ \A k \in 1 .. (i - 1) : q[k] \in Seq(S)
      BY <1>1, <3>3
    <3>9. \E b2, o2 : Places(q, (i - 1) + 1, r \o q[i], b2, o2)
      BY <3>7, <3>8, PlacesNext
    <3>10. QED
      BY <3>3, <3>7, <3>8, <3>9
  <2>4. n \in 1 .. n
    BY <1>5
  <2>5. \E b, o : Places(q, n, f[n], b, o)
    BY <2>3, <2>4
  <2>6. QED
    BY <1>2, <2>1, <2>5
<1>6. QED
  BY <1>4, <1>5

\* The sequences of one element each.
LEMMA FlattenSingles ==
  ASSUME NEW S, NEW t \in Seq(S), NEW q, q = [i \in DOMAIN t |-> <<t[i]>>]
  PROVE  FlattenSeq(q) = t
<1>1. PICK n \in Nat : n = Len(t) /\ DOMAIN t = 1 .. n
  OBVIOUS
<1>2. q \in [1 .. n -> Seq(S)] /\ Len(q) = n /\ \A i \in 1 .. n : q[i] = <<t[i]>> /\ t[i] \in S
  <2>1. \A i \in 1 .. n : t[i] \in S /\ <<t[i]>> \in Seq(S)
    BY <1>1
  <2>2. q = [i \in 1 .. n |-> <<t[i]>>]
    BY <1>1
  <2>3. QED
    BY <2>1, <2>2
<1>3. CASE n = 0
  <2>1. t = <<>> /\ q = <<>>
    BY <1>1, <1>2, <1>3
  <2>2. QED
    BY <2>1 DEF FlattenSeq
<1>4. CASE n # 0
  <2>1. PICK f : Joins(q, n, f) /\ FlattenSeq(q) = f[n]
    BY <1>2, <1>4, FlattenIs
  <2>2. \A i \in 1 .. n : f[i] = SubSeq(t, 1, i)
    <3> DEFINE Wrong == {i \in 1 .. n : f[i] # SubSeq(t, 1, i)}
    <3>1. SUFFICES ASSUME Wrong # {} PROVE FALSE
      OBVIOUS
    <3>2. PICK i \in Wrong : \A k \in Wrong : i <= k
      <4>1. Wrong \in SUBSET Nat
        OBVIOUS
      <4>2. QED
        BY <3>1, <4>1, Least
    <3>3. i \in 1 .. n /\ f[i] # SubSeq(t, 1, i)
      BY <3>2
    <3>4. f[i] = IF i = 1 THEN q[i] ELSE f[i - 1] \o q[i]
      BY <2>1, <3>3 DEF Joins
    <3>5. CASE i = 1
      <4>1. SubSeq(t, 1, 1) = <<t[1]>>
        <5>1. 1 \in 1 .. Len(t) /\ Len(t) \in Nat
          BY <1>1, <3>3, <3>5
        <5>2. SubSeq(t, 1, 1) = SubSeq(t, 1, 0) \o <<t[1]>> /\ SubSeq(t, 1, 0) = <<>>
          <6>1. SubSeq(t, 1, 1) = SubSeq(t, 1, 1 - 1) \o <<t[1]>>
            BY <5>1, SubSeqRecursiveSecond
          <6>2. SubSeq(t, 1, 0) = <<>>
            BY SubSeqEmpty
          <6>3. QED
            BY <6>1, <6>2
        <5>3. <<t[1]>> \in Seq(S)
          BY <5>1
        <5>4. <<>> \o <<t[1]>> = <<t[1]>>
          BY <5>3, ConcatEmptySeq
        <5>5. QED
          BY <5>2, <5>4
      <4>2. QED
        BY <1>2, <3>3, <3>4, <3>5, <4>1
    <3>6. CASE i # 1
      <4>1. i - 1 \in 1 .. n /\ f[i - 1] = SubSeq(t, 1, i - 1)
        BY <3>2, <3>3, <3>6
      <4>2. SubSeq(t, 1, i - 1) \o <<t[i]>> = SubSeq(t, 1, i)
        BY <1>1, <3>3, <4>1
      <4>3. QED
        BY <1>2, <3>3, <3>4, <3>6, <4>1, <4>2
    <3>7. QED
      BY <3>5, <3>6
  <2>3. f[n] = SubSeq(t, 1, n)
    BY <1>4, <2>2
  <2>4. SubSeq(t, 1, n) = t
    BY <1>1
  <2>5. QED
    BY <2>1, <2>3, <2>4
<1>5. QED
  BY <1>3, <1>4

-----------------------------------------------------------------------------
(* Conversations.  A call is made once and answered at most once, later; a  *)
(* message calls or answers, and answers one call at most.                  *)

Single(m) ==
  /\ m \in Messages
  /\ m.calls = {} \/ m.results = {}
  /\ m.role = "assistant" => m.results = {}
  /\ \A x, y \in m.results : x = y
CallsOnce(t) == \A i, j \in DOMAIN t : \A x \in Ids : x \in t[i].calls /\ x \in t[j].calls => i = j
AnswersOnce(t) ==
  \A i, j \in DOMAIN t : \A x \in Ids : x \in t[i].results /\ x \in t[j].results => i = j
AnswersLater(t) ==
  \A i \in DOMAIN t : \A x \in Ids :
    x \in t[i].results => \E j \in DOMAIN t : j < i /\ x \in t[j].calls
Consistent(t) ==
  /\ t \in Seq(Messages) /\ \A i \in DOMAIN t : Single(t[i])
  /\ CallsOnce(t) /\ AnswersOnce(t) /\ AnswersLater(t)

\* What the repair brings about: a tool's own results are in place, and every call is
\* answered.
Tidy(t) == \A i \in DOMAIN t : t[i].role = "tool" => t[i].results \cap Misplaced(t) = {}
Complete(t) == Called(t) \subseteq Answered(t)
Mended(t) == Tidy(t) /\ Complete(t)

LEMMA MessageIs ==
  ASSUME NEW t \in Seq(Messages)
  PROVE  /\ Len(t) \in Nat /\ DOMAIN t = 1 .. Len(t)
         /\ \A i \in DOMAIN t : /\ t[i] \in Messages /\ t[i].calls \in SUBSET Ids
                                /\ t[i].results \in SUBSET Ids
                                /\ t[i].role \in {"user", "assistant", "tool"}
         /\ Called(t) \in SUBSET Ids /\ Answered(t) \in SUBSET Ids
<1>1. Len(t) \in Nat /\ DOMAIN t = 1 .. Len(t) /\ \A i \in DOMAIN t : t[i] \in Messages
  OBVIOUS
<1>2. \A m \in Messages : /\ m.calls \in SUBSET Ids /\ m.results \in SUBSET Ids
                          /\ m.role \in {"user", "assistant", "tool"}
  BY DEF Messages
<1>3. QED
  BY <1>1, <1>2 DEF Called, Answered

LEMMA PlaceholderIs ==
  ASSUME NEW x \in Ids
  PROVE  /\ Single(Placeholder(x)) /\ Placeholder(x).calls = {} /\ Placeholder(x).results = {x}
         /\ Placeholder(x).role = "tool"
<1>1. PICK r : r = Result("tool", x) /\ r \in Messages
  BY MessageTypes
<1>3. r.calls = {} /\ r.results = {x} /\ r.role = "tool"
  BY <1>1 DEF Result, Says
<1>4. /\ Placeholder(x).calls = {} /\ Placeholder(x).results = {x}
      /\ Placeholder(x).role = "tool" /\ Placeholder(x) \in Messages
  <2>1. Placeholder(x) = [r EXCEPT !.real = FALSE]
    BY <1>1 DEF Placeholder
  <2>2. QED
    BY <1>1, <1>3, <2>1 DEF Messages
<1>5. QED
  BY <1>4 DEF Single

LEMMA PlaceholdersAre ==
  ASSUME NEW X \in SUBSET Ids
  PROVE  /\ Placeholders(X) \in Seq(Messages)
         /\ \A k \in DOMAIN Placeholders(X) : \E x \in X : Placeholders(X)[k] = Placeholder(x)
         /\ \A x \in X : \E k \in DOMAIN Placeholders(X) : Placeholders(X)[k] = Placeholder(x)
         /\ \A k, l \in DOMAIN Placeholders(X) :
              Placeholders(X)[k] = Placeholders(X)[l] => k = l
<1>1. IsFiniteSet(X)
  BY FilesAssumption, FS_Subset
<1>2. PICK n \in Nat : n = Cardinality(X) /\ ExistsBijection(1 .. n, X)
  BY <1>1, FS_CardinalityType
<1>3. SetToSeq(X) \in [1 .. n -> X] /\ IsInjective(SetToSeq(X))
  <2>1. PICK g : g \in Bijection(1 .. n, X)
    BY <1>2 DEF ExistsBijection
  <2>2. g \in [1 .. n -> X] /\ IsInjective(g)
    BY <2>1 DEF Bijection, Injection, IsInjective
  <2>3. \E h \in [1 .. Cardinality(X) -> X] : IsInjective(h)
    BY <1>2, <2>2
  <2>4. SetToSeq(X) \in [1 .. Cardinality(X) -> X] /\ IsInjective(SetToSeq(X))
    BY <2>3, Zenon DEF SetToSeq
  <2>5. QED
    BY <1>2, <2>4
<1>4. PICK q : q = SetToSeq(X) /\ q \in [1 .. n -> X] /\ IsInjective(q)
  BY <1>3
<1>5. q \in Surjection(1 .. n, X)
  <2>1. q \in Injection(1 .. n, X)
    BY <1>4 DEF Injection, IsInjective
  <2>2. IsFiniteSet(1 .. n) /\ Cardinality(1 .. n) = n
    <3>1. IsFiniteSet(1 .. n)
      BY FS_Interval
    <3>2. Cardinality(1 .. n) = n
      BY FS_Interval
    <3>3. QED
      BY <3>1, <3>2
  <2>3. QED
    BY <1>1, <1>2, <2>1, <2>2, FS_Injection
<1>6. DOMAIN q = 1 .. n
  BY <1>4
<1>7. PICK p : p = Placeholders(X)
  OBVIOUS
<1>8. DOMAIN p = 1 .. n /\ \A k \in 1 .. n : p[k] = Placeholder(q[k])
  <2>1. p = [k \in 1 .. n |-> Placeholder(q[k])]
    BY <1>4, <1>6, <1>7, Zenon DEF Placeholders
  <2>2. QED
    BY <2>1
<1>9. p \in Seq(Messages)
  BY <1>7, PlaceholdersType
<1>10. \A k \in 1 .. n : q[k] \in X
  BY <1>4
<1>11. \A x \in X : \E k \in 1 .. n : q[k] = x
  BY <1>5 DEF Surjection
<1>12. \A k, l \in 1 .. n : q[k] = q[l] => k = l
  BY <1>4, <1>6 DEF IsInjective
<1>13. \A k, l \in 1 .. n : p[k] = p[l] => q[k] = q[l]
  <2>1. TAKE k, l \in 1 .. n
  <2>2. q[k] \in Ids /\ q[l] \in Ids
    BY <1>10
  <2>3. p[k].results = {q[k]} /\ p[l].results = {q[l]}
    BY <1>8, <2>2, PlaceholderIs
  <2>4. QED
    BY <2>3
<1>14. QED
  BY <1>7, <1>8, <1>9, <1>10, <1>11, <1>12, <1>13

\* A message is added.
LEMMA ConsistentGrows ==
  ASSUME NEW t, Consistent(t), NEW m, Single(m), m.calls \cap Called(t) = {},
         m.results \subseteq Called(t) \ Answered(t)
  PROVE  Consistent(Append(t, m))
<1>1. t \in Seq(Messages) /\ m \in Messages
  BY DEF Consistent, Single
<1>2. PICK n \in Nat : n = Len(t) /\ DOMAIN t = 1 .. n
  BY <1>1
<1>3. PICK s : s = Append(t, m)
  OBVIOUS
<1>4. /\ s \in Seq(Messages) /\ DOMAIN s = 1 .. (n + 1) /\ s[n + 1] = m
      /\ \A i \in 1 .. n : s[i] = t[i]
  <2>1. s \in Seq(Messages) /\ Len(s) = n + 1
    BY <1>1, <1>2, <1>3
  <2>2. QED
    BY <1>1, <1>2, <1>3, <2>1
<1>5. \A i \in DOMAIN s : i \in 1 .. n \/ i = n + 1
  BY <1>4
<1>6. \A i \in 1 .. n : t[i].calls \subseteq Called(t) /\ t[i].results \subseteq Answered(t)
  BY <1>2 DEF Called, Answered
<1>7. \A x \in Called(t) : \E j \in 1 .. n : x \in t[j].calls
  BY <1>2 DEF Called
<1>8. \A i \in DOMAIN s : Single(s[i])
  BY <1>2, <1>4, <1>5 DEF Consistent
<1>9. CallsOnce(s)
  <2>1. SUFFICES ASSUME NEW i \in DOMAIN s, NEW j \in DOMAIN s, NEW x \in Ids,
                        x \in s[i].calls, x \in s[j].calls
                 PROVE  i = j
    BY DEF CallsOnce
  <2>2. CASE i \in 1 .. n /\ j \in 1 .. n
    BY <1>2, <1>4, <2>1, <2>2 DEF Consistent, CallsOnce
  <2>3. CASE i = n + 1 /\ j \in 1 .. n
    BY <1>4, <1>6, <2>1, <2>3
  <2>4. CASE j = n + 1 /\ i \in 1 .. n
    BY <1>4, <1>6, <2>1, <2>4
  <2>5. QED
    BY <1>5, <2>2, <2>3, <2>4
<1>10. AnswersOnce(s)
  <2>1. SUFFICES ASSUME NEW i \in DOMAIN s, NEW j \in DOMAIN s, NEW x \in Ids,
                        x \in s[i].results, x \in s[j].results
                 PROVE  i = j
    BY DEF AnswersOnce
  <2>2. CASE i \in 1 .. n /\ j \in 1 .. n
    BY <1>2, <1>4, <2>1, <2>2 DEF Consistent, AnswersOnce
  <2>3. CASE i = n + 1 /\ j \in 1 .. n
    BY <1>4, <1>6, <2>1, <2>3
  <2>4. CASE j = n + 1 /\ i \in 1 .. n
    BY <1>4, <1>6, <2>1, <2>4
  <2>5. QED
    BY <1>5, <2>2, <2>3, <2>4
<1>11. AnswersLater(s)
  <2>1. SUFFICES ASSUME NEW i \in DOMAIN s, NEW x \in Ids, x \in s[i].results
                 PROVE  \E j \in DOMAIN s : j < i /\ x \in s[j].calls
    BY DEF AnswersLater
  <2>2. PICK j \in 1 .. n : j < i /\ x \in t[j].calls
    <3>1. CASE i \in 1 .. n
      BY <1>2, <1>4, <2>1, <3>1 DEF Consistent, AnswersLater
    <3>2. CASE i = n + 1
      <4>1. PICK j \in 1 .. n : x \in t[j].calls
        BY <1>4, <1>7, <2>1, <3>2
      <4>2. j < i
        BY <3>2
      <4>3. QED
        BY <4>1, <4>2
    <3>3. QED
      BY <1>5, <3>1, <3>2
  <2>3. j \in DOMAIN s /\ x \in s[j].calls
    BY <1>4, <2>2
  <2>4. QED
    BY <2>2, <2>3
<1>12. QED
  BY <1>3, <1>4, <1>8, <1>9, <1>10, <1>11 DEF Consistent

-----------------------------------------------------------------------------
(* Late results are dropped.                                                *)

Drops(t, i) == t[i].role = "tool" /\ t[i].results \cap Misplaced(t) # {}
Picked(t, s, b) ==
  /\ s \in Seq(Messages)
  /\ \A m \in DOMAIN s : b[m] \in DOMAIN t /\ ~Drops(t, b[m]) /\ s[m] = t[b[m]]
  /\ \A i \in DOMAIN t : Drops(t, i) \/ \E m \in DOMAIN s : b[m] = i
  /\ \A m, l \in DOMAIN s : (m < l <=> b[m] < b[l]) /\ (b[m] = b[l] => m = l)

LEMMA StagedPicks ==
  ASSUME NEW t \in Seq(Messages)
  PROVE  \E b : Picked(t, Staged(t), b)
<1>1. PICK n \in Nat : n = Len(t) /\ DOMAIN t = 1 .. n
  OBVIOUS
<1>2. PICK q : q = [i \in DOMAIN t |-> IF Drops(t, i) THEN <<>> ELSE <<t[i]>>]
  OBVIOUS
<1>3. PICK s : s = FlattenSeq(q)
  OBVIOUS
<1>4. Staged(t) = s
  BY <1>2, <1>3, Zenon DEF Staged, Drops
<1>5. \A i \in 1 .. n : /\ Drops(t, i) => q[i] = <<>>
                        /\ ~Drops(t, i) => q[i] = <<t[i]>>
  BY <1>1, <1>2
<1>6. q \in [1 .. n -> Seq(Messages)]
  <2>1. <<>> \in Seq(Messages) /\ \A i \in 1 .. n : <<t[i]>> \in Seq(Messages)
    BY <1>1
  <2>2. \A i \in 1 .. n : q[i] \in Seq(Messages)
    BY <1>5, <2>1
  <2>3. q = [i \in 1 .. n |-> q[i]]
    BY <1>1, <1>2
  <2>4. QED
    BY <2>2, <2>3
<1>7. s \in Seq(Messages) /\ \E b, o : Places(q, n, s, b, o)
  BY <1>3, <1>6, FlattenPlaces
<1>8. PICK b, o : Places(q, n, s, b, o)
  BY <1>7
<1>9. \A i \in 1 .. n : \A k \in DOMAIN q[i] : ~Drops(t, i) /\ k = 1 /\ q[i][k] = t[i]
  <2>1. TAKE i \in 1 .. n
  <2>2. TAKE k \in DOMAIN q[i]
  <2>3. CASE Drops(t, i)
    BY <1>5, <2>2, <2>3
  <2>4. CASE ~Drops(t, i)
    BY <1>5, <2>2, <2>4
  <2>5. QED
    BY <2>3, <2>4
<1>10. \A m \in DOMAIN s : /\ b[m] \in DOMAIN t /\ ~Drops(t, b[m]) /\ s[m] = t[b[m]] /\ o[m] = 1
  <2>1. TAKE m \in DOMAIN s
  <2>2. b[m] \in 1 .. n /\ o[m] \in DOMAIN q[b[m]] /\ s[m] = q[b[m]][o[m]]
    BY <1>8, <2>1 DEF Places
  <2>3. QED
    BY <1>1, <1>9, <2>2
<1>11. \A i \in DOMAIN t : Drops(t, i) \/ \E m \in DOMAIN s : b[m] = i
  <2>1. TAKE i \in DOMAIN t
  <2>2. CASE ~Drops(t, i)
    <3>1. i \in 1 .. n /\ 1 \in DOMAIN q[i]
      BY <1>1, <1>5, <2>1, <2>2
    <3>2. QED
      BY <1>8, <3>1 DEF Places
  <2>3. QED
    BY <2>2
<1>12. ASSUME NEW m \in DOMAIN s, NEW l \in DOMAIN s
       PROVE  (m < l <=> b[m] < b[l]) /\ (b[m] = b[l] => m = l)
  <2>1. m \in Nat /\ l \in Nat
    BY <1>7
  <2>2. b[m] \in Nat /\ b[l] \in Nat /\ o[m] = 1 /\ o[l] = 1
    BY <1>1, <1>10
  <2>3. /\ m < l <=> b[m] < b[l] \/ (b[m] = b[l] /\ o[m] < o[l])
        /\ l < m <=> b[l] < b[m] \/ (b[l] = b[m] /\ o[l] < o[m])
    BY <1>8 DEF Places
  <2>4. QED
    BY <2>1, <2>2, <2>3
<1>13. Picked(t, s, b)
  BY <1>7, <1>10, <1>11, <1>12 DEF Picked
<1>14. QED
  BY <1>4, <1>13

\* No call is dropped, and nothing that was in place gets out of place.
LEMMA StagedIs ==
  ASSUME NEW t, Consistent(t)
  PROVE  Consistent(Staged(t)) /\ Tidy(Staged(t))
<1>1. t \in Seq(Messages) /\ (\A i \in DOMAIN t : Single(t[i]))
      /\ CallsOnce(t) /\ AnswersOnce(t) /\ AnswersLater(t)
  BY DEF Consistent
<1>2. PICK s, b : s = Staged(t) /\ Picked(t, s, b)
  BY <1>1, StagedPicks
<1>3. s \in Seq(Messages)
      /\ \A m \in DOMAIN s : b[m] \in DOMAIN t /\ ~Drops(t, b[m]) /\ s[m] = t[b[m]]
  BY <1>2 DEF Picked
<1>4. \A m, l \in DOMAIN s : (m < l <=> b[m] < b[l]) /\ (b[m] = b[l] => m = l)
  BY <1>2 DEF Picked
<1>5. \A i \in DOMAIN t : t[i].calls # {} => \E m \in DOMAIN s : b[m] = i
  <2>1. TAKE i \in DOMAIN t
  <2>2. t[i].calls # {} => ~Drops(t, i)
    BY <1>1 DEF Drops, Single
  <2>3. QED
    BY <1>2, <2>2 DEF Picked
<1>6. \A m \in DOMAIN s : Single(s[m])
  BY <1>1, <1>3
<1>7. CallsOnce(s) /\ AnswersOnce(s)
  <2>1. CallsOnce(s)
    BY <1>1, <1>3, <1>4 DEF CallsOnce
  <2>2. AnswersOnce(s)
    BY <1>1, <1>3, <1>4 DEF AnswersOnce
  <2>3. QED
    BY <2>1, <2>2
<1>8. AnswersLater(s)
  <2>1. SUFFICES ASSUME NEW m \in DOMAIN s, NEW x \in Ids, x \in s[m].results
                 PROVE  \E l \in DOMAIN s : l < m /\ x \in s[l].calls
    BY DEF AnswersLater
  <2>2. PICK j \in DOMAIN t : j < b[m] /\ x \in t[j].calls
    BY <1>1, <1>3, <2>1 DEF AnswersLater
  <2>3. PICK l \in DOMAIN s : b[l] = j
    BY <1>5, <2>2
  <2>4. QED
    BY <1>3, <1>4, <2>2, <2>3
<1>9. Consistent(s)
  BY <1>3, <1>6, <1>7, <1>8 DEF Consistent
<1>10. Tidy(s)
  <2>1. SUFFICES ASSUME NEW m \in DOMAIN s, s[m].role = "tool", NEW x \in s[m].results,
                        x \in Misplaced(s)
                 PROVE  FALSE
    BY DEF Tidy
  <2>2. x \in Ids
    BY <2>1 DEF Misplaced
  <2>3. PICK k, l \in DOMAIN s : x \in s[k].results /\ x \in s[l].calls /\ ~InPlace(s, l, k)
    BY <2>1 DEF Misplaced
  <2>4. k = m
    BY <1>7, <2>1, <2>2, <2>3 DEF AnswersOnce
  <2>5. b[k] \in DOMAIN t /\ b[l] \in DOMAIN t /\ x \in t[b[k]].results /\ x \in t[b[l]].calls
    BY <1>3, <2>3
  <2>6. ~InPlace(t, b[l], b[k])
    <3>1. SUFFICES ASSUME InPlace(t, b[l], b[k]) PROVE InPlace(s, l, k)
      BY <2>3
    <3>2. l < k
      BY <1>4, <3>1 DEF InPlace
    <3>3. ASSUME NEW h \in (l + 1) .. k PROVE s[h].results # {}
      <4>1. h \in DOMAIN s /\ h \in Nat /\ k \in Nat /\ l \in Nat /\ l < h /\ (h < k \/ h = k)
        BY <1>3, <3>2, <3>3
      <4>2. b[l] < b[h] /\ (b[h] < b[k] \/ b[h] = b[k])
        BY <1>4, <4>1
      <4>3. b[h] \in Nat /\ b[l] \in Nat /\ b[k] \in Nat
        BY <1>1, <1>3, <4>1
      <4>4. b[h] \in (b[l] + 1) .. b[k]
        BY <4>2, <4>3
      <4>5. QED
        BY <1>3, <3>1, <4>1, <4>4 DEF InPlace
    <3>4. QED
      BY <3>2, <3>3 DEF InPlace
  <2>7. x \in Misplaced(t)
    BY <2>2, <2>5, <2>6 DEF Misplaced
  <2>8. Drops(t, b[m])
    BY <1>3, <2>1, <2>4, <2>5, <2>7 DEF Drops
  <2>9. QED
    BY <1>3, <2>8
<1>11. QED
  BY <1>2, <1>9, <1>10

-----------------------------------------------------------------------------
(* What is missing is filled in.                                            *)

\* A message of the result is one of the conversation, or a placeholder behind the message
\* that calls.
Kept(s, r, b, o, m) == o[m] = 1 /\ r[m] = s[b[m]]
Fills(s, r, b, o, m, x) == o[m] > 1 /\ x \in Missing(s, b[m]) /\ r[m] = Placeholder(x)
Filling(s, r, b, o) ==
  /\ r \in Seq(Messages)
  /\ \A m \in DOMAIN r :
       /\ b[m] \in DOMAIN s /\ o[m] \in Nat
       /\ Kept(s, r, b, o, m) \/ \E x \in Missing(s, b[m]) : Fills(s, r, b, o, m, x)
  /\ \A i \in DOMAIN s :
       /\ \E m \in DOMAIN r : b[m] = i /\ Kept(s, r, b, o, m)
       /\ \A x \in Missing(s, i) : \E m \in DOMAIN r : b[m] = i /\ Fills(s, r, b, o, m, x)
  /\ \A m, l \in DOMAIN r :
       /\ m < l <=> b[m] < b[l] \/ (b[m] = b[l] /\ o[m] < o[l])
       /\ b[m] = b[l] /\ o[m] = o[l] => m = l
       /\ \A x \in Ids : b[m] = b[l] /\ Fills(s, r, b, o, m, x) /\ Fills(s, r, b, o, l, x) => m = l

\* A message with its placeholders.
Block(e, c, X) ==
  /\ e \in Seq(Messages) /\ 1 \in DOMAIN e /\ e[1] = c
  /\ \A k \in DOMAIN e : k \in Nat /\ (k = 1 \/ (k > 1 /\ \E x \in X : e[k] = Placeholder(x)))
  /\ \A x \in X : \E k \in DOMAIN e : k > 1 /\ e[k] = Placeholder(x)
  /\ \A k, l \in DOMAIN e : k > 1 /\ l > 1 /\ e[k] = e[l] => k = l

LEMMA BlockIs ==
  ASSUME NEW c \in Messages, NEW X \in SUBSET Ids
  PROVE  Block(<<c>> \o Placeholders(X), c, X)
<1>e. PICK e : e = <<c>> \o Placeholders(X)
  OBVIOUS
<1> DEFINE p == Placeholders(X)
<1>2. /\ p \in Seq(Messages)
      /\ \A k \in DOMAIN p : \E x \in X : p[k] = Placeholder(x)
      /\ \A x \in X : \E k \in DOMAIN p : p[k] = Placeholder(x)
      /\ \A k, l \in DOMAIN p : p[k] = p[l] => k = l
  BY PlaceholdersAre
<1>1. e = <<c>> \o p
  BY <1>e
<1> HIDE DEF p
<1>3. PICK n \in Nat : n = Len(p) /\ DOMAIN p = 1 .. n
  BY <1>2
<1>4. e \in Seq(Messages) /\ DOMAIN e = 1 .. (n + 1) /\ e[1] = c
      /\ \A k \in 2 .. (n + 1) : e[k] = p[k - 1]
  <2>a. PICK a : a = <<c>>
    OBVIOUS
  <2>1. a \in Seq(Messages) /\ Len(a) = 1 /\ a[1] = c
    BY <2>a
  <2>2. e = a \o p /\ p \in Seq(Messages)
    BY <1>1, <1>2, <2>a
  <2>3. e \in Seq(Messages) /\ Len(e) = n + 1
    <3>1. a \o p \in Seq(Messages) /\ Len(a \o p) = Len(a) + Len(p)
      BY <2>1, <2>2, ConcatProperties
    <3>2. QED
      BY <1>3, <2>1, <2>2, <3>1
  <2>4. \A k \in 1 .. (n + 1) : e[k] = IF k <= 1 THEN a[k] ELSE p[k - 1]
    <3>1. \A k \in 1 .. Len(a) + Len(p) : (a \o p)[k] = IF k <= Len(a) THEN a[k] ELSE p[k - Len(a)]
      BY <2>1, <2>2, ConcatProperties
    <3>2. Len(a) + Len(p) = n + 1 /\ Len(a) = 1
      BY <1>3, <2>1
    <3>3. \A k \in 1 .. Len(a) + Len(p) : e[k] = IF k <= Len(a) THEN a[k] ELSE p[k - Len(a)]
      BY <2>2, <3>1, Zenon
    <3>4. QED
      BY <3>2, <3>3, Zenon
  <2>5. DOMAIN e = 1 .. (n + 1)
    BY <2>3
  <2>6. QED
    BY <2>1, <2>3, <2>4, <2>5
<1>5. ASSUME NEW k \in DOMAIN e
      PROVE  k \in Nat /\ (k = 1 \/ (k > 1 /\ \E x \in X : e[k] = Placeholder(x)))
  <2>1. k \in Nat /\ k \in 1 .. (n + 1)
    BY <1>4, <1>5
  <2>2. CASE k # 1
    <3>1. k > 1 /\ k \in 2 .. (n + 1) /\ k - 1 \in DOMAIN p
      BY <1>3, <2>1, <2>2
    <3>2. PICK x \in X : p[k - 1] = Placeholder(x)
      BY <1>2, <3>1
    <3>3. QED
      BY <1>4, <2>1, <3>1, <3>2
  <2>3. QED
    BY <2>1, <2>2
<1>6. ASSUME NEW x \in X
      PROVE  \E k \in DOMAIN e : k > 1 /\ e[k] = Placeholder(x)
  <2>1. PICK k \in DOMAIN p : p[k] = Placeholder(x)
    BY <1>2
  <2>2. k + 1 \in 2 .. (n + 1) /\ k + 1 \in DOMAIN e /\ k + 1 > 1 /\ (k + 1) - 1 = k
    BY <1>3, <1>4, <2>1
  <2>3. e[k + 1] = p[k]
    BY <1>4, <2>2
  <2>4. QED
    BY <2>1, <2>2, <2>3
<1>7. ASSUME NEW k \in DOMAIN e, NEW l \in DOMAIN e, k > 1, l > 1, e[k] = e[l]
      PROVE  k = l
  <2>1. k \in 2 .. (n + 1) /\ l \in 2 .. (n + 1) /\ k - 1 \in DOMAIN p /\ l - 1 \in DOMAIN p
    BY <1>3, <1>4, <1>7
  <2>2. p[k - 1] = p[l - 1]
    BY <1>4, <1>7, <2>1
  <2>3. k - 1 = l - 1
    BY <1>2, <2>1, <2>2
  <2>4. QED
    BY <2>1, <2>3
<1>8. 1 \in DOMAIN e
  BY <1>3, <1>4
<1>9. Block(e, c, X)
  BY <1>4, <1>5, <1>6, <1>7, <1>8 DEF Block
<1>10. QED
  BY <1>e, <1>9

LEMMA FilledFills ==
  ASSUME NEW s \in Seq(Messages)
  PROVE  \E b, o : Filling(s, Filled(s), b, o)
<1>1. PICK n \in Nat : n = Len(s) /\ DOMAIN s = 1 .. n
  OBVIOUS
<1>2. \A i \in 1 .. n : s[i] \in Messages /\ Missing(s, i) \in SUBSET Ids
  <2>1. \A i \in 1 .. n : s[i] \in Messages /\ s[i].calls \in SUBSET Ids
    BY <1>1, MessageIs
  <2>2. QED
    BY <2>1 DEF Missing
<1>3. PICK q : q = [i \in DOMAIN s |-> <<s[i]>> \o Placeholders(Missing(s, i))]
  OBVIOUS
<1>4. PICK r : r = FlattenSeq(q)
  OBVIOUS
<1>5. Filled(s) = r
  BY <1>3, <1>4, Zenon DEF Filled
<1>6. \A i \in 1 .. n : q[i] = <<s[i]>> \o Placeholders(Missing(s, i))
  BY <1>1, <1>3
<1>b. \A i \in 1 .. n : Block(q[i], s[i], Missing(s, i))
  BY <1>2, <1>6, BlockIs
<1>7. \A i \in 1 .. n :
        /\ q[i] \in Seq(Messages) /\ 1 \in DOMAIN q[i] /\ q[i][1] = s[i]
        /\ \A k \in DOMAIN q[i] :
             k \in Nat /\ (k = 1 \/ (k > 1 /\ \E x \in Missing(s, i) : q[i][k] = Placeholder(x)))
        /\ \A x \in Missing(s, i) : \E k \in DOMAIN q[i] : k > 1 /\ q[i][k] = Placeholder(x)
        /\ \A k, l \in DOMAIN q[i] : k > 1 /\ l > 1 /\ q[i][k] = q[i][l] => k = l
  BY <1>b, Zenon DEF Block
<1>8. q \in [1 .. n -> Seq(Messages)]
  <2>1. q = [i \in 1 .. n |-> q[i]]
    BY <1>1, <1>3
  <2>2. \A i \in 1 .. n : q[i] \in Seq(Messages)
    BY <1>7
  <2>3. QED
    BY <2>1, <2>2
<1>9. r \in Seq(Messages) /\ \E b, o : Places(q, n, r, b, o)
  BY <1>4, <1>8, FlattenPlaces
<1>10. PICK b, o : Places(q, n, r, b, o)
  BY <1>9
<1>11. \A m \in DOMAIN r :
         b[m] \in 1 .. n /\ o[m] \in DOMAIN q[b[m]] /\ r[m] = q[b[m]][o[m]] /\ o[m] \in Nat
  <2>1. TAKE m \in DOMAIN r
  <2>2. PICK i, k : i = b[m] /\ k = o[m]
    OBVIOUS
  <2>3. i \in 1 .. n /\ k \in DOMAIN q[i] /\ r[m] = q[i][k]
    BY <1>10, <2>2 DEF Places
  <2>4. k \in Nat
    BY <1>7, <2>3
  <2>5. QED
    BY <2>2, <2>3, <2>4
<1>12. ASSUME NEW m \in DOMAIN r
       PROVE  Kept(s, r, b, o, m) \/ \E x \in Missing(s, b[m]) : Fills(s, r, b, o, m, x)
  <2>1. PICK i, k : i = b[m] /\ k = o[m]
    OBVIOUS
  <2>2. i \in 1 .. n /\ k \in DOMAIN q[i] /\ r[m] = q[i][k]
    BY <1>11, <2>1
  <2>3. CASE k = 1
    <3>1. r[m] = s[i]
      BY <1>7, <2>2, <2>3
    <3>2. QED
      BY <2>1, <2>3, <3>1 DEF Kept
  <2>4. CASE k # 1
    <3>1. k > 1 /\ \E x \in Missing(s, i) : q[i][k] = Placeholder(x)
      BY <1>7, <2>2, <2>4
    <3>2. PICK x \in Missing(s, i) : q[i][k] = Placeholder(x)
      BY <3>1
    <3>3. Fills(s, r, b, o, m, x)
      BY <2>1, <2>2, <3>1, <3>2 DEF Fills
    <3>4. QED
      BY <2>1, <3>2, <3>3
  <2>5. QED
    BY <2>3, <2>4
<1>13. ASSUME NEW i \in DOMAIN s
       PROVE  /\ \E m \in DOMAIN r : b[m] = i /\ Kept(s, r, b, o, m)
              /\ \A x \in Missing(s, i) : \E m \in DOMAIN r : b[m] = i /\ Fills(s, r, b, o, m, x)
  <2>1. i \in 1 .. n
    BY <1>1
  <2>2. \A k \in DOMAIN q[i] : \E m \in DOMAIN r : b[m] = i /\ o[m] = k
    BY <1>10, <2>1 DEF Places
  <2>3. 1 \in DOMAIN q[i] /\ q[i][1] = s[i]
    BY <1>7, <2>1
  <2>4. PICK m \in DOMAIN r : b[m] = i /\ o[m] = 1
    BY <2>2, <2>3
  <2>5. Kept(s, r, b, o, m)
    BY <1>11, <2>3, <2>4 DEF Kept
  <2>6. ASSUME NEW x \in Missing(s, i)
        PROVE  \E l \in DOMAIN r : b[l] = i /\ Fills(s, r, b, o, l, x)
    <3>1. PICK k \in DOMAIN q[i] : k > 1 /\ q[i][k] = Placeholder(x)
      BY <1>7, <2>1
    <3>2. PICK l \in DOMAIN r : b[l] = i /\ o[l] = k
      BY <2>2, <3>1
    <3>3. r[l] = Placeholder(x)
      BY <1>11, <3>1, <3>2
    <3>4. QED
      BY <3>1, <3>2, <3>3 DEF Fills
  <2>7. QED
    BY <2>4, <2>5, <2>6
<1>14. ASSUME NEW m \in DOMAIN r, NEW l \in DOMAIN r
       PROVE  /\ m < l <=> b[m] < b[l] \/ (b[m] = b[l] /\ o[m] < o[l])
              /\ b[m] = b[l] /\ o[m] = o[l] => m = l
              /\ \A x \in Ids : b[m] = b[l] /\ Fills(s, r, b, o, m, x) /\ Fills(s, r, b, o, l, x)
                                  => m = l
  <2>1. m \in Nat /\ l \in Nat
    BY <1>9
  <2>2. b[m] \in Nat /\ b[l] \in Nat /\ o[m] \in Nat /\ o[l] \in Nat
    BY <1>11
  <2>3. /\ m < l <=> b[m] < b[l] \/ (b[m] = b[l] /\ o[m] < o[l])
        /\ l < m <=> b[l] < b[m] \/ (b[l] = b[m] /\ o[l] < o[m])
    BY <1>10 DEF Places
  <2>4. b[m] = b[l] /\ o[m] = o[l] => m = l
    BY <2>1, <2>2, <2>3
  <2>5. ASSUME NEW x \in Ids, b[m] = b[l], Fills(s, r, b, o, m, x), Fills(s, r, b, o, l, x)
        PROVE  m = l
    <3>1. PICK i, k, h : i = b[m] /\ k = o[m] /\ h = o[l]
      OBVIOUS
    <3>2. i \in 1 .. n /\ k \in DOMAIN q[i] /\ h \in DOMAIN q[i] /\ r[m] = q[i][k] /\ r[l] = q[i][h]
      BY <1>11, <2>5, <3>1
    <3>3. k > 1 /\ h > 1 /\ r[m] = r[l]
      BY <2>5, <3>1 DEF Fills
    <3>4. k = h
      BY <1>7, <3>2, <3>3
    <3>5. QED
      BY <2>4, <2>5, <3>1, <3>4
  <2>6. QED
    BY <2>3, <2>4, <2>5
<1>15. \A m \in DOMAIN r : b[m] \in DOMAIN s /\ o[m] \in Nat
  BY <1>1, <1>11
<1>16. Filling(s, r, b, o)
  <2>1. \A m \in DOMAIN r :
          /\ b[m] \in DOMAIN s /\ o[m] \in Nat
          /\ Kept(s, r, b, o, m) \/ \E x \in Missing(s, b[m]) : Fills(s, r, b, o, m, x)
    BY <1>12, <1>15
  <2>2. QED
    BY <1>9, <1>13, <1>14, <2>1, Zenon DEF Filling
<1>17. QED
  BY <1>5, <1>16

LEMMA MissingIs ==
  ASSUME NEW s, Consistent(s), NEW i \in DOMAIN s
  PROVE  Missing(s, i) = s[i].calls \ Answered(s)
<1>1. s \in Seq(Messages) /\ CallsOnce(s)
  BY DEF Consistent
<1>2. PICK n \in Nat : DOMAIN s = 1 .. n
  BY <1>1
<1>3. s[i].calls \in SUBSET Ids
  BY <1>1, MessageIs
<1>4. ASSUME NEW x \in s[i].calls, NEW j \in 1 .. i - 1 PROVE x \notin s[j].calls
  <2>1. j \in DOMAIN s /\ j # i
    BY <1>2
  <2>2. QED
    BY <1>1, <1>3, <2>1 DEF CallsOnce
<1>5. QED
  BY <1>4 DEF Missing

\* Every call is answered, and what was in place or is filled in is in place.
LEMMA FilledIs ==
  ASSUME NEW s, Consistent(s), Tidy(s)
  PROVE  Consistent(Filled(s)) /\ Mended(Filled(s))
<1>1. s \in Seq(Messages) /\ (\A i \in DOMAIN s : Single(s[i]))
      /\ CallsOnce(s) /\ AnswersOnce(s) /\ AnswersLater(s)
  BY DEF Consistent
<1>2. PICK r, b, o : r = Filled(s) /\ Filling(s, r, b, o)
  BY <1>1, FilledFills
<1>3. r \in Seq(Messages)
      /\ \A m \in DOMAIN r : m \in Nat /\ b[m] \in DOMAIN s /\ b[m] \in Nat /\ o[m] \in Nat
  BY <1>1, <1>2 DEF Filling
<1>4. \A m \in DOMAIN r :
        Kept(s, r, b, o, m) \/ \E x \in Missing(s, b[m]) : Fills(s, r, b, o, m, x)
  BY <1>2 DEF Filling
<1>5. \A m, l \in DOMAIN r :
        /\ m < l <=> b[m] < b[l] \/ (b[m] = b[l] /\ o[m] < o[l])
        /\ b[m] = b[l] /\ o[m] = o[l] => m = l
        /\ \A x \in Ids : b[m] = b[l] /\ Fills(s, r, b, o, m, x) /\ Fills(s, r, b, o, l, x) => m = l
  BY <1>2 DEF Filling
<1>6. \A i \in DOMAIN s :
        /\ s[i].calls \in SUBSET Ids /\ s[i].results \in SUBSET Ids
        /\ Missing(s, i) = s[i].calls \ Answered(s)
        /\ s[i].results \subseteq Answered(s)
  BY <1>1, MessageIs, MissingIs DEF Answered
\* A placeholder, and what its message answers.
<1>7. ASSUME NEW m \in DOMAIN r, NEW x, Fills(s, r, b, o, m, x)
      PROVE  /\ o[m] > 1 /\ x \in Ids /\ x \in s[b[m]].calls /\ x \notin Answered(s)
             /\ Single(r[m]) /\ r[m].calls = {} /\ r[m].results = {x}
  <2>1. o[m] > 1 /\ x \in Ids /\ x \in s[b[m]].calls /\ x \notin Answered(s) /\ r[m] = Placeholder(x)
    BY <1>3, <1>6, <1>7 DEF Fills
  <2>2. QED
    BY <2>1, PlaceholderIs
<1>8. ASSUME NEW m \in DOMAIN r, NEW x \in r[m].calls
      PROVE  o[m] = 1 /\ Kept(s, r, b, o, m) /\ x \in s[b[m]].calls
  <2>1. Kept(s, r, b, o, m)
    BY <1>4, <1>7, <1>8
  <2>2. QED
    BY <1>8, <2>1 DEF Kept
<1>9. ASSUME NEW m \in DOMAIN r, NEW x \in r[m].results
      PROVE  \/ Kept(s, r, b, o, m) /\ x \in s[b[m]].results
             \/ Fills(s, r, b, o, m, x)
  <2>1. CASE Kept(s, r, b, o, m)
    BY <1>9, <2>1 DEF Kept
  <2>2. CASE ~Kept(s, r, b, o, m)
    <3>1. PICK y : Fills(s, r, b, o, m, y)
      BY <1>4, <2>2
    <3>2. x = y
      BY <1>7, <1>9, <3>1
    <3>3. QED
      BY <3>1, <3>2
  <2>3. QED
    BY <2>1, <2>2
<1>10. \A m \in DOMAIN r : Single(r[m])
  <2>1. TAKE m \in DOMAIN r
  <2>2. CASE Kept(s, r, b, o, m)
    BY <1>1, <1>3, <2>1, <2>2 DEF Kept
  <2>3. CASE ~Kept(s, r, b, o, m)
    BY <1>4, <1>7, <2>1, <2>3
  <2>4. QED
    BY <2>2, <2>3
<1>11. CallsOnce(r)
  <2>1. SUFFICES ASSUME NEW m \in DOMAIN r, NEW l \in DOMAIN r, NEW x \in Ids,
                        x \in r[m].calls, x \in r[l].calls
                 PROVE  m = l
    BY DEF CallsOnce
  <2>2. o[m] = 1 /\ o[l] = 1 /\ x \in s[b[m]].calls /\ x \in s[b[l]].calls
    BY <1>8, <2>1
  <2>3. b[m] = b[l]
    BY <1>1, <1>3, <2>2 DEF CallsOnce
  <2>4. QED
    BY <1>5, <2>2, <2>3
<1>12. AnswersOnce(r)
  <2>1. SUFFICES ASSUME NEW m \in DOMAIN r, NEW l \in DOMAIN r, NEW x \in Ids,
                        x \in r[m].results, x \in r[l].results
                 PROVE  m = l
    BY DEF AnswersOnce
  <2>2. CASE /\ Kept(s, r, b, o, m) /\ x \in s[b[m]].results
             /\ Kept(s, r, b, o, l) /\ x \in s[b[l]].results
    <3>1. b[m] = b[l]
      BY <1>1, <1>3, <2>2 DEF AnswersOnce
    <3>2. QED
      BY <1>5, <2>2, <3>1 DEF Kept
  <2>3. CASE Fills(s, r, b, o, m, x) /\ Fills(s, r, b, o, l, x)
    <3>1. x \in s[b[m]].calls /\ x \in s[b[l]].calls
      BY <1>7, <2>3
    <3>2. b[m] = b[l]
      BY <1>1, <1>3, <3>1 DEF CallsOnce
    <3>3. QED
      BY <1>5, <2>3, <3>2
  <2>4. CASE \/ Fills(s, r, b, o, m, x) /\ x \in s[b[l]].results
             \/ Fills(s, r, b, o, l, x) /\ x \in s[b[m]].results
    BY <1>3, <1>6, <1>7, <2>4
  <2>5. QED
    BY <1>9, <2>1, <2>2, <2>3, <2>4
<1>13. AnswersLater(r)
  <2>1. SUFFICES ASSUME NEW m \in DOMAIN r, NEW x \in Ids, x \in r[m].results
                 PROVE  \E l \in DOMAIN r : l < m /\ x \in r[l].calls
    BY DEF AnswersLater
  <2>2. PICK j \in DOMAIN s : x \in s[j].calls /\ (j < b[m] \/ (j = b[m] /\ o[m] > 1))
    <3>1. CASE x \in s[b[m]].results
      BY <1>1, <1>3, <3>1 DEF AnswersLater
    <3>2. CASE Fills(s, r, b, o, m, x)
      BY <1>3, <1>7, <3>2
    <3>3. QED
      BY <1>9, <2>1, <3>1, <3>2
  <2>3. PICK l \in DOMAIN r : b[l] = j /\ Kept(s, r, b, o, l)
    BY <1>2 DEF Filling
  <2>4. o[l] = 1 /\ x \in r[l].calls
    BY <2>2, <2>3 DEF Kept
  <2>5. l < m
    BY <1>3, <1>5, <2>2, <2>3, <2>4
  <2>6. QED
    BY <2>4, <2>5
<1>14. Consistent(r)
  BY <1>3, <1>10, <1>11, <1>12, <1>13 DEF Consistent
<1>15. Tidy(r)
  <2>1. SUFFICES ASSUME NEW m \in DOMAIN r, r[m].role = "tool", NEW x \in r[m].results,
                        x \in Misplaced(r)
                 PROVE  FALSE
    BY DEF Tidy
  <2>2. x \in Ids
    BY <2>1 DEF Misplaced
  <2>3. PICK k, l \in DOMAIN r : x \in r[k].results /\ x \in r[l].calls /\ ~InPlace(r, l, k)
    BY <2>1 DEF Misplaced
  <2>4. k = m
    BY <1>12, <2>1, <2>2, <2>3 DEF AnswersOnce
  <2>5. o[l] = 1 /\ x \in s[b[l]].calls
    BY <1>8, <2>3
  <2>6. \/ b[l] < b[m] /\ \A j \in (b[l] + 1) .. b[m] : s[j].results # {}
        \/ b[l] = b[m] /\ o[m] > 1
    <3>1. CASE Kept(s, r, b, o, m) /\ x \in s[b[m]].results
      <4>1. s[b[m]].role = "tool"
        BY <2>1, <3>1 DEF Kept
      <4>2. x \notin Misplaced(s)
        BY <1>3, <3>1, <4>1 DEF Tidy
      <4>3. InPlace(s, b[l], b[m])
        BY <1>3, <2>2, <2>5, <3>1, <4>2 DEF Misplaced
      <4>4. QED
        BY <4>3 DEF InPlace
    <3>2. CASE Fills(s, r, b, o, m, x)
      <4>1. o[m] > 1 /\ x \in s[b[m]].calls
        BY <1>7, <3>2
      <4>2. QED
        BY <1>1, <1>3, <2>2, <2>5, <4>1 DEF CallsOnce
    <3>3. QED
      BY <1>9, <3>1, <3>2
  <2>7. l < m
    BY <1>3, <1>5, <2>5, <2>6
  <2>8. ASSUME NEW h \in (l + 1) .. m PROVE r[h].results # {}
    <3>1. h \in DOMAIN r /\ l < h /\ (h < m \/ h = m)
      <4>1. PICK n \in Nat : DOMAIN r = 1 .. n
        BY <1>3
      <4>2. QED
        BY <1>3, <4>1
    <3>2. CASE \E y : Fills(s, r, b, o, h, y)
      <4>1. PICK y : Fills(s, r, b, o, h, y)
        BY <3>2
      <4>2. r[h].results = {y}
        BY <1>7, <3>1, <4>1
      <4>3. QED
        BY <4>2
    <3>3. CASE Kept(s, r, b, o, h)
      <4>1. o[h] = 1
        BY <3>3 DEF Kept
      <4>2. b[l] < b[h] /\ (b[h] < b[m] \/ b[h] = b[m])
        BY <1>3, <1>5, <2>5, <3>1, <4>1
      <4>3. b[h] \in (b[l] + 1) .. b[m] /\ b[l] # b[m]
        BY <1>3, <3>1, <4>2
      <4>4. s[b[h]].results # {}
        BY <2>6, <4>3
      <4>5. QED
        BY <3>3, <4>4 DEF Kept
    <3>4. QED
      BY <1>4, <3>1, <3>2, <3>3
  <2>9. InPlace(r, l, k)
    BY <2>4, <2>7, <2>8 DEF InPlace
  <2>10. QED
    BY <2>3, <2>9
<1>16. Complete(r)
  <2>1. SUFFICES ASSUME NEW m \in DOMAIN r, NEW x \in r[m].calls
                 PROVE  \E l \in DOMAIN r : x \in r[l].results
    BY DEF Complete, Called, Answered
  <2>2. x \in s[b[m]].calls
    BY <1>8
  <2>3. CASE x \in Answered(s)
    <3>1. PICK i \in DOMAIN s : x \in s[i].results
      BY <2>3 DEF Answered
    <3>2. PICK l \in DOMAIN r : b[l] = i /\ Kept(s, r, b, o, l)
      BY <1>2 DEF Filling
    <3>3. QED
      BY <3>1, <3>2 DEF Kept
  <2>4. CASE x \notin Answered(s)
    <3>1. x \in Missing(s, b[m])
      BY <1>3, <1>6, <2>2, <2>4
    <3>2. PICK l \in DOMAIN r : Fills(s, r, b, o, l, x)
      BY <1>2, <1>3, <3>1 DEF Filling
    <3>3. r[l].results = {x}
      BY <1>7, <3>2
    <3>4. QED
      BY <3>3
  <2>5. QED
    BY <2>3, <2>4
<1>17. QED
  BY <1>2, <1>14, <1>15, <1>16 DEF Mended

-----------------------------------------------------------------------------
(* What is mended needs no repair.                                          *)

LEMMA TidyIsStaged ==
  ASSUME NEW t \in Seq(Messages), Tidy(t)
  PROVE  Staged(t) = t
<1>1. \A i \in DOMAIN t : ~ (t[i].role = "tool" /\ t[i].results \cap Misplaced(t) # {})
  BY DEF Tidy
<1>2. PICK q : q = [i \in DOMAIN t |->
                      IF t[i].role = "tool" /\ t[i].results \cap Misplaced(t) # {}
                        THEN <<>> ELSE <<t[i]>>]
  OBVIOUS
<1>3. q = [i \in DOMAIN t |-> <<t[i]>>]
  BY <1>1, <1>2, Zenon
<1>4. FlattenSeq(q) = t
  BY <1>3, FlattenSingles
<1>5. QED
  BY <1>2, <1>4 DEF Staged

LEMMA NoPlaceholders == Placeholders({}) = <<>>
<1>1. PICK p : p = Placeholders({})
  OBVIOUS
<1>2. p \in Seq(Messages)
  BY <1>1, PlaceholdersType
<1>3. \A k \in DOMAIN p : FALSE
  <2>1. {} \in SUBSET Ids
    OBVIOUS
  <2>2. \A k \in DOMAIN Placeholders({}) : \E x \in {} : Placeholders({})[k] = Placeholder(x)
    BY <2>1, PlaceholdersAre
  <2>3. QED
    BY <1>1, <2>2
<1>4. Len(p) = 0
  <2>1. PICK n \in Nat : n = Len(p) /\ DOMAIN p = 1 .. n
    BY <1>2
  <2>2. n # 0 => 1 \in 1 .. n
    OBVIOUS
  <2>3. QED
    BY <1>3, <2>1, <2>2
<1>5. p = <<>>
  BY <1>2, <1>4
<1>6. QED
  BY <1>1, <1>5

LEMMA MendedIsLeft ==
  ASSUME NEW t, Consistent(t), Mended(t)
  PROVE  Repaired(t) = t
<1>1. t \in Seq(Messages) /\ Tidy(t) /\ Complete(t)
  BY DEF Consistent, Mended
<1>2. Staged(t) = t
  BY <1>1, TidyIsStaged
<1>3. \A i \in DOMAIN t : Missing(t, i) = {}
  <2>1. TAKE i \in DOMAIN t
  <2>2. Missing(t, i) = t[i].calls \ Answered(t)
    BY MissingIs
  <2>3. t[i].calls \subseteq Called(t)
    BY DEF Called
  <2>4. QED
    BY <1>1, <2>2, <2>3 DEF Complete
<1>4. Filled(t) = t
  <2>1. PICK q : q = [i \in DOMAIN t |-> <<t[i]>> \o Placeholders(Missing(t, i))]
    OBVIOUS
  <2>2. \A i \in DOMAIN t : <<t[i]>> \o Placeholders(Missing(t, i)) = <<t[i]>>
    <3>1. TAKE i \in DOMAIN t
    <3>2. Placeholders(Missing(t, i)) = <<>>
      BY <1>3, NoPlaceholders
    <3>3. <<t[i]>> \in Seq(Messages)
      BY <1>1
    <3>4. <<t[i]>> \o <<>> = <<t[i]>>
      BY <3>3, ConcatEmptySeq
    <3>5. QED
      BY <3>2, <3>4
  <2>3. q = [i \in DOMAIN t |-> <<t[i]>>]
    BY <2>1, <2>2, Zenon
  <2>4. FlattenSeq(q) = t
    BY <1>1, <2>3, FlattenSingles
  <2>5. QED
    BY <2>1, <2>4 DEF Filled
<1>5. QED
  BY <1>2, <1>4 DEF Repaired

LEMMA MendedIsAccepted ==
  ASSUME NEW t, Consistent(t), Mended(t), NEW x \in Called(t)
  PROVE  Follows(t, x) \/ x \in RidesLate(t)
<1>1. t \in Seq(Messages) /\ (\A i \in DOMAIN t : Single(t[i]))
      /\ AnswersOnce(t) /\ Tidy(t) /\ x \in Answered(t)
  BY DEF Consistent, Mended, Complete
<1>2. x \in Ids
  BY <1>1, MessageIs
<1>3. PICK j \in DOMAIN t : x \in t[j].calls
  BY DEF Called
<1>4. PICK i \in DOMAIN t : x \in t[i].results
  BY <1>1 DEF Answered
<1>5. CASE InPlace(t, j, i)
  <2>1. \A k \in DOMAIN t \ {i} : x \notin t[k].results
    BY <1>1, <1>2, <1>4 DEF AnswersOnce
  <2>2. QED
    BY <1>3, <1>4, <1>5, <2>1 DEF Follows
<1>6. CASE ~InPlace(t, j, i)
  <2>1. x \in Misplaced(t)
    BY <1>2, <1>3, <1>4, <1>6 DEF Misplaced
  <2>2. t[i].role # "tool"
    BY <1>1, <1>4, <2>1 DEF Tidy
  <2>3. t[i].role # "assistant"
    BY <1>1, <1>4 DEF Single
  <2>4. t[i].role = "user"
    BY <1>1, <2>2, <2>3, MessageIs
  <2>5. QED
    BY <1>4, <2>1, <2>4 DEF RidesLate
<1>7. QED
  BY <1>5, <1>6

\* The repair mends a conversation.
LEMMA RepairedIs ==
  ASSUME NEW t, Consistent(t)
  PROVE  Consistent(Repaired(t)) /\ Mended(Repaired(t))
<1>1. CASE Damaged(t)
  BY <1>1, StagedIs, FilledIs DEF Repaired
<1>2. CASE ~Damaged(t)
  <2>1. t \in Seq(Messages)
    BY DEF Consistent
  <2>2. Misplaced(t) = {} /\ \A i \in DOMAIN Staged(t) : Missing(Staged(t), i) = {}
    BY <1>2 DEF Damaged
  <2>3. Tidy(t)
    BY <2>2 DEF Tidy
  <2>4. Staged(t) = t
    BY <2>1, <2>3, TidyIsStaged
  <2>5. Complete(t)
    <3>1. SUFFICES ASSUME NEW i \in DOMAIN t, NEW x \in t[i].calls PROVE x \in Answered(t)
      BY DEF Complete, Called
    <3>2. Missing(t, i) = {}
      BY <2>2, <2>4
    <3>3. Missing(t, i) = t[i].calls \ Answered(t)
      BY MissingIs
    <3>4. QED
      BY <3>2, <3>3
  <2>6. QED
    BY <1>2, <2>3, <2>5 DEF Repaired, Mended
<1>3. QED
  BY <1>1, <1>2

-----------------------------------------------------------------------------
(* Every conversation there is.                                             *)

Conversations ==
  /\ Consistent(context)
  /\ \A f \in {tfile, tback} : Readable(f) => Consistent(f.content)
  /\ live \in {"booting", "starting"} => Mended(context)

LEMMA NothingSaid == Consistent(<<>>)
<1>1. <<>> \in Seq(Messages) /\ DOMAIN <<>> = {}
  BY EmptySeq
<1>2. QED
  BY <1>1 DEF Consistent, CallsOnce, AnswersOnce, AnswersLater

LEMMA SingleMessages ==
  /\ \A role \in {"user", "assistant"} :
       Single(Says(role)) /\ Says(role).calls = {} /\ Says(role).results = {}
  /\ \A X \in SUBSET Ids :
       Single(Calling(X)) /\ Calling(X).calls = X /\ Calling(X).results = {}
  /\ \A role \in {"tool", "user"}, x \in Ids :
       Single(Result(role, x)) /\ Result(role, x).calls = {} /\ Result(role, x).results = {x}
<1>1. \A role \in {"user", "assistant"} :
        Single(Says(role)) /\ Says(role).calls = {} /\ Says(role).results = {}
  <2>1. TAKE role \in {"user", "assistant"}
  <2>2. Says(role) \in Messages
    BY <2>1, MessageTypes
  <2>3. Says(role).calls = {} /\ Says(role).results = {}
    BY DEF Says
  <2>4. QED
    BY <2>2, <2>3 DEF Single
<1>2. \A X \in SUBSET Ids :
        Single(Calling(X)) /\ Calling(X).calls = X /\ Calling(X).results = {}
  <2>1. TAKE X \in SUBSET Ids
  <2>2. Calling(X) \in Messages
    BY <2>1, MessageTypes
  <2>3. Calling(X).calls = X /\ Calling(X).results = {}
    BY DEF Calling, Says
  <2>4. QED
    BY <2>2, <2>3 DEF Single
<1>3. \A role \in {"tool", "user"}, x \in Ids :
        Single(Result(role, x)) /\ Result(role, x).calls = {} /\ Result(role, x).results = {x}
  <2>1. TAKE role \in {"tool", "user"}, x \in Ids
  <2>2. Result(role, x) \in Messages
    BY <2>1, MessageTypes
  <2>3. /\ Result(role, x).calls = {} /\ Result(role, x).results = {x}
        /\ Result(role, x).role = role
    BY DEF Result, Says
  <2>4. QED
    BY <2>1, <2>2, <2>3 DEF Single
<1>4. QED
  BY <1>1, <1>2, <1>3

\* A process that boots finds a conversation.
LEMMA StoredIsConsistent ==
  ASSUME Conversations
  PROVE  Consistent(transcript)
BY NothingSaid DEF Conversations, transcript, Load

\* A turn adds to the conversation.
LEMMA ContextGrows ==
  ASSUME Conversations, Turn \/ Call \/ Return \/ End
  PROVE  Consistent(context')
<1>1. Consistent(context) /\ context \in Seq(Messages)
  BY DEF Conversations, Consistent
<1>2. PICK m : /\ context' = Append(context, m) /\ Single(m)
               /\ m.calls \cap Called(context) = {}
               /\ m.results \subseteq Called(context) \ Answered(context)
  <2>1. CASE Turn
    BY <2>1, SingleMessages DEF Turn, Grow
  <2>2. CASE Call
    <3>1. PICK X \in SUBSET (Ids \ Called(context)) : Grow(Calling(X))
      BY <2>2 DEF Call
    <3>2. X \in SUBSET Ids /\ X \cap Called(context) = {}
      OBVIOUS
    <3>3. QED
      BY <3>1, <3>2, SingleMessages DEF Grow
  <2>3. CASE Return
    <3>1. PICK x \in Called(context) \ Answered(context), role \in {"tool", "user"} :
            Grow(Result(role, x))
      BY <2>3 DEF Return
    <3>2. x \in Ids
      BY <1>1, MessageIs
    <3>3. QED
      BY <3>1, <3>2, SingleMessages DEF Grow
  <2>4. CASE End
    BY <2>4, SingleMessages DEF End, Grow
  <2>5. QED
    BY <2>1, <2>2, <2>3, <2>4
<1>3. QED
  BY <1>1, <1>2, ConsistentGrows

LEMMA ContextStep ==
  ASSUME Conversations, [Next]_vars
  PROVE  Consistent(context') /\ (live' \in {"booting", "starting"} => Mended(context'))
<1>1. Consistent(context) /\ (live \in {"booting", "starting"} => Mended(context))
  BY DEF Conversations
<1>2. CASE Boot
  <2>1. context' = Repaired(transcript)
    BY <1>2 DEF Boot
  <2>2. QED
    BY <2>1, StoredIsConsistent, RepairedIs
<1>3. CASE Take
  BY <1>1, <1>3 DEF Take
<1>4. CASE Turn \/ Call \/ Return \/ End
  <2>1. live' \in {"idle", "turn"}
    BY <1>4 DEF Turn, Call, Return, End
  <2>2. QED
    BY <1>4, <2>1, ContextGrows
<1>5. CASE Clear
  BY <1>5, NothingSaid DEF Clear
<1>6. CASE Start \/ \E a \in Actors : Crash(a)
  <2>1. Gone \/ (context' = context /\ live' \in {"idle", live})
    BY <1>6 DEF Start, Crash
  <2>2. CASE Gone
    BY <2>2, NothingSaid DEF Gone
  <2>3. QED
    BY <1>1, <2>1, <2>2
<1>7. CASE Spoil \/ (\E a \in Actors : Write(a) \/ WriteFails(a) \/ Rename(a)) \/ UNCHANGED vars
  <2>1. UNCHANGED <<live, context>>
    BY <1>7 DEF Spoil, Write, WriteFails, Rename, vars
  <2>2. QED
    BY <1>1, <2>1
<1>8. QED
  BY <1>2, <1>3, <1>4, <1>5, <1>6, <1>7, Zenon DEF Next

\* The transcript is what it was, spoiled, or the conversation of the process.
LEMMA TextFrom ==
  ASSUME Typed, Standing, [Next]_vars
  PROVE  tfile' \in {tfile, Bad, Holding(context)} /\ tback' \in {tback, tfile}
<1>1. Step
  BY Steps
<1>2. ASSUME NEW a \in Actors, Writes(a)
      PROVE  tfile' \in {tfile, Holding(context)} /\ tback' \in {tback, tfile}
  <2>1. CASE writing[a].left = FromText /\ tfile' = Holding(writing[a].t) /\ tback' = tback
    <3>1. ~Free(a)
      BY <1>2 DEF Writes
    <3>2. a = "live" /\ (Has("live", "repair") \/ Has("live", "save"))
      BY <2>1, <3>1, PlanFacts DEF Has
    <3>3. QED
      BY <2>1, <3>2 DEF Standing
  <2>2. CASE tfile' = tfile /\ tback' \in {tback, tfile}
    BY <2>2
  <2>3. QED
    BY <1>2, <2>1, <2>2 DEF Writes
<1>3. CASE \E a \in Actors : Writes(a)
  BY <1>2, <1>3
<1>4. CASE Boots \/ Takes \/ Starts \/ Turns \/ Calls \/ Saves \/ Clears
  BY <1>4 DEF Boots, Takes, Starts, Turns, Calls, Saves, Clears, Stay
<1>5. CASE Spoils
  BY <1>5 DEF Spoils
<1>6. CASE (\E a \in Actors : Fails(a) \/ Renames(a) \/ Crashes(a)) \/ UNCHANGED vars
  BY <1>6 DEF Fails, Renames, Crashes, vars, files
<1>7. QED
  BY <1>1, <1>3, <1>4, <1>5, <1>6, Zenon DEF Step

LEMMA ConversationsStep ==
  ASSUME IInv, Conversations, [Next]_vars
  PROVE  Conversations'
<1>1. tfile' \in {tfile, Bad, Holding(context)} /\ tback' \in {tback, tfile}
  BY TextFrom DEF IInv
<1>2. \A f \in {tfile, Bad, Holding(context), tback} : Readable(f) => Consistent(f.content)
  BY FileIs DEF Conversations
<1>3. \A f \in {tfile', tback'} : Readable(f) => Consistent(f.content)
  BY <1>1, <1>2
<1>4. QED
  BY <1>3, ContextStep DEF Conversations

LEMMA InitConversations == Init => Conversations
<1> SUFFICES ASSUME Init PROVE Conversations
  OBVIOUS
<1>1. PICK t \in {<<>>, <<Calling(Ids)>>} : tfile = Holding(t)
  BY DEF Init
<1>2. Consistent(<<Calling(Ids)>>)
  <2>1. Ids \in SUBSET Ids /\ Called(<<>>) = {}
    BY DEF Called
  <2>2. Consistent(Append(<<>>, Calling(Ids)))
    BY <2>1, NothingSaid, SingleMessages, ConsistentGrows
  <2>3. Append(<<>>, Calling(Ids)) = <<Calling(Ids)>>
    OBVIOUS
  <2>4. QED
    BY <2>2, <2>3
<1>3. tback = None /\ context = <<>> /\ live = "down"
  BY DEF Init
<1>4. QED
  BY <1>1, <1>2, <1>3, NothingSaid, FileIs DEF Conversations

\* Whatever conversation is stored, cut off and resumed, however often: every conversation
\* a process holds or has stored makes a call once and answers it at most once and later.
THEOREM ConversationsAre == Spec => []Conversations
<1>1. IInv /\ Conversations /\ [Next]_vars => Conversations'
  BY ConversationsStep
<1>2. QED
  BY <1>1, InitConversations, Inductive, PTL DEF Spec

\* A resumed conversation has each call answered once and right after it was made, unless a
\* late answer rides on a user's message; and repairing it again changes nothing
\* (repair_resumed_transcript).
THEOREM RepairHolds == Spec => []RepairIsSound
<1>1. Conversations => RepairIsSound
  <2>1. SUFFICES ASSUME Consistent(context), Mended(context)
                 PROVE  /\ \A x \in Called(context) : Follows(context, x) \/ x \in RidesLate(context)
                        /\ Repaired(context) = context
    BY DEF Conversations, RepairIsSound
  <2>2. QED
    BY <2>1, MendedIsAccepted, MendedIsLeft
<1>2. QED
  BY <1>1, ConversationsAre, PTL

=============================================================================
