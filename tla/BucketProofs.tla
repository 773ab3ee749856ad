---------------------------- MODULE BucketProofs ----------------------------
(* Theorems about MetricBuckets, for every number of hours, rebuilds and      *)
(* faults, about the hours of HourBuckets that buckets are cut into, and      *)
(* about the ticks that keep rollups going.                                   *)
EXTENDS MetricBuckets, HourBuckets, FiniteSetTheorems, TLAPS

\* The two tables' hours of the station and of its site.
Entities == {"STATION", "SITE"}
HourKey(e, h) == <<e, "HOUR", h>>
ShiftKey(h) == <<"STATION", "SHIFT", ShiftOf(h)>>

\* The completions of an hour: those that ended Cycle rows, each as often as it
\* ended one, and those that ended none.
Shown == [h \in Hours |-> produced[h] + empty[h]]

\* No count of an hour in the table t is larger than the hour's completions.
Bounded(t) ==
  \A e \in Entities, h \in Hours : t[HourKey(e, h)] # Null => t[HourKey(e, h)] <= Shown[h]

\* Who can be in which phase, and what a rebuild or a pass has at hand in it.
PhaseSound(p) ==
  /\ proc[p].pc \in {"unarchive", "restore", "forget", "compute", "replace"} => p \in Rebuilders
  /\ proc[p].pc \in {"create", "find", "match", "drop"} => p \in Updaters
  /\ proc[p].pc \in {"insert", "delete"} => p = Archiver
  /\ p # Archiver /\ proc[p].pc # "idle" => proc[p].hour \in Hours
  /\ proc[p].pc = "put" => proc[p].todo # <<>>

\* What was read, however long ago, is not more than what is there now.
ReadSound(p) ==
  /\ Bounded(proc[p].rows)
  /\ proc[p].pc = "replace" => proc[p].value <= Shown[proc[p].hour]
  /\ proc[p].pc = "put" =>
       \A h \in Hours : Head(proc[p].todo) = HourKey("SITE", h) => proc[p].value <= Shown[h]

\* A row that is about to be deleted in one table is in the other, unless
\* somebody else wrote in between.
MoveSound(p) ==
  /\ proc[p].pc = "restore" => \A k \in proc[p].moving : proc[p].rows[k] # Null
  /\ proc[p].pc = "insert" /\ ~proc[p].raced => \A k \in proc[p].moving : proc[p].rows[k] # Null
  /\ proc[p].pc = "forget" /\ ~proc[p].raced => \A k \in proc[p].moving : live[k] # Null
  /\ proc[p].pc \in {"delete", "match", "drop"} /\ ~proc[p].raced =>
       \A k \in proc[p].moving : log[k] # Null
  /\ proc[p].pc = "drop" => HourKey("STATION", proc[p].hour) \in proc[p].moving
  /\ p = Archiver /\ proc[p].pc # "idle" /\ ~proc[p].raced => \A k \in proc[p].moving : live[k] # Null

\* How far a rebuild has brought its hour, if nobody wrote since it began.
HourSound(p) ==
  LET k == HourKey("STATION", proc[p].hour)
  IN  /\ proc[p].pc = "unarchive" => live[k] # Null \/ log[k] # Null
      /\ proc[p].pc = "restore" => live[k] # Null \/ k \in proc[p].moving
      /\ proc[p].pc \in {"forget", "compute", "replace"} => live[k] # Null
      /\ proc[p].pc = "replace" => proc[p].value = produced[proc[p].hour]
      /\ proc[p].pc \in {"roll", "put"} /\ proc[p].covers => live[k] = produced[proc[p].hour]

Sound(p) ==
  /\ PhaseSound(p) /\ ReadSound(p) /\ MoveSound(p)
  /\ p \in Rebuilders /\ proc[p].had /\ ~proc[p].raced => HourSound(p)

\* The stores are tables.
Tables ==
  /\ produced \in [Hours -> Nat] /\ empty \in [Hours -> Nat]
  /\ live \in [Keys -> Count] /\ log \in [Keys -> Count]

Inductive ==
  /\ TypeOK
  /\ Bounded(live) /\ Bounded(log)
  /\ \A p \in Procs : Sound(p)

-----------------------------------------------------------------------------
(* Keys and what is left to roll up *)

LEMMA HourInt == Hours \subseteq Nat \ {0} /\ Hours = 1..MaxHour /\ MaxHour \in Nat
BY BucketAssumption DEF Hours

LEMMA Constants ==
  /\ Null \notin Nat /\ Null \notin Keys /\ Null \notin Hours
  /\ Archiver \notin Rebuilders /\ Archiver \notin Updaters
  /\ Archiver \in Procs /\ Rebuilders \subseteq Procs /\ Updaters \subseteq Procs
  /\ \A u \in Updaters : u \notin Rebuilders
BY BucketAssumption, HourInt DEF Procs

\* What an hour shows at most is a number, and does not become less.
LEMMA ShownType == ASSUME Tables, NEW h \in Hours PROVE Shown[h] \in Nat /\ produced[h] <= Shown[h]
BY DEF Tables, Shown

LEMMA ShownGrows ==
  ASSUME Tables, Tables', NEW h \in Hours, produced[h] <= produced'[h], empty[h] <= empty'[h]
  PROVE  Shown'[h] \in Nat /\ Shown[h] <= Shown'[h]
BY DEF Tables, Shown

\* The keys are the hours of both and the shifts of the station, all different.
LEMMA KeysAre ==
  /\ \A e \in Entities, h \in Hours : HourKey(e, h) \in Keys
  /\ \A h \in Hours : ShiftKey(h) \in Keys
  /\ \A e, f \in Entities, h, i \in Hours : HourKey(e, h) = HourKey(f, i) => e = f /\ h = i
  /\ \A e \in Entities, h, i \in Hours : HourKey(e, h) # ShiftKey(i)
  /\ \A e \in Entities, h \in Hours : HourKey(e, h)[1] = e /\ HourKey(e, h)[2] = "HOUR" /\ HourKey(e, h)[3] = h
  /\ \A h \in Hours : ShiftKey(h)[1] = "STATION" /\ ShiftKey(h)[2] = "SHIFT" /\ ShiftKey(h)[3] = ShiftOf(h)
BY DEF HourKey, ShiftKey, Keys, Entities

LEMMA KeyCases ==
  ASSUME NEW k \in Keys
  PROVE  \/ \E e \in Entities, h \in Hours : k = HourKey(e, h)
         \/ \E h \in Hours : k = ShiftKey(h)
BY DEF Keys, Entities, HourKey, ShiftKey

Todos == {<<>>} \cup {Targets(h) : h \in Hours} \cup {Tail(Targets(h)) : h \in Hours}

LEMMA TodoNext ==
  ASSUME NEW todo \in Todos, todo # <<>>
  PROVE  /\ Tail(todo) \in Todos
         /\ \E h \in Hours : Head(todo) = ShiftKey(h) \/ Head(todo) = HourKey("SITE", h)
<1>1. PICK h \in Hours : todo = Targets(h) \/ todo = Tail(Targets(h))
  BY DEF Todos
<1>2. CASE todo = Targets(h)
  BY <1>1, <1>2 DEF Targets, ShiftKey, Todos
<1>3. CASE todo = Tail(Targets(h))
  <2>1. todo = <<HourKey("SITE", h)>>
    BY <1>3 DEF Targets, HourKey
  <2>2. Tail(todo) = <<>> /\ Head(todo) = HourKey("SITE", h)
    BY <2>1
  <2> QED
    BY <2>2 DEF Todos
<1> QED
  BY <1>1, <1>2, <1>3

-----------------------------------------------------------------------------
(* One process moves, the others stay or learn that somebody wrote. *)

Phases == {"idle", "unarchive", "restore", "forget", "compute", "replace", "roll", "put",
           "create", "find", "match", "drop", "insert", "delete"}
ProcType ==
  [pc: Phases, hour: Hours \cup {Null}, covers: BOOLEAN, moving: SUBSET Keys,
   rows: [Keys -> Count], todo: Todos, value: Count, place: {"live", "log", Null}, had: BOOLEAN, raced: BOOLEAN]

\* b is a, but may have been crossed by somebody's write.
Follows(a, b) ==
  /\ b.pc = a.pc /\ b.hour = a.hour /\ b.covers = a.covers
  /\ b.moving = a.moving /\ b.rows = a.rows
  /\ b.todo = a.todo /\ b.value = a.value /\ b.place = a.place /\ b.had = a.had
  /\ a.raced => b.raced

LEMMA TypeParts ==
  /\ TypeOK <=> /\ now \in Hours /\ Tables
                /\ proc \in [Procs -> ProcType]
                /\ \A p \in Procs : proc[p].pc \in {"replace", "put"} => proc[p].value \in Nat
                /\ tick \in [pc: {"idle", "shift", "parents"}, at: Hours]
                /\ passes \in 0..MaxPasses /\ faults \in 0..MaxFaults
  /\ TypeOK' <=> /\ now' \in Hours /\ Tables'
                 /\ proc' \in [Procs -> ProcType]
                 /\ \A p \in Procs : proc'[p].pc \in {"replace", "put"} => proc'[p].value \in Nat
                 /\ tick' \in [pc: {"idle", "shift", "parents"}, at: Hours]
                 /\ passes' \in 0..MaxPasses /\ faults' \in 0..MaxFaults
BY DEF TypeOK, Tables, ProcType, Phases, Todos

LEMMA Itself == ASSUME NEW a PROVE Follows(a, a)
BY DEF Follows

\* A crossed process is itself but for the mark.
LEMMA Crossed ==
  ASSUME NEW a \in ProcType
  PROVE  /\ [a EXCEPT !.raced = TRUE] \in ProcType
         /\ Follows(a, [a EXCEPT !.raced = TRUE])
         /\ [a EXCEPT !.raced = TRUE].raced
BY DEF ProcType, Follows

\* p moves to next with a write: everybody else at work is crossed.
LEMMA WriteStep ==
  ASSUME proc \in [Procs -> ProcType], NEW p \in Procs, NEW next \in ProcType, Step(p, next)
  PROVE  /\ proc' \in [Procs -> ProcType] /\ proc'[p] = next
         /\ \A q \in Procs : q # p =>
              /\ Follows(proc[q], proc'[q])
              /\ proc[q].pc # "idle" => proc'[q].raced
<1>1. proc' = [q \in Procs |-> IF q = p THEN next
                               ELSE IF proc[q].pc = "idle" THEN proc[q]
                               ELSE [proc[q] EXCEPT !.raced = TRUE]]
  BY DEF Step
<1>2. ASSUME NEW q \in Procs, q # p
      PROVE  /\ proc'[q] \in ProcType /\ Follows(proc[q], proc'[q])
             /\ proc[q].pc # "idle" => proc'[q].raced
  <2>1. proc[q] \in ProcType
    OBVIOUS
  <2>2. proc'[q] = proc[q] \/ proc'[q] = [proc[q] EXCEPT !.raced = TRUE]
    BY <1>1, <1>2
  <2>3. proc[q].pc # "idle" => proc'[q] = [proc[q] EXCEPT !.raced = TRUE]
    BY <1>1, <1>2
  <2> QED
    BY <2>1, <2>2, <2>3, Crossed, Itself
<1>3. proc'[p] = next
  BY <1>1
<1>4. DOMAIN proc' = Procs /\ proc' = [q \in Procs |-> proc'[q]]
  BY <1>1
<1>5. \A q \in Procs : proc'[q] \in ProcType
  BY <1>2, <1>3
<1> QED
  BY <1>2, <1>3, <1>4, <1>5

\* p moves to next and writes nothing the others read.
LEMMA QuietStep ==
  ASSUME proc \in [Procs -> ProcType], NEW p \in Procs, NEW next \in ProcType,
         proc' = [proc EXCEPT ![p] = next]
  PROVE  /\ proc' \in [Procs -> ProcType] /\ proc'[p] = next
         /\ \A q \in Procs : q # p => proc'[q] = proc[q]
OBVIOUS

\* A cycle of the hour h crosses the rebuild of h.
LEMMA DisturbStep ==
  ASSUME proc \in [Procs -> ProcType], NEW h \in Hours, Disturb(h)
  PROVE  /\ proc' \in [Procs -> ProcType]
         /\ \A q \in Procs : /\ Follows(proc[q], proc'[q])
                             /\ proc[q].hour = h => proc'[q].raced
<1>1. proc' = [q \in Procs |-> IF proc[q].hour = h THEN [proc[q] EXCEPT !.raced = TRUE] ELSE proc[q]]
  BY DEF Disturb
<1>2. ASSUME NEW q \in Procs
      PROVE  /\ proc'[q] \in ProcType /\ Follows(proc[q], proc'[q])
             /\ proc[q].hour = h => proc'[q].raced
  <2>1. proc[q] \in ProcType
    OBVIOUS
  <2>2. proc'[q] = proc[q] \/ proc'[q] = [proc[q] EXCEPT !.raced = TRUE]
    BY <1>1
  <2>3. proc[q].hour = h => proc'[q] = [proc[q] EXCEPT !.raced = TRUE]
    BY <1>1
  <2> QED
    BY <2>1, <2>2, <2>3, Crossed, Itself
<1>3. DOMAIN proc' = Procs /\ proc' = [q \in Procs |-> proc'[q]]
  BY <1>1
<1> QED
  BY <1>2, <1>3

\* Somebody whose part of the invariant holds keeps it when others write.
LEMMA Bystander ==
  ASSUME Inductive, Tables', NEW p \in Procs, Follows(proc[p], proc'[p]),
         \A h \in Hours : produced[h] <= produced'[h] /\ empty[h] <= empty'[h],
         proc'[p].pc # "idle" /\ ~proc'[p].raced =>
           /\ \A k \in Keys : (live[k] # Null => live'[k] # Null) /\ (log[k] # Null => log'[k] # Null)
           /\ proc[p].hour \in Hours =>
                /\ produced'[proc[p].hour] = produced[proc[p].hour]
                /\ LET k == HourKey("STATION", proc[p].hour)
                   IN  live[k] # Null => live'[k] = live[k]
  PROVE  Sound(p)'
<1> DEFINE a == proc[p]
           b == proc'[p]
<1>1. a \in ProcType /\ Sound(p) /\ Tables
  BY TypeParts DEF Inductive
<1>2. /\ b.pc = a.pc /\ b.hour = a.hour /\ b.covers = a.covers
      /\ b.moving = a.moving /\ b.rows = a.rows
      /\ b.todo = a.todo /\ b.value = a.value /\ b.had = a.had
      /\ a.raced => b.raced
  BY DEF Follows
<1>3. /\ a.moving \subseteq Keys /\ a.rows \in [Keys -> Count] /\ (a.hour \in Hours \/ a.hour = Null)
      /\ a.pc \in {"replace", "put"} => a.value \in Nat
  BY <1>1, TypeParts DEF ProcType, Inductive
<1> HIDE DEF a, b
<1>4. PhaseSound(p)'
  BY <1>1, <1>2 DEF Sound, PhaseSound, a, b
<1>5. ReadSound(p)'
  <2>1. ASSUME NEW e \in Entities, NEW h \in Hours, b.rows[HourKey(e, h)] # Null
        PROVE  b.rows[HourKey(e, h)] <= Shown'[h]
    <3>1. b.rows[HourKey(e, h)] \in Nat
      BY <1>2, <1>3, <2>1, KeysAre DEF Count
    <3>2. b.rows[HourKey(e, h)] <= Shown[h]
      BY <1>1, <1>2, <2>1 DEF Sound, ReadSound, Bounded, a
    <3> QED
      BY <1>1, <3>1, <3>2, ShownType, ShownGrows
  <2>2. ASSUME b.pc = "replace" PROVE b.value <= Shown'[b.hour]
    <3>1. a.value <= Shown[a.hour] /\ a.hour \in Hours /\ a.value \in Nat
      BY <1>1, <1>2, <1>3, <2>2, Constants DEF Sound, ReadSound, PhaseSound, a
    <3>2. Shown[a.hour] \in Nat /\ Shown'[a.hour] \in Nat /\ Shown[a.hour] <= Shown'[a.hour]
      BY <1>1, <3>1, ShownType, ShownGrows
    <3> QED
      BY <1>2, <3>1, <3>2
  <2>3. ASSUME b.pc = "put", NEW h \in Hours, Head(b.todo) = HourKey("SITE", h)
        PROVE  b.value <= Shown'[h]
    <3>1. a.value <= Shown[h] /\ a.value \in Nat
      BY <1>1, <1>2, <1>3, <2>3 DEF Sound, ReadSound, a
    <3> QED
      BY <1>1, <1>2, <3>1, ShownType, ShownGrows
  <2> QED
    BY <2>1, <2>2, <2>3 DEF ReadSound, Bounded, b
<1>6. MoveSound(p)'
  <2>1. /\ b.pc = "restore" => \A k \in b.moving : b.rows[k] # Null
        /\ b.pc = "insert" /\ ~b.raced => \A k \in b.moving : b.rows[k] # Null
        /\ b.pc = "drop" => HourKey("STATION", b.hour) \in b.moving
    BY <1>1, <1>2 DEF Sound, MoveSound, a
  <2>2. b.pc = "forget" /\ ~b.raced => \A k \in b.moving : live'[k] # Null
    BY <1>1, <1>2, <1>3 DEF Sound, MoveSound, a, b
  <2>3. b.pc \in {"delete", "match", "drop"} /\ ~b.raced => \A k \in b.moving : log'[k] # Null
    BY <1>1, <1>2, <1>3 DEF Sound, MoveSound, a, b
  <2>4. p = Archiver /\ b.pc # "idle" /\ ~b.raced => \A k \in b.moving : live'[k] # Null
    BY <1>1, <1>2, <1>3 DEF Sound, MoveSound, a, b
  <2> QED
    BY <2>1, <2>2, <2>3, <2>4 DEF MoveSound, b
<1>7. ASSUME p \in Rebuilders, b.had, ~b.raced
      PROVE  HourSound(p)'
  <2> DEFINE k == HourKey("STATION", a.hour)
  <2>1. HourSound(p)
    BY <1>1, <1>2, <1>7 DEF Sound, a
  <2>2. CASE b.pc = "idle"
    BY <2>2 DEF HourSound, b
  <2>3. CASE b.pc # "idle"
    <3>1. a.hour \in Hours /\ k \in Keys
      BY <1>1, <1>2, <1>7, <2>3, KeysAre, Constants DEF Sound, PhaseSound, a, Entities
    <3>2. /\ live[k] # Null => live'[k] # Null
          /\ log[k] # Null => log'[k] # Null
          /\ produced'[a.hour] = produced[a.hour]
          /\ live[k] # Null => live'[k] = live[k]
      BY <1>7, <2>3, <3>1 DEF a, b
    <3>3. produced[a.hour] # Null
      BY <1>1, <3>1, Constants DEF Tables
    <3>4. /\ a.pc = "unarchive" => live[k] # Null \/ log[k] # Null
          /\ a.pc = "restore" => live[k] # Null \/ k \in a.moving
          /\ a.pc \in {"forget", "compute", "replace"} => live[k] # Null
          /\ a.pc = "replace" => a.value = produced[a.hour]
          /\ a.pc \in {"roll", "put"} /\ a.covers => live[k] = produced[a.hour]
      BY <2>1 DEF HourSound, a
    <3> HIDE DEF k
    <3>5. /\ b.pc = "unarchive" => live'[k] # Null \/ log'[k] # Null
          /\ b.pc = "restore" => live'[k] # Null \/ k \in b.moving
          /\ b.pc \in {"forget", "compute", "replace"} => live'[k] # Null
          /\ b.pc = "replace" => b.value = produced'[b.hour]
          /\ b.pc \in {"roll", "put"} /\ b.covers => live'[k] = produced'[b.hour]
      BY <1>2, <3>2, <3>3, <3>4
    <3>6. k = HourKey("STATION", b.hour)
      BY <1>2 DEF k
    <3> QED
      BY <3>5, <3>6 DEF HourSound, b
  <2> QED
    BY <2>2, <2>3
<1> QED
  BY <1>4, <1>5, <1>6, <1>7 DEF Sound, b

-----------------------------------------------------------------------------
(* Sums.  A fold of the community modules is a recursive function that     *)
(* CHOOSE picks: it exists, and what it adds up to is a natural number, by *)
(* induction on the size of the set.  Induction is here that < on Nat is   *)
(* well-founded: the library's induction theorems take an operator as a    *)
(* parameter, which no prover can instantiate.                             *)

\* A set of naturals with 0 and the successor of each of its elements is Nat.
LEMMA AllNaturals ==
  ASSUME NEW T \in SUBSET Nat, 0 \in T, \A n \in T : n + 1 \in T
  PROVE  T = Nat
<1> DEFINE R == OpToRel(<, Nat)
           Rest == Nat \ T
<1>1. IsWellFoundedOn(R, Nat)
  BY NatLessThanWellFounded
<1>2. \A m, n \in Nat : m < n => <<m, n>> \in R
  BY DEF OpToRel
<1> HIDE DEF R
<1>3. ASSUME Rest # {} PROVE FALSE
  <2>1. PICK n \in Rest : \A m \in Rest : <<m, n>> \notin R
    <3>1. Rest \subseteq Nat
      OBVIOUS
    <3> HIDE DEF Rest
    <3> QED
      BY <1>1, <1>3, <3>1, WFMin
  <2>2. n \in Nat /\ n # 0 /\ n - 1 \in Nat /\ n - 1 < n /\ n = (n - 1) + 1
    BY <2>1
  <2>3. n - 1 \notin Rest
    BY <1>2, <2>1, <2>2
  <2> QED
    BY <2>1, <2>2, <2>3
<1> QED
  BY <1>3

\* The element that a fold takes next.
Pick(s) == CHOOSE x \in s : TRUE

\* g adds up t over each subset of S.
IsSum(g, t, S) ==
  g = [s \in SUBSET S |-> IF s = {} THEN 0 ELSE t[Pick(s)] + g[s \ {Pick(s)}]]

\* The sum of t over S, as the folds of the community modules define it.
Total(t, S) ==
  MapThenFoldSet(+, 0, LAMBDA k : t[k], LAMBDA s : CHOOSE x \in s : TRUE, S)

\* A fold is a function that adds up.
LEMMA TotalIs ==
  ASSUME NEW t, NEW S
  PROVE  Total(t, S) = (CHOOSE g : IsSum(g, t, S))[S]
BY DEF Total, MapThenFoldSet, IsSum, Pick

\* There is an element to take as long as there is one.
LEMMA PickIn == ASSUME NEW s, s # {} PROVE Pick(s) \in s
BY DEF Pick

\* A function that adds up to any size, as long as the sets have few elements.
IsSumUpTo(g, t, S, n) ==
  \A s \in SUBSET S : Cardinality(s) <= n =>
    g[s] = IF s = {} THEN 0 ELSE t[Pick(s)] + g[s \ {Pick(s)}]

\* A subset of a finite set is finite, and one element less is one less.
LEMMA OneLess ==
  ASSUME NEW S, IsFiniteSet(S), NEW s \in SUBSET S
  PROVE  /\ Cardinality(s) \in Nat
         /\ s = {} => Cardinality(s) = 0
         /\ s # {} => /\ Pick(s) \in s /\ s \ {Pick(s)} \in SUBSET S
                      /\ Cardinality(s \ {Pick(s)}) = Cardinality(s) - 1
                      /\ Cardinality(s) # 0
<1>1. IsFiniteSet(s) /\ Cardinality(s) \in Nat /\ (s = {} => Cardinality(s) = 0)
  BY FS_Subset, FS_CardinalityType, FS_EmptySet
<1>2. ASSUME s # {}
      PROVE  /\ Pick(s) \in s /\ s \ {Pick(s)} \in SUBSET S
             /\ Cardinality(s \ {Pick(s)}) = Cardinality(s) - 1
             /\ Cardinality(s) # 0
  BY <1>1, <1>2, PickIn, FS_RemoveElement, FS_EmptySet
<1> QED
  BY <1>1, <1>2

\* There is such a function on every finite set.
LEMMA SumExists ==
  ASSUME NEW t, NEW S, IsFiniteSet(S)
  PROVE  \E g : IsSum(g, t, S)
<1> DEFINE Summed == {n \in Nat : \E g : IsSumUpTo(g, t, S, n)}
<1>1. 0 \in Summed
  <2> DEFINE g == [s \in SUBSET S |-> 0]
  <2>1. IsSumUpTo(g, t, S, 0)
    <3> SUFFICES ASSUME NEW s \in SUBSET S, Cardinality(s) <= 0 PROVE s = {}
      BY DEF IsSumUpTo
    <3>1. Cardinality(s) \in Nat /\ (s # {} => Cardinality(s) # 0)
      BY OneLess
    <3> QED
      BY <3>1
  <2> QED
    BY <2>1
<1>2. ASSUME NEW n \in Summed PROVE n + 1 \in Summed
  <2>1. PICK g : IsSumUpTo(g, t, S, n)
    BY <1>2
  <2> DEFINE Value(s) == IF s = {} THEN 0 ELSE t[Pick(s)] + g[s \ {Pick(s)}]
             h == [s \in SUBSET S |-> IF Cardinality(s) <= n THEN g[s] ELSE Value(s)]
  <2>2. ASSUME NEW s \in SUBSET S PROVE h[s] = Value(s)
    BY <2>1, <2>2 DEF IsSumUpTo
  <2>3. IsSumUpTo(h, t, S, n + 1)
    <3> SUFFICES ASSUME NEW s \in SUBSET S, Cardinality(s) <= n + 1, s # {}
                 PROVE  h[s \ {Pick(s)}] = g[s \ {Pick(s)}]
      BY <2>2 DEF IsSumUpTo
    <3>1. s \ {Pick(s)} \in SUBSET S /\ Cardinality(s \ {Pick(s)}) <= n
      BY OneLess
    <3> QED
      BY <3>1
  <2> HIDE DEF h
  <2> QED
    BY <2>3
<1>3. Summed = Nat
  <2>1. Summed \in SUBSET Nat
    OBVIOUS
  <2> HIDE DEF Summed
  <2> QED
    BY <1>1, <1>2, <2>1, AllNaturals
<1>4. PICK g : IsSumUpTo(g, t, S, Cardinality(S))
  <2>1. Cardinality(S) \in Summed
    BY <1>3, FS_CardinalityType
  <2> QED
    BY <2>1
<1> DEFINE h == [s \in SUBSET S |-> g[s]]
<1>5. ASSUME NEW s \in SUBSET S
      PROVE  h[s] = IF s = {} THEN 0 ELSE t[Pick(s)] + h[s \ {Pick(s)}]
  <2>1. Cardinality(s) <= Cardinality(S)
    BY FS_Subset
  <2>2. s # {} => s \ {Pick(s)} \in SUBSET S
    BY OneLess
  <2> QED
    BY <1>4, <2>1, <2>2 DEF IsSumUpTo
<1>6. IsSum(h, t, S)
  BY <1>5 DEF IsSum
<1> QED
  BY <1>6

\* Sets of subsets of a finite set that are reached by adding what Pick takes
\* away are all of its subsets.
LEMMA AllSubsets ==
  ASSUME NEW S, IsFiniteSet(S), NEW T, {} \in T,
         \A s \in SUBSET S : s # {} /\ s \ {Pick(s)} \in T => s \in T
  PROVE  SUBSET S \subseteq T
<1> DEFINE Reached == {n \in Nat : \A s \in SUBSET S : Cardinality(s) = n => s \in T}
<1>1. 0 \in Reached
  BY OneLess
<1>2. ASSUME NEW n \in Reached PROVE n + 1 \in Reached
  <2> SUFFICES ASSUME NEW s \in SUBSET S, Cardinality(s) = n + 1 PROVE s \in T
    OBVIOUS
  <2>1. n + 1 # 0
    OBVIOUS
  <2>2. s # {} /\ s \ {Pick(s)} \in SUBSET S /\ Cardinality(s \ {Pick(s)}) = n
    BY <2>1, OneLess
  <2> QED
    BY <2>2
<1>3. Reached = Nat
  <2>1. Reached \in SUBSET Nat
    OBVIOUS
  <2> HIDE DEF Reached
  <2> QED
    BY <1>1, <1>2, <2>1, AllNaturals
<1>4. ASSUME NEW s \in SUBSET S PROVE s \in T
  <2>1. Cardinality(s) \in Reached
    <3>1. Cardinality(s) \in Nat
      BY OneLess
    <3> HIDE DEF Reached
    <3> QED
      BY <1>3, <3>1
  <2> QED
    BY <2>1
<1> QED
  BY <1>4

\* g gives the sum of each subset of S from that of a smaller one.
Adds(g, t, S) ==
  /\ g[{}] = 0
  /\ \A s \in SUBSET S : s # {} => g[s] = t[Pick(s)] + g[s \ {Pick(s)}]

\* A fold over a finite set adds up.
LEMMA TotalSums ==
  ASSUME NEW t, NEW S, IsFiniteSet(S)
  PROVE  \E g : Total(t, S) = g[S] /\ Adds(g, t, S)
<1> DEFINE g == CHOOSE g : IsSum(g, t, S)
<1>1. IsSum(g, t, S)
  BY SumExists
<1>2. Total(t, S) = g[S]
  BY TotalIs
<1> HIDE DEF g
<1>3. Adds(g, t, S)
  BY <1>1 DEF IsSum, Adds
<1> QED
  BY <1>2, <1>3

\* The sum of a table of naturals over a finite set is a natural number.
THEOREM TotalType ==
  ASSUME NEW t, NEW S, IsFiniteSet(S), \A k \in S : t[k] \in Nat
  PROVE  Total(t, S) \in Nat
<1>1. PICK g : Total(t, S) = g[S] /\ Adds(g, t, S)
  BY TotalSums
<1> DEFINE T == {s \in SUBSET S : g[s] \in Nat}
<1>2. {} \in T
  BY <1>1 DEF Adds
<1>3. ASSUME NEW s \in SUBSET S, s # {}, s \ {Pick(s)} \in T PROVE s \in T
  <2>1. t[Pick(s)] \in Nat
    BY <1>3, PickIn
  <2> QED
    BY <1>1, <1>3, <2>1 DEF Adds
<1>4. SUBSET S \subseteq T
  <2> HIDE DEF T
  <2> QED
    BY <1>2, <1>3, AllSubsets
<1> QED
  BY <1>1, <1>4

\* The hours of a shift are finitely many.
LEMMA HourKeysFinite ==
  ASSUME NEW s
  PROVE  HourKeys(s) \subseteq Keys /\ IsFiniteSet(HourKeys(s))
<1> DEFINE f == [h \in HoursOf(s) |-> <<"STATION", "HOUR", h>>]
<1>1. HourKeys(s) \subseteq Keys
  BY DEF HourKeys, HoursOf, Keys
<1>2. IsFiniteSet(Hours)
  BY HourInt, FS_Interval
<1>3. IsFiniteSet(HoursOf(s))
  <2>1. HoursOf(s) \in SUBSET Hours
    BY DEF HoursOf
  <2> QED
    BY <1>2, <2>1, FS_Subset
<1>4. f \in Surjection(HoursOf(s), HourKeys(s))
  <2>1. f \in [HoursOf(s) -> HourKeys(s)]
    BY DEF HourKeys
  <2>2. \A k \in HourKeys(s) : \E h \in HoursOf(s) : f[h] = k
    BY DEF HourKeys
  <2> QED
    BY <2>1, <2>2, Zenon DEF Surjection
<1> QED
  BY <1>1, <1>3, <1>4, FS_Surjection

\* What is summed up is a count.
LEMMA SumOfType ==
  ASSUME NEW t, NEW ks \in SUBSET Keys, IsFiniteSet(ks), \A k \in ks : t[k] \in Count
  PROVE  SumOf(t, ks) \in Nat
<1>1. IsFiniteSet(Present(t, ks))
  BY FS_Subset DEF Present
<1>2. \A k \in Present(t, ks) : t[k] \in Nat
  BY DEF Present, Count
<1>3. SumOf(t, ks) = Total(t, Present(t, ks))
  BY DEF SumOf, MapThenSumSet, Total
<1> QED
  BY <1>1, <1>2, <1>3, TotalType

-----------------------------------------------------------------------------
(* Three kinds of steps *)

\* The counters of the environment.
Others ==
  /\ now \in Hours
  /\ tick \in [pc: {"idle", "shift", "parents"}, at: Hours]
  /\ passes \in 0..MaxPasses /\ faults \in 0..MaxFaults

LEMMA Parts ==
  ASSUME Inductive
  PROVE  /\ Tables /\ Others /\ proc \in [Procs -> ProcType]
         /\ \A p \in Procs : proc[p].pc \in {"replace", "put"} => proc[p].value \in Nat
         /\ Bounded(live) /\ Bounded(log) /\ \A p \in Procs : Sound(p)
BY TypeParts DEF Inductive, Others

\* Nobody moves: a completion, the clock, new rows and the tick.
LEMMA StoreStep ==
  ASSUME Inductive, Tables', Others', proc' \in [Procs -> ProcType],
         \A p \in Procs : Follows(proc[p], proc'[p]),
         \A h \in Hours : produced[h] <= produced'[h] /\ empty[h] <= empty'[h],
         \A k \in Keys : live[k] # Null => live'[k] # Null,
         log' = log, Bounded(live)', Bounded(log)',
         \A p \in Procs : ~proc'[p].raced /\ proc[p].hour \in Hours =>
           LET k == HourKey("STATION", proc[p].hour)
           IN  /\ produced'[proc[p].hour] = produced[proc[p].hour]
               /\ live[k] # Null => live'[k] = live[k]
  PROVE  Inductive'
<1>1. ASSUME NEW p \in Procs PROVE Sound(p)'
  <2>1. Follows(proc[p], proc'[p])
    OBVIOUS
  <2>2. proc'[p].pc # "idle" /\ ~proc'[p].raced =>
          /\ \A k \in Keys : (live[k] # Null => live'[k] # Null) /\ (log[k] # Null => log'[k] # Null)
          /\ proc[p].hour \in Hours =>
               /\ produced'[proc[p].hour] = produced[proc[p].hour]
               /\ LET k == HourKey("STATION", proc[p].hour)
                  IN  live[k] # Null => live'[k] = live[k]
    OBVIOUS
  <2> QED
    BY <2>1, <2>2, Bystander
<1>2. \A p \in Procs : proc'[p].pc \in {"replace", "put"} => proc'[p].value \in Nat
  BY Parts DEF Follows
<1>3. TypeOK'
  BY <1>2, TypeParts DEF Others
<1> QED
  BY <1>1, <1>3 DEF Inductive

\* p moves on without writing.
LEMMA ReadStep ==
  ASSUME Inductive, NEW p \in Procs, NEW next \in ProcType, proc' = [proc EXCEPT ![p] = next],
         UNCHANGED <<now, produced, empty, live, log, tick>>,
         passes' \in 0..MaxPasses, faults' \in 0..MaxFaults,
         next.pc \in {"replace", "put"} => next.value \in Nat,
         Sound(p)'
  PROVE  Inductive'
<1>1. /\ Tables /\ Others /\ proc \in [Procs -> ProcType]
      /\ \A q \in Procs : proc[q].pc \in {"replace", "put"} => proc[q].value \in Nat
      /\ Bounded(live) /\ Bounded(log)
  BY Parts
<1>2. /\ proc' \in [Procs -> ProcType] /\ proc'[p] = next
      /\ \A q \in Procs : q # p => proc'[q] = proc[q]
  BY <1>1, QuietStep
<1>3. Tables' /\ Others' /\ Bounded(live)' /\ Bounded(log)'
  BY <1>1 DEF Tables, Others, Bounded, Shown
<1>4. ASSUME NEW q \in Procs, q # p PROVE Sound(q)'
  <2>1. Follows(proc[q], proc'[q])
    BY <1>2, <1>4, Itself
  <2>2. \A h \in Hours : produced[h] <= produced'[h] /\ empty[h] <= empty'[h]
    BY <1>1 DEF Tables
  <2> QED
    BY <1>3, <2>1, <2>2, Bystander
<1>5. TypeOK'
  BY <1>1, <1>2, <1>3, TypeParts DEF Others
<1> QED
  BY <1>3, <1>4, <1>5 DEF Inductive

\* p writes to a table.
LEMMA TableStep ==
  ASSUME Inductive, NEW p \in Procs, NEW next \in ProcType, Step(p, next), Tables',
         UNCHANGED <<now, produced, empty, tick, faults>>, passes' \in 0..MaxPasses,
         next.pc \in {"replace", "put"} => next.value \in Nat,
         Bounded(live)', Bounded(log)', Sound(p)'
  PROVE  Inductive'
<1>1. /\ Tables /\ Others /\ proc \in [Procs -> ProcType]
      /\ \A q \in Procs : proc[q].pc \in {"replace", "put"} => proc[q].value \in Nat
  BY Parts
<1>2. /\ proc' \in [Procs -> ProcType] /\ proc'[p] = next
      /\ \A q \in Procs : q # p =>
           /\ Follows(proc[q], proc'[q])
           /\ proc[q].pc # "idle" => proc'[q].raced
  BY <1>1, WriteStep
<1>3. ASSUME NEW q \in Procs, q # p PROVE Sound(q)'
  <2>1. Follows(proc[q], proc'[q]) /\ (proc'[q].pc # "idle" => proc'[q].raced)
    BY <1>2, <1>3 DEF Follows
  <2>2. \A h \in Hours : produced[h] <= produced'[h] /\ empty[h] <= empty'[h]
    BY <1>1 DEF Tables
  <2> QED
    BY <2>1, <2>2, Bystander
<1>4. TypeOK'
  <2>1. Others'
    BY <1>1 DEF Others
  <2>2. \A q \in Procs : proc'[q].pc \in {"replace", "put"} => proc'[q].value \in Nat
    BY <1>1, <1>2 DEF Follows
  <2> QED
    BY <1>2, <2>1, <2>2, TypeParts DEF Others
<1> QED
  BY <1>3, <1>4 DEF Inductive

-----------------------------------------------------------------------------
(* The initial state, completions, the clock, new rows and the tick *)

LEMMA IdleType == Idle \in ProcType
BY DEF Idle, NoRows, ProcType, Phases, Count, Todos

\* Who does nothing has nothing at hand.
LEMMA IdleSound ==
  ASSUME NEW p \in Procs, proc[p] = Idle
  PROVE  Sound(p)
<1>1. Bounded(NoRows)
  BY KeysAre DEF Bounded, NoRows
<1>2. proc[p].pc = "idle" /\ proc[p].moving = {} /\ proc[p].rows = NoRows /\ ~proc[p].had
  BY DEF Idle
<1> QED
  BY <1>1, <1>2 DEF Sound, PhaseSound, ReadSound, MoveSound

LEMMA InitInductive == Init => Inductive
<1> SUFFICES ASSUME Init PROVE Inductive
  OBVIOUS
<1>1. \A p \in Procs : proc[p] = Idle
  BY DEF Init
<1>2. proc \in [Procs -> ProcType]
  BY IdleType DEF Init
<1>3. TypeOK
  <2>1. now \in Hours /\ 1 \in Hours
    BY HourInt, BucketAssumption DEF Init
  <2>2. Tables
    BY DEF Init, Tables, NoRows, Count
  <2>3. \A p \in Procs : proc[p].pc = "idle"
    BY <1>1 DEF Idle
  <2>4. 0 \in 0..MaxPasses /\ 0 \in 0..MaxFaults
    BY BucketAssumption
  <2> QED
    BY <1>2, <2>1, <2>2, <2>3, <2>4, TypeParts DEF Init
<1>4. Bounded(live) /\ Bounded(log)
  <2>1. \A e \in Entities, h \in Hours :
          /\ live[HourKey(e, h)] = Null /\ log[HourKey(e, h)] \in {0, Null} /\ Shown[h] = 0
    BY KeysAre DEF Init, NoRows, Shown
  <2> QED
    BY <2>1 DEF Bounded
<1> QED
  BY <1>1, <1>3, <1>4, IdleSound DEF Inductive

LEMMA StepComplete == Inductive /\ Complete => Inductive'
<1> SUFFICES ASSUME Inductive, Complete PROVE Inductive'
  OBVIOUS
<1>1. Tables /\ Others /\ proc \in [Procs -> ProcType] /\ Bounded(live) /\ Bounded(log)
  BY Parts
<1>2. now \in Hours /\ now' = now /\ log' = log /\ Others'
  BY <1>1 DEF Complete, Others
<1>3. PICK ended \in 0..MaxOpen \cup {1} :
        /\ produced' = [produced EXCEPT ![now] = @ + ended]
        /\ empty' = [empty EXCEPT ![now] = @ + IF ended = 0 THEN 1 ELSE 0]
  BY DEF Complete
<1>4. /\ \A h \in Hours : produced[h] <= produced'[h] /\ empty[h] <= empty'[h]
      /\ \A h \in Hours : produced[h] \in Nat /\ empty[h] \in Nat
      /\ produced' \in [Hours -> Nat] /\ empty' \in [Hours -> Nat]
      /\ Shown[now] + 1 <= Shown'[now]
      /\ \A h \in Hours : h # now => produced'[h] = produced[h]
  <2>1. ended \in Nat /\ (ended = 0 \/ 1 <= ended)
    BY BucketAssumption
  <2> QED
    BY <1>1, <1>2, <1>3, <2>1 DEF Tables, Shown
<1>5. live' = [k \in Keys |-> IF Hit(k, now) /\ live[k] # Null THEN live[k] + 1 ELSE live[k]]
  BY DEF Complete
<1>6. Tables'
  BY <1>1, <1>2, <1>4, <1>5 DEF Tables, Count
<1>61. \A h \in Hours : Shown[h] \in Nat /\ Shown'[h] \in Nat /\ Shown[h] <= Shown'[h]
  BY <1>1, <1>4, <1>6, ShownType, ShownGrows
<1>7. \A k \in Keys : live[k] # Null => live'[k] # Null
  BY <1>1, <1>5, Constants DEF Tables, Count
<1>8. ASSUME NEW e \in Entities, NEW h \in Hours
      PROVE  Hit(HourKey(e, h), now) => e = "STATION" /\ h = now
  BY <1>2, KeysAre, HourInt DEF Hit
<1>9. Bounded(live)'
  <2> SUFFICES ASSUME NEW e \in Entities, NEW h \in Hours, live'[HourKey(e, h)] # Null
               PROVE  live'[HourKey(e, h)] <= Shown'[h]
    BY DEF Bounded
  <2> DEFINE k == HourKey(e, h)
  <2>1. k \in Keys /\ live[k] \in Count
    BY <1>1, KeysAre DEF Tables
  <2>2. live[k] # Null => live[k] \in Nat /\ live[k] <= Shown[h]
    BY <1>1, <2>1 DEF Bounded, Count
  <2>3. CASE Hit(k, now) /\ live[k] # Null
    <3>1. live'[k] = live[k] + 1 /\ h = now
      BY <1>5, <1>8, <2>1, <2>3
    <3>2. Shown[h] + 1 <= Shown'[h] /\ Shown[h] \in Nat /\ Shown'[h] \in Nat
      BY <1>4, <1>61, <3>1
    <3> QED
      BY <2>2, <2>3, <3>1, <3>2
  <2>4. CASE ~(Hit(k, now) /\ live[k] # Null)
    <3>1. live'[k] = live[k]
      BY <1>5, <2>1, <2>4
    <3> QED
      BY <1>61, <2>2, <3>1
  <2> QED
    BY <2>3, <2>4
<1>10. Bounded(log)'
  <2> SUFFICES ASSUME NEW e \in Entities, NEW h \in Hours, log[HourKey(e, h)] # Null
               PROVE  log[HourKey(e, h)] <= Shown'[h]
    BY <1>2 DEF Bounded
  <2>1. log[HourKey(e, h)] \in Nat /\ log[HourKey(e, h)] <= Shown[h]
    BY <1>1, KeysAre DEF Bounded, Tables, Count
  <2> QED
    BY <1>61, <2>1
<1>11. /\ proc' \in [Procs -> ProcType]
       /\ \A q \in Procs : Follows(proc[q], proc'[q]) /\ (proc[q].hour = now => proc'[q].raced)
  <2>1. Disturb(now)
    BY DEF Complete
  <2> QED
    BY <1>1, <1>2, <2>1, DisturbStep
<1>12. ASSUME NEW p \in Procs, ~proc'[p].raced, proc[p].hour \in Hours
       PROVE  LET k == HourKey("STATION", proc[p].hour)
              IN  /\ produced'[proc[p].hour] = produced[proc[p].hour]
                  /\ live[k] # Null => live'[k] = live[k]
  <2>1. proc[p].hour # now
    BY <1>11, <1>12
  <2>2. "STATION" \in Entities
    BY DEF Entities
  <2>3. HourKey("STATION", proc[p].hour) \in Keys /\ ~Hit(HourKey("STATION", proc[p].hour), now)
    BY <1>8, <1>12, <2>1, <2>2, KeysAre
  <2> QED
    BY <1>4, <1>5, <1>12, <2>1, <2>3
<1> QED
  BY <1>2, <1>4, <1>6, <1>7, <1>9, <1>10, <1>11, <1>12, StoreStep

LEMMA StepReplay == Inductive /\ Replay => Inductive'
<1> SUFFICES ASSUME Inductive, Replay PROVE Inductive'
  OBVIOUS
<1>1. Tables /\ Others /\ proc \in [Procs -> ProcType] /\ Bounded(live) /\ Bounded(log)
  BY Parts
<1>2. live' = live /\ log' = log /\ empty' = empty /\ Others'
  BY <1>1 DEF Replay, Others
<1>3. PICK i \in Hours : produced' = [produced EXCEPT ![i] = @ + 1] /\ Disturb(i)
  BY BucketAssumption DEF Replay
<1>4. /\ \A h \in Hours : produced[h] <= produced'[h] /\ empty[h] <= empty'[h]
      /\ \A h \in Hours : h # i => produced'[h] = produced[h]
  BY <1>1, <1>2, <1>3 DEF Tables
<1>5. Tables'
  BY <1>1, <1>2, <1>3 DEF Tables
<1>6. ASSUME NEW t \in {live, log}, NEW e \in Entities, NEW h \in Hours, t[HourKey(e, h)] # Null
      PROVE  t[HourKey(e, h)] <= Shown'[h]
  <2>1. t[HourKey(e, h)] \in Nat /\ t[HourKey(e, h)] <= Shown[h]
    BY <1>1, <1>6, KeysAre DEF Bounded, Tables, Count
  <2> QED
    BY <1>1, <1>4, <1>5, <2>1, ShownType, ShownGrows
<1>7. Bounded(live)' /\ Bounded(log)'
  BY <1>2, <1>6 DEF Bounded
<1>8. /\ proc' \in [Procs -> ProcType]
      /\ \A q \in Procs : Follows(proc[q], proc'[q]) /\ (proc[q].hour = i => proc'[q].raced)
  BY <1>1, <1>3, DisturbStep
<1>9. \A p \in Procs : ~proc'[p].raced /\ proc[p].hour \in Hours =>
        produced'[proc[p].hour] = produced[proc[p].hour]
  BY <1>4, <1>8
<1> QED
  BY <1>2, <1>4, <1>5, <1>7, <1>8, <1>9, StoreStep

\* The tables and the processes stay.
LEMMA StepClock ==
  ASSUME Inductive, Others', UNCHANGED <<produced, empty, live, log, proc>>
  PROVE  Inductive'
<1>1. Tables /\ proc \in [Procs -> ProcType] /\ Bounded(live) /\ Bounded(log)
  BY Parts
<1>2. Tables' /\ Bounded(live)' /\ Bounded(log)' /\ proc' \in [Procs -> ProcType]
  BY <1>1 DEF Tables, Bounded, Shown
<1>3. \A p \in Procs : Follows(proc[p], proc'[p])
  BY Itself
<1>4. \A h \in Hours : produced[h] <= produced'[h] /\ empty[h] <= empty'[h]
  BY <1>1 DEF Tables
<1> QED
  BY <1>2, <1>3, <1>4, StoreStep

LEMMA StepNextHour == Inductive /\ (NextHour \/ StartTick) => Inductive'
<1> SUFFICES ASSUME Inductive, NextHour \/ StartTick PROVE Inductive'
  OBVIOUS
<1>1. Others
  BY Parts
<1>2. Others' /\ UNCHANGED <<produced, empty, live, log, proc>>
  <2>1. CASE NextHour
    BY <1>1, <2>1, HourInt DEF NextHour, Others
  <2>2. CASE StartTick
    BY <1>1, <2>2 DEF StartTick, Others
  <2> QED
    BY <2>1, <2>2
<1> QED
  BY <1>2, StepClock

\* A write to live rows that no rebuild has at hand: none goes, the station's
\* hours stay as they are, no other comes to show too much.
LEMMA StepLive ==
  ASSUME Inductive, Others', UNCHANGED <<produced, empty, log, proc>>, live' \in [Keys -> Count],
         \A k \in Keys : live[k] # Null => live'[k] # Null,
         \A h \in Hours : LET k == HourKey("STATION", h) IN live[k] # Null => live'[k] = live[k],
         Bounded(live)'
  PROVE  Inductive'
<1>1. Tables /\ proc \in [Procs -> ProcType] /\ Bounded(log)
  BY Parts
<1>2. Tables' /\ Bounded(log)' /\ proc' \in [Procs -> ProcType]
  BY <1>1 DEF Tables, Bounded, Shown
<1>3. \A p \in Procs : Follows(proc[p], proc'[p])
  BY Itself
<1>4. \A h \in Hours : produced[h] <= produced'[h] /\ empty[h] <= empty'[h]
  BY <1>1 DEF Tables
<1> QED
  BY <1>2, <1>3, <1>4, StoreStep

LEMMA StepEnsure == Inductive /\ Ensure => Inductive'
<1> SUFFICES ASSUME Inductive, Ensure PROVE Inductive'
  OBVIOUS
<1>1. Tables /\ Others /\ Bounded(live)
  BY Parts
<1>2. PICK wanted :
        live' = [k \in Keys |-> IF k \in wanted /\ live[k] = Null THEN 0 ELSE live[k]]
  BY DEF Ensure
<1>3. Others' /\ UNCHANGED <<produced, empty, log, proc>>
  BY <1>1 DEF Ensure, Others
<1>4. live' \in [Keys -> Count] /\ \A k \in Keys : live[k] # Null => live'[k] = live[k]
  BY <1>1, <1>2 DEF Tables, Count
<1>5. \A k \in Keys : live'[k] = live[k] \/ live'[k] = 0
  BY <1>2
<1>6. Bounded(live)'
  <2>1. \A h \in Hours : Shown'[h] = Shown[h] /\ Shown[h] \in Nat
    BY <1>1, <1>3, ShownType DEF Shown
  <2> QED
    BY <1>1, <1>5, <2>1, KeysAre DEF Bounded
<1> QED
  BY <1>3, <1>4, <1>6, KeysAre, StepLive DEF Entities

LEMMA StepCascadeShift == Inductive /\ CascadeShift => Inductive'
<1> SUFFICES ASSUME Inductive, CascadeShift PROVE Inductive'
  OBVIOUS
<1> DEFINE s == ShiftOf(tick.at)
           k == ShiftKey(tick.at)
<1>1. Tables /\ Others /\ Bounded(live)
  BY Parts
<1>2. Others' /\ UNCHANGED <<produced, empty, log, proc>>
  BY <1>1 DEF CascadeShift, Others
<1>3. tick.at \in Hours /\ k \in Keys
  BY <1>1, KeysAre DEF Others
<1>4. SumOf(live, HourKeys(s)) \in Nat
  BY <1>1, HourKeysFinite, SumOfType DEF Tables
<1>5. live' = live \/ live' = [live EXCEPT ![k] = SumOf(live, HourKeys(s))]
  BY DEF CascadeShift, ShiftKey
<1> HIDE DEF s
<1>6. live' \in [Keys -> Count] /\ \A j \in Keys : live[j] # Null => live'[j] # Null
  BY <1>1, <1>3, <1>4, <1>5, Constants DEF Tables, Count
<1>7. \A e \in Entities, h \in Hours : live'[HourKey(e, h)] = live[HourKey(e, h)]
  <2>1. \A e \in Entities, h \in Hours : HourKey(e, h) \in Keys /\ HourKey(e, h) # k
    BY <1>3, KeysAre
  <2> HIDE DEF k
  <2> QED
    BY <1>1, <1>5, <2>1 DEF Tables
<1>8. Bounded(live)'
  BY <1>1, <1>2, <1>7 DEF Bounded, Shown
<1> QED
  BY <1>2, <1>6, <1>7, <1>8, StepLive DEF Entities

LEMMA StepCascadeParents == Inductive /\ CascadeParents => Inductive'
<1> SUFFICES ASSUME Inductive, CascadeParents PROVE Inductive'
  OBVIOUS
<1>1. Tables /\ Others /\ Bounded(live)
  BY Parts
<1>2. Others' /\ UNCHANGED <<produced, empty, log, proc>>
  BY <1>1, HourInt DEF CascadeParents, Others
<1>3. live' = [k \in Keys |->
        IF k[1] = "SITE" /\ live[k] # Null /\ live[Station(k)] # Null /\ InDay(k)
        THEN live[Station(k)] ELSE live[k]]
  BY DEF CascadeParents
<1>4. \A k \in Keys : live'[k] = live[k] \/ (k[1] = "SITE" /\ live[Station(k)] # Null /\ live'[k] = live[Station(k)])
  BY <1>3
<1>5. ASSUME NEW h \in Hours PROVE Station(HourKey("SITE", h)) = HourKey("STATION", h)
  BY DEF Station, HourKey
<1>6. ASSUME NEW k \in Keys, k[1] = "SITE" PROVE live[Station(k)] \in Count
  <2>1. PICK h \in Hours : k = HourKey("SITE", h)
    BY <1>6, KeyCases, KeysAre DEF Entities
  <2>2. HourKey("STATION", h) \in Keys
    BY KeysAre DEF Entities
  <2> QED
    BY <1>1, <1>5, <2>1, <2>2 DEF Tables
<1>7. live' \in [Keys -> Count] /\ \A k \in Keys : live[k] # Null => live'[k] # Null
  BY <1>1, <1>3, <1>6 DEF Tables
<1>8. \A h \in Hours : HourKey("STATION", h) \in Keys /\ live'[HourKey("STATION", h)] = live[HourKey("STATION", h)]
  BY <1>4, KeysAre DEF Entities
<1>9. ASSUME NEW h \in Hours
      PROVE  \/ live'[HourKey("SITE", h)] = live[HourKey("SITE", h)]
             \/ live'[HourKey("SITE", h)] = live[HourKey("STATION", h)]
  BY <1>4, <1>5, KeysAre DEF Entities
<1>10. Bounded(live)'
  BY <1>1, <1>2, <1>8, <1>9 DEF Bounded, Entities, Shown
<1> QED
  BY <1>2, <1>7, <1>8, <1>10, StepLive

-----------------------------------------------------------------------------
(* Rolling up *)

\* What a process has at hand.
LEMMA Own ==
  ASSUME Inductive, NEW p \in Procs
  PROVE  /\ proc[p] \in ProcType /\ Sound(p)
         /\ proc[p].pc \in Phases /\ proc[p].moving \subseteq Keys
         /\ proc[p].rows \in [Keys -> Count] /\ proc[p].todo \in Todos
         /\ proc[p].had \in BOOLEAN /\ proc[p].raced \in BOOLEAN
BY Parts DEF ProcType

\* A sum is a count, and a site's hour is to become no more than its cycles.
LEMMA RolledType ==
  ASSUME Tables, Bounded(live), Bounded(log), NEW h \in Hours
  PROVE  /\ Rolled(ShiftKey(h)) \in Nat
         /\ Rolled(HourKey("SITE", h)) \in Nat
         /\ Rolled(HourKey("SITE", h)) <= Shown[h]
<1>1. \A k \in Keys : Either(k) \in Count
  BY DEF Either, Tables
<1>2. Rolled(ShiftKey(h)) \in Nat
  <2> DEFINE t == [j \in Keys |-> Either(j)]
  <2>1. HourKeys(ShiftOf(h)) \in SUBSET Keys /\ IsFiniteSet(HourKeys(ShiftOf(h)))
    BY HourKeysFinite
  <2>2. \A k \in HourKeys(ShiftOf(h)) : t[k] \in Count
    BY <1>1, <2>1
  <2>3. Rolled(ShiftKey(h)) = SumOf(t, HourKeys(ShiftOf(h)))
    BY DEF Rolled, ShiftKey
  <2> HIDE DEF t
  <2> QED
    BY <2>1, <2>2, <2>3, SumOfType
<1>3. Rolled(HourKey("SITE", h)) = IF Either(HourKey("STATION", h)) = Null THEN 0
                                   ELSE Either(HourKey("STATION", h))
  BY DEF Rolled, HourKey, Station
<1>4. /\ HourKey("STATION", h) \in Keys
      /\ Either(HourKey("STATION", h)) # Null => Either(HourKey("STATION", h)) <= Shown[h]
  BY KeysAre DEF Entities, Either, Bounded
<1> QED
  BY <1>1, <1>2, <1>3, <1>4, ShownType DEF Count

\* A process that is about to write its sum is one.
LEMMA PutType ==
  ASSUME NEW a \in ProcType, NEW v \in Count, NEW w \in {"log", "live"}
  PROVE  [a EXCEPT !.pc = "put", !.value = v, !.place = w] \in ProcType
BY DEF ProcType, Phases

LEMMA StepLook == ASSUME Inductive, NEW p \in Procs, Look(p) PROVE Inductive'
<1> DEFINE k == Head(proc[p].todo)
           next == [proc[p] EXCEPT !.pc = "put", !.value = Rolled(k),
                      !.place = IF live[k] = Null /\ log[k] # Null THEN "log" ELSE "live"]
<1>1. /\ Tables /\ Bounded(live) /\ Bounded(log) /\ proc \in [Procs -> ProcType]
      /\ passes \in 0..MaxPasses /\ faults \in 0..MaxFaults
  BY Parts DEF Others
<1>2. /\ proc[p].pc = "roll" /\ proc[p].todo # <<>>
      /\ proc' = [proc EXCEPT ![p] = next]
      /\ UNCHANGED <<now, produced, empty, live, log, tick, passes, faults>>
  BY DEF Look
<1>3. PICK h \in Hours : k = ShiftKey(h) \/ k = HourKey("SITE", h)
  BY <1>2, Own, TodoNext
<1>4. Rolled(k) \in Nat
  BY <1>1, <1>3, RolledType
<1>5. \A i \in Hours : k = HourKey("SITE", i) => Rolled(k) <= Shown[i]
  BY <1>1, RolledType
<1>6. next \in ProcType /\ proc'[p] = next
  <2>1. proc[p] \in ProcType
    BY Own
  <2>2. next \in ProcType
    BY <1>4, <2>1, PutType DEF Count
  <2>3. proc'[p] = next
    BY <1>1, <1>2
  <2> QED
    BY <2>2, <2>3
<1>7. /\ next.pc = "put" /\ next.todo = proc[p].todo /\ next.value = Rolled(k)
      /\ next.hour = proc[p].hour /\ next.covers = proc[p].covers
      /\ next.moving = proc[p].moving /\ next.rows = proc[p].rows
      /\ next.had = proc[p].had /\ next.raced = proc[p].raced
  BY Own DEF ProcType
<1>8. Sound(p)
  BY Own
<1> HIDE DEF next
<1>9. Sound(p)'
  <2>1. PhaseSound(p)'
    BY <1>2, <1>6, <1>7, <1>8 DEF Sound, PhaseSound
  <2>2. ReadSound(p)'
    BY <1>2, <1>5, <1>6, <1>7, <1>8 DEF Sound, ReadSound, Bounded, Shown
  <2>3. MoveSound(p)'
    BY <1>2, <1>6, <1>7, <1>8 DEF Sound, MoveSound
  <2>4. next.had /\ ~next.raced /\ p \in Rebuilders => HourSound(p)'
    BY <1>2, <1>6, <1>7, <1>8 DEF Sound, HourSound
  <2> QED
    BY <1>6, <2>1, <2>2, <2>3, <2>4 DEF Sound
<1> QED
  BY <1>1, <1>2, <1>4, <1>6, <1>7, <1>9, ReadStep

LEMMA StepPut == ASSUME Inductive, NEW p \in Procs, Put(p) PROVE Inductive'
<1> DEFINE k == Head(proc[p].todo)
           v == proc[p].value
           next == [proc[p] EXCEPT !.pc = "roll", !.todo = Tail(@), !.value = Null, !.place = Null]
<1>1. /\ Tables /\ Bounded(live) /\ Bounded(log) /\ passes \in 0..MaxPasses
      /\ proc[p].pc \in {"replace", "put"} => v \in Nat
  BY Parts DEF Others
<1>2. /\ proc[p].pc = "put" /\ Step(p, next)
      /\ UNCHANGED <<now, produced, empty, tick, passes, faults>>
  BY DEF Put
<1>3. Sound(p) /\ proc[p].todo # <<>>
  BY <1>2, Own DEF Sound, PhaseSound
<1>4. Tail(proc[p].todo) \in Todos
  BY <1>3, Own, TodoNext
<1>5. PICK h \in Hours : k = ShiftKey(h) \/ k = HourKey("SITE", h)
  BY <1>3, Own, TodoNext
<1>6. k \in Keys /\ v \in Nat
  BY <1>1, <1>2, <1>5, KeysAre DEF Entities
<1>7. \A i \in Hours : k = HourKey("SITE", i) => v <= Shown[i]
  BY <1>2, <1>3 DEF Sound, ReadSound
<1>8. next \in ProcType
  BY <1>4, Own DEF ProcType, Phases, Count
<1>9. /\ next.pc = "roll" /\ next.hour = proc[p].hour /\ next.covers = proc[p].covers
      /\ next.moving = proc[p].moving
      /\ next.rows = proc[p].rows /\ next.had = proc[p].had /\ next.raced = proc[p].raced
  BY Own DEF ProcType
<1>10. proc'[p] = next
  BY <1>2, <1>8, Parts, WriteStep
<1>11. /\ live' = live \/ live' = [live EXCEPT ![k] = v]
       /\ log' = log \/ log' = [log EXCEPT ![k] = IF @ = Null THEN Null ELSE v]
  BY DEF Put
<1> HIDE DEF next, k, v
<1>12. Tables'
  BY <1>1, <1>2, <1>6, <1>11 DEF Tables, Count
<1>13. \A j \in Keys : /\ live'[j] = live[j] \/ (j = k /\ live'[j] = v)
                       /\ log'[j] = log[j] \/ (j = k /\ log'[j] = v)
  BY <1>1, <1>6, <1>11 DEF Tables
<1>14. \A i \in Hours : k # HourKey("STATION", i)
  BY <1>5, KeysAre DEF Entities
<1>15. \A j \in Keys : live[j] # Null => live'[j] # Null
  BY <1>6, <1>13, Constants
<1>16. Bounded(live)' /\ Bounded(log)'
  <2> SUFFICES ASSUME NEW e \in Entities, NEW i \in Hours
               PROVE  /\ live'[HourKey(e, i)] # Null => live'[HourKey(e, i)] <= Shown[i]
                      /\ log'[HourKey(e, i)] # Null => log'[HourKey(e, i)] <= Shown[i]
    BY <1>2 DEF Bounded, Shown
  <2>1. HourKey(e, i) \in Keys
    BY KeysAre
  <2>2. HourKey(e, i) = k => v <= Shown[i]
    BY <1>7, <1>14 DEF Entities
  <2> QED
    BY <1>1, <1>13, <2>1, <2>2 DEF Bounded
<1>17. Sound(p)'
  <2>1. PhaseSound(p)'
    BY <1>2, <1>3, <1>9, <1>10 DEF Sound, PhaseSound
  <2>2. ReadSound(p)'
    BY <1>2, <1>3, <1>9, <1>10 DEF Sound, ReadSound, Bounded, Shown
  <2>3. MoveSound(p)'
    BY <1>2, <1>3, <1>9, <1>10, <1>15, Own DEF Sound, MoveSound
  <2>4. next.had /\ ~next.raced /\ p \in Rebuilders => HourSound(p)'
    <3> SUFFICES ASSUME next.had, ~next.raced, p \in Rebuilders, next.covers PROVE HourSound(p)'
      BY <1>9, <1>10 DEF HourSound
    <3> DEFINE j == HourKey("STATION", proc[p].hour)
    <3>1. proc[p].hour \in Hours /\ j \in Keys
      BY <1>2, <1>3, KeysAre, Constants DEF Sound, PhaseSound, Entities
    <3>2. live'[j] = live[j]
      BY <1>13, <1>14, <3>1
    <3>3. live[j] = produced[proc[p].hour]
      BY <1>2, <1>3, <1>9 DEF Sound, HourSound
    <3> QED
      BY <1>2, <1>9, <1>10, <3>2, <3>3 DEF HourSound
  <2> QED
    BY <1>10, <2>1, <2>2, <2>3, <2>4 DEF Sound
<1>18. next.pc \in {"replace", "put"} => next.value \in Nat
  BY <1>9
<1> QED
  BY <1>1, <1>2, <1>8, <1>12, <1>16, <1>17, <1>18, TableStep

-----------------------------------------------------------------------------
(* A rebuild *)

LEMMA StepBeginRebuild == ASSUME Inductive, NEW r \in Rebuilders, BeginRebuild(r) PROVE Inductive'
<1>1. r \in Procs /\ r # Archiver
  BY Constants
<1>2. /\ Tables /\ Bounded(live) /\ Bounded(log) /\ passes \in 0..MaxPasses
  BY Parts DEF Others
<1>3. PICK h \in Hours, pc \in {"unarchive", "compute"}, covers \in BOOLEAN :
        LET k == HourKey("STATION", h)
        IN  Step(r, [Idle EXCEPT !.pc = pc, !.hour = h, !.covers = covers,
                                 !.had = live[k] # Null \/ (pc = "unarchive" /\ log[k] # Null)])
  BY BucketAssumption DEF BeginRebuild, HourKey
<1> DEFINE k == HourKey("STATION", h)
           next == [Idle EXCEPT !.pc = pc, !.hour = h, !.covers = covers,
                      !.had = live[k] # Null \/ (pc = "unarchive" /\ log[k] # Null)]
<1>4. UNCHANGED <<now, produced, empty, live, log, tick, faults>> /\ passes' \in 0..MaxPasses
  BY <1>2, BucketAssumption DEF BeginRebuild
<1>5. next \in ProcType
  BY IdleType DEF ProcType, Phases
<1>6. /\ next.pc = pc /\ next.hour = h /\ next.moving = {} /\ next.rows = NoRows
      /\ next.had <=> live[k] # Null \/ (pc = "unarchive" /\ log[k] # Null)
  BY DEF Idle
<1>7. proc'[r] = next
  BY <1>1, <1>3, <1>5, Parts, WriteStep
<1> HIDE DEF next
<1>8. Tables' /\ Bounded(live)' /\ Bounded(log)'
  BY <1>2, <1>4 DEF Tables, Bounded, Shown
<1>9. Sound(r)'
  <2>1. PhaseSound(r)'
    BY <1>6, <1>7 DEF PhaseSound
  <2>2. ReadSound(r)'
    BY <1>6, <1>7, KeysAre DEF ReadSound, Bounded, NoRows
  <2>3. MoveSound(r)'
    BY <1>6, <1>7 DEF MoveSound
  <2>4. next.had => HourSound(r)'
    BY <1>4, <1>6, <1>7 DEF HourSound
  <2> QED
    BY <1>7, <2>1, <2>2, <2>3, <2>4 DEF Sound
<1>10. next.pc \in {"replace", "put"} => next.value \in Nat
  BY <1>6
<1>11. Step(r, next)
  BY <1>3 DEF next
<1> QED
  BY <1>1, <1>4, <1>5, <1>8, <1>9, <1>10, <1>11, TableStep

LEMMA StepReadLog == ASSUME Inductive, NEW r \in Rebuilders, ReadLog(r) PROVE Inductive'
<1> DEFINE found == {k \in Present(log, Keys) : Affected(k, proc[r].hour)}
           next == [proc[r] EXCEPT
             !.pc = IF found = {} THEN Recalculation(r) ELSE "restore", !.moving = found,
             !.rows = [k \in Keys |-> IF k \in found THEN log[k] ELSE Null]]
<1>1. r \in Procs /\ r # Archiver
  BY Constants
<1>2. /\ Tables /\ Bounded(live) /\ Bounded(log) /\ proc \in [Procs -> ProcType]
      /\ passes \in 0..MaxPasses /\ faults \in 0..MaxFaults
  BY Parts DEF Others
<1>3. /\ proc[r].pc = "unarchive" /\ proc' = [proc EXCEPT ![r] = next]
      /\ UNCHANGED <<now, produced, empty, live, log, tick, passes, faults>>
  BY DEF ReadLog
<1>4. Sound(r) /\ proc[r].hour \in Hours /\ proc[r] \in ProcType
  BY <1>1, <1>3, Own DEF Sound, PhaseSound
<1>5. found \subseteq Keys /\ \A k \in found : log[k] # Null
  BY DEF Present
<1>6. [k \in Keys |-> IF k \in found THEN log[k] ELSE Null] \in [Keys -> Count]
  BY <1>2 DEF Tables, Count
<1>7. LET k == HourKey("STATION", proc[r].hour) IN log[k] # Null => k \in found
  <2>1. HourKey("STATION", proc[r].hour) \in Keys
    BY <1>4, KeysAre DEF Entities
  <2>2. Affected(HourKey("STATION", proc[r].hour), proc[r].hour)
    BY <1>4, HourInt DEF Affected, HourKey, Length
  <2> QED
    BY <2>1, <2>2 DEF Present
<1>71. Recalculation(r) = (IF proc[r].covers THEN "compute" ELSE "roll")
  BY DEF Recalculation
<1> HIDE DEF found
<1>8. next \in ProcType /\ proc'[r] = next
  BY <1>1, <1>2, <1>3, <1>4, <1>5, <1>6, <1>71 DEF ProcType, Phases
<1>9. /\ next.pc = (IF found = {} THEN Recalculation(r) ELSE "restore")
      /\ next.hour = proc[r].hour /\ next.covers = proc[r].covers /\ next.moving = found
      /\ next.rows = [k \in Keys |-> IF k \in found THEN log[k] ELSE Null]
      /\ next.had = proc[r].had /\ next.raced = proc[r].raced
  BY <1>4 DEF ProcType
<1> HIDE DEF next
<1>10. Sound(r)'
  <2>1. PhaseSound(r)'
    BY <1>4, <1>71, <1>8, <1>9 DEF PhaseSound
  <2>2. ReadSound(r)'
    <3>1. ASSUME NEW e \in Entities, NEW h \in Hours, next.rows[HourKey(e, h)] # Null
          PROVE  next.rows[HourKey(e, h)] <= Shown[h]
      <4>1. next.rows[HourKey(e, h)] = log[HourKey(e, h)]
        BY <1>9, <3>1, KeysAre
      <4> QED
        BY <1>2, <3>1, <4>1 DEF Bounded
    <3> QED
      BY <1>3, <1>71, <1>8, <1>9, <3>1 DEF ReadSound, Bounded, Shown
  <2>3. MoveSound(r)'
    BY <1>1, <1>5, <1>71, <1>8, <1>9 DEF MoveSound
  <2>4. next.had /\ ~next.raced => HourSound(r)'
    <3> DEFINE k == HourKey("STATION", proc[r].hour)
    <3>1. next.had /\ ~next.raced => live[k] # Null \/ k \in found
      BY <1>3, <1>4, <1>7, <1>9 DEF Sound, HourSound
    <3> HIDE DEF k
    <3>2. ~next.had \/ next.raced \/ live'[k] # Null \/ (next.pc = "restore" /\ k \in next.moving)
      BY <1>3, <1>9, <3>1
    <3>3. next.pc \in {"compute", "restore"} \/ (next.pc = "roll" /\ ~next.covers)
      BY <1>71, <1>9
    <3> QED
      BY <1>8, <1>9, <3>2, <3>3 DEF HourSound, k
  <2> QED
    BY <1>8, <2>1, <2>2, <2>3, <2>4 DEF Sound
<1>11. next.pc \in {"replace", "put"} => next.value \in Nat
  BY <1>71, <1>9
<1>12. proc' = [proc EXCEPT ![r] = next]
  BY <1>3 DEF next, found
<1> QED
  BY <1>1, <1>2, <1>3, <1>8, <1>10, <1>11, <1>12, ReadStep

LEMMA StepRestore == ASSUME Inductive, NEW r \in Rebuilders, Restore(r) PROVE Inductive'
<1> DEFINE a == proc[r]
           next == [proc[r] EXCEPT !.pc = "forget", !.rows = NoRows]
<1>1. r \in Procs /\ r # Archiver
  BY Constants
<1>2. Tables /\ Bounded(live) /\ Bounded(log) /\ passes \in 0..MaxPasses
  BY Parts DEF Others
<1>3. /\ a.pc = "restore" /\ Step(r, next)
      /\ live' = [k \in Keys |-> IF k \in a.moving /\ live[k] = Null THEN a.rows[k] ELSE live[k]]
      /\ UNCHANGED <<now, produced, empty, log, tick, passes, faults>>
  BY DEF Restore
<1>4. Sound(r) /\ a.rows \in [Keys -> Count] /\ a.moving \subseteq Keys /\ a \in ProcType
  BY <1>1, Own
<1>5. \A k \in a.moving : a.rows[k] # Null
  BY <1>3, <1>4 DEF Sound, MoveSound
<1>6. next \in ProcType
  BY <1>4 DEF ProcType, Phases, NoRows, Count
<1>7. /\ next.pc = "forget" /\ next.hour = a.hour /\ next.covers = a.covers /\ next.moving = a.moving /\ next.rows = NoRows
      /\ next.had = a.had /\ next.raced = a.raced
  BY <1>4 DEF ProcType
<1>8. proc'[r] = next
  BY <1>1, <1>3, <1>6, Parts, WriteStep
<1>9. a.hour \in Hours
  BY <1>1, <1>3, <1>4 DEF Sound, PhaseSound
<1> HIDE DEF next
<1>10. Tables'
  BY <1>2, <1>3, <1>4 DEF Tables
<1>11. /\ \A k \in Keys : live[k] # Null => live'[k] # Null
       /\ \A k \in a.moving : live'[k] # Null
       /\ \A k \in Keys : live'[k] = live[k] \/ live'[k] = a.rows[k]
  BY <1>3, <1>4, <1>5
<1>12. Bounded(live)' /\ Bounded(log)'
  <2>1. Bounded(a.rows)
    BY <1>4 DEF Sound, ReadSound
  <2> QED
    BY <1>2, <1>3, <1>11, <2>1, KeysAre DEF Bounded, Shown
<1>13. Sound(r)'
  <2>1. PhaseSound(r)'
    BY <1>7, <1>8, <1>9 DEF PhaseSound
  <2>2. ReadSound(r)'
    BY <1>7, <1>8, KeysAre DEF ReadSound, Bounded, NoRows
  <2>3. MoveSound(r)'
    BY <1>1, <1>7, <1>8, <1>11 DEF MoveSound
  <2>4. next.had /\ ~next.raced => HourSound(r)'
    <3> DEFINE k == HourKey("STATION", a.hour)
    <3>1. next.had /\ ~next.raced => live[k] # Null \/ k \in a.moving
      BY <1>3, <1>4, <1>7 DEF Sound, HourSound
    <3>2. k \in Keys
      BY <1>9, KeysAre DEF Entities
    <3>3. next.had /\ ~next.raced => live'[k] # Null
      BY <1>11, <3>1, <3>2
    <3> HIDE DEF k
    <3> QED
      BY <1>7, <1>8, <3>3 DEF HourSound, k
  <2> QED
    BY <1>8, <2>1, <2>2, <2>3, <2>4 DEF Sound
<1>14. next.pc \in {"replace", "put"} => next.value \in Nat
  BY <1>7
<1> QED
  BY <1>1, <1>2, <1>3, <1>6, <1>10, <1>11, <1>12, <1>13, <1>14, TableStep

LEMMA StepForget == ASSUME Inductive, NEW r \in Rebuilders, Forget(r) PROVE Inductive'
<1> DEFINE a == proc[r]
           next == [proc[r] EXCEPT !.pc = Recalculation(r), !.moving = {}]
<1>1. r \in Procs /\ r # Archiver
  BY Constants
<1>2. Tables /\ Bounded(live) /\ Bounded(log) /\ passes \in 0..MaxPasses
  BY Parts DEF Others
<1>3. /\ a.pc = "forget" /\ Step(r, next)
      /\ log' = [k \in Keys |-> IF k \in a.moving THEN Null ELSE log[k]]
      /\ UNCHANGED <<now, produced, empty, live, tick, passes, faults>>
  BY DEF Forget
<1>4. Sound(r) /\ a \in ProcType
  BY <1>1, Own
<1>41. Recalculation(r) = (IF a.covers THEN "compute" ELSE "roll")
  BY DEF Recalculation
<1>5. next \in ProcType
  BY <1>4, <1>41 DEF ProcType, Phases
<1>6. /\ next.pc = (IF a.covers THEN "compute" ELSE "roll") /\ next.hour = a.hour
      /\ next.covers = a.covers /\ next.moving = {} /\ next.rows = a.rows
      /\ next.had = a.had /\ next.raced = a.raced
  BY <1>4, <1>41 DEF ProcType
<1>7. proc'[r] = next
  BY <1>1, <1>3, <1>5, Parts, WriteStep
<1>8. a.hour \in Hours
  BY <1>1, <1>3, <1>4 DEF Sound, PhaseSound
<1> HIDE DEF next
<1>9. Tables'
  BY <1>2, <1>3 DEF Tables, Count
<1>10. Bounded(live)' /\ Bounded(log)'
  BY <1>2, <1>3, KeysAre DEF Bounded, Shown
<1>11. Sound(r)'
  <2>1. PhaseSound(r)'
    BY <1>6, <1>7, <1>8 DEF PhaseSound
  <2>2. ReadSound(r)'
    BY <1>3, <1>4, <1>6, <1>7 DEF Sound, ReadSound, Bounded, Shown
  <2>3. MoveSound(r)'
    BY <1>1, <1>6, <1>7 DEF MoveSound
  <2>4. next.had /\ ~next.raced => HourSound(r)'
    BY <1>3, <1>4, <1>6, <1>7 DEF Sound, HourSound
  <2> QED
    BY <1>7, <2>1, <2>2, <2>3, <2>4 DEF Sound
<1>12. next.pc \in {"replace", "put"} => next.value \in Nat
  BY <1>6
<1> QED
  BY <1>1, <1>2, <1>3, <1>5, <1>9, <1>10, <1>11, <1>12, TableStep

LEMMA StepCompute == ASSUME Inductive, NEW r \in Rebuilders, Compute(r) PROVE Inductive'
<1> DEFINE a == proc[r]
           next == [proc[r] EXCEPT !.pc = "replace", !.value = produced[proc[r].hour]]
<1>1. r \in Procs /\ r # Archiver
  BY Constants
<1>2. /\ Tables /\ proc \in [Procs -> ProcType]
      /\ passes \in 0..MaxPasses /\ faults \in 0..MaxFaults
  BY Parts DEF Others
<1>3. /\ a.pc = "compute" /\ proc' = [proc EXCEPT ![r] = next]
      /\ UNCHANGED <<now, produced, empty, live, log, tick, passes, faults>>
  BY DEF Compute
<1>4. Sound(r) /\ a \in ProcType /\ a.hour \in Hours
  BY <1>1, <1>3, Own DEF Sound, PhaseSound
<1>5. produced[a.hour] \in Nat
  BY <1>2, <1>4 DEF Tables
<1>6. next \in ProcType /\ proc'[r] = next
  BY <1>1, <1>2, <1>3, <1>4, <1>5 DEF ProcType, Phases, Count
<1>7. /\ next.pc = "replace" /\ next.hour = a.hour /\ next.moving = a.moving /\ next.rows = a.rows
      /\ next.value = produced[a.hour] /\ next.had = a.had /\ next.raced = a.raced
  BY <1>4 DEF ProcType
<1> HIDE DEF next
<1>8. Sound(r)'
  <2>1. PhaseSound(r)'
    BY <1>1, <1>4, <1>6, <1>7 DEF PhaseSound
  <2>2. ReadSound(r)'
    <3>1. produced[a.hour] <= Shown[a.hour]
      BY <1>2, <1>4, ShownType
    <3> QED
      BY <1>3, <1>4, <1>5, <1>6, <1>7, <3>1 DEF Sound, ReadSound, Bounded, Shown
  <2>3. MoveSound(r)'
    BY <1>1, <1>6, <1>7 DEF MoveSound
  <2>4. next.had /\ ~next.raced => HourSound(r)'
    BY <1>3, <1>4, <1>6, <1>7 DEF Sound, HourSound
  <2> QED
    BY <1>6, <2>1, <2>2, <2>3, <2>4 DEF Sound
<1>9. proc' = [proc EXCEPT ![r] = next]
  BY <1>3 DEF next
<1> QED
  BY <1>1, <1>2, <1>3, <1>5, <1>6, <1>7, <1>8, <1>9, ReadStep

LEMMA StepReplace == ASSUME Inductive, NEW r \in Rebuilders, Replace(r) PROVE Inductive'
<1> DEFINE a == proc[r]
           k == HourKey("STATION", a.hour)
           next == [proc[r] EXCEPT !.pc = "roll", !.value = Null, !.todo = Targets(proc[r].hour)]
<1>1. r \in Procs /\ r # Archiver
  BY Constants
<1>2. /\ Tables /\ Bounded(live) /\ Bounded(log) /\ passes \in 0..MaxPasses
      /\ a.pc \in {"replace", "put"} => a.value \in Nat
  BY <1>1, Parts DEF Others
<1>3. /\ a.pc = "replace" /\ Step(r, next)
      /\ live' = [live EXCEPT ![k] = IF @ = Null THEN Null ELSE a.value]
      /\ UNCHANGED <<now, produced, empty, log, tick, passes, faults>>
  BY DEF Replace, HourKey
<1>4. Sound(r) /\ a \in ProcType /\ a.hour \in Hours /\ k \in Keys
  BY <1>1, <1>3, Own, KeysAre DEF Sound, PhaseSound, Entities
<1>5. a.value \in Nat /\ a.value <= Shown[a.hour]
  BY <1>2, <1>3, <1>4 DEF Sound, ReadSound
<1>6. next \in ProcType
  BY <1>4 DEF ProcType, Phases, Count, Todos
<1>7. /\ next.pc = "roll" /\ next.hour = a.hour /\ next.moving = a.moving /\ next.rows = a.rows
      /\ next.had = a.had /\ next.raced = a.raced
  BY <1>4 DEF ProcType
<1>8. proc'[r] = next
  BY <1>1, <1>3, <1>6, Parts, WriteStep
<1> HIDE DEF next, a
<1>9. Tables'
  BY <1>2, <1>3, <1>4, <1>5 DEF Tables, Count
<1>10. /\ \A j \in Keys : live[j] # Null => live'[j] # Null
       /\ live[k] # Null => live'[k] = a.value
       /\ \A j \in Keys : live'[j] = live[j] \/ (j = k /\ live'[j] = a.value)
  BY <1>2, <1>3, <1>4, <1>5, Constants DEF Tables
<1>11. Bounded(live)' /\ Bounded(log)'
  <2>1. ASSUME NEW e \in Entities, NEW h \in Hours, live'[HourKey(e, h)] # Null
        PROVE  live'[HourKey(e, h)] <= Shown[h]
    <3>1. HourKey(e, h) \in Keys
      BY KeysAre
    <3>2. HourKey(e, h) = k => h = a.hour
      BY <1>4, KeysAre DEF Entities
    <3> QED
      BY <1>2, <1>5, <1>10, <2>1, <3>1, <3>2 DEF Bounded
  <2> QED
    BY <1>2, <1>3, <2>1 DEF Bounded, Shown
<1>12. Sound(r)'
  <2>1. PhaseSound(r)'
    BY <1>1, <1>4, <1>7, <1>8 DEF PhaseSound
  <2>2. ReadSound(r)'
    BY <1>3, <1>4, <1>7, <1>8 DEF Sound, ReadSound, Bounded, Shown, a
  <2>3. MoveSound(r)'
    BY <1>1, <1>7, <1>8 DEF MoveSound
  <2>4. next.had /\ ~next.raced => HourSound(r)'
    <3>1. next.had /\ ~next.raced => live[k] # Null /\ a.value = produced[a.hour]
      BY <1>1, <1>3, <1>4, <1>7 DEF Sound, HourSound, a
    <3>2. next.had /\ ~next.raced => live'[k] = produced'[a.hour]
      BY <1>3, <1>10, <3>1
    <3> QED
      BY <1>7, <1>8, <3>2 DEF HourSound
  <2> QED
    BY <1>8, <2>1, <2>2, <2>3, <2>4 DEF Sound
<1>13. next.pc \in {"replace", "put"} => next.value \in Nat
  BY <1>7
<1> QED
  BY <1>1, <1>2, <1>3, <1>6, <1>9, <1>10, <1>11, <1>12, <1>13, TableStep

\* Who is idle has nothing at hand, after a step too.
LEMMA NowIdle == ASSUME NEW p \in Procs, proc'[p] = Idle PROVE Sound(p)'
<1>1. Bounded(NoRows)'
  BY KeysAre DEF Bounded, NoRows
<1>2. Idle.pc = "idle" /\ Idle.moving = {} /\ Idle.rows = NoRows /\ ~Idle.had
  BY DEF Idle
<1> QED
  BY <1>1, <1>2 DEF Sound, PhaseSound, ReadSound, MoveSound

\* The end of a rebuild or an update, and a failure anywhere.
LEMMA StepIdle ==
  ASSUME Inductive, NEW p \in Procs, EndRebuild(p) \/ EndUpdate(p) \/ Fail(p)
  PROVE  Inductive'
<1>1. proc \in [Procs -> ProcType] /\ passes \in 0..MaxPasses /\ faults \in 0..MaxFaults
  BY Parts DEF Others
<1>2. /\ proc' = [proc EXCEPT ![p] = Idle] /\ UNCHANGED <<now, produced, empty, live, log, tick>>
      /\ passes' \in 0..MaxPasses /\ faults' \in 0..MaxFaults
  BY <1>1, BucketAssumption DEF EndRebuild, EndUpdate, Fail
<1>3. Sound(p)'
  BY <1>1, <1>2, NowIdle
<1>4. Idle.pc = "idle"
  BY DEF Idle
<1> QED
  BY <1>2, <1>3, <1>4, IdleType, ReadStep

-----------------------------------------------------------------------------
(* An update of durations *)

LEMMA StepBeginUpdate == ASSUME Inductive, NEW u \in Updaters, BeginUpdate(u) PROVE Inductive'
<1>1. u \in Procs /\ u # Archiver /\ u \notin Rebuilders
  BY Constants
<1>2. passes \in 0..MaxPasses /\ faults \in 0..MaxFaults /\ proc \in [Procs -> ProcType]
  BY Parts DEF Others
<1>3. PICK h \in Hours, pc \in {"find", "create"} :
        proc' = [proc EXCEPT ![u] = [Idle EXCEPT !.pc = pc, !.hour = h]]
  BY BucketAssumption DEF BeginUpdate
<1> DEFINE next == [Idle EXCEPT !.pc = pc, !.hour = h]
<1>4. UNCHANGED <<now, produced, empty, live, log, tick, faults>> /\ passes' \in 0..MaxPasses
  BY <1>2, BucketAssumption DEF BeginUpdate
<1>5. next \in ProcType
  BY IdleType DEF ProcType, Phases
<1>6. next.pc = pc /\ next.hour = h /\ next.moving = {} /\ next.rows = NoRows
  BY DEF Idle
<1>7. proc'[u] = next
  BY <1>1, <1>2, <1>3
<1>8. proc' = [proc EXCEPT ![u] = next]
  BY <1>3
<1> HIDE DEF next
<1>9. Sound(u)'
  <2>1. PhaseSound(u)'
    BY <1>6, <1>7 DEF PhaseSound
  <2>2. ReadSound(u)'
    BY <1>6, <1>7, KeysAre DEF ReadSound, Bounded, NoRows
  <2>3. MoveSound(u)'
    BY <1>6, <1>7 DEF MoveSound
  <2> QED
    BY <1>1, <2>1, <2>2, <2>3 DEF Sound
<1> QED
  BY <1>1, <1>2, <1>4, <1>5, <1>6, <1>8, <1>9, ReadStep

LEMMA StepCreate == ASSUME Inductive, NEW u \in Updaters, Create(u) PROVE Inductive'
<1> DEFINE a == proc[u]
           next == [proc[u] EXCEPT !.pc = "find"]
<1>1. u \in Procs /\ u # Archiver /\ u \notin Rebuilders
  BY Constants
<1>2. Tables /\ Bounded(live) /\ Bounded(log) /\ passes \in 0..MaxPasses
  BY Parts DEF Others
<1>3. /\ a.pc = "create" /\ Step(u, next)
      /\ UNCHANGED <<now, produced, empty, log, tick, passes, faults>>
  BY DEF Create
<1>4. PICK wanted :
        live' = [k \in Keys |-> IF k \in wanted /\ live[k] = Null THEN 0 ELSE live[k]]
  BY DEF Create
<1>5. Sound(u) /\ a \in ProcType
  BY <1>1, Own
<1>6. next \in ProcType
  BY <1>5 DEF ProcType, Phases
<1>7. /\ next.pc = "find" /\ next.hour = a.hour /\ next.moving = a.moving /\ next.rows = a.rows
  BY <1>5 DEF ProcType
<1>8. proc'[u] = next
  BY <1>1, <1>3, <1>6, Parts, WriteStep
<1> HIDE DEF next
<1>9. Tables'
  BY <1>2, <1>3, <1>4 DEF Tables, Count
<1>10. Bounded(live)' /\ Bounded(log)'
  <2>1. \A h \in Hours : Shown'[h] = Shown[h] /\ Shown[h] \in Nat
    BY <1>2, <1>3, ShownType DEF Shown
  <2>2. \A k \in Keys : live'[k] = live[k] \/ live'[k] = 0
    BY <1>4
  <2> QED
    BY <1>2, <1>3, <2>1, <2>2, KeysAre DEF Bounded
<1>11. Sound(u)'
  <2>1. PhaseSound(u)'
    BY <1>1, <1>3, <1>5, <1>7, <1>8 DEF Sound, PhaseSound
  <2>2. ReadSound(u)'
    BY <1>3, <1>5, <1>7, <1>8 DEF Sound, ReadSound, Bounded, Shown
  <2>3. MoveSound(u)'
    BY <1>1, <1>7, <1>8 DEF MoveSound
  <2> QED
    BY <1>1, <2>1, <2>2, <2>3 DEF Sound
<1>12. next.pc \in {"replace", "put"} => next.value \in Nat
  BY <1>7
<1> QED
  BY <1>1, <1>2, <1>3, <1>6, <1>9, <1>10, <1>11, <1>12, TableStep

LEMMA StepFindArchived == ASSUME Inductive, NEW u \in Updaters, FindArchived(u) PROVE Inductive'
<1> DEFINE a == proc[u]
           found == IF log[HourKey("STATION", a.hour)] # Null THEN {HourKey("STATION", a.hour)} ELSE {}
           next == [proc[u] EXCEPT !.pc = "match", !.raced = FALSE, !.moving = found]
<1>1. u \in Procs /\ u # Archiver /\ u \notin Rebuilders
  BY Constants
<1>2. /\ proc \in [Procs -> ProcType] /\ passes \in 0..MaxPasses /\ faults \in 0..MaxFaults
  BY Parts DEF Others
<1>3. /\ a.pc = "find" /\ proc' = [proc EXCEPT ![u] = next]
      /\ UNCHANGED <<now, produced, empty, live, log, tick, passes, faults>>
  BY DEF FindArchived, HourKey
<1>4. Sound(u) /\ a \in ProcType /\ a.hour \in Hours
  BY <1>1, <1>3, Own DEF Sound, PhaseSound
<1>5. found \subseteq Keys /\ \A k \in found : log[k] # Null
  BY <1>4, KeysAre DEF Entities
<1> HIDE DEF found
<1>6. next \in ProcType /\ proc'[u] = next
  BY <1>1, <1>2, <1>3, <1>4, <1>5 DEF ProcType, Phases
<1>7. /\ next.pc = "match" /\ next.hour = a.hour /\ next.moving = found /\ next.rows = a.rows
  BY <1>4 DEF ProcType
<1>8. proc' = [proc EXCEPT ![u] = next]
  BY <1>3
<1> HIDE DEF next
<1>9. Sound(u)'
  <2>1. PhaseSound(u)'
    BY <1>4, <1>6, <1>7 DEF PhaseSound
  <2>2. ReadSound(u)'
    BY <1>3, <1>4, <1>6, <1>7 DEF Sound, ReadSound, Bounded, Shown
  <2>3. MoveSound(u)'
    BY <1>1, <1>3, <1>5, <1>6, <1>7 DEF MoveSound
  <2> QED
    BY <1>1, <2>1, <2>2, <2>3 DEF Sound
<1>10. next.pc \in {"replace", "put"} => next.value \in Nat
  BY <1>7
<1> QED
  BY <1>1, <1>2, <1>3, <1>6, <1>8, <1>9, <1>10, ReadStep

\* What an update goes on to after it has looked at both tables.
LEMMA NowRolling ==
  ASSUME Inductive, NEW u \in Updaters, proc[u].pc \in {"match", "drop"}
  PROVE  LET next == [proc[u] EXCEPT !.pc = "roll", !.moving = {}, !.todo = Targets(proc[u].hour)]
         IN  /\ next \in ProcType /\ next.pc = "roll" /\ next.moving = {}
             /\ next.hour = proc[u].hour /\ next.rows = proc[u].rows
<1>1. u \in Procs /\ u # Archiver
  BY Constants
<1>2. proc[u] \in ProcType /\ proc[u].hour \in Hours
  BY <1>1, Own DEF Sound, PhaseSound
<1>3. Targets(proc[u].hour) \in Todos
  BY <1>2 DEF Todos
<1> QED
  BY <1>2, <1>3 DEF ProcType, Phases

LEMMA StepFindLive == ASSUME Inductive, NEW u \in Updaters, FindLive(u) PROVE Inductive'
<1> DEFINE a == proc[u]
           k == HourKey("STATION", a.hour)
           roll == [proc[u] EXCEPT !.pc = "roll", !.moving = {}, !.todo = Targets(proc[u].hour)]
           drop == [proc[u] EXCEPT !.pc = "drop"]
<1>1. u \in Procs /\ u # Archiver /\ u \notin Rebuilders
  BY Constants
<1>2. /\ proc \in [Procs -> ProcType] /\ passes \in 0..MaxPasses /\ faults \in 0..MaxFaults
  BY Parts DEF Others
<1>3. PICK next \in {Idle, roll, drop} :
        /\ proc' = [proc EXCEPT ![u] = next]
        /\ next = Idle \/ next = roll \/ (next = drop /\ k \in a.moving)
  <2>1. PICK next \in IF k \in a.moving /\ live[k] # Null THEN {Idle, drop}
                     ELSE IF k \in a.moving \/ live[k] # Null THEN {Idle, roll} ELSE {Idle} :
          proc' = [proc EXCEPT ![u] = next]
    BY DEF FindLive, HourKey
  <2> HIDE DEF roll, drop
  <2> QED
    BY <2>1
<1>4. /\ a.pc = "match"
      /\ UNCHANGED <<now, produced, empty, live, log, tick, passes, faults>>
  BY DEF FindLive
<1>5. Sound(u) /\ a \in ProcType /\ a.hour \in Hours
  BY <1>1, <1>4, Own DEF Sound, PhaseSound
<1>6. /\ roll \in ProcType /\ roll.pc = "roll" /\ roll.moving = {}
      /\ roll.hour = a.hour /\ roll.rows = a.rows
  BY <1>4, NowRolling
<1>7. /\ drop \in ProcType /\ drop.pc = "drop" /\ drop.moving = a.moving
      /\ drop.hour = a.hour /\ drop.rows = a.rows /\ drop.raced = a.raced
  BY <1>5 DEF ProcType, Phases
<1>71. Idle.pc = "idle"
  BY DEF Idle
<1> HIDE DEF roll, drop
<1>8. next \in ProcType /\ proc'[u] = next /\ next.pc \notin {"replace", "put"}
  BY <1>1, <1>2, <1>3, <1>6, <1>7, <1>71, IdleType
<1>9. Sound(u)'
  <2>1. CASE next = Idle
    BY <1>1, <1>8, <2>1, NowIdle
  <2>2. CASE next = roll
    <3>1. PhaseSound(u)'
      BY <1>5, <1>6, <1>8, <2>2 DEF PhaseSound
    <3>2. ReadSound(u)'
      BY <1>4, <1>5, <1>6, <1>8, <2>2 DEF Sound, ReadSound, Bounded, Shown
    <3>3. MoveSound(u)'
      BY <1>1, <1>6, <1>8, <2>2 DEF MoveSound
    <3> QED
      BY <1>1, <3>1, <3>2, <3>3 DEF Sound
  <2>3. CASE next = drop /\ k \in a.moving
    <3>1. PhaseSound(u)'
      BY <1>5, <1>7, <1>8, <2>3 DEF PhaseSound
    <3>2. ReadSound(u)'
      BY <1>4, <1>5, <1>7, <1>8, <2>3 DEF Sound, ReadSound, Bounded, Shown
    <3>3. MoveSound(u)'
      BY <1>1, <1>3, <1>4, <1>5, <1>7, <1>8, <2>3 DEF Sound, MoveSound
    <3> QED
      BY <1>1, <3>1, <3>2, <3>3 DEF Sound
  <2> QED
    BY <1>3, <2>1, <2>2, <2>3
<1> QED
  BY <1>1, <1>2, <1>3, <1>4, <1>8, <1>9, ReadStep

LEMMA StepDropPhantom == ASSUME Inductive, NEW u \in Updaters, DropPhantom(u) PROVE Inductive'
<1> DEFINE a == proc[u]
           k == HourKey("STATION", a.hour)
           next == [proc[u] EXCEPT !.pc = "roll", !.moving = {}, !.todo = Targets(proc[u].hour)]
<1>1. u \in Procs /\ u # Archiver /\ u \notin Rebuilders
  BY Constants
<1>2. Tables /\ Bounded(live) /\ Bounded(log) /\ passes \in 0..MaxPasses
  BY Parts DEF Others
<1>3. /\ a.pc = "drop" /\ Step(u, next) /\ live' = [live EXCEPT ![k] = Null]
      /\ UNCHANGED <<now, produced, empty, log, tick, passes, faults>>
  BY DEF DropPhantom, HourKey
<1>4. Sound(u) /\ a.hour \in Hours /\ k \in Keys
  BY <1>1, <1>3, Own, KeysAre DEF Sound, PhaseSound, Entities
<1>5. /\ next \in ProcType /\ next.pc = "roll" /\ next.moving = {}
      /\ next.hour = a.hour /\ next.rows = a.rows
  BY <1>3, NowRolling
<1>6. proc'[u] = next
  BY <1>1, <1>3, <1>5, Parts, WriteStep
<1> HIDE DEF next
<1>7. Tables'
  BY <1>2, <1>3, <1>4 DEF Tables, Count
<1>8. Bounded(live)' /\ Bounded(log)'
  <2>1. \A j \in Keys : live'[j] = live[j] \/ live'[j] = Null
    BY <1>2, <1>3, <1>4 DEF Tables
  <2> QED
    BY <1>2, <1>3, <2>1, KeysAre DEF Bounded, Shown
<1>9. Sound(u)'
  <2>1. PhaseSound(u)'
    BY <1>4, <1>5, <1>6 DEF PhaseSound
  <2>2. ReadSound(u)'
    BY <1>3, <1>4, <1>5, <1>6 DEF Sound, ReadSound, Bounded, Shown
  <2>3. MoveSound(u)'
    BY <1>1, <1>5, <1>6 DEF MoveSound
  <2> QED
    BY <1>1, <2>1, <2>2, <2>3 DEF Sound
<1>10. next.pc \in {"replace", "put"} => next.value \in Nat
  BY <1>5
<1> QED
  BY <1>1, <1>2, <1>3, <1>5, <1>7, <1>8, <1>9, <1>10, TableStep

-----------------------------------------------------------------------------
(* The archive pass *)

LEMMA StepBeginArchive == Inductive /\ BeginArchive => Inductive'
<1> SUFFICES ASSUME Inductive, BeginArchive PROVE Inductive'
  OBVIOUS
<1>1. Tables /\ Bounded(live) /\ Bounded(log) /\ passes \in 0..MaxPasses
  BY Parts DEF Others
<1>2. PICK todo \in Todos :
        Step(Archiver, [Idle EXCEPT !.pc = "roll", !.moving = Old, !.todo = todo])
  <2> DEFINE hours == {h \in Hours : <<"STATION", "HOUR", h>> \in Old}
  <2>1. PICK todo \in IF hours = {} THEN {<<>>} ELSE {Targets(h) : h \in hours} :
          Step(Archiver, [Idle EXCEPT !.pc = "roll", !.moving = Old, !.todo = todo])
    BY DEF BeginArchive
  <2>2. todo \in Todos
    BY <2>1 DEF Todos
  <2> QED
    BY <2>1, <2>2
<1> DEFINE next == [Idle EXCEPT !.pc = "roll", !.moving = Old, !.todo = todo]
<1>3. Old \subseteq Keys /\ \A k \in Old : live[k] # Null
  BY DEF Old, Present
<1>4. UNCHANGED <<now, produced, empty, live, log, tick, faults>> /\ passes' \in 0..MaxPasses
  BY <1>1, BucketAssumption DEF BeginArchive
<1> HIDE DEF Old
<1>5. next \in ProcType
  BY <1>3, IdleType DEF ProcType, Phases
<1>6. next.pc = "roll" /\ next.moving = Old /\ next.rows = NoRows
  BY DEF Idle
<1>7. proc'[Archiver] = next
  BY <1>2, <1>5, Parts, WriteStep, Constants
<1>8. Step(Archiver, next)
  BY <1>2
<1> HIDE DEF next
<1>9. Tables' /\ Bounded(live)' /\ Bounded(log)'
  BY <1>1, <1>4 DEF Tables, Bounded, Shown
<1>10. Sound(Archiver)'
  <2>1. PhaseSound(Archiver)'
    BY <1>6, <1>7, Constants DEF PhaseSound
  <2>2. ReadSound(Archiver)'
    BY <1>6, <1>7, KeysAre DEF ReadSound, Bounded, NoRows
  <2>3. MoveSound(Archiver)'
    BY <1>3, <1>4, <1>6, <1>7 DEF MoveSound
  <2> QED
    BY <2>1, <2>2, <2>3, Constants DEF Sound
<1>11. next.pc \in {"replace", "put"} => next.value \in Nat
  BY <1>6
<1> QED
  BY <1>4, <1>5, <1>8, <1>9, <1>10, <1>11, Constants, TableStep

LEMMA StepReread == Inductive /\ Reread => Inductive'
<1> SUFFICES ASSUME Inductive, Reread PROVE Inductive'
  OBVIOUS
<1> DEFINE a == proc[Archiver]
           next == [proc[Archiver] EXCEPT !.pc = "insert",
                      !.rows = [k \in Keys |-> IF k \in a.moving THEN live[k] ELSE Null]]
<1>1. /\ Tables /\ Bounded(live) /\ proc \in [Procs -> ProcType]
      /\ passes \in 0..MaxPasses /\ faults \in 0..MaxFaults
  BY Parts DEF Others
<1>2. /\ proc' = [proc EXCEPT ![Archiver] = next]
      /\ UNCHANGED <<now, produced, empty, live, log, tick, passes, faults>>
  BY DEF Reread
<1>3. Sound(Archiver) /\ a \in ProcType /\ a.moving \subseteq Keys
  BY Own, Constants
<1>4. [k \in Keys |-> IF k \in a.moving THEN live[k] ELSE Null] \in [Keys -> Count]
  BY <1>1 DEF Tables, Count
<1>5. next \in ProcType /\ proc'[Archiver] = next
  BY <1>1, <1>2, <1>3, <1>4, Constants DEF ProcType, Phases
<1>6. /\ next.pc = "insert" /\ next.moving = a.moving
      /\ next.rows = [k \in Keys |-> IF k \in a.moving THEN live[k] ELSE Null]
  BY <1>3 DEF ProcType
<1> HIDE DEF next
<1>7. Sound(Archiver)'
  <2>1. PhaseSound(Archiver)'
    BY <1>5, <1>6, Constants DEF PhaseSound
  <2>2. ReadSound(Archiver)'
    <3>1. \A e \in Entities, h \in Hours : HourKey(e, h) \in Keys
      BY KeysAre
    <3>2. \A k \in Keys : next.rows[k] = live[k] \/ next.rows[k] = Null
      BY <1>6
    <3> QED
      BY <1>1, <1>2, <1>5, <1>6, <3>1, <3>2 DEF ReadSound, Bounded, Shown
  <2>3. MoveSound(Archiver)'
    <3>1. next.raced = a.raced /\ a.pc = "roll"
      BY <1>3 DEF ProcType, Reread, next
    <3>2. ~a.raced => \A k \in a.moving : live[k] # Null /\ next.rows[k] = live[k]
      BY <1>3, <1>6, <3>1 DEF Sound, MoveSound
    <3> QED
      BY <1>2, <1>5, <1>6, <3>1, <3>2 DEF MoveSound
  <2> QED
    BY <2>1, <2>2, <2>3, Constants DEF Sound
<1>8. next.pc \in {"replace", "put"} => next.value \in Nat
  BY <1>6
<1>9. proc' = [proc EXCEPT ![Archiver] = next]
  BY <1>2 DEF next
<1> QED
  BY <1>1, <1>2, <1>5, <1>7, <1>8, <1>9, Constants, ReadStep

LEMMA StepInsert == Inductive /\ Insert => Inductive'
<1> SUFFICES ASSUME Inductive, Insert PROVE Inductive'
  OBVIOUS
<1> DEFINE a == proc[Archiver]
           next == [proc[Archiver] EXCEPT !.pc = "delete", !.rows = NoRows]
<1>1. Tables /\ Bounded(live) /\ Bounded(log) /\ passes \in 0..MaxPasses
  BY Parts DEF Others
<1>2. /\ a.pc = "insert" /\ Step(Archiver, next)
      /\ log' = [k \in Keys |-> IF log[k] = Null THEN a.rows[k] ELSE log[k]]
      /\ UNCHANGED <<now, produced, empty, live, tick, passes, faults>>
  BY DEF Insert
<1>3. /\ Sound(Archiver) /\ a \in ProcType /\ a.moving \subseteq Keys
      /\ a.rows \in [Keys -> Count]
  BY Own, Constants
<1>4. next \in ProcType
  BY <1>3 DEF ProcType, Phases, NoRows, Count
<1>5. next.pc = "delete" /\ next.moving = a.moving /\ next.rows = NoRows /\ next.raced = a.raced
  BY <1>3 DEF ProcType
<1>6. proc'[Archiver] = next
  BY <1>2, <1>4, Parts, WriteStep, Constants
<1> HIDE DEF next
<1>7. Tables'
  BY <1>1, <1>2, <1>3 DEF Tables
<1>8. Bounded(live)' /\ Bounded(log)'
  <2>1. Bounded(a.rows)
    BY <1>3 DEF Sound, ReadSound
  <2>2. \A k \in Keys : log'[k] = log[k] \/ log'[k] = a.rows[k]
    BY <1>2
  <2> HIDE DEF a
  <2> QED
    BY <1>1, <1>2, <2>1, <2>2, KeysAre DEF Bounded, Shown
<1>9. Sound(Archiver)'
  <2>1. PhaseSound(Archiver)'
    BY <1>5, <1>6, Constants DEF PhaseSound
  <2>2. ReadSound(Archiver)'
    BY <1>5, <1>6, KeysAre DEF ReadSound, Bounded, NoRows
  <2>3. MoveSound(Archiver)'
    <3>1. ~a.raced => \A k \in a.moving : live[k] # Null /\ log'[k] # Null
      BY <1>2, <1>3 DEF Sound, MoveSound
    <3> QED
      BY <1>2, <1>5, <1>6, <3>1 DEF MoveSound
  <2> QED
    BY <2>1, <2>2, <2>3, Constants DEF Sound
<1>10. next.pc \in {"replace", "put"} => next.value \in Nat
  BY <1>5
<1>11. Archiver \in Procs
  BY Constants
<1> QED
  BY <1>1, <1>2, <1>4, <1>7, <1>8, <1>9, <1>10, <1>11, TableStep

LEMMA StepDelete == Inductive /\ Delete => Inductive'
<1> SUFFICES ASSUME Inductive, Delete PROVE Inductive'
  OBVIOUS
<1>1. Tables /\ Bounded(live) /\ Bounded(log) /\ passes \in 0..MaxPasses
  BY Parts DEF Others
<1>2. /\ Step(Archiver, Idle)
      /\ live' = [k \in Keys |-> IF k \in Deleted THEN Null ELSE live[k]]
      /\ UNCHANGED <<now, produced, empty, log, tick, passes, faults>>
  BY DEF Delete
<1>3. Archiver \in Procs /\ proc'[Archiver] = Idle
  BY <1>2, IdleType, Parts, WriteStep, Constants
<1>4. Tables'
  BY <1>1, <1>2 DEF Tables, Count
<1>5. Bounded(live)' /\ Bounded(log)'
  BY <1>1, <1>2, KeysAre DEF Bounded, Shown
<1>6. Idle.pc = "idle"
  BY DEF Idle
<1> QED
  BY <1>1, <1>2, <1>3, <1>4, <1>5, <1>6, IdleType, NowIdle, TableStep

-----------------------------------------------------------------------------
(* The theorems *)

LEMMA StepInductive == Inductive /\ [Next]_vars => Inductive'
<1> SUFFICES ASSUME Inductive, [Next]_vars PROVE Inductive'
  OBVIOUS
<1>1. CASE Complete \/ Replay \/ NextHour \/ Ensure
  BY <1>1, StepComplete, StepReplay, StepNextHour, StepEnsure
<1>2. CASE Tick
  BY <1>2, StepNextHour, StepCascadeShift, StepCascadeParents DEF Tick
<1>3. ASSUME NEW r \in Rebuilders, Rebuild(r) PROVE Inductive'
  <2>1. r \in Procs
    BY Constants
  <2> QED
    BY <1>3, <2>1, StepBeginRebuild, StepReadLog, StepRestore, StepForget, StepCompute,
       StepReplace, StepIdle DEF Rebuild
<1>31. ASSUME NEW u \in Updaters, Update(u) PROVE Inductive'
  <2>1. u \in Procs
    BY Constants
  <2> QED
    BY <1>31, <2>1, StepBeginUpdate, StepCreate, StepFindArchived, StepFindLive, StepDropPhantom,
       StepIdle DEF Update
<1>4. CASE Archive
  BY <1>4, StepBeginArchive, StepReread, StepInsert, StepDelete DEF Archive
<1>5. ASSUME NEW p \in Procs, Look(p) \/ Put(p) \/ Fail(p) PROVE Inductive'
  BY <1>5, StepLook, StepPut, StepIdle
<1>6. CASE UNCHANGED vars
  <2>1. Others /\ UNCHANGED <<produced, empty, live, log, proc, now, tick, passes, faults>>
    BY <1>6, Parts DEF vars
  <2>2. Others'
    BY <2>1 DEF Others
  <2> QED
    BY <2>1, <2>2, StepClock
<1> QED
  BY <1>1, <1>2, <1>3, <1>31, <1>4, <1>5, <1>6 DEF Next

\* The tables, what each rebuild, update and pass has read of them, and how far it
\* has come, stay consistent whatever is interleaved with it.
THEOREM InductiveInvariant == Spec => []Inductive
<1>1. Init => Inductive
  BY InitInductive
<1>2. Inductive /\ [Next]_vars => Inductive'
  BY StepInductive
<1> QED
  BY <1>1, <1>2, PTL DEF Spec

\* Counts, rebuilds, the archive pass and the tick stay in their types.
THEOREM TypeCorrect == Spec => []TypeOK
<1>1. Inductive => TypeOK
  BY DEF Inductive
<1> QED
  BY <1>1, InductiveInvariant, PTL

\* No hour, of the station or of its site, live or archived, ever shows more than
\* its Cycle rows and the completions that ended none: no cycle of another hour,
\* and none twice.
THEOREM NothingCountedTwice == Spec => []NeverOvercounted
<1>1. Inductive => NeverOvercounted
  BY DEF Inductive, NeverOvercounted, Bounded, Shown, HourKey, Entities
<1> QED
  BY <1>1, InductiveInvariant, PTL

\* Every step but the three deletes keeps every row there is.
LEMMA RowsStay ==
  ASSUME Inductive, [Next]_vars, ~Delete, \A r \in Rebuilders : ~Forget(r),
         \A u \in Updaters : ~DropPhantom(u), NEW k \in Keys
  PROVE  (live[k] # Null => live'[k] # Null) /\ (log[k] # Null => log'[k] # Null)
<1>1. Tables /\ Others /\ Bounded(live) /\ Bounded(log)
  BY Parts
<1>2. CASE UNCHANGED <<live, log>>
  BY <1>2
<1>3. CASE Complete
  BY <1>1, <1>3, Constants DEF Complete, Tables, Count
<1>4. CASE Ensure
  BY <1>4, Constants DEF Ensure
<1>5. CASE CascadeShift
  <2>1. SumOf(live, HourKeys(ShiftOf(tick.at))) \in Nat
    BY <1>1, HourKeysFinite, SumOfType DEF Tables
  <2> QED
    BY <1>1, <1>5, <2>1, Constants DEF CascadeShift, Tables
<1>6. CASE CascadeParents
  BY <1>6 DEF CascadeParents
<1>7. ASSUME NEW p \in Procs, Put(p)
      PROVE  (live[k] # Null => live'[k] # Null) /\ (log[k] # Null => log'[k] # Null)
  <2>1. proc[p].value # Null
    BY <1>7, Parts, Constants DEF Put
  <2> DEFINE j == Head(proc[p].todo)
             v == proc[p].value
  <2>2. /\ live' = live \/ live' = [live EXCEPT ![j] = v]
        /\ log' = log \/ log' = [log EXCEPT ![j] = IF @ = Null THEN Null ELSE v]
    BY <1>7 DEF Put
  <2> HIDE DEF j, v
  <2> QED
    BY <1>1, <2>1, <2>2 DEF Tables, v
<1>8. ASSUME NEW r \in Rebuilders, Restore(r)
      PROVE  (live[k] # Null => live'[k] # Null) /\ (log[k] # Null => log'[k] # Null)
  BY <1>8 DEF Restore
<1>9. ASSUME NEW r \in Rebuilders, Replace(r)
      PROVE  (live[k] # Null => live'[k] # Null) /\ (log[k] # Null => log'[k] # Null)
  <2>1. proc[r].value # Null
    BY <1>9, Parts, Constants DEF Replace
  <2> QED
    BY <1>1, <1>9, <2>1 DEF Replace, Tables
<1>10. CASE Insert
  BY <1>10 DEF Insert
<1>11. CASE UNCHANGED vars \/ Replay \/ NextHour \/ StartTick \/ BeginArchive \/ Reread
  BY <1>2, <1>11 DEF vars, Replay, NextHour, StartTick, BeginArchive, Reread
<1>12. ASSUME NEW p \in Procs,
              \/ BeginRebuild(p) \/ ReadLog(p) \/ Compute(p) \/ EndRebuild(p)
              \/ BeginUpdate(p) \/ FindArchived(p) \/ FindLive(p) \/ EndUpdate(p)
              \/ Look(p) \/ Fail(p)
       PROVE  UNCHANGED <<live, log>>
  BY <1>12 DEF BeginRebuild, ReadLog, Compute, EndRebuild, BeginUpdate, FindArchived, FindLive,
       EndUpdate, Look, Fail
<1>13. ASSUME NEW r \in Rebuilders, Rebuild(r)
       PROVE  (live[k] # Null => live'[k] # Null) /\ (log[k] # Null => log'[k] # Null)
  <2>1. r \in Procs
    BY Constants
  <2> QED
    BY <1>2, <1>8, <1>9, <1>12, <1>13, <2>1 DEF Rebuild
<1>14. ASSUME NEW u \in Updaters, Update(u)
       PROVE  (live[k] # Null => live'[k] # Null) /\ (log[k] # Null => log'[k] # Null)
  <2>1. u \in Procs
    BY Constants
  <2>2. CASE Create(u)
    BY <2>2, Constants DEF Create
  <2> QED
    BY <1>2, <1>12, <1>14, <2>1, <2>2 DEF Update
<1> QED
  BY <1>2, <1>3, <1>4, <1>5, <1>6, <1>7, <1>10, <1>11, <1>12, <1>13, <1>14
  DEF Next, Tick, Archive

\* A bucket goes when a replay forgets its archived copy, or the archive or an
\* update deletes the live one, and then somebody else wrote since.
LEMMA LossStep ==
  ASSUME Inductive, [Next]_vars, NEW k \in Keys, Either(k) # Null, Either(k)' = Null
  PROVE  \E p \in Procs : k \in proc[p].moving /\ proc[p].raced
<1>1. (live[k] # Null \/ log[k] # Null) /\ live'[k] = Null /\ log'[k] = Null
  BY DEF Either
<1>2. ASSUME NEW r \in Rebuilders, Forget(r)
      PROVE  r \in Procs /\ k \in proc[r].moving /\ proc[r].raced
  <2>1. r \in Procs /\ Sound(r)
    BY Constants, Own
  <2>2. live[k] = Null /\ log[k] # Null /\ k \in proc[r].moving /\ proc[r].pc = "forget"
    BY <1>1, <1>2 DEF Forget
  <2> QED
    BY <2>1, <2>2 DEF Sound, MoveSound
<1>3. ASSUME Delete
      PROVE  Archiver \in Procs /\ k \in proc[Archiver].moving /\ proc[Archiver].raced
  <2>1. Archiver \in Procs /\ Sound(Archiver)
    BY Constants, Own
  <2>2. log[k] = Null /\ k \in proc[Archiver].moving /\ proc[Archiver].pc = "delete"
    BY <1>1, <1>3 DEF Delete, Deleted
  <2> QED
    BY <2>1, <2>2 DEF Sound, MoveSound
<1>4. ASSUME NEW u \in Updaters, DropPhantom(u)
      PROVE  u \in Procs /\ k \in proc[u].moving /\ proc[u].raced
  <2>1. u \in Procs /\ Sound(u) /\ Tables
    BY Constants, Own, Parts
  <2>2. log[k] = Null /\ live[k] # Null /\ proc[u].pc = "drop"
    BY <1>1, <1>4 DEF DropPhantom
  <2>3. k = HourKey("STATION", proc[u].hour)
    BY <1>1, <1>4, <2>1, <2>2 DEF DropPhantom, HourKey, Tables
  <2> QED
    BY <2>1, <2>2, <2>3 DEF Sound, MoveSound
<1> QED
  BY <1>1, <1>2, <1>3, <1>4, RowsStay

\* A bucket stays in one table or the other through crashes, ticks and rebuilds;
\* only a move between the tables, or the deletion of a row found in both, that
\* another process wrote across can lose one.
THEOREM LossesAreCrossings == Spec => OnlyCrossingsLoseBuckets
<1> DEFINE Lost(k) == Either(k) # Null /\ Either(k)' = Null
           Kept == \A k \in Keys : Lost(k) => \E p \in Procs : k \in proc[p].moving /\ proc[p].raced
<1>1. Inductive /\ [Next]_vars => [Kept]_vars
  BY LossStep
<1> QED
  BY <1>1, InductiveInvariant, PTL DEF Spec, OnlyCrossingsLoseBuckets

\* A rebuild that nobody crossed and whose range is not empty leaves its hour,
\* archived before or not, among the live rows with exactly the Cycle rows that
\* ended in it.
THEOREM QuietRebuilds == Spec => QuietRebuildsAreExact
<1> DEFINE Exact(r) == LET k == <<"STATION", "HOUR", proc[r].hour>>
                       IN  EndRebuild(r) /\ proc[r].covers /\ proc[r].had /\ ~proc[r].raced
                             => live[k] = produced[proc[r].hour]
<1>1. ASSUME Inductive, NEW r \in Rebuilders PROVE Exact(r)
  <2>1. Sound(r)
    BY <1>1, Constants, Own
  <2> QED
    BY <2>1 DEF Sound, HourSound, HourKey, EndRebuild
<1>2. Inductive => [\A r \in Rebuilders : Exact(r)]_vars
  BY <1>1
<1> QED
  BY <1>2, InductiveInvariant, PTL DEF Spec, QuietRebuildsAreExact

-----------------------------------------------------------------------------
(* The hours of a shift, or of a day without shifts *)


\* A tick of the grid that is not after t, and by less than an hour.
LEMMA GridLineBelow ==
  ASSUME NEW anchor \in Int, NEW t \in Int
  PROVE  /\ GridLine(anchor, t) \in Int
         /\ GridLine(anchor, t) <= t /\ t < GridLine(anchor, t) + MsPerHour
BY SMT DEF GridLine, MsPerHour

LEMMA FirstLineAbove ==
  ASSUME NEW anchor \in Int, NEW start \in Int
  PROVE  /\ FirstLine(anchor, start) \in Int
         /\ start <= FirstLine(anchor, start) /\ FirstLine(anchor, start) < start + MsPerHour
<1> DEFINE line == GridLine(anchor, start)
<1>1. line \in Int /\ line <= start /\ start < line + MsPerHour
  BY GridLineBelow, SMT
<1> HIDE DEF line
<1>2. FirstLine(anchor, start) = IF line < start THEN line + MsPerHour ELSE line
  BY SMT DEF FirstLine, line
<1> QED
  BY <1>1, <1>2, SMT DEF MsPerHour

\* Between the first tick and the end fit that many hours, and no more.
LEMMA FullHoursFit ==
  ASSUME NEW first \in Int, NEW end \in Int, first <= end
  PROVE  /\ FullHours(first, end) \in Nat
         /\ first + FullHours(first, end) * MsPerHour <= end
         /\ end < first + FullHours(first, end) * MsPerHour + MsPerHour
BY SMT DEF FullHours, MsPerHour

\* What the hours of a shift are.
LEMMA HourBucketsCases ==
  ASSUME NEW start \in Int, NEW end \in Int, NEW anchor \in Int, NEW b
  PROVE  LET first == FirstLine(anchor, start)
             full == FullHours(first, end)
             last == first + full * MsPerHour
         IN  b \in HourBuckets(start, end, anchor) <=>
               \/ first > end /\ b = Bucket(start, end)
               \/ first <= end /\ start < first /\ b = Bucket(start, first)
               \/ first <= end /\ last < end /\ b = Bucket(last, end)
               \/ first <= end /\ \E k \in 0 .. (full - 1) :
                    b = Bucket(first + k * MsPerHour, first + (k + 1) * MsPerHour)
<1> DEFINE first == FirstLine(anchor, start)
           full == FullHours(first, end)
           last == first + full * MsPerHour
<1>1. first \in Int
  BY FirstLineAbove, SMT
<1> HIDE DEF first, full, last
<1>2. /\ Bucket(start, first).start = start /\ Bucket(start, first).end = first
      /\ Bucket(last, end).start = last /\ Bucket(last, end).end = end
  BY SMT DEF Bucket
<1>3. HourBuckets(start, end, anchor) =
        IF first > end THEN {Bucket(start, end)}
        ELSE {c \in {Bucket(start, first), Bucket(last, end)} : c.start < c.end} \cup
             {Bucket(first + k * MsPerHour, first + (k + 1) * MsPerHour) : k \in 0 .. (full - 1)}
  BY SMT DEF HourBuckets, first, full, last
<1>4. ~(first > end) <=> first <= end
  BY <1>1, SMT
<1>5. CASE first > end
  BY <1>3, <1>4, <1>5, SMT DEF first, full, last
<1>6. CASE first <= end
  <2>1. b \in HourBuckets(start, end, anchor) <=>
          \/ b \in {c \in {Bucket(start, first), Bucket(last, end)} : c.start < c.end}
          \/ \E k \in 0 .. (full - 1) : b = Bucket(first + k * MsPerHour, first + (k + 1) * MsPerHour)
    BY <1>3, <1>4, <1>6, SMT
  <2>2. b \in {c \in {Bucket(start, first), Bucket(last, end)} : c.start < c.end} <=>
          \/ start < first /\ b = Bucket(start, first)
          \/ last < end /\ b = Bucket(last, end)
    BY <1>2, SMT
  <2> QED
    BY <2>1, <2>2, <1>4, <1>6, SMT DEF first, full, last
<1> QED
  BY <1>4, <1>5, <1>6, SMT

\* Each hour lies in the shift, is not empty and not longer than an hour.
THEOREM HoursLieInShift ==
  ASSUME NEW start \in Int, NEW end \in Int, NEW anchor \in Int, start < end,
         NEW b \in HourBuckets(start, end, anchor)
  PROVE  /\ b.start \in Int /\ b.end \in Int
         /\ start <= b.start /\ b.start < b.end /\ b.end <= end /\ b.end <= b.start + MsPerHour
<1> DEFINE first == FirstLine(anchor, start)
           full == FullHours(first, end)
           last == first + full * MsPerHour
<1>1. first \in Int /\ start <= first /\ first < start + MsPerHour
  BY FirstLineAbove, SMT
<1>2. first <= end => full \in Nat /\ last <= end /\ end < last + MsPerHour
  BY <1>1, FullHoursFit, SMT
<1>3. \/ first > end /\ b = Bucket(start, end)
      \/ first <= end /\ start < first /\ b = Bucket(start, first)
      \/ first <= end /\ last < end /\ b = Bucket(last, end)
      \/ first <= end /\ \E k \in 0 .. (full - 1) :
           b = Bucket(first + k * MsPerHour, first + (k + 1) * MsPerHour)
  BY HourBucketsCases, SMT
<1> HIDE DEF first, full
<1>4. CASE first > end /\ b = Bucket(start, end)
  BY <1>1, <1>4, SMT DEF Bucket, MsPerHour
<1>5. CASE first <= end /\ start < first /\ b = Bucket(start, first)
  BY <1>1, <1>5, SMT DEF Bucket, MsPerHour
<1>6. CASE first <= end /\ last < end /\ b = Bucket(last, end)
  BY <1>1, <1>2, <1>6, SMT DEF Bucket, MsPerHour
<1>7. CASE first <= end /\ \E k \in 0 .. (full - 1) :
             b = Bucket(first + k * MsPerHour, first + (k + 1) * MsPerHour)
  BY <1>1, <1>2, <1>7, SMT DEF Bucket, MsPerHour
<1> QED
  BY <1>3, <1>4, <1>5, <1>6, <1>7, SMT

\* findHourBucketInShift finds an hour for every timestamp of the shift: its
\* exception is never thrown, whatever the anchor.
THEOREM HoursCoverShift ==
  ASSUME NEW start \in Int, NEW end \in Int, NEW anchor \in Int, NEW t \in Int,
         start <= t, t < end
  PROVE  \E b \in HourBuckets(start, end, anchor) : Covers(b, t)
<1> DEFINE first == FirstLine(anchor, start)
           full == FullHours(first, end)
           last == first + full * MsPerHour
           k == (t - first) \div MsPerHour
<1>1. first \in Int /\ start <= first /\ first < start + MsPerHour
  BY FirstLineAbove, SMT
<1>2. first <= end => full \in Nat /\ last <= end /\ end < last + MsPerHour
  BY <1>1, FullHoursFit, SMT
<1>3. first <= t => /\ k \in Nat /\ first + k * MsPerHour <= t
                    /\ t < first + (k + 1) * MsPerHour
  BY <1>1, SMT DEF MsPerHour
<1> HIDE DEF first, full, k
<1>4. CASE first > end
  <2>1. Bucket(start, end) \in HourBuckets(start, end, anchor)
    BY <1>4, HourBucketsCases, SMT DEF first
  <2> QED
    BY <2>1, SMT DEF Covers, Bucket
<1>5. CASE first <= end /\ t < first
  <2>1. Bucket(start, first) \in HourBuckets(start, end, anchor)
    BY <1>1, <1>5, HourBucketsCases, SMT DEF first
  <2> QED
    BY <2>1, <1>1, <1>5, SMT DEF Covers, Bucket
<1>6. CASE first <= t /\ t < last
  <2>1. k \in 0 .. (full - 1)
    BY <1>1, <1>2, <1>3, <1>6, SMT DEF MsPerHour
  <2> DEFINE b == Bucket(first + k * MsPerHour, first + (k + 1) * MsPerHour)
  <2>2. b \in HourBuckets(start, end, anchor)
    BY <1>1, <1>6, <2>1, HourBucketsCases, SMT DEF first, full
  <2>3. Covers(b, t)
    BY <1>3, <1>6, SMT DEF Covers, Bucket
  <2> QED
    BY <2>2, <2>3, SMT
<1>7. CASE first <= t /\ last <= t
  <2>0. first <= end /\ last < end
    BY <1>1, <1>2, <1>7, SMT DEF MsPerHour
  <2>1. Bucket(last, end) \in HourBuckets(start, end, anchor)
    BY <1>1, <1>7, <2>0, HourBucketsCases, SMT DEF first, full
  <2> QED
    BY <2>1, <1>7, SMT DEF Covers, Bucket
<1> QED
  <2>1. last \in Int \/ first > end
    BY <1>1, <1>2, SMT DEF MsPerHour
  <2> QED
    BY <1>1, <1>4, <1>5, <1>6, <1>7, <2>1, SMT

\* No timestamp is counted in two hours of a shift.
THEOREM HoursAreDisjoint ==
  ASSUME NEW start \in Int, NEW end \in Int, NEW anchor \in Int, NEW t \in Int,
         NEW b \in HourBuckets(start, end, anchor), NEW c \in HourBuckets(start, end, anchor),
         start < end, Covers(b, t), Covers(c, t)
  PROVE  b = c
<1> DEFINE first == FirstLine(anchor, start)
           full == FullHours(first, end)
           last == first + full * MsPerHour
           Whole(d) == d = Bucket(start, end)
           Begin(d) == start < first /\ d = Bucket(start, first)
           Rest(d) == last < end /\ d = Bucket(last, end)
           Full(d, k) == d = Bucket(first + k * MsPerHour, first + (k + 1) * MsPerHour)
<1>first. first \in Int /\ start <= first
  BY FirstLineAbove, SMT
<1>full. first <= end => full \in Nat
  BY <1>first, FullHoursFit, SMT
<1>1. first \in Int /\ start <= first /\ (first <= end => full \in Nat)
  BY <1>first, <1>full, SMT
<1>2. ASSUME NEW d \in HourBuckets(start, end, anchor)
      PROVE  \/ first > end /\ Whole(d)
             \/ first <= end /\ (Begin(d) \/ Rest(d) \/ \E k \in 0 .. (full - 1) : Full(d, k))
  BY HourBucketsCases, SMT
<1> HIDE DEF first, full
<1>3. CASE first > end
  BY <1>1, <1>2, <1>3, SMT
<1>4. CASE first <= end
  <2>1. ASSUME NEW d \in HourBuckets(start, end, anchor), Covers(d, t)
        PROVE  \/ Begin(d) /\ t < first
               \/ Rest(d) /\ last <= t
               \/ \E k \in 0 .. (full - 1) :
                    Full(d, k) /\ first + k * MsPerHour <= t /\ t < first + (k + 1) * MsPerHour
    <3>1. Begin(d) => t < first
      BY <2>1, SMT DEF Bucket, Covers
    <3>2. Rest(d) => last <= t
      BY <2>1, SMT DEF Bucket, Covers
    <3>3. ASSUME NEW k \in 0 .. (full - 1), Full(d, k)
          PROVE  first + k * MsPerHour <= t /\ t < first + (k + 1) * MsPerHour
      BY <2>1, <3>3, SMT DEF Bucket, Covers
    <3> QED
      BY <1>1, <1>2, <1>4, <2>1, <3>1, <3>2, <3>3, SMT
  <2>2. CASE t < first
    <3>1. ASSUME NEW d \in HourBuckets(start, end, anchor), Covers(d, t)
          PROVE  Begin(d)
      BY <1>1, <1>4, <2>1, <2>2, <3>1, SMT DEF MsPerHour
    <3> QED
      BY <3>1, SMT
  <2>3. CASE first <= t /\ t < last
    <3>1. ASSUME NEW d \in HourBuckets(start, end, anchor), Covers(d, t)
          PROVE  d = Bucket(first + ((t - first) \div MsPerHour) * MsPerHour,
                            first + ((t - first) \div MsPerHour + 1) * MsPerHour)
      <4>1. PICK k \in 0 .. (full - 1) :
              Full(d, k) /\ first + k * MsPerHour <= t /\ t < first + (k + 1) * MsPerHour
        BY <1>1, <1>4, <2>1, <2>3, <3>1, SMT DEF MsPerHour
      <4>2. k = (t - first) \div MsPerHour
        BY <1>1, <1>4, <4>1, SMT DEF MsPerHour
      <4> QED
        BY <4>1, <4>2, SMT
    <3> QED
      BY <3>1, SMT
  <2>4. CASE last <= t
    <3>1. ASSUME NEW d \in HourBuckets(start, end, anchor), Covers(d, t)
          PROVE  Rest(d)
      BY <1>1, <1>4, <2>1, <2>4, <3>1, SMT DEF MsPerHour
    <3> QED
      BY <3>1, SMT
  <2>5. last \in Int
    BY <1>1, <1>4, SMT DEF MsPerHour
  <2> QED
    BY <1>1, <2>2, <2>3, <2>4, <2>5, SMT
<1> QED
  BY <1>1, <1>3, <1>4, SMT

-----------------------------------------------------------------------------
(* The hours of a site without a schedule *)

\* Midnight is not after t and not a day before.
LEMMA MidnightBefore ==
  ASSUME NEW t \in Int, NEW offset \in Int
  PROVE  /\ LocalMidnight(t, offset) \in Int
         /\ LocalMidnight(t, offset) <= t /\ t < LocalMidnight(t, offset) + MsPerDay
BY SMT DEF LocalMidnight, MsPerDay

\* The hour that a timestamp resolves to covers it, and is one of the day's 24:
\* the two ways to hours agree however long the day is.
THEOREM ClockHourOfDay ==
  ASSUME NEW t \in Int, NEW offset \in Int
  PROVE  Covers(ClockHour(t, offset), t) /\ ClockHour(t, offset) \in ClockHours(t, offset)
<1> DEFINE midnight == LocalMidnight(t, offset)
           hour == (t - midnight) \div MsPerHour
<1>1. midnight \in Int /\ midnight <= t /\ t < midnight + 24 * MsPerHour
  BY MidnightBefore, SMT DEF MsPerDay, MsPerHour
<1> HIDE DEF midnight
<1>2. /\ hour \in 0 .. 23
      /\ midnight + hour * MsPerHour <= t /\ t < midnight + (hour + 1) * MsPerHour
  BY <1>1, SMT DEF MsPerHour
<1> HIDE DEF hour
<1>3. ClockHour(t, offset) = Bucket(midnight + hour * MsPerHour, midnight + (hour + 1) * MsPerHour)
  BY SMT DEF ClockHour, midnight, hour
<1>4. ClockHours(t, offset) =
        {Bucket(midnight + k * MsPerHour, midnight + (k + 1) * MsPerHour) : k \in 0 .. 23}
  BY SMT DEF ClockHours, midnight
<1> QED
  BY <1>2, <1>3, <1>4, SMT DEF Covers, Bucket

\* Through a change of the zone's offset by whole hours two timestamps are
\* still put into the same hour or into hours that do not overlap.
THEOREM ClockHoursNeverOverlap ==
  ASSUME NEW s \in Int, NEW t \in Int, NEW offset \in Int, NEW shift \in Int, NEW x \in Int,
         Covers(ClockHour(s, offset), x), Covers(ClockHour(t, offset + shift * MsPerHour), x)
  PROVE  ClockHour(s, offset) = ClockHour(t, offset + shift * MsPerHour)
<1> DEFINE m == LocalMidnight(s, offset)
           n == LocalMidnight(t, offset + shift * MsPerHour)
           i == (s - m) \div MsPerHour
           j == (t - n) \div MsPerHour
           days == (s + offset) \div MsPerDay
           later == (t + (offset + shift * MsPerHour)) \div MsPerDay
<1>1. days \in Int /\ later \in Int
  BY SMT DEF MsPerDay, MsPerHour
<1>2. m = days * MsPerDay - offset /\ n = later * MsPerDay - (offset + shift * MsPerHour)
  BY SMT DEF LocalMidnight
<1> HIDE DEF days, later
<1>3. m \in Int /\ n \in Int
  BY <1>1, <1>2, SMT DEF MsPerDay, MsPerHour
<1> HIDE DEF m, n
<1>4. i \in Int /\ j \in Int
  BY <1>3, SMT DEF MsPerHour
<1> HIDE DEF i, j
<1>5. /\ ClockHour(s, offset) = Bucket(m + i * MsPerHour, m + (i + 1) * MsPerHour)
      /\ ClockHour(t, offset + shift * MsPerHour) = Bucket(n + j * MsPerHour, n + (j + 1) * MsPerHour)
  BY SMT DEF ClockHour, m, n, i, j
<1>6. /\ m + i * MsPerHour <= x /\ x < m + (i + 1) * MsPerHour
      /\ n + j * MsPerHour <= x /\ x < n + (j + 1) * MsPerHour
  BY <1>5, SMT DEF Covers, Bucket
<1>7. m + i * MsPerHour = n + j * MsPerHour
  BY <1>1, <1>2, <1>3, <1>4, <1>6, SMT DEF MsPerDay, MsPerHour
<1> QED
  BY <1>3, <1>4, <1>5, <1>7, SMT DEF MsPerHour

-----------------------------------------------------------------------------
(* The ticks of RollupSchedule: two workers, and a server that fails, for     *)
(* every set of scopes                                                        *)

\* The constant of RollupSchedule that MetricBuckets does not have.
CONSTANT Scopes

\* The variables of RollupSchedule; failures are the faults that have occurred.
VARIABLES up, job, run, failures

\* The two queues' scheduling, with a count of faults of its own.
Rollup == INSTANCE RollupSchedule WITH faults <- failures

\* What RollupSchedule assumes of its constants.
RollupBounds ==
  /\ Rollup!Ensure \notin Scopes
  /\ Null \notin Rollup!JobIds
  /\ MaxFaults \in Nat

\* What a worker can have at hand.
Run == [job: Rollup!JobIds \cup {Null}, todo: SUBSET Rollup!JobIds,
        open: Rollup!JobIds \cup {Null}, final: BOOLEAN, threw: BOOLEAN]

\* A worker that runs nothing has nothing to replace; one that does runs a job of
\* its queue, and replaces what its handler is about.
RunSound(q, r) ==
  /\ r.job = Null => r = Rollup!Free
  /\ q = "ensure" => /\ r.job \in {Null, Rollup!Ensure}
                     /\ r.todo \subseteq IF r.final THEN {Rollup!Ensure} ELSE Scopes
  /\ q = "change" => r.job \in Scopes \cup {Null} /\ r.todo \subseteq {Rollup!Ensure}
  /\ r.open \in r.todo \cup {Null}

\* Both workers at once.
RunsSound == \A q \in Rollup!Queues : RunSound(q, run[q])

\* As long as nothing has failed a job is active exactly while it is run, and none
\* is kept as failed.
ActiveIsRun ==
  failures = 0 =>
    /\ \A q \in Rollup!Queues : run[q].threw = FALSE
    /\ \A id \in Rollup!JobIds :
         /\ job[id].state # "failed"
         /\ job[id].state = "active" <=> \E q \in Rollup!Queues : run[q].job = id

\* What holds whatever fails.
RollupInductive == Rollup!TypeOK /\ RunsSound /\ ActiveIsRun

\* A tick that runs alone has planned the boundaries it no longer has to replace,
\* and a shift change that runs alone has asked for a tick, or is about to.
HandlersPlan ==
  /\ run["ensure"].job # Null =>
       \A s \in Scopes : job[s].state # "none" \/ (~run["ensure"].final /\ s \in run["ensure"].todo)
  /\ run["change"].job # Null => Rollup!TickToCome

\* What holds besides as long as handlers keep apart and nothing fails.
ApartSound == HandlersPlan /\ Rollup!BoundariesPlanned

\* There is a queue of ticks and one of shift changes.
LEMMA QueuesAre == Rollup!Queues = {"ensure", "change"}
BY DEF Rollup!Queues

\* What each queue operation makes of a job.
LEMMA TickOperations ==
  /\ Rollup!NoJob \in Rollup!Job /\ Rollup!NoJob.state = "none"
  /\ \A j \in Rollup!Job :
       /\ {Rollup!Removed(j), Rollup!Added(j, 0), Rollup!Started(j), Rollup!Restarted(j),
           Rollup!Completed(j), Rollup!KeptAsFailed(j)} \subseteq Rollup!Job
       /\ Rollup!Removed(j) = IF j.state = "active" THEN j ELSE Rollup!NoJob
       /\ Rollup!Added(j, 0).state = IF j.state = "none" THEN "delayed" ELSE j.state
       /\ Rollup!Started(j).state = "active"
       /\ Rollup!Restarted(j).state = "delayed"
       /\ Rollup!Completed(j) = Rollup!NoJob
BY DEF Rollup!Job, Rollup!NoJob, Rollup!Removed, Rollup!Added, Rollup!Started,
       Rollup!Restarted, Rollup!Completed, Rollup!KeptAsFailed

\* A worker at rest has nothing at hand.
LEMMA FreeRun ==
  /\ Rollup!Free \in Run
  /\ Rollup!Free.job = Null /\ Rollup!Free.todo = {} /\ Rollup!Free.open = Null
  /\ Rollup!Free.final = FALSE /\ Rollup!Free.threw = FALSE
BY DEF Rollup!Free, Run

\* The types, in short.
LEMMA RollupTypesAre ==
  Rollup!TypeOK <=> /\ up \in BOOLEAN /\ failures \in 0 .. MaxFaults
                    /\ job \in [Rollup!JobIds -> Rollup!Job]
                    /\ run \in [Rollup!Queues -> Run]
BY DEF Rollup!TypeOK, Run

\* Both hold before the first seed.
LEMMA RollupInit ==
  ASSUME RollupBounds, Rollup!Init
  PROVE  RollupInductive /\ ApartSound
<1>1. /\ up = FALSE /\ job = [id \in Rollup!JobIds |-> Rollup!NoJob]
      /\ run = [q \in Rollup!Queues |-> Rollup!Free] /\ failures = 0
  BY DEF Rollup!Init
<1>2. Rollup!TypeOK
  <2>1. job \in [Rollup!JobIds -> Rollup!Job] /\ run \in [Rollup!Queues -> Run]
    BY <1>1, TickOperations, FreeRun
  <2>2. failures \in 0 .. MaxFaults
    BY <1>1 DEF RollupBounds
  <2>3. up \in BOOLEAN
    BY <1>1, Zenon
  <2> QED
    BY <2>1, <2>2, <2>3, RollupTypesAre, Zenon
<1>3. RunsSound
  BY <1>1, FreeRun DEF RunsSound, RunSound
<1>4. ActiveIsRun
  BY <1>1, TickOperations, FreeRun DEF ActiveIsRun, RollupBounds
<1>5. ApartSound
  BY <1>1, FreeRun, QueuesAre DEF ApartSound, HandlersPlan, Rollup!BoundariesPlanned
<1> QED
  BY <1>2, <1>3, <1>4, <1>5 DEF RollupInductive

\* A step changes one job and what one worker has at hand: types and runs stay
\* sound when both are, and a stuttering step keeps everything.
LEMMA OneRunChanges ==
  ASSUME RollupInductive, NEW q \in Rollup!Queues, NEW r \in Run, RunSound(q, r),
         run' = [run EXCEPT ![q] = r],
         job' \in [Rollup!JobIds -> Rollup!Job],
         UNCHANGED up, failures' \in 0 .. MaxFaults
  PROVE  Rollup!TypeOK' /\ RunsSound' /\ run'[q] = r
                        /\ \A o \in Rollup!Queues : o # q => run'[o] = run[o]
<1>0. run \in [Rollup!Queues -> Run] /\ up \in BOOLEAN
  BY RollupTypesAre, Zenon DEF RollupInductive
<1>1. /\ run' \in [Rollup!Queues -> Run] /\ run'[q] = r
      /\ \A o \in Rollup!Queues : o # q => run'[o] = run[o]
  BY <1>0
<1>2. up' \in BOOLEAN
  BY <1>0, Zenon
<1>3. Rollup!TypeOK'
  BY <1>1, <1>2, Zenon DEF Rollup!TypeOK, Run
<1>4. RunsSound'
  <2> SUFFICES ASSUME NEW o \in Rollup!Queues PROVE RunSound(o, run[o])'
    BY DEF RunsSound
  <2>1. CASE o = q
    BY <1>1, <2>1 DEF RunSound
  <2>2. CASE o # q
    BY <1>1, <2>2 DEF RollupInductive, RunsSound, RunSound
  <2> QED
    BY <2>1, <2>2
<1> QED
  BY <1>1, <1>3, <1>4

\* What the invariant says of the workers.
LEMMA RunsAre ==
  ASSUME RollupInductive
  PROVE  /\ job \in [Rollup!JobIds -> Rollup!Job] /\ failures \in 0 .. MaxFaults
         /\ \A q \in Rollup!Queues : run[q] \in Run /\ RunSound(q, run[q])
         /\ Rollup!Ensure \in Rollup!JobIds /\ Scopes \subseteq Rollup!JobIds
<1>1. Rollup!Ensure \in Rollup!JobIds /\ Scopes \subseteq Rollup!JobIds
  BY DEF Rollup!JobIds
<1>2. job \in [Rollup!JobIds -> Rollup!Job] /\ run \in [Rollup!Queues -> Run]
      /\ failures \in 0 .. MaxFaults
  BY RollupTypesAre, Zenon DEF RollupInductive
<1> QED
  BY <1>1, <1>2 DEF RollupInductive, RunsSound

\* The seed adds a tick where there is none.
LEMMA StartSound ==
  ASSUME RollupBounds, RollupInductive, Rollup!Start
  PROVE  /\ RollupInductive'
         /\ ApartSound => ApartSound'
<1>1. /\ job' = [job EXCEPT ![Rollup!Ensure] = Rollup!Added(@, 0)] /\ up' = TRUE
      /\ UNCHANGED <<run, failures>>
  BY DEF Rollup!Start
<1>2. /\ job'[Rollup!Ensure] = Rollup!Added(job[Rollup!Ensure], 0)
      /\ \A s \in Scopes : job'[s] = job[s]
      /\ job' \in [Rollup!JobIds -> Rollup!Job]
  BY <1>1, RunsAre, TickOperations DEF RollupBounds
<1>3. job'[Rollup!Ensure].state =
        IF job[Rollup!Ensure].state = "none" THEN "delayed" ELSE job[Rollup!Ensure].state
  BY <1>2, RunsAre, TickOperations
<1>4. Rollup!TypeOK'
  <2>1. up' \in BOOLEAN
    BY <1>1, Zenon
  <2> QED
    BY <1>1, <1>2, <2>1 DEF RollupInductive, Rollup!TypeOK
<1>5. RunsSound'
  BY <1>1 DEF RollupInductive, RunsSound, RunSound
<1>6. ActiveIsRun'
  BY <1>1, <1>2, <1>3 DEF RollupInductive, ActiveIsRun, Rollup!JobIds
<1>7. ApartSound => ApartSound'
  BY <1>1, <1>2, <1>3 DEF ApartSound, HandlersPlan, Rollup!BoundariesPlanned, Rollup!TickToCome
<1> QED
  BY <1>4, <1>5, <1>6, <1>7 DEF RollupInductive

\* A worker takes a job: what it is to plan is planned, or left to replace.
LEMMA TakeSound ==
  ASSUME RollupBounds, RollupInductive, NEW q \in Rollup!Queues, Rollup!Take(q)
  PROVE  /\ RollupInductive'
         /\ ApartSound /\ Rollup!Apart /\ Rollup!Apart' => ApartSound'
<1>1. PICK id \in Rollup!JobsOf(q) :
        /\ run[q].job = Null /\ job[id].state = "delayed"
        /\ job' = [job EXCEPT ![id] = Rollup!Started(@)]
        /\ run' = [run EXCEPT ![q] =
             [Rollup!Free EXCEPT !.job = id,
                                 !.todo = IF q = "ensure" THEN Scopes ELSE {Rollup!Ensure}]]
        /\ UNCHANGED <<up, failures>>
  BY DEF Rollup!Take, Rollup!IsDue
<1> DEFINE r == [Rollup!Free EXCEPT !.job = id,
                                    !.todo = IF q = "ensure" THEN Scopes ELSE {Rollup!Ensure}]
<1>2. /\ id \in Rollup!JobIds /\ id # Null
      /\ q = "ensure" => id = Rollup!Ensure
      /\ q = "change" => id \in Scopes
  BY QueuesAre DEF Rollup!JobsOf, Rollup!JobIds, RollupBounds
<1>3. /\ r.job = id /\ r.todo = (IF q = "ensure" THEN Scopes ELSE {Rollup!Ensure})
      /\ r.open = Null /\ r.final = FALSE /\ r.threw = FALSE
      /\ r \in Run
  BY <1>2, RunsAre, FreeRun DEF Run
<1> HIDE DEF r
<1>4. run' = [run EXCEPT ![q] = r]
  BY <1>1 DEF r
<1>5. RunSound(q, r)
  BY <1>2, <1>3 DEF RunSound
<1>6. /\ job'[id].state = "active" /\ job' \in [Rollup!JobIds -> Rollup!Job]
      /\ \A j \in Rollup!JobIds : j # id => job'[j] = job[j]
  BY <1>1, <1>2, RunsAre, TickOperations
<1>7. Rollup!TypeOK' /\ RunsSound' /\ run'[q] = r
      /\ \A o \in Rollup!Queues : o # q => run'[o] = run[o]
  BY <1>1, <1>3, <1>4, <1>5, <1>6, RunsAre, OneRunChanges
<1>8. ActiveIsRun'
  <2> SUFFICES ASSUME failures' = 0 PROVE ActiveIsRun'
    BY DEF ActiveIsRun
  <2>1. ActiveIsRun /\ failures = 0
    BY <1>1 DEF RollupInductive
  <2>2. \A o \in Rollup!Queues : o # q => run[o].job # id
    BY <1>2, QueuesAre, RunsAre DEF RunSound, RollupBounds
  <2>3. \A o \in Rollup!Queues : run'[o].threw = FALSE
    BY <1>3, <1>7, <2>1 DEF ActiveIsRun
  <2>4. \A j \in Rollup!JobIds :
          job'[j].state # "failed" /\ (job'[j].state = "active" <=> \E o \in Rollup!Queues : run'[o].job = j)
    <3> SUFFICES ASSUME NEW j \in Rollup!JobIds
                 PROVE  /\ job'[j].state # "failed"
                        /\ job'[j].state = "active" <=> \E o \in Rollup!Queues : run'[o].job = j
      OBVIOUS
    <3>1. CASE j = id
      BY <1>3, <1>6, <1>7, <3>1
    <3>2. CASE j # id
      <4>1. job'[j] = job[j]
        BY <1>6, <3>2
      <4>2. \A o \in Rollup!Queues : run'[o].job = j <=> run[o].job = j
        BY <1>1, <1>3, <1>7, <3>2 DEF RollupBounds
      <4> QED
        BY <2>1, <4>1, <4>2 DEF ActiveIsRun
    <3> QED
      BY <3>1, <3>2
  <2> QED
    BY <2>3, <2>4 DEF ActiveIsRun
<1>9. ASSUME ApartSound, Rollup!Apart, Rollup!Apart' PROVE ApartSound'
  <2>1. \A j \in Rollup!JobIds : job[j].state # "none" => job'[j].state # "none"
    BY <1>6
  <2>2. CASE q = "ensure"
    <3>1. run'["change"] = run["change"] /\ run'["ensure"] = r /\ r.todo = Scopes /\ ~r.final
      BY <1>3, <1>7, <2>2, QueuesAre
    <3> QED
      BY <1>1, <1>9, <2>1, <3>1, RunsAre
      DEF ApartSound, HandlersPlan, Rollup!BoundariesPlanned, Rollup!TickToCome
  <2>3. CASE q = "change"
    <3>1. run'["ensure"] = run["ensure"] /\ run'["change"] = r /\ r.todo = {Rollup!Ensure}
      BY <1>3, <1>7, <2>3, QueuesAre
    <3> QED
      BY <1>1, <1>9, <2>1, <3>1, RunsAre
      DEF ApartSound, HandlersPlan, Rollup!BoundariesPlanned, Rollup!TickToCome
  <2> QED
    BY <2>2, <2>3, QueuesAre
<1> QED
  BY <1>7, <1>8, <1>9 DEF RollupInductive

\* A worker that replaces a job runs its handler; as long as nothing has failed the
\* tick that runs is active.
LEMMA ReplacingRuns ==
  ASSUME RollupBounds, RollupInductive, NEW q \in Rollup!Queues, run[q].todo # {}
  PROVE  /\ run[q].job # Null
         /\ q = "ensure" /\ failures = 0 => job[Rollup!Ensure].state = "active"
<1>1. run[q].job # Null
  BY RunsAre, FreeRun DEF RunSound
<1>2. ASSUME q = "ensure", failures = 0 PROVE job[Rollup!Ensure].state = "active"
  <2>1. run[q].job = Rollup!Ensure
    BY <1>1, <1>2, RunsAre DEF RunSound
  <2> QED
    BY <1>2, <2>1, RunsAre DEF RollupInductive, ActiveIsRun
<1> QED
  BY <1>1, <1>2

\* The plans are kept by a step that changes only the job that a worker is
\* replacing, and leaves it to replace or adds it.
LEMMA ReplacingKeepsPlans ==
  ASSUME RollupBounds, RollupInductive, ApartSound, Rollup!Apart,
         NEW q \in Rollup!Queues, NEW id \in run[q].todo,
         UNCHANGED <<up, failures>>,
         \A j \in Rollup!JobIds : j # id => job'[j] = job[j],
         job[id].state = "active" => job'[id].state = "active",
         run'[q].job = run[q].job, run'[q].final = run[q].final,
         \A o \in Rollup!Queues : o # q => run'[o] = run[o],
         run[q].todo \subseteq run'[q].todo \cup {id},
         job'[id].state # "none" \/ id \in run'[q].todo
  PROVE  ApartSound'
<1>0. run[q].job # Null /\ failures = 0 /\ (q = "ensure" => job[Rollup!Ensure].state = "active")
  BY ReplacingRuns DEF Rollup!Apart
<1>1. CASE q = "ensure"
  <2>1. job'[Rollup!Ensure].state = "active" /\ run["change"].job = Null /\ run'["change"] = run["change"]
    BY <1>0, <1>1, RunsAre, QueuesAre DEF Rollup!Apart
  <2>2. \A s \in Scopes : job'[s].state # "none" \/ (~run'["ensure"].final /\ s \in run'["ensure"].todo)
    <3> SUFFICES ASSUME NEW s \in Scopes
                 PROVE  job'[s].state # "none" \/ (~run'["ensure"].final /\ s \in run'["ensure"].todo)
      OBVIOUS
    <3>1. CASE s = id
      <4>1. ~run["ensure"].final
        BY <1>1, <3>1, RunsAre, QueuesAre DEF RunSound, RollupBounds
      <4> QED
        BY <1>1, <3>1, <4>1
    <3>2. CASE s # id
      <4>1. job'[s] = job[s]
        BY <3>2, RunsAre
      <4>2. job[s].state # "none" \/ (~run["ensure"].final /\ s \in run["ensure"].todo)
        BY <1>0, <1>1 DEF ApartSound, HandlersPlan
      <4> QED
        BY <1>1, <3>2, <4>1, <4>2
    <3> QED
      BY <3>1, <3>2
  <2> QED
    BY <2>1, <2>2 DEF ApartSound, HandlersPlan, Rollup!BoundariesPlanned, Rollup!TickToCome
<1>2. CASE q = "change"
  <2>1. id = Rollup!Ensure /\ run["ensure"].job = Null /\ run'["ensure"] = run["ensure"]
    BY <1>0, <1>2, RunsAre, QueuesAre DEF Rollup!Apart, RunSound
  <2>2. Rollup!TickToCome'
    BY <1>2, <2>1 DEF Rollup!TickToCome
  <2> QED
    BY <2>1, <2>2 DEF ApartSound, HandlersPlan, Rollup!BoundariesPlanned
<1> QED
  BY <1>1, <1>2, QueuesAre

\* Activity is kept by a step that changes one job without starting, ending or
\* failing it, and leaves the workers the jobs they run.
LEMMA ActivityKept ==
  ASSUME RollupInductive, NEW id \in Rollup!JobIds,
         failures' = failures,
         \A j \in Rollup!JobIds : j # id => job'[j] = job[j],
         job[id].state = "active" <=> job'[id].state = "active",
         job'[id].state = "failed" => job[id].state = "failed",
         \A o \in Rollup!Queues : run'[o].job = run[o].job /\ run'[o].threw = run[o].threw
  PROVE  ActiveIsRun'
<1> SUFFICES ASSUME failures' = 0 PROVE ActiveIsRun'
  BY DEF ActiveIsRun
<1>1. ActiveIsRun /\ failures = 0
  BY DEF RollupInductive
<1>2. \A j \in Rollup!JobIds :
        /\ job[j].state = "active" <=> job'[j].state = "active"
        /\ job'[j].state = "failed" => job[j].state = "failed"
  OBVIOUS
<1>3. \A j \in Rollup!JobIds :
        (\E o \in Rollup!Queues : run'[o].job = j) <=> \E o \in Rollup!Queues : run[o].job = j
  OBVIOUS
<1> QED
  BY <1>1, <1>2, <1>3 DEF ActiveIsRun

\* Removing and adding what the handler is about.
LEMMA ReplaceSound ==
  ASSUME RollupBounds, RollupInductive, NEW q \in Rollup!Queues, Rollup!Remove(q) \/ Rollup!Add(q)
  PROVE  /\ RollupInductive'
         /\ ApartSound /\ Rollup!Apart /\ Rollup!Apart' => ApartSound'
<1>0. run[q] \in Run /\ RunSound(q, run[q])
  BY RunsAre
<1>1. CASE Rollup!Remove(q)
  <2>1. PICK id \in run[q].todo :
          /\ job' = [job EXCEPT ![id] = Rollup!Removed(@)]
          /\ run' = [run EXCEPT ![q].open = id]
          /\ UNCHANGED <<up, failures>>
    BY <1>1 DEF Rollup!Remove
  <2> DEFINE r == [run[q] EXCEPT !.open = id]
  <2>2. id \in Rollup!JobIds
    BY <1>0 DEF Run
  <2>3. /\ r \in Run /\ r.job = run[q].job /\ r.todo = run[q].todo /\ r.open = id
        /\ r.final = run[q].final /\ r.threw = run[q].threw
    BY <1>0, <2>2 DEF Run
  <2>4. run[q].job # Null
    BY ReplacingRuns
  <2>5. run' = [run EXCEPT ![q] = r]
    BY <2>1
  <2> HIDE DEF r
  <2>6. RunSound(q, r)
    BY <1>0, <2>3, <2>4 DEF RunSound
  <2>7. /\ job' \in [Rollup!JobIds -> Rollup!Job] /\ job'[id] = Rollup!Removed(job[id])
        /\ \A j \in Rollup!JobIds : j # id => job'[j] = job[j]
    BY <2>1, <2>2, RunsAre, TickOperations
  <2>8. /\ job[id].state = "active" <=> job'[id].state = "active"
        /\ job'[id].state = "failed" => job[id].state = "failed"
    BY <2>2, <2>7, RunsAre, TickOperations
  <2>9. Rollup!TypeOK' /\ RunsSound' /\ run'[q] = r
        /\ \A o \in Rollup!Queues : o # q => run'[o] = run[o]
    BY <2>1, <2>3, <2>5, <2>6, <2>7, RunsAre, OneRunChanges
  <2>10. ActiveIsRun'
    BY <2>1, <2>2, <2>3, <2>7, <2>8, <2>9, ActivityKept
  <2>11. ApartSound /\ Rollup!Apart => ApartSound'
    BY <2>1, <2>3, <2>7, <2>8, <2>9, ReplacingKeepsPlans
  <2> QED
    BY <2>9, <2>10, <2>11 DEF RollupInductive
<1>2. CASE Rollup!Add(q)
  <2> DEFINE id == run[q].open
             r == [run[q] EXCEPT !.open = Null, !.todo = @ \ {id}]
  <2>1. /\ id # Null
        /\ job' = [job EXCEPT ![id] = Rollup!Added(@, 0)]
        /\ run' = [run EXCEPT ![q].open = Null, ![q].todo = @ \ {id}]
        /\ UNCHANGED <<up, failures>>
    BY <1>2 DEF Rollup!Add
  <2>2. id \in run[q].todo /\ id \in Rollup!JobIds
    BY <1>0, <2>1 DEF Run, RunSound
  <2>3. /\ r \in Run /\ r.job = run[q].job /\ r.todo = run[q].todo \ {id} /\ r.open = Null
        /\ r.final = run[q].final /\ r.threw = run[q].threw
    BY <1>0, <2>2 DEF Run
  <2>4. run[q].job # Null
    BY <2>2, ReplacingRuns
  <2>5. run' = [run EXCEPT ![q] = r]
    BY <2>1, RunsAre
  <2> HIDE DEF r, id
  <2>6. RunSound(q, r)
    BY <1>0, <2>3, <2>4 DEF RunSound
  <2>7. /\ job' \in [Rollup!JobIds -> Rollup!Job] /\ job'[id] = Rollup!Added(job[id], 0)
        /\ \A j \in Rollup!JobIds : j # id => job'[j] = job[j]
    BY <2>1, <2>2, RunsAre, TickOperations
  <2>8. /\ job[id].state = "active" <=> job'[id].state = "active"
        /\ job'[id].state = "failed" => job[id].state = "failed"
        /\ job'[id].state # "none"
    BY <2>2, <2>7, RunsAre, TickOperations
  <2>9. Rollup!TypeOK' /\ RunsSound' /\ run'[q] = r
        /\ \A o \in Rollup!Queues : o # q => run'[o] = run[o]
    BY <2>1, <2>3, <2>5, <2>6, <2>7, RunsAre, OneRunChanges
  <2>10. ActiveIsRun'
    BY <2>1, <2>2, <2>3, <2>7, <2>8, <2>9, ActivityKept
  <2>11. ApartSound /\ Rollup!Apart => ApartSound'
    BY <2>1, <2>2, <2>3, <2>7, <2>8, <2>9, ReplacingKeepsPlans
  <2> QED
    BY <2>9, <2>10, <2>11 DEF RollupInductive
<1> QED
  BY <1>1, <1>2

\* The finally block of a tick.
LEMMA FinallySound ==
  ASSUME RollupBounds, RollupInductive, Rollup!Finally
  PROVE  /\ RollupInductive'
         /\ ApartSound /\ Rollup!Apart /\ Rollup!Apart' => ApartSound'
<1> DEFINE r == [run["ensure"] EXCEPT !.final = TRUE, !.todo = {Rollup!Ensure}, !.open = Null]
<1>1. /\ run["ensure"].job = Rollup!Ensure /\ ~run["ensure"].final
      /\ run["ensure"].todo = {} \/ run["ensure"].threw
      /\ run' = [run EXCEPT !["ensure"].final = TRUE, !["ensure"].todo = {Rollup!Ensure},
                            !["ensure"].open = Null]
      /\ UNCHANGED <<up, job, failures>>
  BY DEF Rollup!Finally
<1>2. /\ "ensure" \in Rollup!Queues /\ run["ensure"] \in Run /\ RunSound("ensure", run["ensure"])
      /\ run \in [Rollup!Queues -> Run]
  BY QueuesAre, RunsAre, RollupTypesAre, Zenon DEF RollupInductive
<1>3. /\ r \in Run /\ r.job = Rollup!Ensure /\ r.todo = {Rollup!Ensure} /\ r.open = Null
      /\ r.final = TRUE /\ r.threw = run["ensure"].threw
  BY <1>1, <1>2, RunsAre DEF Run
<1>4. run' = [run EXCEPT !["ensure"] = r]
  BY <1>1, <1>2
<1> HIDE DEF r
<1>5. RunSound("ensure", r)
  BY <1>3 DEF RunSound, RollupBounds, Rollup!JobIds
<1>6. Rollup!TypeOK' /\ RunsSound' /\ run'["ensure"] = r
      /\ \A o \in Rollup!Queues : o # "ensure" => run'[o] = run[o]
  <2>1. job' \in [Rollup!JobIds -> Rollup!Job] /\ failures' \in 0 .. MaxFaults
    BY <1>1, RunsAre
  <2> QED
    BY <1>1, <1>2, <1>3, <1>4, <1>5, <2>1, OneRunChanges
<1>7. ActiveIsRun'
  <2>1. Rollup!Ensure \in Rollup!JobIds
    BY DEF Rollup!JobIds
  <2> QED
    BY <1>1, <1>3, <1>6, <2>1, ActivityKept
<1>8. ASSUME ApartSound, Rollup!Apart PROVE ApartSound'
  <2>1. run["ensure"].todo = {} /\ run["change"].job = Null /\ run["ensure"].job # Null
    BY <1>1, <1>2, <1>8, RunsAre DEF Rollup!Apart, RollupInductive, ActiveIsRun, RollupBounds
  <2>2. run'["change"] = run["change"]
    BY <1>6, QueuesAre
  <2>3. \A s \in Scopes : job'[s].state # "none"
    BY <1>1, <1>8, <2>1 DEF ApartSound, HandlersPlan
  <2> QED
    BY <2>1, <2>2, <2>3 DEF ApartSound, HandlersPlan, Rollup!BoundariesPlanned
<1> QED
  BY <1>6, <1>7, <1>8 DEF RollupInductive

\* A handler ends when it has nothing left to replace, so what it was to plan is
\* there.
LEMMA FinishSound ==
  ASSUME RollupBounds, RollupInductive, NEW q \in Rollup!Queues, Rollup!Finish(q)
  PROVE  /\ RollupInductive'
         /\ ApartSound /\ Rollup!Apart /\ Rollup!Apart' => ApartSound'
<1> DEFINE id == run[q].job
<1>1. /\ id # Null /\ run[q].todo = {}
      /\ q = "ensure" => run[q].final
      /\ job' = [job EXCEPT ![id] =
           IF run[q].threw THEN Rollup!KeptAsFailed(@) ELSE Rollup!Completed(@)]
      /\ run' = [run EXCEPT ![q] = Rollup!Free]
      /\ UNCHANGED <<up, failures>>
  BY DEF Rollup!Finish
<1>2. /\ id \in Rollup!JobIds
      /\ q = "ensure" => id = Rollup!Ensure
      /\ q = "change" => id \in Scopes
  BY <1>1, RunsAre DEF Run, RunSound
<1>3. /\ job' \in [Rollup!JobIds -> Rollup!Job]
      /\ job'[id] = (IF run[q].threw THEN Rollup!KeptAsFailed(job[id]) ELSE Rollup!NoJob)
      /\ \A j \in Rollup!JobIds : j # id => job'[j] = job[j]
  BY <1>1, <1>2, RunsAre, TickOperations
<1>4. RunSound(q, Rollup!Free)
  BY FreeRun DEF RunSound
<1>5. Rollup!TypeOK' /\ RunsSound' /\ run'[q] = Rollup!Free
      /\ \A o \in Rollup!Queues : o # q => run'[o] = run[o]
  BY <1>1, <1>3, <1>4, FreeRun, RunsAre, OneRunChanges
<1> HIDE DEF id
<1>6. ActiveIsRun'
  <2> SUFFICES ASSUME failures' = 0 PROVE ActiveIsRun'
    BY DEF ActiveIsRun
  <2>1. ActiveIsRun /\ failures = 0
    BY <1>1 DEF RollupInductive
  <2>2. \A o \in Rollup!Queues : o # q => run[o].job # id
    BY <1>1, <1>2, QueuesAre, RunsAre DEF RunSound, RollupBounds
  <2>3. \A o \in Rollup!Queues : run'[o].threw = FALSE
    BY <1>5, <2>1, FreeRun DEF ActiveIsRun
  <2>4. ASSUME NEW j \in Rollup!JobIds
        PROVE  /\ job'[j].state # "failed"
               /\ job'[j].state = "active" <=> \E o \in Rollup!Queues : run'[o].job = j
    <3>1. j # Null
      BY DEF RollupBounds
    <3>2. CASE j = id
      <4>1. job'[j].state = "none"
        BY <1>3, <2>1, <3>2, TickOperations DEF ActiveIsRun
      <4>2. \A o \in Rollup!Queues : run'[o].job # j
        BY <1>5, <2>2, <3>1, <3>2, FreeRun
      <4> QED
        BY <4>1, <4>2
    <3>3. CASE j # id
      <4>1. job'[j] = job[j]
        BY <1>3, <3>3
      <4>2. \A o \in Rollup!Queues : run'[o].job = j <=> run[o].job = j
        BY <1>5, <3>1, <3>3, FreeRun DEF id
      <4> QED
        BY <2>1, <4>1, <4>2 DEF ActiveIsRun
    <3> QED
      BY <3>2, <3>3
  <2> QED
    BY <2>3, <2>4 DEF ActiveIsRun
<1>7. ASSUME ApartSound, Rollup!Apart PROVE ApartSound'
  <2>1. CASE q = "ensure"
    <3>1. run'["change"] = run["change"] /\ run["change"].job = Null /\ run'["ensure"].job = Null
      BY <1>1, <1>5, <1>7, <2>1, QueuesAre, FreeRun DEF Rollup!Apart, id
    <3>2. \A s \in Scopes : job[s].state # "none"
      BY <1>1, <1>7, <2>1 DEF ApartSound, HandlersPlan, id
    <3>3. \A s \in Scopes : job'[s].state # "none"
      BY <1>2, <1>3, <2>1, <3>2, RunsAre DEF RollupBounds
    <3> QED
      BY <3>1, <3>3 DEF ApartSound, HandlersPlan, Rollup!BoundariesPlanned
  <2>2. CASE q = "change"
    <3>1. run'["ensure"] = run["ensure"] /\ run["ensure"].job = Null /\ run'["change"].job = Null
      BY <1>1, <1>5, <1>7, <2>2, QueuesAre, FreeRun DEF Rollup!Apart, id
    <3>2. job[Rollup!Ensure].state # "none"
      BY <1>1, <1>7, <2>2 DEF ApartSound, HandlersPlan, Rollup!TickToCome, id
    <3>3. job'[Rollup!Ensure].state # "none"
      BY <1>2, <1>3, <2>2, <3>2, RunsAre DEF RollupBounds
    <3> QED
      BY <3>1, <3>3 DEF ApartSound, HandlersPlan, Rollup!BoundariesPlanned, Rollup!TickToCome
  <2> QED
    BY <2>1, <2>2, QueuesAre
<1> QED
  BY <1>5, <1>6, <1>7 DEF RollupInductive

\* Failures: handlers that throw, and a server that dies.
LEMMA FailureSound ==
  ASSUME RollupBounds, RollupInductive,
         \/ Rollup!Crash
         \/ \E q \in Rollup!Queues : Rollup!Throw(q)
  PROVE  RollupInductive' /\ ~Rollup!Apart'
<1>0. failures' \in 0 .. MaxFaults /\ failures' # 0
  <2>1. failures < MaxFaults /\ failures' = failures + 1
    BY DEF Rollup!Crash, Rollup!Throw
  <2> QED
    BY <2>1, RunsAre DEF RollupBounds
<1>1. CASE Rollup!Crash
  <2>1. /\ up' = FALSE /\ run' = [q \in Rollup!Queues |-> Rollup!Free] /\ UNCHANGED job
    BY <1>1 DEF Rollup!Crash
  <2>2. RunsSound'
    BY <2>1, FreeRun DEF RunsSound, RunSound
  <2>3. run' \in [Rollup!Queues -> Run]
    BY <2>1, FreeRun
  <2>4. up' \in BOOLEAN /\ job' \in [Rollup!JobIds -> Rollup!Job]
    BY <2>1, RunsAre, Zenon
  <2>5. Rollup!TypeOK'
    BY <1>0, <2>3, <2>4, Zenon DEF Rollup!TypeOK, Run
  <2> QED
    BY <1>0, <2>2, <2>5 DEF RollupInductive, ActiveIsRun, Rollup!Apart
<1>2. ASSUME NEW q \in Rollup!Queues, Rollup!Throw(q)
      PROVE  RollupInductive' /\ ~Rollup!Apart'
  <2>1. PICK caught \in BOOLEAN :
          /\ run[q].job # Null
          /\ run' = [run EXCEPT ![q].threw = ~caught, ![q].todo = {}, ![q].open = Null]
          /\ UNCHANGED <<up, job>>
    BY <1>2, Zenon DEF Rollup!Throw
  <2> DEFINE r == [run[q] EXCEPT !.threw = ~caught, !.todo = {}, !.open = Null]
  <2>2. run[q] \in Run /\ RunSound(q, run[q])
    BY RunsAre
  <2>3. r \in Run /\ r.job = run[q].job /\ r.todo = {} /\ r.open = Null /\ r.final = run[q].final
    BY <2>2 DEF Run
  <2>4. run' = [run EXCEPT ![q] = r]
    BY <2>1, RunsAre
  <2> HIDE DEF r
  <2>5. RunSound(q, r)
    BY <2>1, <2>2, <2>3 DEF RunSound
  <2>6. Rollup!TypeOK' /\ RunsSound'
    BY <1>0, <2>1, <2>3, <2>4, <2>5, RunsAre, OneRunChanges
  <2> QED
    BY <1>0, <2>6 DEF RollupInductive, ActiveIsRun, Rollup!Apart
<1> QED
  BY <1>1, <1>2

\* Only a failure leaves a job active that nobody runs.
LEMMA RecoverSound ==
  ASSUME RollupBounds, RollupInductive, NEW id \in Rollup!JobIds, Rollup!Recover(id)
  PROVE  RollupInductive' /\ ~Rollup!Apart
<1>1. /\ job[id].state = "active" /\ \A q \in Rollup!Queues : run[q].job # id
      /\ job' = [job EXCEPT ![id] = Rollup!Restarted(@)]
      /\ UNCHANGED <<up, run, failures>>
  BY DEF Rollup!Recover
<1>2. failures # 0
  BY <1>1 DEF RollupInductive, ActiveIsRun
<1>3. job' \in [Rollup!JobIds -> Rollup!Job]
  BY <1>1, RunsAre, TickOperations
<1>4. Rollup!TypeOK' /\ RunsSound'
  BY <1>1, <1>3 DEF RollupInductive, Rollup!TypeOK, RunsSound, RunSound
<1> QED
  BY <1>1, <1>2, <1>4 DEF RollupInductive, ActiveIsRun, Rollup!Apart

\* What holds of the two workers, whatever fails.
THEOREM RollupInvariant ==
  ASSUME RollupBounds
  PROVE  Rollup!Spec => []RollupInductive
<1>1. RollupInductive /\ UNCHANGED Rollup!vars => RollupInductive'
  BY DEF RollupInductive, Rollup!TypeOK, RunsSound, RunSound, ActiveIsRun, Rollup!vars
<1>2. RollupInductive /\ [Rollup!Next]_(Rollup!vars) => RollupInductive'
  BY <1>1, StartSound, TakeSound, ReplaceSound, FinallySound, FinishSound, FailureSound, RecoverSound
  DEF Rollup!Next, Rollup!Work
<1> QED
  BY <1>2, RollupInit, PTL DEF Rollup!Spec

\* The jobs and what the two workers run stay in their types.
THEOREM RollupTypes ==
  ASSUME RollupBounds
  PROVE  Rollup!Spec => []Rollup!TypeOK
<1>1. RollupInductive => Rollup!TypeOK
  BY DEF RollupInductive
<1> QED
  BY <1>1, RollupInvariant, PTL

\* As long as ticks and shift changes keep apart, and nothing fails, no scope is
\* ever left without a planned boundary or a tick to come.
THEOREM ApartPlansHold ==
  ASSUME RollupBounds
  PROVE  Rollup!Spec => Rollup!ApartPlansStay
<1>1. ApartSound /\ UNCHANGED Rollup!vars => ApartSound'
  BY DEF ApartSound, HandlersPlan, Rollup!BoundariesPlanned, Rollup!TickToCome, Rollup!vars
<1>2. ASSUME RollupInductive, ApartSound, Rollup!Apart, Rollup!Apart', [Rollup!Next]_(Rollup!vars)
      PROVE  ApartSound'
  BY <1>1, <1>2, StartSound, TakeSound, ReplaceSound, FinallySound, FinishSound, FailureSound,
     RecoverSound
  DEF Rollup!Next, Rollup!Work
<1>3. ApartSound => Rollup!BoundariesPlanned
  BY DEF ApartSound
<1> QED
  BY <1>2, <1>3, RollupInit, RollupInvariant, PTL DEF Rollup!Spec, Rollup!ApartPlansStay

=============================================================================
