------------------------- MODULE EventPipelineProofs -------------------------
(* Theorems about EventPipeline, for every set of points and events, every    *)
(* condition and any sizes of the cache, the queue and the runtime.           *)
EXTENDS EventPipeline, FiniteSetTheorems, SequenceTheorems, TLAPS

\* No two entries of the cache are about one point.
Distinct(c) == \A i, j \in DOMAIN c : c[i].point = c[j].point => i = j

Cache(c) == c \in Seq(Snapshots) /\ Len(c) <= MaxEntries /\ Distinct(c)

\* A reading that repeats the one before it carries a snapshot without a change.
GoodReadings == {r \in Readings : r.repeats => r.snapshot.before = r.snapshot.value}

\* A handler that calls for an event of its own point has found a change.
GoodHandlers ==
  {h \in [reading: GoodReadings, todo: SUBSET Events, missing: SUBSET Points,
          called: Events \cup {Null}, pc: {"fetch", "judge", "call"}, slot: BOOLEAN] :
     h.pc = "call" /\ h.reading.repeats => h.called # {h.reading.point}}

Slots(handlers) == {h \in handlers : h.slot}

\* Handlers, as many of them in their places as there are places.
Runtime(handlers) ==
  /\ handlers \subseteq GoodHandlers /\ IsFiniteSet(handlers)
  /\ Cardinality(Slots(handlers)) <= Concurrency

\* What the last reading of a point was is what the cache has of it.
LastInCache ==
  \A p \in Points : last[p] # Null => p \in PointsOf(snapshots) /\ Entry(snapshots, p).value = last[p]

Inductive ==
  /\ Cache(snapshots)
  /\ last \in [Points -> Values \cup {Null}] /\ LastInCache
  /\ pending \subseteq GoodReadings
  /\ queue \in Seq(GoodReadings) /\ Len(queue) <= Capacity
  /\ Runtime(busy)
  /\ arrivals \in 0..MaxReadings /\ restarts \in 0..MaxRestarts

-----------------------------------------------------------------------------
(* The cache *)

\* The least of two numbers, and of one.
LEMMA MinOf ==
  ASSUME NEW a \in Nat, NEW b \in Nat
  PROVE  Min({a, b}) \in Nat /\ Min({a, b}) <= a /\ Min({a, b}) <= b /\ Min({a}) = a
<1>1. \E x \in {a, b} : \A y \in {a, b} : x =< y
  BY DEF Min
<1>2. Min({a, b}) \in {a, b} /\ \A y \in {a, b} : Min({a, b}) =< y
  BY <1>1 DEF Min
<1>3. Min({a}) \in {a}
  <2>1. \A y \in {a} : a =< y
    OBVIOUS
  <2> QED
    BY <2>1 DEF Min
<1> QED
  BY <1>2, <1>3

\* A point that is in the cache has one entry, which Entry returns.
LEMMA EntryIs ==
  ASSUME NEW c, c \in Seq(Snapshots), Distinct(c), NEW i \in DOMAIN c
  PROVE  Entry(c, c[i].point) = c[i] /\ c[i].point \in PointsOf(c)
<1>1. DOMAIN c \subseteq Nat
  BY LenProperties
<1>2. {j \in DOMAIN c : c[j].point = c[i].point} = {i}
  BY DEF Distinct
<1>3. Min({i}) = i
  BY <1>1, MinOf
<1> QED
  BY <1>2, <1>3 DEF Entry, PointsOf

\* The entry of a point of the cache is a snapshot.
LEMMA EntryType ==
  ASSUME NEW c, Cache(c), NEW p \in PointsOf(c)
  PROVE  Entry(c, p) \in Snapshots /\ Entry(c, p).point = p
<1>1. PICK i \in DOMAIN c : c[i].point = p
  BY DEF PointsOf
<1>2. Entry(c, p) = c[i]
  BY <1>1, EntryIs DEF Cache
<1>3. c[i] \in Snapshots
  BY ElementOfSeq, LenProperties DEF Cache
<1> QED
  BY <1>1, <1>2, <1>3

\* A point that is not in the cache has no entry.
LEMMA NoEntry ==
  ASSUME NEW c, NEW p, p \notin PointsOf(c)
  PROVE  Entry(c, p) = Null
BY DEF Entry, PointsOf

\* setSnapshot: the point has a snapshot with the value, and every other point
\* that is in the cache afterwards was there before, with the same entry.
LEMMA SetSound ==
  ASSUME NEW c, Cache(c), NEW p \in Points, NEW v \in Values, NEW b \in Values \cup {Null}
  PROVE  LET d == Set(c, p, v, b)
         IN  /\ Cache(d)
             /\ p \in PointsOf(d)
             /\ Entry(d, p) = [point |-> p, value |-> v, before |-> Before(c, p, v, b)]
             /\ \A q \in PointsOf(d) : q # p => q \in PointsOf(c) /\ Entry(d, q) = Entry(c, q)
<1> DEFINE e == [point |-> p, value |-> v, before |-> Before(c, p, v, b)]
           d == Set(c, p, v, b)
<1>1. e \in Snapshots /\ e.point = p
  <2>1. p \in PointsOf(c) => Entry(c, p).value \in Values
    BY EntryType DEF Snapshots
  <2>2. Before(c, p, v, b) \in Values \cup {Null}
    BY <2>1 DEF Before
  <2> QED
    BY <2>2 DEF Snapshots
<1>2. /\ c \in Seq(Snapshots) /\ DOMAIN c = 1 .. Len(c) /\ Len(c) \in Nat /\ Len(c) <= MaxEntries
      /\ Distinct(c) /\ \A i \in DOMAIN c : c[i] \in Snapshots
      /\ MaxEntries \in Nat \ {0}
  BY LenProperties, ElementOfSeq, PipelineAssumption DEF Cache
<1> DEFINE Known == p \in PointsOf(c)
           k == IF Len(c) >= MaxEntries THEN Tail(c) ELSE c
<1>3. ASSUME NEW s \in Seq(Snapshots), Len(s) <= MaxEntries, Distinct(s), d = s,
             NEW n \in DOMAIN s, s[n] = e,
             \A i \in DOMAIN s : i # n => \E j \in DOMAIN c : s[i] = c[j]
      PROVE  /\ Cache(d) /\ p \in PointsOf(d) /\ Entry(d, p) = e
             /\ \A q \in PointsOf(d) : q # p => q \in PointsOf(c) /\ Entry(d, q) = Entry(c, q)
  <2> HIDE DEF d, e
  <2>1. p \in PointsOf(d) /\ Entry(d, p) = e
    BY <1>1, <1>3, EntryIs
  <2>2. ASSUME NEW q \in PointsOf(d), q # p
        PROVE  q \in PointsOf(c) /\ Entry(d, q) = Entry(c, q)
    <3>1. PICK i \in DOMAIN s : s[i].point = q
      BY <1>3 DEF PointsOf
    <3>2. i # n
      BY <1>1, <1>3, <2>2, <3>1
    <3>3. PICK j \in DOMAIN c : s[i] = c[j]
      BY <1>3, <3>2
    <3>4. Entry(d, q) = s[i]
      BY <1>3, <3>1, EntryIs
    <3>5. Entry(c, q) = c[j] /\ q \in PointsOf(c)
      BY <1>2, <3>1, <3>3, EntryIs
    <3> QED
      BY <3>3, <3>4, <3>5
  <2> QED
    BY <1>3, <2>1, <2>2 DEF Cache
<1> HIDE DEF e
<1>4. CASE Known
  <2> DEFINE s == [i \in DOMAIN c |-> IF c[i].point = p THEN e ELSE c[i]]
  <2>1. d = s
    BY <1>4 DEF Set, e
  <2>2. s \in Seq(Snapshots) /\ Len(s) = Len(c) /\ DOMAIN s = DOMAIN c
    <3>1. s \in [1 .. Len(c) -> Snapshots]
      BY <1>1, <1>2
    <3> HIDE DEF s
    <3> QED
      BY <1>2, <3>1, SeqDef
  <2>3. \A i \in DOMAIN c : s[i].point = c[i].point
    BY <1>1
  <2>4. PICK n \in DOMAIN c : c[n].point = p
    BY <1>4 DEF PointsOf
  <2>5. s[n] = e /\ \A i \in DOMAIN c : i # n => s[i] = c[i]
    BY <1>2, <2>4 DEF Distinct
  <2> HIDE DEF s, d
  <2>6. Distinct(s)
    BY <1>2, <2>2, <2>3 DEF Distinct
  <2> QED
    BY <1>2, <1>3, <2>1, <2>2, <2>4, <2>5, <2>6 DEF d, e
<1>5. CASE ~Known
  <2>1. d = Append(k, e)
    BY <1>5 DEF Set, e
  <2>2. /\ k \in Seq(Snapshots) /\ Len(k) < MaxEntries /\ Len(k) \in Nat /\ DOMAIN k = 1 .. Len(k)
        /\ Distinct(k)
        /\ \A i \in DOMAIN k : \E j \in DOMAIN c : k[i] = c[j]
    <3>1. CASE Len(c) >= MaxEntries
      <4>1. /\ Tail(c) \in Seq(Snapshots) /\ Len(Tail(c)) = Len(c) - 1
            /\ \A i \in 1 .. Len(Tail(c)) : Tail(c)[i] = c[i + 1]
        <5>1. c # <<>>
          BY <1>2, <3>1
        <5> QED
          BY <1>2, <5>1, HeadTailProperties
      <4>2. DOMAIN Tail(c) = 1 .. Len(c) - 1
        BY <1>2, <4>1, LenProperties
      <4>3. Distinct(Tail(c))
        BY <1>2, <4>1, <4>2 DEF Distinct
      <4>4. \A i \in DOMAIN Tail(c) : Tail(c)[i] = c[i + 1] /\ i + 1 \in DOMAIN c
        BY <1>2, <4>1, <4>2
      <4>5. Len(Tail(c)) \in Nat /\ Len(Tail(c)) < MaxEntries
        BY <1>2, <4>1, LenProperties
      <4> QED
        BY <3>1, <4>1, <4>2, <4>3, <4>4, <4>5
    <3>2. CASE ~(Len(c) >= MaxEntries)
      BY <1>2, <3>2
    <3> QED
      BY <3>1, <3>2
  <2> HIDE DEF k, d
  <2> DEFINE s == Append(k, e)
  <2>3. /\ s \in Seq(Snapshots) /\ Len(s) = Len(k) + 1 /\ s[Len(k) + 1] = e
        /\ \A i \in DOMAIN k : s[i] = k[i]
        /\ DOMAIN s = 1 .. Len(k) + 1
    BY <1>1, <2>2, AppendProperties, LenProperties
  <2> HIDE DEF s
  <2>4. \A i \in DOMAIN s : i # Len(k) + 1 => i \in DOMAIN k
    BY <2>2, <2>3
  <2>5. \A i \in DOMAIN k : k[i].point # p
    BY <1>5, <2>2 DEF PointsOf
  <2>6. Distinct(s)
    BY <1>1, <2>2, <2>3, <2>4, <2>5 DEF Distinct
  <2>7. Len(k) + 1 \in DOMAIN s /\ Len(s) <= MaxEntries
    BY <1>2, <2>2, <2>3
  <2>8. \A i \in DOMAIN s : i # Len(k) + 1 => \E j \in DOMAIN c : s[i] = c[j]
    BY <2>2, <2>3, <2>4
  <2>9. d = s
    BY <2>1 DEF s
  <2> QED
    BY <1>3, <2>3, <2>6, <2>7, <2>8, <2>9 DEF d, e
<1> QED
  BY <1>4, <1>5 DEF e

\* The first n numbers.
LEMMA UpTo ==
  ASSUME NEW n \in Nat
  PROVE  IsFiniteSet(1 .. n) /\ Cardinality(1 .. n) = n
<1>1. 1 \in Int /\ n \in Int
  OBVIOUS
<1>2. IsFiniteSet(1 .. n) /\ Cardinality(1 .. n) = IF 1 > n THEN 0 ELSE n - 1 + 1
  BY <1>1, FS_Interval, Zenon
<1> QED
  BY <1>2

\* As many entries as points.
LEMMA CacheCount ==
  ASSUME NEW c, Cache(c)
  PROVE  Cardinality(PointsOf(c)) = Len(c)
<1> DEFINE f == [i \in 1 .. Len(c) |-> c[i].point]
<1>1. DOMAIN c = 1 .. Len(c) /\ Len(c) \in Nat
  BY LenProperties DEF Cache
<1>2. f \in [1 .. Len(c) -> PointsOf(c)]
  BY <1>1 DEF PointsOf
<1>3. f \in Injection(1 .. Len(c), PointsOf(c))
  BY <1>1, <1>2 DEF Injection, IsInjective, Cache, Distinct
<1>4. f \in Surjection(1 .. Len(c), PointsOf(c))
  BY <1>1, <1>2 DEF Surjection, PointsOf
<1>5. ExistsBijection(1 .. Len(c), PointsOf(c))
  BY <1>3, <1>4 DEF ExistsBijection, Bijection
<1> HIDE DEF f
<1>6. IsFiniteSet(1 .. Len(c)) /\ Cardinality(1 .. Len(c)) = Len(c)
  BY <1>1, UpTo
<1>7. Cardinality(PointsOf(c)) = Cardinality(1 .. Len(c))
  BY <1>5, <1>6, FS_Bijection, Zenon
<1> QED
  BY <1>6, <1>7

-----------------------------------------------------------------------------
(* The runtime *)

\* A handler starts in a place.
LEMMA StartedGood ==
  ASSUME NEW r \in GoodReadings
  PROVE  Started(r) \in GoodHandlers /\ Started(r).slot
<1> DEFINE events == {e \in Events : r.point \in e}
           missing == IF events = {} THEN {} ELSE Points \ (PointsOf(snapshots) \cup {r.point})
           pc == IF missing = {} THEN "judge" ELSE "fetch"
<1>1. Started(r) = [reading |-> r, todo |-> events, missing |-> missing, called |-> Null,
                    pc |-> pc, slot |-> TRUE]
  BY DEF Started
<1>2. events \in SUBSET Events /\ missing \in SUBSET Points /\ pc \in {"fetch", "judge"}
  OBVIOUS
<1> HIDE DEF events, missing, pc
<1> QED
  BY <1>1, <1>2 DEF GoodHandlers

\* A set of places within a set of handlers.
LEMMA SlotsFinite ==
  ASSUME NEW handlers, IsFiniteSet(handlers)
  PROVE  IsFiniteSet(Slots(handlers)) /\ Cardinality(Slots(handlers)) \in Nat
<1>1. Slots(handlers) \in SUBSET handlers
  BY DEF Slots
<1> QED
  BY <1>1, FS_Subset, FS_CardinalityType

\* Fewer places are taken when fewer handlers are in one.
LEMMA SlotsFewer ==
  ASSUME NEW handlers, NEW others, IsFiniteSet(handlers), Slots(others) \subseteq Slots(handlers)
  PROVE  Cardinality(Slots(others)) <= Cardinality(Slots(handlers))
BY SlotsFinite, FS_Subset

\* No handlers.
LEMMA NoHandlers == Runtime({})
<1>1. Slots({}) = {}
  BY DEF Slots
<1>2. IsFiniteSet({}) /\ Cardinality({}) = 0
  BY FS_EmptySet
<1>3. Concurrency \in Nat
  BY PipelineAssumption
<1>4. Cardinality(Slots({})) <= Concurrency
  BY <1>1, <1>2, <1>3
<1> QED
  BY <1>2, <1>4 DEF Runtime

\* A handler leaves.
LEMMA HandlerLeaves ==
  ASSUME NEW handlers, Runtime(handlers), NEW h
  PROVE  Runtime(handlers \ {h})
<1>1. IsFiniteSet(handlers \ {h})
  BY FS_RemoveElement DEF Runtime
<1>2. Slots(handlers \ {h}) \subseteq Slots(handlers)
  BY DEF Slots
<1>3. /\ Cardinality(Slots(handlers)) \in Nat /\ Cardinality(Slots(handlers \ {h})) \in Nat
      /\ Cardinality(Slots(handlers \ {h})) <= Cardinality(Slots(handlers))
  BY <1>1, <1>2, SlotsFinite, SlotsFewer DEF Runtime
<1> QED
  BY <1>1, <1>3, PipelineAssumption DEF Runtime

\* A handler goes on, in its place if it still has it.
LEMMA HandlerGoesOn ==
  ASSUME NEW handlers, Runtime(handlers), NEW h \in handlers, NEW next \in GoodHandlers,
         next.slot => h.slot
  PROVE  Runtime((handlers \ {h}) \cup {next})
<1> DEFINE others == (handlers \ {h}) \cup {next}
           n == Cardinality(Slots(handlers))
<1>1. /\ IsFiniteSet(others) /\ others \subseteq GoodHandlers /\ IsFiniteSet(handlers)
      /\ n \in Nat /\ n <= Concurrency /\ Concurrency \in Nat
  BY SlotsFinite, FS_RemoveElement, FS_AddElement, PipelineAssumption DEF Runtime
<1>2. CASE ~next.slot
  <2>1. Slots(others) \subseteq Slots(handlers)
    BY <1>2 DEF Slots
  <2>2. Cardinality(Slots(others)) <= n /\ Cardinality(Slots(others)) \in Nat
    BY <1>1, <2>1, SlotsFewer, SlotsFinite
  <2> QED
    BY <1>1, <2>2 DEF Runtime
<1>3. CASE next.slot
  <2> DEFINE rest == Slots(handlers) \ {h}
  <2>1. Slots(others) \subseteq rest \cup {next} /\ h \in Slots(handlers)
    BY <1>3 DEF Slots
  <2>2. IsFiniteSet(rest) /\ Cardinality(rest) = n - 1 /\ IsFiniteSet(Slots(handlers))
    BY <1>1, <2>1, SlotsFinite, FS_RemoveElement
  <2>3. IsFiniteSet(rest \cup {next}) /\ Cardinality(rest \cup {next}) <= n
    <3>1. /\ IsFiniteSet(rest \cup {next})
          /\ Cardinality(rest \cup {next}) = IF next \in rest THEN Cardinality(rest) ELSE Cardinality(rest) + 1
      BY <2>2, FS_AddElement
    <3> QED
      BY <1>1, <2>2, <3>1
  <2>4. Cardinality(Slots(others)) <= Cardinality(rest \cup {next})
    BY <2>1, <2>3, FS_Subset
  <2>5. Cardinality(Slots(others)) \in Nat /\ Cardinality(rest \cup {next}) \in Nat
    BY <1>1, <2>3, SlotsFinite, FS_CardinalityType
  <2> QED
    BY <1>1, <2>3, <2>4, <2>5 DEF Runtime
<1> QED
  BY <1>2, <1>3

\* schedule: no more handlers start than there are free places.
LEMMA ScheduleSound ==
  ASSUME NEW q \in Seq(GoodReadings), Len(q) <= Capacity, NEW handlers, Runtime(handlers),
         Schedule(q, handlers)
  PROVE  queue' \in Seq(GoodReadings) /\ Len(queue') <= Capacity /\ Runtime(busy')
<1> DEFINE n == Cardinality(Slots(handlers))
           free == Concurrency - n
           taken == Min({free, Len(q)})
           new == {Started(q[i]) : i \in 1..taken}
<1>1. /\ n \in Nat /\ n <= Concurrency /\ Concurrency \in Nat /\ Capacity \in Nat
      /\ handlers \subseteq GoodHandlers /\ IsFiniteSet(handlers) /\ IsFiniteSet(Slots(handlers))
  BY SlotsFinite, PipelineAssumption DEF Runtime
<1>2. Len(q) \in Nat /\ \A i \in 1 .. Len(q) : q[i] \in GoodReadings
  BY LenProperties, ElementOfSeq
<1>3. taken \in Nat /\ taken <= free /\ taken <= Len(q)
  <2>1. free \in Nat
    BY <1>1
  <2> HIDE DEF free
  <2> QED
    BY <1>2, <2>1, MinOf
<1>4. queue' = SubSeq(q, taken + 1, Len(q)) /\ busy' = handlers \cup new
  BY DEF Schedule, Slots
<1> HIDE DEF taken
<1>5. queue' \in Seq(GoodReadings) /\ Len(queue') <= Capacity
  <2>1. \A i \in taken + 1 .. Len(q) : q[i] \in GoodReadings
    BY <1>2, <1>3
  <2>2. /\ SubSeq(q, taken + 1, Len(q)) \in Seq(GoodReadings)
        /\ Len(SubSeq(q, taken + 1, Len(q))) =
             IF taken + 1 <= Len(q) THEN Len(q) - (taken + 1) + 1 ELSE 0
    BY <1>2, <1>3, <2>1, SubSeqProperties
  <2> QED
    BY <1>1, <1>2, <1>3, <1>4, <2>2
<1>6. new \subseteq GoodHandlers /\ \A h \in new : h.slot
  BY <1>2, <1>3, StartedGood
<1>7. IsFiniteSet(new) /\ Cardinality(new) <= taken /\ Cardinality(new) \in Nat
  <2> DEFINE f == [i \in 1..taken |-> Started(q[i])]
  <2>1. f \in Surjection(1..taken, new)
    BY DEF Surjection
  <2>2. IsFiniteSet(1..taken) /\ Cardinality(1..taken) = taken
    BY <1>3, UpTo
  <2> HIDE DEF f, new
  <2>3. IsFiniteSet(new) /\ Cardinality(new) <= Cardinality(1..taken)
    BY <2>1, <2>2, FS_Surjection
  <2> QED
    BY <2>2, <2>3, FS_CardinalityType
<1> HIDE DEF new
<1>8. Slots(busy') \subseteq Slots(handlers) \cup new
  BY <1>4 DEF Slots
<1>9. /\ IsFiniteSet(Slots(handlers) \cup new)
      /\ Cardinality(Slots(handlers) \cup new) <= n + taken
  <2>1. /\ IsFiniteSet(Slots(handlers) \cup new)
        /\ Cardinality(Slots(handlers) \cup new) =
             n + Cardinality(new) - Cardinality(Slots(handlers) \cap new)
    BY <1>1, <1>7, FS_Union
  <2>2. Cardinality(Slots(handlers) \cap new) \in Nat
    BY <1>1, FS_Intersection, FS_CardinalityType
  <2> QED
    BY <1>1, <1>3, <1>7, <2>1, <2>2
<1>10. IsFiniteSet(busy') /\ busy' \subseteq GoodHandlers
  BY <1>1, <1>4, <1>6, <1>7, FS_Union
<1>11. Cardinality(Slots(busy')) <= Concurrency
  <2>1. Cardinality(Slots(busy')) <= Cardinality(Slots(handlers) \cup new)
    BY <1>8, <1>9, FS_Subset
  <2>2. Cardinality(Slots(busy')) \in Nat /\ Cardinality(Slots(handlers) \cup new) \in Nat
    BY <1>9, <1>10, SlotsFinite, FS_CardinalityType
  <2> QED
    BY <1>1, <1>3, <1>9, <2>1, <2>2
<1> QED
  BY <1>5, <1>10, <1>11 DEF Runtime

\* A handler that ends, and one that goes on.
LEMMA EndSound ==
  ASSUME Inductive, NEW h \in busy, End(h)
  PROVE  queue' \in Seq(GoodReadings) /\ Len(queue') <= Capacity /\ Runtime(busy')
BY HandlerLeaves, ScheduleSound DEF Inductive, End

LEMMA ContinueSound ==
  ASSUME Inductive, NEW h \in busy, NEW next \in GoodHandlers, next.slot => h.slot,
         Continue(h, next)
  PROVE  queue' \in Seq(GoodReadings) /\ Len(queue') <= Capacity /\ Runtime(busy')
BY HandlerGoesOn DEF Inductive, Continue

-----------------------------------------------------------------------------
(* The steps *)

LEMMA InitInductive == Init => Inductive
<1> SUFFICES ASSUME Init PROVE Inductive
  OBVIOUS
<1>1. Cache(snapshots) /\ queue \in Seq(GoodReadings) /\ Len(queue) <= Capacity
  BY PipelineAssumption DEF Init, Cache, Distinct
<1>2. last \in [Points -> Values \cup {Null}] /\ LastInCache
  BY DEF Init, NoneLast, LastInCache
<1>3. Runtime(busy)
  BY NoHandlers DEF Init
<1> QED
  BY <1>1, <1>2, <1>3, PipelineAssumption DEF Init, Inductive

\* The snapshot of a point is set, to a value that is its last reading or was fetched.
LEMMA SetKeepsLast ==
  ASSUME Inductive, NEW p \in Points, NEW v \in Values, NEW b \in Values \cup {Null},
         NEW l \in {v, Null},
         snapshots' = Set(snapshots, p, v, b),
         last' = Kept([last EXCEPT ![p] = l], snapshots')
  PROVE  /\ Cache(snapshots')
         /\ last' \in [Points -> Values \cup {Null}] /\ LastInCache'
<1>1. /\ Cache(snapshots') /\ p \in PointsOf(snapshots') /\ Entry(snapshots', p).value = v
      /\ \A q \in PointsOf(snapshots') :
           q # p => q \in PointsOf(snapshots) /\ Entry(snapshots', q) = Entry(snapshots, q)
  BY SetSound DEF Inductive
<1>2. last \in [Points -> Values \cup {Null}] /\ LastInCache
  BY DEF Inductive
<1>3. \A q \in Points : last'[q] = IF q \in PointsOf(snapshots')
                                    THEN IF q = p THEN l ELSE last[q]
                                    ELSE Null
  BY <1>2 DEF Kept
<1>4. last' \in [Points -> Values \cup {Null}]
  BY <1>2 DEF Kept
<1>5. LastInCache'
  <2> SUFFICES ASSUME NEW q \in Points, last'[q] # Null
               PROVE  q \in PointsOf(snapshots') /\ Entry(snapshots', q).value = last'[q]
    BY DEF LastInCache
  <2>1. q \in PointsOf(snapshots')
    BY <1>3
  <2>2. CASE q = p
    BY <1>1, <1>3, <2>1, <2>2
  <2>3. CASE q # p
    BY <1>1, <1>2, <1>3, <2>1, <2>3 DEF LastInCache
  <2> QED
    BY <2>1, <2>2, <2>3
<1> QED
  BY <1>1, <1>4, <1>5

\* A reading that repeats the last one finds its value in the cache.
LEMMA ArriveSound ==
  ASSUME Inductive, Arrive
  PROVE  Inductive'
<1>1. PICK p \in Points, value \in Values, before \in Befores :
        LET c == Set(snapshots, p, value, before)
        IN  /\ arrivals < MaxReadings
            /\ snapshots' = c
            /\ pending' = pending \cup
                 {[n |-> arrivals + 1, point |-> p, snapshot |-> Entry(c, p),
                   repeats |-> last[p] = value]}
            /\ last' = Kept([last EXCEPT ![p] = value], c)
            /\ arrivals' = arrivals + 1
            /\ UNCHANGED <<queue, busy, restarts>>
  BY DEF Arrive
<1> DEFINE s == Entry(snapshots', p)
           repeats == last[p] = value
           r == [n |-> arrivals + 1, point |-> p, snapshot |-> s, repeats |-> repeats]
<1>2. before \in Values \cup {Null} /\ value # Null
  BY PipelineAssumption
<1>3. /\ Cache(snapshots')
      /\ last' \in [Points -> Values \cup {Null}] /\ LastInCache'
  BY <1>1, <1>2, SetKeepsLast
<1>4. /\ s = [point |-> p, value |-> value, before |-> Before(snapshots, p, value, before)]
      /\ p \in PointsOf(snapshots')
  BY <1>1, <1>2, SetSound DEF Inductive
<1>5. s \in Snapshots
  BY <1>3, <1>4, EntryType
<1>6. repeats => s.before = s.value
  <2> SUFFICES ASSUME last[p] = value PROVE s.before = s.value
    OBVIOUS
  <2>1. p \in PointsOf(snapshots) /\ Entry(snapshots, p).value = value
    BY <1>2 DEF Inductive, LastInCache
  <2> QED
    BY <1>4, <2>1 DEF Before
<1>7. arrivals' \in 0..MaxReadings /\ arrivals + 1 \in 1..MaxReadings
  BY <1>1, PipelineAssumption DEF Inductive
<1>8. repeats \in BOOLEAN
  OBVIOUS
<1>9. pending' = pending \cup {r}
  BY <1>1
<1> HIDE DEF s, repeats
<1>10. r \in GoodReadings
  BY <1>5, <1>6, <1>7, <1>8 DEF GoodReadings, Readings
<1> QED
  BY <1>1, <1>3, <1>7, <1>9, <1>10 DEF Inductive

\* A full queue makes room for the reading.
LEMMA SubmitSound ==
  ASSUME Inductive, NEW r \in pending, Submit(r)
  PROVE  Inductive'
<1>1. /\ r \in GoodReadings /\ queue \in Seq(GoodReadings) /\ Len(queue) <= Capacity
      /\ Len(queue) \in Nat /\ Capacity \in Nat \ {0}
  BY LenProperties, PipelineAssumption DEF Inductive
<1>2. Pushed(r) \in Seq(GoodReadings) /\ Len(Pushed(r)) <= Capacity
  <2>1. CASE Len(queue) >= Capacity
    <3>1. queue # <<>>
      BY <1>1, <2>1
    <3>2. Tail(queue) \in Seq(GoodReadings) /\ Len(Tail(queue)) = Len(queue) - 1
      BY <1>1, <3>1, HeadTailProperties
    <3>3. /\ Append(Tail(queue), r) \in Seq(GoodReadings)
          /\ Len(Append(Tail(queue), r)) = Len(queue) - 1 + 1
      BY <1>1, <3>2, AppendProperties
    <3> QED
      BY <1>1, <2>1, <3>3 DEF Pushed
  <2>2. CASE ~(Len(queue) >= Capacity)
    <3>1. Append(queue, r) \in Seq(GoodReadings) /\ Len(Append(queue, r)) = Len(queue) + 1
      BY <1>1, AppendProperties
    <3> QED
      BY <1>1, <2>2, <3>1 DEF Pushed
  <2> QED
    BY <2>1, <2>2
<1>3. Schedule(Pushed(r), busy) /\ pending' \subseteq pending
      /\ UNCHANGED <<snapshots, last, arrivals, restarts>>
  BY DEF Submit
<1>4. queue' \in Seq(GoodReadings) /\ Len(queue') <= Capacity /\ Runtime(busy')
  BY <1>2, <1>3, ScheduleSound DEF Inductive
<1> QED
  BY <1>3, <1>4 DEF Inductive, LastInCache

\* What a step of a handler leaves as it is, when it does not write the cache.
LEMMA HandlerStep ==
  ASSUME Inductive, UNCHANGED <<snapshots, last, pending, arrivals, restarts>>,
         queue' \in Seq(GoodReadings) /\ Len(queue') <= Capacity /\ Runtime(busy')
  PROVE  Inductive'
BY DEF Inductive, LastInCache

\* The answer for a point is in the cache, and is not the point's last reading.
LEMMA FetchedSound ==
  ASSUME Inductive, NEW h \in busy, Fetched(h)
  PROVE  Inductive'
<1>1. PICK p \in h.missing, value \in Values \cup {Null} :
        LET c == IF value = Null THEN snapshots ELSE Set(snapshots, p, value, Null)
            rest == h.missing \ {p}
        IN  /\ h.pc = "fetch"
            /\ snapshots' = c
            /\ last' = Kept(IF value = Null THEN last ELSE [last EXCEPT ![p] = Null], c)
            /\ Continue(h, [h EXCEPT !.missing = rest,
                                     !.pc = IF rest = {} THEN "judge" ELSE "fetch"])
            /\ UNCHANGED <<pending, arrivals, restarts>>
  BY DEF Fetched
<1> DEFINE rest == h.missing \ {p}
           pc == IF rest = {} THEN "judge" ELSE "fetch"
           next == [h EXCEPT !.missing = rest, !.pc = pc]
<1>2. h \in GoodHandlers
  BY DEF Inductive, Runtime
<1>3. p \in Points /\ rest \subseteq Points /\ pc \in {"judge", "fetch"}
  BY <1>2 DEF GoodHandlers
<1>4. Continue(h, next)
  BY <1>1
<1> HIDE DEF rest, pc
<1>5. next \in GoodHandlers /\ (next.slot => h.slot)
  BY <1>2, <1>3 DEF GoodHandlers
<1>6. queue' \in Seq(GoodReadings) /\ Len(queue') <= Capacity /\ Runtime(busy')
  BY <1>4, <1>5, ContinueSound
<1>7. /\ Cache(snapshots')
      /\ last' \in [Points -> Values \cup {Null}] /\ LastInCache'
  <2>1. CASE value = Null
    <3>1. snapshots' = snapshots /\ last' = Kept(last, snapshots)
      BY <1>1, <2>1
    <3>2. last' = last
      BY <3>1 DEF Inductive, LastInCache, Kept
    <3> QED
      BY <3>1, <3>2 DEF Inductive, LastInCache
  <2>2. CASE value # Null
    <3>1. snapshots' = Set(snapshots, p, value, Null)
          /\ last' = Kept([last EXCEPT ![p] = Null], snapshots')
      BY <1>1, <2>2
    <3> QED
      BY <1>3, <2>2, <3>1, SetKeepsLast
  <2> QED
    BY <2>1, <2>2
<1> QED
  BY <1>1, <1>6, <1>7 DEF Inductive

\* No condition holds of a snapshot without a change.
LEMMA NoChangeNoHold ==
  ASSUME NEW s \in Snapshots, s.before = s.value
  PROVE  ~Holds(s)
<1>1. s.value \in Nat /\ s.before \in Nat /\ Threshold \in Nat /\ Null \notin Nat
  BY PipelineAssumption DEF Snapshots
<1> QED
  BY <1>1 DEF Holds

\* A handler calls for an event that matches what it has.
LEMMA JudgeSound ==
  ASSUME Inductive, NEW h \in busy, Judge(h)
  PROVE  Inductive'
<1> DEFINE matching == {e \in h.todo : Matches(h, e)}
<1>1. h \in GoodHandlers /\ UNCHANGED <<snapshots, last, pending, arrivals, restarts>>
  BY DEF Inductive, Runtime, Judge
<1>2. CASE End(h)
  BY <1>1, <1>2, EndSound, HandlerStep
<1>3. ASSUME NEW e \in matching, NEW passed \in SUBSET (h.todo \ matching),
             Continue(h, [h EXCEPT !.pc = "call", !.called = e, !.todo = @ \ ({e} \cup passed)])
      PROVE  Inductive'
  <2> DEFINE todo == h.todo \ ({e} \cup passed)
             next == [h EXCEPT !.pc = "call", !.called = e, !.todo = todo]
  <2>1. e \in Events /\ todo \subseteq Events /\ Matches(h, e)
    BY <1>1 DEF GoodHandlers
  <2>2. h.reading.repeats => e # {h.reading.point}
    <3> SUFFICES ASSUME h.reading.repeats, e = {h.reading.point} PROVE FALSE
      OBVIOUS
    <3>1. True(h, h.reading.point)
      BY <2>1 DEF Matches
    <3>2. Holds(h.reading.snapshot)
      BY <3>1 DEF True, Snapshot
    <3>3. h.reading.snapshot \in Snapshots /\ h.reading.snapshot.before = h.reading.snapshot.value
      BY <1>1 DEF GoodHandlers, GoodReadings, Readings
    <3> QED
      BY <3>2, <3>3, NoChangeNoHold
  <2>3. Continue(h, next)
    BY <1>3
  <2> HIDE DEF todo
  <2>4. next \in GoodHandlers /\ (next.slot => h.slot)
    BY <1>1, <2>1, <2>2 DEF GoodHandlers
  <2> QED
    BY <1>1, <2>3, <2>4, ContinueSound, HandlerStep
<1> QED
  BY <1>2, <1>3 DEF Judge

\* The call has answered, or the handler ends on an error.
LEMMA CalledSound ==
  ASSUME Inductive, NEW h \in busy, Called(h) \/ Fail(h)
  PROVE  Inductive'
<1>1. h \in GoodHandlers /\ UNCHANGED <<snapshots, last, pending, arrivals, restarts>>
  BY DEF Inductive, Runtime, Called, Fail
<1>2. CASE Fail(h)
  BY <1>1, <1>2, EndSound, HandlerStep DEF Fail
<1>3. CASE Called(h)
  <2> DEFINE next == [h EXCEPT !.pc = "judge", !.called = Null]
  <2>1. next \in GoodHandlers /\ (next.slot => h.slot)
    BY <1>1 DEF GoodHandlers
  <2>2. Continue(h, next)
    BY <1>3 DEF Called
  <2> QED
    BY <1>1, <2>1, <2>2, ContinueSound, HandlerStep
<1> QED
  BY <1>2, <1>3

\* The place of a handler that takes too long is given away.
LEMMA TimeOutSound ==
  ASSUME Inductive, NEW h \in busy, TimeOut(h)
  PROVE  Inductive'
<1>1. /\ UNCHANGED <<snapshots, last, pending, arrivals, restarts>>
      /\ Schedule(queue, (busy \ {h}) \cup {TimedOut(h)})
      /\ h \in GoodHandlers /\ h.slot
  BY DEF Inductive, Runtime, TimeOut
<1>2. TimedOut(h) \in GoodHandlers
  BY <1>1 DEF GoodHandlers, TimedOut
<1>3. Runtime((busy \ {h}) \cup {TimedOut(h)})
  BY <1>1, <1>2, HandlerGoesOn DEF Inductive
<1>4. queue' \in Seq(GoodReadings) /\ Len(queue') <= Capacity /\ Runtime(busy')
  BY <1>1, <1>3, ScheduleSound DEF Inductive
<1> QED
  BY <1>1, <1>4, HandlerStep

\* After a restart nothing is left of what was under way.
LEMMA RestartSound ==
  ASSUME Inductive, Restart
  PROVE  Inductive'
<1>1. Cache(snapshots') /\ queue' \in Seq(GoodReadings) /\ Len(queue') <= Capacity
  BY PipelineAssumption DEF Restart, Cache, Distinct
<1>2. last' \in [Points -> Values \cup {Null}] /\ LastInCache'
  BY DEF Restart, NoneLast, LastInCache
<1>3. Runtime(busy')
  BY NoHandlers DEF Restart
<1>4. arrivals' \in 0..MaxReadings /\ restarts' \in 0..MaxRestarts
  BY PipelineAssumption DEF Restart, Inductive
<1> QED
  BY <1>1, <1>2, <1>3, <1>4 DEF Restart, Inductive

\* Every step keeps the invariant.
LEMMA NextSound ==
  ASSUME Inductive, [Next]_vars
  PROVE  Inductive'
<1>1. ASSUME NEW r \in pending, Reject(r)
      PROVE  Inductive'
  BY <1>1 DEF Reject, Inductive, LastInCache
<1>2. CASE UNCHANGED vars
  BY <1>2 DEF vars, Inductive, LastInCache
<1> QED
  BY <1>1, <1>2, ArriveSound, SubmitSound, FetchedSound, JudgeSound, CalledSound,
     TimeOutSound, RestartSound
  DEF Next

-----------------------------------------------------------------------------
(* The theorems *)

\* In every reachable state the cache has one entry per point and what is the last
\* reading of a point, readings and handlers are as they should be.
THEOREM InductiveInvariant == Spec => []Inductive
<1> QED
  BY InitInductive, NextSound, PTL DEF Spec

\* The cache, the queue and the places of the runtime never exceed their bounds.
THEOREM TypeCorrect == Spec => []TypeOK
<1>1. ASSUME Inductive
      PROVE  TypeOK
  <2>1. snapshots \in Seq(Snapshots) /\ Len(snapshots) <= MaxEntries
        /\ Cardinality(PointsOf(snapshots)) = Len(snapshots)
    BY <1>1, CacheCount DEF Inductive, Cache
  <2>2. pending \subseteq Readings /\ Len(queue) <= Capacity
    BY <1>1 DEF Inductive, GoodReadings
  <2>3. queue \in Seq(Readings)
    <3>1. Len(queue) \in Nat /\ queue \in [1 .. Len(queue) -> GoodReadings]
      BY <1>1, LenProperties DEF Inductive
    <3>2. queue \in [1 .. Len(queue) -> Readings]
      BY <3>1 DEF GoodReadings
    <3> QED
      BY <3>1, <3>2, SeqDef
  <2>4. \A h \in busy :
          /\ h.reading \in Readings /\ h.todo \subseteq Events /\ h.missing \subseteq Points
          /\ h.called \in Events \cup {Null}
          /\ h.pc \in {"fetch", "judge", "call"} /\ h.slot \in BOOLEAN
    BY <1>1 DEF Inductive, Runtime, GoodHandlers, GoodReadings
  <2>5. Cardinality({h \in busy : h.slot}) <= Concurrency
    BY <1>1 DEF Inductive, Runtime, Slots
  <2> QED
    BY <1>1, <2>1, <2>2, <2>3, <2>4, <2>5 DEF TypeOK, Inductive
<1> QED
  BY <1>1, InductiveInvariant, PTL

\* A repeated reading triggers no event of its point alone, however long it has
\* waited and whatever has been read, fetched or thrown out since.
THEOREM RepeatsAreSilent == Spec => []RepeatsNeverTrigger
<1>1. Inductive => RepeatsNeverTrigger
  BY DEF Inductive, Runtime, GoodHandlers, RepeatsNeverTrigger
<1> QED
  BY <1>1, InductiveInvariant, PTL

=============================================================================
