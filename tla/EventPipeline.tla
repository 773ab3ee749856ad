---------------------------- MODULE EventPipeline ----------------------------
(***************************************************************************)
(* From a reading of a point to the call that triggers a station event.    *)
(* A reading updates the point's snapshot, value and value before, when it *)
(* arrives and takes a copy along; enrichment delays it, the bounded queue *)
(* drops the oldest when it is full, a handler judges it later and waits   *)
(* for the API in between, and a handler that takes too long loses its     *)
(* place but goes on.  An event is the set of the points that its          *)
(* conditions are about.                                                   *)
(*                                                                         *)
(* Source: the processor's pipeline/dispatcher.ts, runtime/                *)
(* bounded-runtime.ts, station-events/ and                                 *)
(* processors/station-events-processor.ts.  A message carries one reading, *)
(* one tag is fetched at a time, every condition has the same operator,    *)
(* and an event's actions name all points.                                 *)
(***************************************************************************)
EXTENDS Naturals, Sequences, FiniteSetsExt

CONSTANTS
  Points,
  Events,        \* that the processor has compiled
  AllOf,         \* events of which all conditions must hold; of the others any
  Operator, Threshold,
  Values,
  Befores,       \* values before this one that a gateway sends along, or Null
  Null,
  MaxEntries,    \* of the snapshot cache
  Capacity, Concurrency,
  MaxReadings, MaxRestarts

ASSUME PipelineAssumption ==
  /\ Events \subseteq SUBSET Points /\ AllOf \subseteq Events
  /\ Values \subseteq Nat /\ Befores \subseteq Values \cup {Null} /\ Threshold \in Nat /\ Null \notin Nat
  /\ {MaxEntries, Capacity, Concurrency} \subseteq Nat \ {0}
  /\ {MaxReadings, MaxRestarts} \subseteq Nat

VARIABLES
  snapshots, \* the cache, oldest entry first
  last,      \* value of each point's last reading, while the entry it wrote is there
  pending,   \* readings between their arrival and the queue
  queue,
  busy,      \* handlers
  arrivals,
  restarts

vars == <<snapshots, last, pending, queue, busy, arrivals, restarts>>

NoneLast == [p \in Points |-> Null]

Init ==
  /\ snapshots = <<>> /\ last = NoneLast
  /\ pending = {} /\ queue = <<>> /\ busy = {}
  /\ arrivals = 0 /\ restarts = 0

-----------------------------------------------------------------------------
(* Snapshots *)

Entry(c, p) == LET found == {i \in DOMAIN c : c[i].point = p}
               IN  IF found = {} THEN Null ELSE c[Min(found)]
PointsOf(c) == {c[i].point : i \in DOMAIN c}

\* snapshotWithFallback: the value before this one.
Before(c, p, value, before) ==
  IF p \in PointsOf(c) /\ Entry(c, p).value = value THEN value
  ELSE IF before # Null THEN before
  ELSE IF p \in PointsOf(c) THEN Entry(c, p).value ELSE Null

\* setSnapshot: an entry keeps its age, a new one pushes out the oldest.
Set(c, p, value, before) ==
  LET entry == [point |-> p, value |-> value, before |-> Before(c, p, value, before)]
  IN  IF p \in PointsOf(c)
      THEN [i \in DOMAIN c |-> IF c[i].point = p THEN entry ELSE c[i]]
      ELSE Append(IF Len(c) >= MaxEntries THEN Tail(c) ELSE c, entry)

Kept(l, c) == [p \in Points |-> IF p \in PointsOf(c) THEN l[p] ELSE Null]

\* evaluateConditionOp, for values that are numbers.
Holds(s) ==
  CASE Operator = "goes_above" ->
         s.value > Threshold /\ (s.before = Null \/ s.before <= Threshold)
    [] Operator = "goes_below" ->
         s.value < Threshold /\ (s.before = Null \/ s.before >= Threshold)
    [] Operator = "increments_up" -> s.before # Null /\ s.value > s.before
    [] Operator = "increments_down" -> s.before # Null /\ s.value < s.before
    [] Operator = "changes_to" -> s.value = Threshold /\ s.before # s.value
    [] Operator = "any_change" -> s.before # s.value
    [] OTHER -> FALSE

-----------------------------------------------------------------------------
(* Handlers *)

\* Mutant: the handler looks at the cache as it is when it runs.
SnapshotLive(h, p) == Entry(snapshots, p)

\* The reading's own snapshot is the one it took along.
Snapshot(h, p) == IF p = h.reading.point THEN h.reading.snapshot ELSE Entry(snapshots, p)

True(h, p) == Snapshot(h, p) # Null /\ Holds(Snapshot(h, p))

\* evaluateTrigger
Matches(h, e) ==
  IF e \in AllOf THEN \A p \in e : True(h, p) ELSE \E p \in e : True(h, p)

\* A handler knows its events, and what it has to fetch, when it starts.
Started(r) ==
  LET events == {e \in Events : r.point \in e}
      missing == IF events = {} THEN {} ELSE Points \ (PointsOf(snapshots) \cup {r.point})
  IN  [reading |-> r, todo |-> events, missing |-> missing, called |-> Null,
       pc |-> IF missing = {} THEN "judge" ELSE "fetch", slot |-> TRUE]

\* schedule: free places take what is first in the queue q.
Schedule(q, handlers) ==
  LET free == Concurrency - Cardinality({h \in handlers : h.slot})
      taken == Min({free, Len(q)})
  IN  /\ queue' = SubSeq(q, taken + 1, Len(q))
      /\ busy' = handlers \cup {Started(q[i]) : i \in 1..taken}

End(h) ==
  IF h.slot THEN Schedule(queue, busy \ {h}) ELSE busy' = busy \ {h} /\ UNCHANGED queue

Continue(h, next) == busy' = (busy \ {h}) \cup {next} /\ UNCHANGED queue

-----------------------------------------------------------------------------
(* Readings *)

\* upsertPointReading and the copy that the reading takes along.
Arrive ==
  \E p \in Points, value \in Values, before \in Befores :
    LET c == Set(snapshots, p, value, before)
    IN  /\ arrivals < MaxReadings
        /\ snapshots' = c
        /\ pending' = pending \cup
             {[n |-> arrivals + 1, point |-> p, snapshot |-> Entry(c, p),
               repeats |-> last[p] = value]}
        /\ last' = Kept([last EXCEPT ![p] = value], c)
        /\ arrivals' = arrivals + 1
        /\ UNCHANGED <<queue, busy, restarts>>

\* A strict preprocessor fails, or the runtime is shutting down.
Reject(r) ==
  /\ pending' = pending \ {r}
  /\ UNCHANGED <<snapshots, last, queue, busy, arrivals, restarts>>

\* Mutant: the queue grows.
PushedUnbounded(r) == Append(queue, r)

\* A full queue drops its oldest reading.
Pushed(r) == Append(IF Len(queue) >= Capacity THEN Tail(queue) ELSE queue, r)

\* submit: readings may overtake each other before it.
Submit(r) ==
  /\ pending' = pending \ {r}
  /\ Schedule(Pushed(r), busy)
  /\ UNCHANGED <<snapshots, last, arrivals, restarts>>

\* hydrateMissingTagSnapshots: the answer is written over what came meanwhile.
Fetched(h) ==
  \E p \in h.missing, value \in Values \cup {Null} :
    LET c == IF value = Null THEN snapshots ELSE Set(snapshots, p, value, Null)
        rest == h.missing \ {p}
    IN  /\ h.pc = "fetch"
        /\ snapshots' = c
        /\ last' = Kept(IF value = Null THEN last ELSE [last EXCEPT ![p] = Null], c)
        /\ Continue(h, [h EXCEPT !.missing = rest, !.pc = IF rest = {} THEN "judge" ELSE "fetch"])
        /\ UNCHANGED <<pending, arrivals, restarts>>

\* The events are judged one after the other up to the next that matches.
Judge(h) ==
  LET matching == {e \in h.todo : Matches(h, e)}
  IN  /\ h.pc = "judge"
      /\ IF matching = {} THEN End(h)
         ELSE \E e \in matching, passed \in SUBSET (h.todo \ matching) :
                Continue(h, [h EXCEPT !.pc = "call", !.called = e, !.todo = @ \ ({e} \cup passed)])
      /\ UNCHANGED <<snapshots, last, pending, arrivals, restarts>>

\* triggerEvent has answered.
Called(h) ==
  /\ h.pc = "call"
  /\ Continue(h, [h EXCEPT !.pc = "judge", !.called = Null])
  /\ UNCHANGED <<snapshots, last, pending, arrivals, restarts>>

\* A call fails: the handler ends, and its other events are left out.
Fail(h) ==
  /\ h.pc \in {"fetch", "call"}
  /\ End(h)
  /\ UNCHANGED <<snapshots, last, pending, arrivals, restarts>>

\* Mutant: the place of a handler that takes too long stays taken.
TimedOutKept(h) == h

TimedOut(h) == [h EXCEPT !.slot = FALSE]

\* withTimeout gives the place of the handler away; the handler goes on.
TimeOut(h) ==
  /\ h.slot
  /\ Schedule(queue, (busy \ {h}) \cup {TimedOut(h)})
  /\ UNCHANGED <<snapshots, last, pending, arrivals, restarts>>

\* The process ends, drained or not, and is started again.
Restart ==
  /\ restarts < MaxRestarts
  /\ snapshots' = <<>> /\ last' = NoneLast /\ pending' = {} /\ queue' = <<>> /\ busy' = {}
  /\ restarts' = restarts + 1
  /\ UNCHANGED arrivals

-----------------------------------------------------------------------------

Next ==
  \/ Arrive \/ Restart
  \/ \E r \in pending : Reject(r) \/ Submit(r)
  \/ \E h \in busy : Fetched(h) \/ Judge(h) \/ Called(h) \/ Fail(h) \/ TimeOut(h)

Spec == Init /\ [][Next]_vars

\* The timer of a handler fires, whatever the handler waits for.
FairSpec == Spec /\ WF_vars(\E h \in busy : TimeOut(h))

-----------------------------------------------------------------------------
(* Properties *)

Snapshots == [point: Points, value: Values, before: Values \cup {Null}]
Readings == [n: 1..MaxReadings, point: Points, snapshot: Snapshots, repeats: BOOLEAN]

\* Snapshots, readings and handlers stay in their types, and the cache, the
\* queue and the places of the runtime within their bounds.
TypeOK ==
  /\ snapshots \in Seq(Snapshots) /\ Len(snapshots) <= MaxEntries
  /\ Cardinality(PointsOf(snapshots)) = Len(snapshots)
  /\ last \in [Points -> Values \cup {Null}]
  /\ pending \subseteq Readings
  /\ queue \in Seq(Readings) /\ Len(queue) <= Capacity
  /\ \A h \in busy :
       /\ h.reading \in Readings /\ h.todo \subseteq Events /\ h.missing \subseteq Points
       /\ h.called \in Events \cup {Null}
       /\ h.pc \in {"fetch", "judge", "call"} /\ h.slot \in BOOLEAN
  /\ Cardinality({h \in busy : h.slot}) <= Concurrency
  /\ arrivals \in 0..MaxReadings /\ restarts \in 0..MaxRestarts

\* A reading that repeats the one before it triggers no event of its point,
\* whatever arrives until it is judged; the reading before it must still be in
\* the cache, neither pushed out nor fetched over.
RepeatsNeverTrigger ==
  \A h \in busy : h.pc = "call" /\ h.reading.repeats => h.called # {h.reading.point}

\* When no more readings come the queue drains, though every handler may hang.
QueueDrains == <>[](queue = <<>>)

-----------------------------------------------------------------------------
(* What the code does not guarantee: TLC refutes each of these. *)

\* An event with conditions on two points is triggered by changes only: it is
\* judged by the other point's last change, however old, and matches again.
OnlyChangesTrigger == \A h \in busy : h.pc = "call" => ~h.reading.repeats

\* No more handlers run at a time than the runtime has places.
HandlersWithinConcurrency == Cardinality(busy) <= Concurrency

=============================================================================
