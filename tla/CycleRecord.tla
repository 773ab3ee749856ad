----------------------------- MODULE CycleRecord -----------------------------
(***************************************************************************)
(* The Cycle rows of one station.  An immediate completion inserts a whole *)
(* cycle; an open-close completion closes the open ones, makes their       *)
(* inventory and opens a new one.  Ten workers complete cycles at once,    *)
(* each in a transaction under READ COMMITTED: every statement sees what   *)
(* was committed before it, and an update waits for the rows that another  *)
(* transaction has updated and then looks at them again.                   *)
(*                                                                         *)
(* Source: cycle/cycle.ts.  What a cycle does to the state log is in       *)
(* StationLog, what it does to material in MaterialUsage.                  *)
(***************************************************************************)
EXTENDS Integers, Sequences, FiniteSets

CONSTANTS
  Immediate,  \* completions with keepOpen = FALSE, replayed or not
  OpenClose,  \* live completions with keepOpen = TRUE
  Replays,    \* replayed completions with keepOpen = TRUE
  Null,
  MaxLag,     \* how late the timestamp of a completion may be
  MaxTime,    \* bound on the clock
  MaxCycles   \* no completion starts with this many cycles on record

Proc == Immediate \cup OpenClose \cup Replays

ASSUME CycleBounds == {MaxLag, MaxTime, MaxCycles} \subseteq Nat
ASSUME CycleNull == Null \notin Nat /\ Null \notin Proc
ASSUME CycleProcs == Immediate \cap (OpenClose \cup Replays) = {} /\ OpenClose \cap Replays = {}

VARIABLES
  clock,
  cycles,  \* the committed rows; a row's id is its position
  made,    \* made[i]: how often the inventory of cycle i was created
  lock,    \* holder of the station's advisory lock, or Null
  tx       \* what each transaction has read and written so far

vars == <<clock, cycles, made, lock, tx>>

Cycle == [start: Nat, end: Nat \cup {Null}]
Steps == {"idle", "first", "make", "close", "lock", "insert"}

\* ts: the timestamp.  start: of the cycle to insert.  open: the open cycles
\* that were found.  todo: those the update still has to lock.  mine: those it
\* has locked and closed.  zero: the station's zero cycle is created.
NoTx == [step |-> "idle", ts |-> 0, start |-> 0, open |-> {}, todo |-> {},
         mine |-> {}, zero |-> FALSE]

Init ==
  /\ clock = 0
  /\ cycles = <<>> /\ made = <<>>
  /\ lock = Null
  /\ tx = [p \in Proc |-> NoTx]

Open == {i \in DOMAIN cycles : cycles[i].end = Null}
Ended == DOMAIN cycles \ Open

Recent(t) == t <= clock /\ clock <= t + MaxLag
MayBegin(p) == tx[p].step = "idle" /\ Len(cycles) < MaxCycles

-----------------------------------------------------------------------------
(* Immediate completions *)

LatestEnd == {e \in {cycles[i].end : i \in Ended} : \A i \in Ended : cycles[i].end <= e}

\* When the new cycle starts: the end of the cycle that ended last, if any.
PrevEnd(t) == IF Ended = {} THEN {t} ELSE LatestEnd

\* completeImmediate: the statement looks for the previous cycle in the
\* snapshot it takes before it waits for the lock.
BeginImmediate(p) ==
  /\ MayBegin(p)
  /\ \E t \in 0 .. MaxTime : \E start \in PrevEnd(t) :
       /\ Recent(t)
       /\ tx' = [tx EXCEPT ![p] =
            [NoTx EXCEPT !.step = "lock", !.ts = t, !.start = start]]
  /\ UNCHANGED <<clock, cycles, made, lock>>

-----------------------------------------------------------------------------
(* Open-close completions *)

\* The open cycles are read.
BeginOpenClose(p) ==
  /\ MayBegin(p)
  /\ \E t \in 0 .. MaxTime :
       /\ Recent(t)
       /\ tx' = [tx EXCEPT ![p] =
            [NoTx EXCEPT !.step = IF Open = {} THEN "first" ELSE "make",
                         !.ts = t, !.open = Open]]
  /\ UNCHANGED <<clock, cycles, made, lock>>

AfterClosing(p) == IF p \in OpenClose THEN "lock" ELSE "insert"

\* There was none open: a station that has no cycle at all gets a zero cycle.
LookForFirst(p) ==
  /\ tx[p].step = "first"
  /\ tx' = [tx EXCEPT ![p].zero = cycles = <<>>, ![p].step = AfterClosing(p)]
  /\ UNCHANGED <<clock, cycles, made, lock>>

\* Inventory was made for the open cycles that were read; now an update closes
\* the ones that are open.
StartClosing(p) ==
  /\ tx[p].step = "make"
  /\ tx' = [tx EXCEPT ![p].step = "close", ![p].todo = Open]
  /\ UNCHANGED <<clock, cycles, made, lock>>

Locked(i) == \E q \in Proc : i \in tx[q].mine

\* Mutant: a row that was closed meanwhile is closed again.
LockCycleStale(p) ==
  /\ tx[p].step = "close"
  /\ \E i \in tx[p].todo :
       /\ ~Locked(i)
       /\ tx' = [tx EXCEPT ![p].todo = @ \ {i}, ![p].mine = @ \cup {i}]
  /\ UNCHANGED <<clock, cycles, made, lock>>

\* The update comes to a row, and skips it when it was closed meanwhile.
LockCycle(p) ==
  /\ tx[p].step = "close"
  /\ \E i \in tx[p].todo :
       /\ ~Locked(i)
       /\ tx' = [tx EXCEPT ![p].todo = @ \ {i},
                           ![p].mine = IF i \in Open THEN @ \cup {i} ELSE @]
  /\ UNCHANGED <<clock, cycles, made, lock>>

EndClosing(p) ==
  /\ tx[p].step = "close" /\ tx[p].todo = {}
  /\ tx' = [tx EXCEPT ![p].step = AfterClosing(p)]
  /\ UNCHANGED <<clock, cycles, made, lock>>

-----------------------------------------------------------------------------

\* The station's lock: in the statement of an immediate completion, and in the
\* transitionToUp of a live open-close one.
Acquire(p) ==
  /\ tx[p].step = "lock"
  /\ lock = Null /\ lock' = p
  /\ tx' = [tx EXCEPT ![p].step = "insert"]
  /\ UNCHANGED <<clock, cycles, made>>

End(p) ==
  /\ tx' = [tx EXCEPT ![p] = NoTx]
  /\ lock' = IF lock = p THEN Null ELSE lock
  /\ UNCHANGED clock

\* The rows p inserts: a whole cycle, or a new open one after the zero cycle.
Inserted(p) ==
  IF p \in Immediate THEN <<[start |-> tx[p].start, end |-> tx[p].ts]>>
  ELSE (IF tx[p].zero THEN <<[start |-> tx[p].ts, end |-> tx[p].ts]>> ELSE <<>>)
       \o <<[start |-> tx[p].ts, end |-> Null]>>

\* Mutant: every inserted cycle gets its inventory at once.
MadeForAll(rows) == [i \in DOMAIN rows |-> 1]

\* A cycle that is inserted with its end gets its inventory at once.
MadeFor(rows) == [i \in DOMAIN rows |-> IF rows[i].end = Null THEN 0 ELSE 1]

Commit(p) ==
  /\ tx[p].step = "insert"
  /\ cycles' = [i \in DOMAIN cycles |->
                  IF i \in tx[p].mine THEN [cycles[i] EXCEPT !.end = tx[p].ts] ELSE cycles[i]]
               \o Inserted(p)
  /\ made' = [i \in DOMAIN made |-> IF i \in tx[p].open THEN made[i] + 1 ELSE made[i]]
             \o MadeFor(Inserted(p))
  /\ End(p)

\* Mutant: the inventory is made outside the transaction, and stays.
AbortKeepsItems(p) ==
  /\ tx[p].step # "idle"
  /\ made' = [i \in DOMAIN made |->
       IF i \in tx[p].open /\ tx[p].step # "make" THEN made[i] + 1 ELSE made[i]]
  /\ End(p)
  /\ UNCHANGED cycles

\* A statement fails, the process dies, or Postgres breaks a deadlock.
Abort(p) ==
  /\ tx[p].step # "idle"
  /\ End(p)
  /\ UNCHANGED <<cycles, made>>

Tick ==
  /\ clock < MaxTime
  /\ clock' = clock + 1
  /\ UNCHANGED <<cycles, made, lock, tx>>

Next ==
  \/ Tick
  \/ \E p \in Immediate : BeginImmediate(p)
  \/ \E p \in OpenClose \cup Replays :
       \/ BeginOpenClose(p) \/ LookForFirst(p)
       \/ StartClosing(p) \/ LockCycle(p) \/ EndClosing(p)
  \/ \E p \in Proc : Acquire(p) \/ Commit(p) \/ Abort(p)

Spec == Init /\ [][Next]_vars

-----------------------------------------------------------------------------
(* Properties *)

\* Every row has its count of inventory, and transactions only hold rows that
\* exist.
TypeOK ==
  /\ clock \in Nat
  /\ cycles \in Seq(Cycle) /\ made \in Seq(Nat)
  /\ DOMAIN made = DOMAIN cycles
  /\ lock \in Proc \cup {Null}
  /\ tx \in [Proc -> [step: Steps, ts: Nat, start: Nat, open: SUBSET (DOMAIN cycles),
                      todo: SUBSET (DOMAIN cycles), mine: SUBSET (DOMAIN cycles),
                      zero: BOOLEAN]]

\* A completed cycle keeps its start and its end, whatever stale reads the
\* completions that wait for it come from.
CompletedCyclesFrozen ==
  [][\A i \in Ended : cycles'[i] = cycles[i]]_cycles

\* A cycle that is still open has made nothing: whoever makes its inventory
\* closes it in the same transaction, or finds that another one has closed it.
OpenCyclesMadeNothing == \A i \in Open : made[i] = 0

\* Two transactions never close the same cycle, and what a transaction is
\* closing is open: why completed cycles stay as they are.
ClosersHoldOpenCycles ==
  \A p \in Proc :
    /\ tx[p].mine \subseteq Open
    /\ \A q \in Proc : p # q => tx[p].mine \cap tx[q].mine = {}

\* The cycles a transaction makes inventory for are, from its update on, closed
\* by somebody or about to be closed by it.
MakersClose ==
  \A p \in Proc :
    /\ tx[p].step \in {"close", "lock", "insert"} =>
         tx[p].open \subseteq Ended \cup tx[p].todo \cup tx[p].mine
    /\ tx[p].step # "close" => tx[p].todo = {}
    /\ tx[p].step = "first" => tx[p].open = {}

Inductive ==
  TypeOK /\ ClosersHoldOpenCycles /\ MakersClose /\ OpenCyclesMadeNothing

\* The inventory of a cycle that was left open is made, once, when a later
\* completion closes it.
ClosedCyclesMadeItemsOnce == \A i \in Ended : made[i] = 1

\* Open-close completions take turns; immediate ones come whenever they like.
Turns ==
  \A p, q \in OpenClose \cup Replays :
    tx[p].step # "idle" /\ tx[q].step # "idle" => p = q

\* What open-close completions that take turns promise, whichever of them are
\* rolled back half-way: a completed cycle has its inventory, and has it once.
TurnsMakeItemsOnce == []Turns => []ClosedCyclesMadeItemsOnce

-----------------------------------------------------------------------------
(* What the code does not guarantee: TLC refutes this, and, as an invariant,  *)
(* ClosedCyclesMadeItemsOnce.                                                 *)

\* A cycle starts where the previous one ended: two cycles of a station that
\* immediate completions recorded never overlap.
CyclesConsecutive ==
  \A i, j \in Ended : i # j =>
    cycles[i].end <= cycles[j].start \/ cycles[j].end <= cycles[i].start

=============================================================================
