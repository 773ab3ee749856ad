----------------------------- MODULE StationLog -----------------------------
(***************************************************************************)
(* The state log of one station: the StationStateLog rows that say when    *)
(* the machine was UP, SLOW or DOWN, and every transaction that writes     *)
(* them.  Cycle completions, the slow and down detection timers, the       *)
(* split of a downtime, the assignment of a downtime reason and the        *)
(* reconciliation of replayed cycles run concurrently, under READ          *)
(* COMMITTED, in several processes.  A transaction is a snapshot of what   *)
(* it read, the station's advisory lock, and one commit.                   *)
(*                                                                         *)
(* Source: packages/services/src/facility/station/state.ts, cycle/cycle.ts *)
(* and cycle/replay.ts.  The length of a cycle is not kept here: whether   *)
(* it exceeded the slow threshold is an input of the completion.           *)
(***************************************************************************)
EXTENDS Integers, Sequences

CONSTANTS
  Consumers,    \* processes that complete cycles
  Timers,       \* detection workers that run the slow and down jobs
  Operators,    \* people who split downtimes and assign reasons
  Reconcilers,  \* replay reconciliation workers
  Reasons,      \* status reasons a downtime can be given
  Scopes,       \* "block": applyToBlock, "row": one entry only
  Null,         \* SQL NULL, and "no process", "no row", "no window"
  Margin,       \* SPLIT_MIN_MARGIN_MINUTES
  MaxLag,       \* how late the timestamp of a live cycle may be
  MaxTime,      \* bound on the clock
  MaxRows       \* no transaction that adds rows starts above this many

Proc == Consumers \cup Timers \cup Operators \cup Reconcilers

ASSUME NullAssumption ==
  /\ Null \notin Nat
  /\ Null \notin Proc
  /\ Null \notin Reasons
ASSUME BoundAssumption ==
  /\ Margin \in Nat
  /\ MaxLag \in Nat
  /\ MaxTime \in Nat
  /\ MaxRows \in Nat
ASSUME ScopeAssumption == Scopes \subseteq {"block", "row"}

VARIABLES
  clock,      \* the database's and the workers' time
  lock,       \* holder of pg_advisory_xact_lock(station), or Null
  log,        \* the station's rows; a row's id is its position
  nextBlock,  \* the next blockId randomUUID() returns
  window,     \* the replay window in Redis, or Null
  tx,         \* what each process's transaction has read
  rejected    \* operations the one-open-row index has rolled back

vars == <<clock, lock, log, nextBlock, window, tx, rejected>>

Row == [start: Nat, end: Nat \cup {Null}, state: {"UP", "DOWN"},
        status: {"UP", "SLOW", "DOWN"}, block: Nat,
        reason: Reasons \cup {Null}, deleted: BOOLEAN]

ASSUME RowAssumption == Null \notin Row

Ops == {"cycle", "openclose", "slow", "down", "split", "reason", "reconcile"}

\* A transaction: its input timestamps, the row it read and that row's id.
Tx == [op: Ops \cup {"none"}, step: {"idle", "wait", "held"},
       ts: Nat, hi: Nat, id: Nat, seen: Row \cup {Null}]

Idle == [op |-> "none", step |-> "idle", ts |-> 0, hi |-> 0,
         id |-> 0, seen |-> Null]

-----------------------------------------------------------------------------
(* Rows *)

IsLive(r) == ~r.deleted
IsOpen(r) == r.end = Null /\ IsLive(r)

OpenIds(l) == {i \in DOMAIN l : IsOpen(l[i])}

\* findOpenStateEntry: the open row with the latest start; 0 when there is none.
OpenId(l) ==
  IF OpenIds(l) = {} THEN 0
  ELSE CHOOSE i \in OpenIds(l) :
         \A j \in OpenIds(l) : l[j].start <= l[i].start

RowAt(l, i) == IF i = 0 THEN Null ELSE l[i]

\* Mutant: the close is stamped a tick after the timestamp it is given.
CloseOpenLate(l, t) ==
  [i \in DOMAIN l |-> IF IsOpen(l[i]) THEN [l[i] EXCEPT !.end = t + 1] ELSE l[i]]

\* closeOpenStateEntries
CloseOpen(l, t) ==
  [i \in DOMAIN l |-> IF IsOpen(l[i]) THEN [l[i] EXCEPT !.end = t] ELSE l[i]]

\* createStateEntry: a new open row.
NewRow(t, state, status, block) ==
  [start |-> t, end |-> Null, state |-> state, status |-> status,
   block |-> block, reason |-> Null, deleted |-> FALSE]

-----------------------------------------------------------------------------
(* What each transaction writes: the log after it, from the log l it finds, *)
(* the record t of what it read and the blockId b it would generate.        *)

\* Mutant: no new blockId is generated.
UpBlockMissing(t, b) ==
  IF t.seen # Null /\ t.seen.state = "UP" THEN t.seen.block ELSE Null

\* A block goes on while the station stays UP, as far as the row read says.
UpBlock(t, b) ==
  IF t.seen # Null /\ t.seen.state = "UP" THEN t.seen.block ELSE b

\* Mutant: only the row that was read is closed, by its id.
CycleLogById(l, t, b, slow) ==
  Append(IF t.seen = Null THEN l ELSE [l EXCEPT ![t.id].end = t.ts],
         NewRow(t.ts, "UP", IF slow THEN "SLOW" ELSE "UP", UpBlock(t, b)))

\* transitionToUp, and the statements of completeImmediate that repeat it.
CycleLog(l, t, b, slow) ==
  Append(CloseOpen(l, t.ts),
         NewRow(t.ts, "UP", IF slow THEN "SLOW" ELSE "UP", UpBlock(t, b)))

\* Mutant: the check that downtime supersedes slow is dropped.
SlowLogUnchecked(l, t, b) ==
  IF t.seen = Null
  THEN Append(l, NewRow(t.ts, "UP", "SLOW", b))
  ELSE [l EXCEPT ![t.id].status = "SLOW"]

\* transitionToSlow
SlowLog(l, t, b) ==
  IF t.seen = Null
  THEN Append(l, NewRow(t.ts, "UP", "SLOW", b))
  ELSE IF t.seen.state = "DOWN" \/ t.seen.status = "SLOW"
       THEN l
       ELSE [l EXCEPT ![t.id].status = "SLOW"]

\* Mutants: the downtime keeps its UP block; it starts when the timer fires.
ConvertSameBlock(l, t, b) ==
  [i \in DOMAIN l |->
     IF i = t.id THEN [l[i] EXCEPT !.state = "DOWN", !.status = "DOWN"] ELSE l[i]]
ConvertFromNow(l, t, b) ==
  [i \in DOMAIN l |->
     IF i = t.id
     THEN [l[i] EXCEPT !.state = "DOWN", !.status = "DOWN", !.block = b, !.start = t.ts]
     ELSE l[i]]

\* The open row becomes the downtime: it keeps its start, the last cycle.
\* Other open rows would be orphans, and are closed.
Convert(l, t, b) ==
  [i \in DOMAIN l |->
     IF i = t.id
     THEN [l[i] EXCEPT !.state = "DOWN", !.status = "DOWN", !.block = b]
     ELSE IF IsOpen(l[i]) THEN [l[i] EXCEPT !.end = t.ts] ELSE l[i]]

\* transitionToDown
DownLog(l, t, b) ==
  IF t.seen = Null
  THEN Append(l, NewRow(t.ts, "DOWN", "DOWN", b))
  ELSE IF t.seen.state = "DOWN" THEN l ELSE Convert(l, t, b)

\* The entry is cut at t.ts and its second half copied from the row as read.
SplitLog(l, t) ==
  Append([l EXCEPT ![t.id].end = t.ts],
         [t.seen EXCEPT !.start = t.ts])

\* Both halves keep the margin; an open entry ends now.
SplitAllowed(t, now) ==
  /\ t.ts >= t.seen.start + Margin
  /\ t.ts <= (IF t.seen.end = Null THEN now ELSE t.seen.end) - Margin

\* assignDowntimeReason: one updateMany, over the block or over one id.
ReasonLog(l, t, scope, reason) ==
  [i \in DOMAIN l |->
     IF /\ IsLive(l[i])
        /\ \/ scope = "block" /\ l[i].block = t.seen.block /\ l[i].state = "DOWN"
           \/ scope = "row" /\ i = t.id
     THEN [l[i] EXCEPT !.reason = reason]
     ELSE l[i]]

\* fixStateEntries: every row that overlaps the window, or is open, goes.
InWindow(r, t) ==
  \/ r.end = Null
  \/ r.start <= t.hi /\ r.end >= t.ts

Purged(l, t) ==
  [i \in DOMAIN l |->
     IF IsLive(l[i]) /\ InWindow(l[i], t)
     THEN [l[i] EXCEPT !.deleted = TRUE] ELSE l[i]]

\* Mutant: the station is left without an open row.
ReconcileLogClosed(l, t, b) ==
  Append(Purged(l, t), [NewRow(t.ts, "UP", "UP", b) EXCEPT !.end = t.hi])

ReconcileLog(l, t, b) ==
  Append(Append(Purged(l, t), [NewRow(t.ts, "UP", "UP", b) EXCEPT !.end = t.hi]),
         NewRow(t.hi, "UP", "UP", b))

-----------------------------------------------------------------------------
(* Transactions *)

Init ==
  /\ clock = 0
  /\ lock = Null
  /\ log = <<>>
  /\ nextBlock = 1
  /\ window = Null
  /\ tx = [p \in Proc |-> Idle]
  /\ rejected = {}

IsIdle(p) == tx[p].op = "none"
HasRoom == Len(log) < MaxRows

\* p's transaction starts; for the operations that read a row before they
\* wait for the lock, seen is that row.
Begin(p, op, step, ts, hi, id) ==
  /\ IsIdle(p)
  /\ tx' = [tx EXCEPT ![p] = [op |-> op, step |-> step, ts |-> ts, hi |-> hi,
                              id |-> id, seen |-> RowAt(log, id)]]

\* The timestamp of a live cycle: the event's, which may lag the clock.
Recent(t) == t <= clock /\ clock <= t + MaxLag

\* completeImmediate: one statement takes its snapshot of the open row and
\* then waits for the lock.
BeginCycle(p) ==
  /\ HasRoom
  /\ \E t \in 0 .. MaxTime :
       Recent(t) /\ Begin(p, "cycle", "wait", t, 0, OpenId(log))
  /\ UNCHANGED <<clock, lock, log, nextBlock, window, rejected>>

\* completeOpenClose: transitionToUp reads the open row under the lock.
BeginOpenClose(p) ==
  /\ HasRoom
  /\ \E t \in 0 .. MaxTime :
       Recent(t) /\ Begin(p, "openclose", "wait", t, 0, 0)
  /\ UNCHANGED <<clock, lock, log, nextBlock, window, rejected>>

\* A slow or down job fires: its timestamp is the worker's clock.
BeginTimer(p) ==
  /\ \E op \in {"slow", "down"} : Begin(p, op, "wait", clock, 0, 0)
  /\ UNCHANGED <<clock, lock, log, nextBlock, window, rejected>>

\* splitDownEntry reads the entry, which must be a live DOWN one, before
\* it waits for the lock.
BeginSplit(p) ==
  /\ HasRoom
  /\ \E i \in DOMAIN log, t \in 0 .. MaxTime :
       /\ IsLive(log[i]) /\ log[i].state = "DOWN"
       /\ Begin(p, "split", "wait", t, 0, i)
  /\ UNCHANGED <<clock, lock, log, nextBlock, window, rejected>>

\* assignDowntimeReason reads the entry and takes no lock.
BeginReason(p) ==
  /\ \E i \in DOMAIN log :
       /\ IsLive(log[i]) /\ log[i].state = "DOWN"
       /\ Begin(p, "reason", "held", 0, 0, i)
  /\ UNCHANGED <<clock, lock, log, nextBlock, window, rejected>>

\* reconcileReplay: GETDEL of the window, before the transaction.
BeginReconcile(p) ==
  /\ HasRoom
  /\ window # Null
  /\ Begin(p, "reconcile", "wait", window.min, window.max, 0)
  /\ window' = Null
  /\ UNCHANGED <<clock, lock, log, nextBlock, rejected>>

\* The operations that look for the open row once they hold the lock.
ReadsUnderLock(op) == op \in {"openclose", "slow", "down"}

\* Mutant: the advisory lock is not taken.
LockIgnored == TRUE

LockIsFree == lock = Null

\* acquireStationLock
Acquire(p) ==
  /\ tx[p].step = "wait"
  /\ LockIsFree
  /\ lock' = p
  /\ tx' = [tx EXCEPT ![p].step = "held",
       ![p].id = IF ReadsUnderLock(tx[p].op) THEN OpenId(log) ELSE @,
       ![p].seen = IF ReadsUnderLock(tx[p].op) THEN RowAt(log, OpenId(log)) ELSE @]
  /\ UNCHANGED <<clock, log, nextBlock, window, rejected>>

\* The partial unique index: one live open row per station.
Conflict(l) == \E i, j \in OpenIds(l) : i # j

\* p's transaction ends with the log l, or is rolled back by the index.
\* Only the holder's lock is released.
End(p, l) ==
  /\ IF Conflict(l)
     THEN /\ rejected' = rejected \cup {tx[p].op}
          /\ UNCHANGED <<log, nextBlock>>
     ELSE /\ log' = l
          /\ nextBlock' = IF \E i \in DOMAIN l : l[i].block = nextBlock
                          THEN nextBlock + 1 ELSE nextBlock
          /\ UNCHANGED rejected
  /\ tx' = [tx EXCEPT ![p] = Idle]
  /\ lock' = IF lock = p THEN Null ELSE lock
  /\ UNCHANGED <<clock, window>>

Ready(p, op) == tx[p].op = op /\ tx[p].step = "held"

CommitUp(p) ==
  /\ Ready(p, "cycle") \/ Ready(p, "openclose")
  /\ \E slow \in BOOLEAN : End(p, CycleLog(log, tx[p], nextBlock, slow))

CommitSlow(p) == Ready(p, "slow") /\ End(p, SlowLog(log, tx[p], nextBlock))

CommitDown(p) == Ready(p, "down") /\ End(p, DownLog(log, tx[p], nextBlock))

CommitSplit(p) ==
  /\ Ready(p, "split")
  /\ End(p, IF SplitAllowed(tx[p], clock) THEN SplitLog(log, tx[p]) ELSE log)

CommitReason(p) ==
  /\ Ready(p, "reason")
  /\ \E scope \in Scopes, reason \in Reasons \cup {Null} :
       End(p, ReasonLog(log, tx[p], scope, reason))

CommitReconcile(p) ==
  /\ Ready(p, "reconcile")
  /\ End(p, ReconcileLog(log, tx[p], nextBlock))

\* The process dies or a statement fails: the transaction is rolled back.
Fail(p) == ~IsIdle(p) /\ End(p, log)

\* trackReplayedCycle: the Lua script widens the station's window.
TrackReplayed ==
  /\ \E t \in 0 .. MaxTime :
       /\ t <= clock
       /\ window' = IF window = Null THEN [min |-> t, max |-> t]
                    ELSE [min |-> IF t < window.min THEN t ELSE window.min,
                          max |-> IF t > window.max THEN t ELSE window.max]
  /\ UNCHANGED <<clock, lock, log, nextBlock, tx, rejected>>

Tick ==
  /\ clock < MaxTime
  /\ clock' = clock + 1
  /\ UNCHANGED <<lock, log, nextBlock, window, tx, rejected>>

Commit(p) ==
  \/ CommitUp(p) \/ CommitSlow(p) \/ CommitDown(p)
  \/ CommitSplit(p) \/ CommitReason(p) \/ CommitReconcile(p)

Next ==
  \/ Tick
  \/ Reconcilers # {} /\ TrackReplayed  \* idle without a reconciler
  \/ \E p \in Consumers : BeginCycle(p) \/ BeginOpenClose(p)
  \/ \E p \in Timers : BeginTimer(p)
  \/ \E p \in Operators : BeginSplit(p) \/ BeginReason(p)
  \/ \E p \in Reconcilers : BeginReconcile(p)
  \/ \E p \in Proc : Acquire(p) \/ Commit(p) \/ Fail(p)

Spec == Init /\ [][Next]_vars

-----------------------------------------------------------------------------
(* Properties *)

Window == [min: Nat, max: Nat]

\* The type invariant.
TypeOK ==
  /\ clock \in Nat
  /\ lock \in Proc \cup {Null}
  /\ log \in Seq(Row)
  /\ nextBlock \in Nat
  /\ window \in Window \cup {Null}
  /\ tx \in [Proc -> Tx]
  /\ rejected \subseteq Ops

\* Once a station has a state log, it always has exactly one live open row:
\* findOpenStateEntry never misses the current state and never has to choose.
CurrentStateUnique ==
  log # <<>> => \E i \in OpenIds(log) : OpenIds(log) = {i}

\* The index that forbids a second open row never fails a cycle, a timer or a
\* reconciliation: only the split of an entry that changed since it was read.
OnlyStaleSplitsRejected == rejected \subseteq {"split"}

RowConsistent(r) ==
  /\ r.state = "DOWN" <=> r.status = "DOWN"
  /\ r.reason # Null => r.state = "DOWN"

\* status refines state: an UP row is UP or SLOW, a DOWN row is DOWN, and a
\* downtime reason is on DOWN rows only, whatever stale reads they come from.
RowsConsistent == \A i \in DOMAIN log : RowConsistent(log[i])

\* A block never mixes UP and DOWN rows, so a reason given to a block reaches
\* a downtime and nothing else.
BlockUniform ==
  \A i, j \in DOMAIN log :
    log[i].block = log[j].block => log[i].state = log[j].state

\* History is not rewritten: once a row is closed, no step changes its start,
\* state, status or block, and a deleted row stays deleted.
ClosedRowsFrozen ==
  [][\A i \in DOMAIN log :
       /\ log[i].end # Null =>
            /\ log'[i].start = log[i].start
            /\ log'[i].state = log[i].state
            /\ log'[i].status = log[i].status
            /\ log'[i].block = log[i].block
            /\ log'[i].end # Null
       /\ log[i].deleted => log'[i].deleted]_log

Covers(r, t) == r.start <= t /\ (r.end = Null \/ t < r.end)

Partition(l) ==
  \A t \in 0 .. MaxTime : \A i, j \in DOMAIN l :
    IsLive(l[i]) /\ IsLive(l[j]) /\ Covers(l[i], t) /\ Covers(l[j], t) => i = j

\* The entry has been deleted, or its end moved, since the transaction read it.
EntryMoved(t) == ~IsLive(log[t.id]) \/ log[t.id].end # t.seen.end

\* A row is written that starts before the current one.
LateRow ==
  \E i \in OpenIds(log), j \in DOMAIN log' \ DOMAIN log : log'[j].start < log[i].start

\* Rows written in the order of their timestamps never overlap: a step that
\* breaks the partition writes a row that starts before the current one, or
\* splits an entry that is no longer as it was read.
OnlyLateOrStaleOverlap ==
  [][Partition(log) /\ ~Partition(log')
       => LateRow \/ \E p \in Proc : CommitSplit(p) /\ EntryMoved(tx[p])]_log

\* Nothing is late and no split is stale; splits of past entries are no harm.
WrittenInOrder ==
  [][\A p \in Proc :
       IF CommitSplit(p) THEN ~EntryMoved(tx[p]) ELSE Commit(p) => ~LateRow]_log

-----------------------------------------------------------------------------
(* Refinement *)

Station == INSTANCE CurrentState WITH
  Instants <- 0 .. MaxTime,
  status <- IF OpenId(log) = 0 THEN "NONE" ELSE log[OpenId(log)].status,
  since <- IF OpenId(log) = 0 THEN 0 ELSE log[OpenId(log)].start

\* With all its snapshots, waits and rollbacks, the log behaves towards its
\* readers as one current state that changes atomically: no stale write ever
\* turns DOWN into SLOW, moves the start of a period or loses it.
ImplementsCurrentState == Station!Spec

-----------------------------------------------------------------------------
(* The inductive invariant behind the first four properties. *)

\* What a stale snapshot still says of the row it was taken from: a downtime
\* is never undone and a closed row never reopened.
SnapshotHolds(l, t) ==
  t.seen # Null =>
    /\ t.id \in DOMAIN l
    /\ RowConsistent(t.seen) /\ IsLive(t.seen)
    /\ t.seen.state = "DOWN" => l[t.id].state = "DOWN"
    /\ t.seen.end # Null => l[t.id].end # Null

\* What the lock protects: the open row read under it is still the open row.
ReadIsCurrent(l, t) ==
  IF t.seen = Null THEN OpenIds(l) = {}
  ELSE IsOpen(l[t.id]) /\ l[t.id].state = t.seen.state

HoldsLock(p) == tx[p].step = "held" /\ tx[p].op # "reason"

\* What a transaction has read is good for what it writes with it: a row read
\* under the lock is still the open row, a row read before it has at most been
\* closed, cut or turned DOWN since.
TransactionsSound ==
  \A p \in Proc :
    /\ SnapshotHolds(log, tx[p])
    /\ HoldsLock(p) => lock = p
    /\ HoldsLock(p) /\ ReadsUnderLock(tx[p].op) => ReadIsCurrent(log, tx[p])
    /\ tx[p].op \in {"split", "reason"} =>
         tx[p].seen # Null /\ tx[p].seen.state = "DOWN"

\* Strong enough to be kept by every step.
Inductive ==
  /\ TypeOK
  /\ RowsConsistent
  /\ CurrentStateUnique
  /\ OnlyStaleSplitsRejected
  /\ TransactionsSound

-----------------------------------------------------------------------------
(* What the code does not guarantee: TLC refutes each of these. *)

\* No instant is in two live rows, so the durations the metrics add up count
\* it once: what the comment on acquireStationLock promises, and what holds
\* where WrittenInOrder.
NoOverlap == Partition(log)

\* Replacing the rows of a replay window leaves no instant in two live rows,
\* those the live cycles after the window have written included.
ReconcileKeepsPartition ==
  [][\A p \in Proc : CommitReconcile(p) /\ Partition(log) => Partition(log')]_vars

\* The two entries a split makes are consecutive, so it causes no overlap.
SplitKeepsPartition ==
  [][\A p \in Proc : CommitSplit(p) /\ Partition(log) => Partition(log')]_vars

\* A cycle that ends a downtime starts a new block: after DOWN, the UP row does
\* not go on with the block of an earlier UP period.
FreshBlockAfterDown ==
  [][\A i \in DOMAIN log :
       IsOpen(log[i]) /\ log[i].state = "DOWN" /\ ~IsOpen(log'[i])
         => \A j \in DOMAIN log' \ DOMAIN log :
              log'[j].state = "UP" =>
                \A k \in DOMAIN log : log[k].block # log'[j].block]_log

\* With reasons given to whole blocks only, the entries of a downtime agree on
\* their reason, the ones a split created included.
BlockSharesReason ==
  \A i, j \in DOMAIN log :
    /\ log[i].block = log[j].block
    /\ IsLive(log[i]) /\ IsLive(log[j])
    => log[i].reason = log[j].reason

=============================================================================
