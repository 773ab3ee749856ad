---------------------------- MODULE MaterialUsage ----------------------------
(***************************************************************************)
(* The consumption of material in one shift: cycles add what they use to   *)
(* staging rows, one per station, job, product and material, and once the  *)
(* shift is over a flush turns the rows into immutable PRODUCTION debits   *)
(* of the ledger.  The transactions run under READ COMMITTED; row locks    *)
(* are held to their end, and a reader sees committed rows only.           *)
(*                                                                         *)
(* Source: inventory/inventory.ts (createFromCycle) and                    *)
(* inventory/material-shift-flush.ts.  One item of each product is made    *)
(* per cycle, in the material's own unit.                                  *)
(***************************************************************************)
EXTENDS Naturals

CONSTANTS
  Immediate,  \* immediate completions, replayed or not: under the station lock
  Unlocked,   \* open-close completions: lock taken later, or not at all
  Flushers,   \* shift-change worker, minute tick, startup sweep
  Rows,       \* keys of the staging rows
  Null,       \* no row
  MaxUses     \* no cycle starts to use a row that was used this often

Cycles == Immediate \cup Unlocked
Proc == Cycles \cup Flushers

ASSUME UsageAssumption ==
  /\ Cycles \cap Flushers = {} /\ Immediate \cap Unlocked = {}
  /\ Null \notin Proc /\ Null \notin Rows
  /\ MaxUses \in Nat

VARIABLES
  expired,  \* the shift has ended
  staging,  \* the committed staging row of each key, or Null
  ledger,   \* what each key has contributed to PRODUCTION entries
  used,     \* what committed cycles have used of each key
  missed,   \* the part of it they left out as its row was flushed
  lock,     \* who has locked, or is inserting, the row of a key
  tx,       \* transactions in progress
  rejected  \* a cycle was rolled back by the staging table's unique key

vars == <<expired, staging, ledger, used, missed, lock, tx, rejected>>

Staged == [qty: Nat, flushed: BOOLEAN]
ASSUME NullRowAssumption == Null \notin Staged

\* todo: the keys left.  at: the key whose row was looked up, found or not.
\* mine: the keys this transaction has written or locked.  skipped: those whose
\* row it found flushed.
NoTx == [busy |-> FALSE, todo |-> {}, at |-> Null, found |-> FALSE, mine |-> {},
         skipped |-> {}]

Init ==
  /\ expired = FALSE
  /\ staging = [r \in Rows |-> Null]
  /\ ledger = [r \in Rows |-> 0]
  /\ used = [r \in Rows |-> 0] /\ missed = [r \in Rows |-> 0]
  /\ lock = [r \in Rows |-> Null]
  /\ tx = [p \in Proc |-> NoTx]
  /\ rejected = FALSE

Unflushed(r) == staging[r] # Null /\ ~staging[r].flushed
Flushed(r) == staging[r] # Null /\ staging[r].flushed
Unlock(p) == [r \in Rows |-> IF lock[r] = p THEN Null ELSE lock[r]]

Begin(p, todo) ==
  /\ ~tx[p].busy
  /\ tx' = [tx EXCEPT ![p] = [NoTx EXCEPT !.busy = TRUE, !.todo = todo]]

Shift ==
  /\ ~expired /\ expired' = TRUE
  /\ UNCHANGED <<staging, ledger, used, missed, lock, tx, rejected>>

-----------------------------------------------------------------------------
(* Cycles *)

\* createFromCycle: a cycle of the shift, on time or late, uses some keys.
BeginCycle(p) ==
  /\ p \in Immediate => \A q \in Immediate : ~tx[q].busy
  /\ \E keys \in SUBSET {r \in Rows : used[r] < MaxUses} : keys # {} /\ Begin(p, keys)
  /\ UNCHANGED <<expired, staging, ledger, used, missed, lock, rejected>>

\* Mutant: a row that is already flushed is used like any other.
FindFlushed(p) ==
  /\ tx[p].at = Null
  /\ \E r \in tx[p].todo :
       tx' = [tx EXCEPT ![p].todo = @ \ {r}, ![p].at = r, ![p].found = staging[r] # Null]
  /\ UNCHANGED <<expired, staging, ledger, used, missed, lock, rejected>>

\* The staging row is looked up; what goes to one that is already flushed is left
\* out, with a warning in the log.
Find(p) ==
  /\ tx[p].at = Null
  /\ \E r \in tx[p].todo :
       tx' = [tx EXCEPT ![p].todo = @ \ {r},
                        ![p].at = IF Flushed(r) THEN Null ELSE r,
                        ![p].found = staging[r] # Null,
                        ![p].skipped = IF Flushed(r) THEN @ \cup {r} ELSE @]
  /\ UNCHANGED <<expired, staging, ledger, used, missed, lock, rejected>>

\* The row is incremented by its id, once nobody else has locked it.
Increment(p) ==
  LET r == tx[p].at
  IN  /\ r # Null /\ tx[p].found
      /\ lock[r] = Null
      /\ lock' = [lock EXCEPT ![r] = p]
      /\ tx' = [tx EXCEPT ![p].at = Null, ![p].mine = @ \cup {r}]
      /\ UNCHANGED <<expired, staging, ledger, used, missed, rejected>>

\* There was no row: it is created, or the unique key rolls the cycle back.
Create(p) ==
  LET r == tx[p].at
  IN  /\ r # Null /\ ~tx[p].found
      /\ lock[r] = Null
      /\ IF staging[r] = Null
         THEN /\ lock' = [lock EXCEPT ![r] = p]
              /\ tx' = [tx EXCEPT ![p].at = Null, ![p].mine = @ \cup {r}]
              /\ UNCHANGED rejected
         ELSE /\ lock' = Unlock(p)
              /\ tx' = [tx EXCEPT ![p] = NoTx]
              /\ rejected' = TRUE
      /\ UNCHANGED <<expired, staging, ledger, used, missed>>

OneMore(row) ==
  IF row = Null THEN [qty |-> 1, flushed |-> FALSE] ELSE [row EXCEPT !.qty = @ + 1]

\* One more of each row in the set.
CountOf(r, rows) == IF r \in rows THEN 1 ELSE 0

\* The cycle has used what it wrote and what it left out.
CommitCycle(p) ==
  /\ tx[p].busy /\ tx[p].todo = {} /\ tx[p].at = Null
  /\ staging' = [r \in Rows |-> IF r \in tx[p].mine THEN OneMore(staging[r]) ELSE staging[r]]
  /\ used' = [r \in Rows |->
       used[r] + CountOf(r, tx[p].mine) + CountOf(r, tx[p].skipped)]
  /\ missed' = [r \in Rows |-> missed[r] + CountOf(r, tx[p].skipped)]
  /\ lock' = Unlock(p)
  /\ tx' = [tx EXCEPT ![p] = NoTx]
  /\ UNCHANGED <<expired, ledger, rejected>>

-----------------------------------------------------------------------------
(* Flushes *)

\* Once the shift is over, a sweep finds unflushed rows and starts to lock
\* those its statement sees.
BeginFlush(p) ==
  /\ expired
  /\ \E r \in Rows : Unflushed(r)
  /\ Begin(p, {r \in Rows : Unflushed(r)})
  /\ UNCHANGED <<expired, staging, ledger, used, missed, lock, rejected>>

\* Mutant: the row is taken as it was before the wait.
LockStale(p) ==
  /\ \E r \in tx[p].todo :
       /\ lock[r] = Null
       /\ lock' = [lock EXCEPT ![r] = p]
       /\ tx' = [tx EXCEPT ![p].todo = @ \ {r}, ![p].mine = @ \cup {r}]
  /\ UNCHANGED <<expired, staging, ledger, used, missed, rejected>>

\* SELECT ... FOR UPDATE, in whatever order: after a wait the row is checked
\* again, and skipped when another flush has stamped it.
LockRow(p) ==
  /\ \E r \in tx[p].todo :
       /\ lock[r] = Null
       /\ lock' = [lock EXCEPT ![r] = IF Unflushed(r) THEN p ELSE Null]
       /\ tx' = [tx EXCEPT ![p].todo = @ \ {r},
                           ![p].mine = IF Unflushed(r) THEN @ \cup {r} ELSE @]
  /\ UNCHANGED <<expired, staging, ledger, used, missed, rejected>>

\* Mutant: every row of the shift is stamped, not only those summed up.
CommitFlushWide(p) ==
  /\ tx[p].busy /\ tx[p].todo = {}
  /\ ledger' = [r \in Rows |-> IF r \in tx[p].mine THEN ledger[r] + staging[r].qty ELSE ledger[r]]
  /\ staging' = [r \in Rows |->
       IF staging[r] # Null THEN [staging[r] EXCEPT !.flushed = TRUE] ELSE Null]
  /\ lock' = Unlock(p)
  /\ tx' = [tx EXCEPT ![p] = NoTx]
  /\ UNCHANGED <<expired, used, missed, rejected>>

\* The debit is inserted and the rows summed up in it are stamped.
CommitFlush(p) ==
  /\ tx[p].busy /\ tx[p].todo = {}
  /\ ledger' = [r \in Rows |-> IF r \in tx[p].mine THEN ledger[r] + staging[r].qty ELSE ledger[r]]
  /\ staging' = [r \in Rows |->
       IF r \in tx[p].mine THEN [staging[r] EXCEPT !.flushed = TRUE] ELSE staging[r]]
  /\ lock' = Unlock(p)
  /\ tx' = [tx EXCEPT ![p] = NoTx]
  /\ UNCHANGED <<expired, used, missed, rejected>>

\* A failed statement, a dead process, or the victim of a deadlock.
Abort(p) ==
  /\ tx[p].busy
  /\ lock' = Unlock(p)
  /\ tx' = [tx EXCEPT ![p] = NoTx]
  /\ UNCHANGED <<expired, staging, ledger, used, missed, rejected>>

Next ==
  \/ Shift
  \/ \E p \in Cycles :
       BeginCycle(p) \/ Find(p) \/ Increment(p) \/ Create(p) \/ CommitCycle(p)
  \/ \E p \in Flushers : BeginFlush(p) \/ LockRow(p) \/ CommitFlush(p)
  \/ \E p \in Proc : Abort(p)

Spec == Init /\ [][Next]_vars

-----------------------------------------------------------------------------
(* Properties *)

\* Rows, quantities, row locks and transactions stay in their types.
TypeOK ==
  /\ expired \in BOOLEAN /\ rejected \in BOOLEAN
  /\ staging \in [Rows -> Staged \cup {Null}]
  /\ ledger \in [Rows -> Nat] /\ used \in [Rows -> Nat] /\ missed \in [Rows -> Nat]
  /\ lock \in [Rows -> Proc \cup {Null}]
  /\ tx \in [Proc -> [busy: BOOLEAN, todo: SUBSET Rows, at: Rows \cup {Null},
                      found: BOOLEAN, mine: SUBSET Rows, skipped: SUBSET Rows]]

\* What balance() counts as consumed: the ledger and the unflushed staging.
Pending(r) == IF Unflushed(r) THEN staging[r].qty ELSE 0
Counted(r) == ledger[r] + Pending(r)

\* No consumption is debited twice, however many sweeps run at once: what the
\* balance counts never exceeds what committed cycles have used and not left out.
NeverDebitedTwice == \A r \in Rows : Counted(r) + missed[r] <= used[r]

\* What the balance has counted as consumed it never forgets: a flush moves a
\* quantity from staging to the ledger and loses none on the way.
ConsumptionStays == [][\A r \in Rows : Counted(r) <= Counted(r)']_vars

\* No flush runs while a cycle does.
Apart == \A p \in Cycles, q \in Flushers : ~(tx[p].busy /\ tx[q].busy)

\* The balance counts what committed cycles have used, and all that it lacks is
\* what cycles left out that looked their row up after its flush.
UseIsCounted ==
  \A r \in Rows : /\ used[r] = Counted(r) + missed[r]
                  /\ missed[r] > 0 => Flushed(r)

\* What cycles and flushes that keep apart promise, however cycles race with each
\* other, sweeps with each other, and whatever is rolled back: nothing used before
\* a row was flushed is lost to the ledger, and what comes later is left out as a
\* whole.
ApartUseIsCounted == []Apart => []UseIsCounted

\* The inductive invariant behind the debits: a row in a transaction's hands is
\* locked by it, and a row in a flush's hands is still to be flushed.
LocksHold ==
  \A p \in Proc : \A r \in tx[p].mine :
    lock[r] = p /\ (p \in Flushers => Unflushed(r))

Inductive == TypeOK /\ LocksHold /\ NeverDebitedTwice

\* Why the station lock keeps the rows from being created twice: one completion
\* at a time is between its lookup and its commit.
OneCycleAtATime ==
  \A p \in Cycles :
    /\ tx[p].busy => \A q \in Cycles : tx[q].busy => q = p
    /\ ~tx[p].busy => tx[p] = NoTx
    /\ tx[p].at # Null /\ ~tx[p].found => staging[tx[p].at] = Null

-----------------------------------------------------------------------------
(* What the code does not guarantee: TLC refutes each of these. *)

\* A cycle is never rolled back because another one created the same row:
\* the staging row is got or created.  It does hold when every cycle takes the
\* station's lock first (LockedCyclesCommit in MaterialUsageProofs).
NoCycleRejected == ~rejected

\* A flushed row is a frozen audit record: its quantity stays the one debited.
FlushedRowsFrozen ==
  [][\A r \in Rows : Flushed(r) => staging'[r] = staging[r]]_staging

\* The balance counts everything that was used.  It does not as soon as one cycle
\* comes after the flush of its shift, as a replayed or delayed one does, with no
\* flush anywhere near it.
AllUseIsCounted == \A r \in Rows : Counted(r) = used[r]

=============================================================================
