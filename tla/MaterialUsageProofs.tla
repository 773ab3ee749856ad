------------------------ MODULE MaterialUsageProofs ------------------------
(* Theorems about MaterialUsage, for every set of cycles, flushes and rows. *)
EXTENDS MaterialUsage, TLAPS

\* The fields of a transaction, and how the actions change one transaction.
Tx == [busy: BOOLEAN, todo: SUBSET Rows, at: Rows \cup {Null},
       found: BOOLEAN, mine: SUBSET Rows, skipped: SUBSET Rows]

\* Every transaction has its type, as the invariant says.
LEMMA TxType ==
  ASSUME TypeOK, NEW p \in Proc
  PROVE  tx[p] \in Tx
BY DEF TypeOK, Tx

\* An idle transaction has a transaction's type and holds no row.
LEMMA NoTxType == NoTx \in Tx /\ NoTx.mine = {} /\ NoTx.skipped = {}
BY DEF NoTx, Tx

\* A transaction that ends frees its rows and no others.
LEMMA Unlocks ==
  ASSUME NEW p \in Proc, TypeOK
  PROVE  /\ Unlock(p) \in [Rows -> Proc \cup {Null}]
         /\ \A r \in Rows, q \in Proc : q # p /\ lock[r] = q => Unlock(p)[r] = q
BY DEF Unlock, TypeOK

\* The invariant holds before anything is used.
LEMMA InitInductive == Init => Inductive
<1> SUFFICES ASSUME Init PROVE Inductive
  OBVIOUS
<1>1. TypeOK
  <2>1. NoTx \in [busy: BOOLEAN, todo: SUBSET Rows, at: Rows \cup {Null},
                  found: BOOLEAN, mine: SUBSET Rows, skipped: SUBSET Rows]
    BY NoTxType DEF Tx
  <2> QED
    BY <2>1 DEF Init, TypeOK
<1>2. LocksHold
  BY NoTxType DEF Init, LocksHold
<1>3. NeverDebitedTwice
  BY DEF Init, NeverDebitedTwice, Counted, Pending, Unflushed
<1> QED
  BY <1>1, <1>2, <1>3 DEF Inductive

-----------------------------------------------------------------------------
(* The steps that leave the committed data alone: they change at most one  *)
(* transaction and the locks of that transaction.                          *)

\* A step that leaves rows, ledger and uses alone leaves every account alone.
LEMMA DataUnchanged ==
  ASSUME Inductive, UNCHANGED <<staging, ledger, used, missed>>
  PROVE  /\ NeverDebitedTwice'
         /\ \A r \in Rows : Counted(r)' = Counted(r) /\ Unflushed(r)' = Unflushed(r)
BY DEF Inductive, NeverDebitedTwice, Counted, Pending, Unflushed

\* A transaction starts with nothing locked, and no other one changes.
LEMMA BeginTypes ==
  ASSUME TypeOK, NEW p \in Proc, NEW keys \in SUBSET Rows, Begin(p, keys)
  PROVE  tx' \in [Proc -> Tx] /\ tx'[p].mine = {}
         /\ \A q \in Proc : q # p => tx'[q] = tx[q]
<1>1. [NoTx EXCEPT !.busy = TRUE, !.todo = keys] \in Tx
  BY DEF NoTx, Tx
<1>2. [NoTx EXCEPT !.busy = TRUE, !.todo = keys].mine = {}
  BY DEF NoTx
<1>3. tx \in [Proc -> Tx]
  BY DEF TypeOK, Tx
<1> QED
  BY <1>1, <1>2, <1>3 DEF Begin

\* What such a step has to keep for the invariant to hold after it.
LEMMA Quiet ==
  ASSUME Inductive, NEW p \in Proc,
         UNCHANGED <<staging, ledger, used, missed>>,
         expired' \in BOOLEAN, rejected' \in BOOLEAN,
         lock' \in [Rows -> Proc \cup {Null}],
         tx' \in [Proc -> Tx],
         \A q \in Proc : q # p => tx'[q] = tx[q],
         \A r \in Rows, q \in Proc : q # p /\ lock[r] = q => lock'[r] = q,
         \A r \in tx'[p].mine : lock'[r] = p /\ (p \in Flushers => Unflushed(r))
  PROVE  Inductive'
<1>1. TypeOK'
  BY DEF Inductive, TypeOK, Tx
<1>2. LocksHold'
  <2> SUFFICES ASSUME NEW q \in Proc, NEW r \in tx'[q].mine
               PROVE  lock'[r] = q /\ (q \in Flushers => Unflushed(r)')
    BY DEF LocksHold
  <2>1. r \in Rows
    BY <1>1 DEF TypeOK
  <2>2. Unflushed(r)' = Unflushed(r)
    BY <2>1, DataUnchanged
  <2>3. CASE q = p
    BY <2>2, <2>3
  <2>4. CASE q # p
    BY <2>1, <2>2, <2>4 DEF Inductive, LocksHold
  <2> QED
    BY <2>3, <2>4
<1> QED
  BY <1>1, <1>2, DataUnchanged DEF Inductive

\* The start of a cycle or of a sweep.
LEMMA BeginInductive ==
  ASSUME Inductive, NEW p \in Proc, NEW keys \in SUBSET Rows, Begin(p, keys),
         UNCHANGED <<expired, staging, ledger, used, missed, lock, rejected>>
  PROVE  Inductive'
<1>1. TypeOK
  BY DEF Inductive
<1>2. /\ tx' \in [Proc -> Tx] /\ tx'[p].mine = {}
      /\ \A q \in Proc : q # p => tx'[q] = tx[q]
  BY <1>1, BeginTypes
<1> QED
  BY <1>1, <1>2, Quiet DEF TypeOK

\* p's transaction ends and nothing it wrote is kept.
LEMMA DropInductive ==
  ASSUME Inductive, NEW p \in Proc, lock' = Unlock(p), tx' = [tx EXCEPT ![p] = NoTx],
         rejected' \in BOOLEAN, UNCHANGED <<expired, staging, ledger, used, missed>>
  PROVE  Inductive'
<1>1. TypeOK
  BY DEF Inductive
<1>2. tx \in [Proc -> Tx]
  BY <1>1 DEF TypeOK, Tx
<1>3. /\ tx' \in [Proc -> Tx] /\ tx'[p].mine = {}
      /\ \A q \in Proc : q # p => tx'[q] = tx[q]
  BY <1>2, NoTxType
<1>4. /\ lock' \in [Rows -> Proc \cup {Null}]
      /\ \A r \in Rows, q \in Proc : q # p /\ lock[r] = q => lock'[r] = q
  BY <1>1, Unlocks
<1> QED
  BY <1>1, <1>3, <1>4, Quiet DEF TypeOK

\* p takes the row r, which nobody has locked.
LEMMA TakeInductive ==
  ASSUME Inductive, NEW p \in Proc, NEW r \in Rows, lock[r] = Null,
         p \in Flushers => Unflushed(r),
         lock' = [lock EXCEPT ![r] = p],
         tx' \in [Proc -> Tx], tx'[p].mine = tx[p].mine \cup {r},
         \A q \in Proc : q # p => tx'[q] = tx[q],
         UNCHANGED <<expired, staging, ledger, used, missed, rejected>>
  PROVE  Inductive'
<1>1. TypeOK /\ LocksHold
  BY DEF Inductive
<1>2. lock' \in [Rows -> Proc \cup {Null}]
  BY <1>1 DEF TypeOK
<1>3. \A s \in Rows, q \in Proc : q # p /\ lock[s] = q => lock'[s] = q
  BY <1>1, UsageAssumption DEF TypeOK
<1>4. tx[p].mine \subseteq Rows
  BY <1>1, TxType DEF Tx
<1>5. \A s \in tx'[p].mine : lock'[s] = p /\ (p \in Flushers => Unflushed(s))
  BY <1>1, <1>4 DEF TypeOK, LocksHold
<1> QED
  BY <1>1, <1>2, <1>3, <1>5, Quiet DEF TypeOK

-----------------------------------------------------------------------------
(* The steps of a cycle and of a flush *)

\* The look-up of a staging row.
LEMMA FindInductive ==
  ASSUME Inductive, NEW p \in Cycles, Find(p)
  PROVE  Inductive'
<1>1. TypeOK /\ LocksHold /\ p \in Proc /\ p \notin Flushers
  BY UsageAssumption DEF Inductive, Proc
<1>2. PICK r \in tx[p].todo :
        tx' = [tx EXCEPT ![p].todo = @ \ {r},
                         ![p].at = IF Flushed(r) THEN Null ELSE r,
                         ![p].found = staging[r] # Null,
                         ![p].skipped = IF Flushed(r) THEN @ \cup {r} ELSE @]
  BY DEF Find
<1>3. tx[p] \in Tx
  BY <1>1, TxType
<1>4. tx \in [Proc -> Tx]
  BY <1>1 DEF TypeOK, Tx
<1>5. /\ tx' \in [Proc -> Tx] /\ tx'[p].mine = tx[p].mine
      /\ \A q \in Proc : q # p => tx'[q] = tx[q]
  <2>1. r \in Rows
    BY <1>2, <1>3 DEF Tx
  <2>2. CASE Flushed(r)
    <3>1. staging[r] # Null
      BY <2>2 DEF Flushed
    <3>2. tx' = [tx EXCEPT ![p] = [tx[p] EXCEPT !.todo = @ \ {r}, !.at = Null,
                                     !.found = TRUE, !.skipped = @ \cup {r}]]
      BY <1>1, <1>2, <1>3, <1>4, <2>2, <3>1 DEF Tx
    <3> QED
      BY <1>1, <1>3, <1>4, <2>1, <3>2 DEF Tx
  <2>3. CASE ~Flushed(r)
    BY <1>1, <1>2, <1>3, <1>4, <2>1, <2>3 DEF Tx
  <2> QED
    BY <2>2, <2>3
<1>6. \A s \in tx'[p].mine : lock[s] = p
  BY <1>1, <1>5 DEF LocksHold
<1> QED
  BY <1>1, <1>5, <1>6, Quiet DEF Find, TypeOK

\* A cycle's write of one row, or the rollback by the unique key.
LEMMA WriteInductive ==
  ASSUME Inductive, NEW p \in Cycles, Increment(p) \/ Create(p)
  PROVE  Inductive'
<1>1. TypeOK /\ p \in Proc /\ p \notin Flushers
  BY UsageAssumption DEF Inductive, Proc
<1>2. tx[p] \in Tx /\ tx \in [Proc -> Tx]
  BY <1>1, TxType DEF TypeOK, Tx
<1> DEFINE r == tx[p].at
<1>3. CASE rejected' = TRUE /\ lock' = Unlock(p) /\ tx' = [tx EXCEPT ![p] = NoTx]
           /\ UNCHANGED <<expired, staging, ledger, used, missed>>
  BY <1>1, <1>3, DropInductive
<1>4. CASE /\ r # Null /\ lock[r] = Null /\ lock' = [lock EXCEPT ![r] = p]
           /\ tx' = [tx EXCEPT ![p].at = Null, ![p].mine = @ \cup {r}]
           /\ UNCHANGED <<expired, staging, ledger, used, missed, rejected>>
  <2>1. r \in Rows
    BY <1>2, <1>4 DEF Tx
  <2>2. /\ tx' \in [Proc -> Tx] /\ tx'[p].mine = tx[p].mine \cup {r}
        /\ \A q \in Proc : q # p => tx'[q] = tx[q]
    BY <1>1, <1>2, <1>4, <2>1 DEF Tx
  <2> QED
    BY <1>1, <1>4, <2>1, <2>2, TakeInductive
<1> QED
  BY <1>3, <1>4 DEF Increment, Create

\* A sweep locks a row, or skips one that was stamped while it waited.
LEMMA LockRowInductive ==
  ASSUME Inductive, NEW p \in Flushers, LockRow(p)
  PROVE  Inductive'
<1>1. TypeOK /\ LocksHold /\ p \in Proc
  BY DEF Inductive, Proc
<1>2. tx[p] \in Tx /\ tx \in [Proc -> Tx]
  BY <1>1, TxType DEF TypeOK, Tx
<1>3. PICK r \in tx[p].todo :
        /\ lock[r] = Null
        /\ lock' = [lock EXCEPT ![r] = IF Unflushed(r) THEN p ELSE Null]
        /\ tx' = [tx EXCEPT ![p].todo = @ \ {r},
                            ![p].mine = IF Unflushed(r) THEN @ \cup {r} ELSE @]
  BY DEF LockRow
<1>4. r \in Rows
  BY <1>2 DEF Tx
<1>5. UNCHANGED <<expired, staging, ledger, used, missed, rejected>>
  BY DEF LockRow
<1>6. CASE Unflushed(r)
  <2>1. /\ tx' \in [Proc -> Tx] /\ tx'[p].mine = tx[p].mine \cup {r}
        /\ \A q \in Proc : q # p => tx'[q] = tx[q]
    BY <1>1, <1>2, <1>3, <1>4, <1>6 DEF Tx
  <2> QED
    BY <1>1, <1>3, <1>4, <1>5, <1>6, <2>1, TakeInductive
<1>7. CASE ~Unflushed(r)
  <2>1. /\ tx' \in [Proc -> Tx] /\ tx'[p].mine = tx[p].mine
        /\ \A q \in Proc : q # p => tx'[q] = tx[q]
    BY <1>1, <1>2, <1>3, <1>7 DEF Tx
  <2>2. lock' = lock
    BY <1>1, <1>3, <1>4, <1>7 DEF TypeOK
  <2>3. \A s \in tx'[p].mine : lock'[s] = p /\ (p \in Flushers => Unflushed(s))
    BY <1>1, <2>1, <2>2 DEF LocksHold
  <2> QED
    BY <1>1, <1>5, <2>1, <2>2, <2>3, Quiet DEF TypeOK
<1> QED
  BY <1>6, <1>7


\* A commit writes the rows in p's hands and frees them; the rows in the hands
\* of others stay as they are.
LEMMA CommitLocks ==
  ASSUME Inductive, NEW p \in Proc,
         staging' \in [Rows -> Staged \cup {Null}],
         \A r \in Rows : r \notin tx[p].mine => staging'[r] = staging[r],
         lock' = Unlock(p), tx' = [tx EXCEPT ![p] = NoTx]
  PROVE  /\ lock' \in [Rows -> Proc \cup {Null}]
         /\ tx' \in [Proc -> Tx]
         /\ LocksHold'
<1>1. TypeOK /\ LocksHold
  BY DEF Inductive
<1>2. tx \in [Proc -> Tx]
  BY <1>1 DEF TypeOK, Tx
<1>3. /\ tx' \in [Proc -> Tx] /\ tx'[p].mine = {}
      /\ \A q \in Proc : q # p => tx'[q] = tx[q]
  BY <1>2, NoTxType
<1>4. /\ lock' \in [Rows -> Proc \cup {Null}]
      /\ \A r \in Rows, q \in Proc : q # p /\ lock[r] = q => lock'[r] = q
  BY <1>1, Unlocks
<1>5. LocksHold'
  <2> SUFFICES ASSUME NEW q \in Proc, NEW r \in tx'[q].mine
               PROVE  lock'[r] = q /\ (q \in Flushers => Unflushed(r)')
    BY DEF LocksHold
  <2>1. q # p /\ r \in tx[q].mine
    BY <1>3
  <2>2. r \in Rows /\ lock[r] = q /\ (q \in Flushers => Unflushed(r))
    BY <1>1, <1>2, <2>1 DEF LocksHold, Tx
  <2>3. r \notin tx[p].mine
    BY <1>1, <2>1, <2>2 DEF LocksHold
  <2>4. Unflushed(r)' = Unflushed(r)
    BY <2>2, <2>3 DEF Unflushed
  <2> QED
    BY <1>4, <2>1, <2>2, <2>4
<1> QED
  BY <1>3, <1>4, <1>5

\* A cycle's commit adds to the quantity and to what was used alike.
LEMMA CommitCycleInductive ==
  ASSUME Inductive, NEW p \in Cycles, CommitCycle(p)
  PROVE  Inductive' /\ \A r \in Rows : Counted(r) <= Counted(r)'
<1>1. TypeOK /\ NeverDebitedTwice /\ p \in Proc
  BY DEF Inductive, Proc
<1>2. \A row \in Staged \cup {Null} :
        /\ OneMore(row) \in Staged
        /\ row = Null => OneMore(row) = [qty |-> 1, flushed |-> FALSE]
        /\ row # Null => /\ OneMore(row).qty = row.qty + 1
                         /\ OneMore(row).flushed = row.flushed
  <2> SUFFICES ASSUME NEW row \in Staged \cup {Null}
               PROVE  /\ OneMore(row) \in Staged
                      /\ row = Null => OneMore(row) = [qty |-> 1, flushed |-> FALSE]
                      /\ row # Null => /\ OneMore(row).qty = row.qty + 1
                                       /\ OneMore(row).flushed = row.flushed
    OBVIOUS
  <2>1. CASE row = Null
    BY <2>1 DEF OneMore, Staged
  <2>2. CASE row \in Staged /\ row # Null
    BY <2>2 DEF OneMore, Staged
  <2> QED
    BY <2>1, <2>2
<1>3. \A r \in Rows : staging[r] \in Staged \cup {Null}
  BY <1>1 DEF TypeOK
<1>4. /\ staging' \in [Rows -> Staged \cup {Null}]
      /\ used' \in [Rows -> Nat] /\ missed' \in [Rows -> Nat]
      /\ \A r \in Rows : r \notin tx[p].mine => staging'[r] = staging[r]
  BY <1>1, <1>2, <1>3 DEF CommitCycle, CountOf, TypeOK
<1>5. TypeOK' /\ LocksHold'
  <2>1. /\ lock' \in [Rows -> Proc \cup {Null}]
        /\ tx' \in [Proc -> Tx]
        /\ LocksHold'
    BY <1>1, <1>4, CommitLocks DEF CommitCycle
  <2> QED
    BY <1>1, <1>4, <2>1 DEF CommitCycle, TypeOK, Tx
<1>6. ASSUME NEW r \in Rows
      PROVE  Counted(r) <= Counted(r)' /\ Counted(r)' + missed'[r] <= used'[r]
  <2>1. ledger'[r] = ledger[r] /\ ledger[r] \in Nat /\ used[r] \in Nat /\ missed[r] \in Nat
    BY <1>1 DEF CommitCycle, TypeOK
  <2>2. Counted(r) + missed[r] <= used[r]
    BY <1>1 DEF NeverDebitedTwice
  <2>3. Pending(r) \in Nat
    BY <1>3 DEF Pending, Unflushed, Staged
  <2>4. PICK more \in {0, 1} :
          /\ missed'[r] = missed[r] + more
          /\ used'[r] = used[r] + CountOf(r, tx[p].mine) + more
    BY DEF CommitCycle, CountOf
  <2>5. CASE r \in tx[p].mine
    <3>1. staging'[r] = OneMore(staging[r]) /\ used'[r] = used[r] + 1 + more
      BY <2>4, <2>5 DEF CommitCycle, CountOf
    <3>2. staging'[r] # Null
      BY <1>2, <1>3, <3>1, NullRowAssumption
    <3>3. CASE staging[r] = Null
      <4>1. Pending(r) = 0 /\ Pending(r)' = 1
        BY <1>2, <3>1, <3>2, <3>3 DEF Pending, Unflushed
      <4> QED
        BY <2>1, <2>2, <2>4, <3>1, <4>1 DEF Counted
    <3>4. CASE staging[r] # Null /\ staging[r].flushed
      <4>1. Pending(r) = 0 /\ Pending(r)' = 0
        BY <1>2, <1>3, <3>1, <3>4 DEF Pending, Unflushed
      <4> QED
        BY <2>1, <2>2, <2>4, <3>1, <4>1 DEF Counted
    <3>5. CASE Unflushed(r)
      <4>1. Pending(r)' = Pending(r) + 1
        BY <1>2, <1>3, <3>1, <3>2, <3>5 DEF Pending, Unflushed
      <4> QED
        BY <2>1, <2>2, <2>3, <2>4, <3>1, <4>1 DEF Counted
    <3> QED
      BY <3>3, <3>4, <3>5 DEF Unflushed
  <2>6. CASE r \notin tx[p].mine
    <3>1. staging'[r] = staging[r] /\ used'[r] = used[r] + more
      BY <2>1, <2>4, <2>6 DEF CommitCycle, CountOf
    <3>2. Pending(r)' = Pending(r)
      BY <3>1 DEF Pending, Unflushed
    <3> QED
      BY <2>1, <2>2, <2>3, <2>4, <3>1, <3>2 DEF Counted
  <2> QED
    BY <2>5, <2>6
<1> QED
  BY <1>5, <1>6 DEF Inductive, NeverDebitedTwice

\* A flush's commit moves the quantity of unflushed rows that are its own.
LEMMA CommitFlushInductive ==
  ASSUME Inductive, NEW p \in Flushers, CommitFlush(p)
  PROVE  Inductive' /\ \A r \in Rows : Counted(r) <= Counted(r)'
<1>1. TypeOK /\ LocksHold /\ NeverDebitedTwice /\ p \in Proc
  BY DEF Inductive, Proc
<1>2. \A r \in Rows : staging[r] \in Staged \cup {Null}
  BY <1>1 DEF TypeOK
<1>3. \A r \in tx[p].mine : Unflushed(r)
  BY <1>1 DEF LocksHold
<1>4. /\ staging' \in [Rows -> Staged \cup {Null}]
      /\ ledger' \in [Rows -> Nat]
      /\ \A r \in Rows : r \notin tx[p].mine => staging'[r] = staging[r]
  <2>1. \A r \in tx[p].mine \cap Rows :
          staging[r].qty \in Nat /\ [staging[r] EXCEPT !.flushed = TRUE] \in Staged
    BY <1>2, <1>3 DEF Unflushed, Staged
  <2>2. ledger' \in [Rows -> Nat]
    BY <1>1, <2>1 DEF CommitFlush, TypeOK
  <2>3. staging' \in [Rows -> Staged \cup {Null}]
    BY <1>1, <1>2, <2>1 DEF CommitFlush
  <2> QED
    BY <2>2, <2>3 DEF CommitFlush
<1>5. TypeOK' /\ LocksHold'
  <2>1. /\ lock' \in [Rows -> Proc \cup {Null}]
        /\ tx' \in [Proc -> Tx]
        /\ LocksHold'
    BY <1>1, <1>4, CommitLocks DEF CommitFlush
  <2> QED
    BY <1>1, <1>4, <2>1 DEF CommitFlush, TypeOK, Tx
<1>6. ASSUME NEW r \in Rows
      PROVE  Counted(r)' = Counted(r)
  <2>1. ledger[r] \in Nat
    BY <1>1 DEF TypeOK
  <2>2. CASE r \in tx[p].mine
    <3>1. Unflushed(r) /\ staging[r].qty \in Nat
      BY <1>2, <1>3, <2>2 DEF Unflushed, Staged
    <3>2. ledger'[r] = ledger[r] + staging[r].qty
      BY <2>2 DEF CommitFlush
    <3>3. staging'[r] = [staging[r] EXCEPT !.flushed = TRUE]
      BY <2>2 DEF CommitFlush
    <3>4. ~Unflushed(r)'
      BY <1>2, <3>1, <3>3 DEF Unflushed, Staged
    <3> QED
      BY <2>1, <3>1, <3>2, <3>4 DEF Counted, Pending
  <2>3. CASE r \notin tx[p].mine
    BY <2>3 DEF CommitFlush, Counted, Pending, Unflushed
  <2> QED
    BY <2>2, <2>3
<1>7. \A r \in Rows : Counted(r) \in Nat
  BY <1>1, <1>2 DEF Counted, Pending, Unflushed, Staged, TypeOK
<1>8. used' = used /\ missed' = missed /\ used \in [Rows -> Nat] /\ missed \in [Rows -> Nat]
  BY <1>1 DEF CommitFlush, TypeOK
<1> QED
  BY <1>1, <1>5, <1>6, <1>7, <1>8 DEF Inductive, NeverDebitedTwice

-----------------------------------------------------------------------------
(* Theorems *)

\* What the balance counts is a number.
LEMMA CountedIsNat ==
  ASSUME TypeOK, NEW r \in Rows
  PROVE  Counted(r) \in Nat
BY DEF Counted, Pending, Unflushed, Staged, TypeOK

\* Every step keeps the invariant and never lowers what the balance counts.
LEMMA StepInductive ==
  ASSUME Inductive, [Next]_vars
  PROVE  Inductive' /\ \A r \in Rows : Counted(r) <= Counted(r)'
<1> DEFINE Quietly == UNCHANGED <<staging, ledger, used, missed>>
<1>1. ASSUME Quietly, Inductive'
      PROVE  Inductive' /\ \A r \in Rows : Counted(r) <= Counted(r)'
  BY <1>1, DataUnchanged, CountedIsNat DEF Inductive
<1>2. CASE UNCHANGED vars
  BY <1>2 DEF vars, Inductive, TypeOK, LocksHold, NeverDebitedTwice, Counted, Pending,
    Unflushed, Staged
<1>3. CASE Shift
  <2>1. Inductive'
    BY <1>3 DEF Shift, Inductive, TypeOK, LocksHold, NeverDebitedTwice, Counted, Pending,
      Unflushed
  <2> QED
    BY <1>1, <1>3, <2>1 DEF Shift
<1>4. ASSUME NEW p \in Cycles, BeginCycle(p)
      PROVE  Inductive' /\ Quietly
  <2>1. p \in Proc
    BY DEF Proc
  <2>2. PICK keys \in SUBSET {r \in Rows : used[r] < MaxUses} : Begin(p, keys)
    BY <1>4 DEF BeginCycle
  <2>3. keys \in SUBSET Rows
    OBVIOUS
  <2> QED
    BY <1>4, <2>1, <2>2, <2>3, BeginInductive DEF BeginCycle
<1>5. ASSUME NEW p \in Flushers, BeginFlush(p)
      PROVE  Inductive' /\ Quietly
  <2>1. p \in Proc
    BY DEF Proc
  <2>2. {r \in Rows : Unflushed(r)} \in SUBSET Rows
    OBVIOUS
  <2> QED
    BY <1>5, <2>1, <2>2, BeginInductive DEF BeginFlush
<1>6. ASSUME NEW p \in Cycles, Find(p) \/ Increment(p) \/ Create(p)
      PROVE  Inductive' /\ Quietly
  BY <1>6, FindInductive, WriteInductive DEF Find, Increment, Create
<1>7. ASSUME NEW p \in Flushers, LockRow(p)
      PROVE  Inductive' /\ Quietly
  BY <1>7, LockRowInductive DEF LockRow
<1>8. ASSUME NEW p \in Proc, Abort(p)
      PROVE  Inductive' /\ Quietly
  <2>1. rejected' \in BOOLEAN
    BY <1>8 DEF Abort, Inductive, TypeOK
  <2> QED
    BY <1>8, <2>1, DropInductive DEF Abort
<1>9. CASE Next
  BY <1>1, <1>3, <1>4, <1>5, <1>6, <1>7, <1>8, <1>9, CommitCycleInductive,
     CommitFlushInductive DEF Next
<1> QED
  BY <1>2, <1>9

\* The invariant holds in every reachable state.
THEOREM InductiveInvariant == Spec => []Inductive
<1>1. Inductive /\ [Next]_vars => Inductive'
  BY StepInductive
<1> QED
  BY <1>1, InitInductive, PTL DEF Spec

\* Every variable keeps its type.
THEOREM TypeCorrect == Spec => []TypeOK
<1>1. Inductive => TypeOK
  BY DEF Inductive
<1> QED
  BY <1>1, InductiveInvariant, PTL

\* However many sweeps flush a shift at once, and whatever aborts, the balance
\* never counts more than committed cycles have used.
THEOREM DebitedOnce == Spec => []NeverDebitedTwice
<1>1. Inductive => NeverDebitedTwice
  BY DEF Inductive
<1> QED
  BY <1>1, InductiveInvariant, PTL

\* What the balance has counted as consumed it never forgets.
THEOREM ConsumptionNeverForgotten == Spec => ConsumptionStays
<1>1. Inductive /\ [Next]_vars => [\A r \in Rows : Counted(r) <= Counted(r)']_vars
  BY StepInductive
<1> QED
  BY <1>1, InductiveInvariant, PTL DEF Spec, ConsumptionStays

-----------------------------------------------------------------------------
(* When every completion holds the station lock *)

Serial == TypeOK /\ LocksHold /\ OneCycleAtATime /\ NoCycleRejected

\* With every cycle under the station's lock, one runs at a time, its look-up
\* stays true and none is rejected, whatever sweeps come between.
LEMMA SerialStep ==
  ASSUME Unlocked = {}, Inductive, Serial, [Next]_vars
  PROVE  Serial'
<1> USE DEF Serial
<1>1. Inductive'
  BY StepInductive
<1>2. TypeOK' /\ LocksHold'
  BY <1>1 DEF Inductive
<1>3. tx \in [Proc -> Tx]
  BY DEF TypeOK, Tx
<1>4. Cycles = Immediate /\ Cycles \subseteq Proc /\ Flushers \subseteq Proc
      /\ \A p \in Cycles, q \in Flushers : p # q
  BY UsageAssumption DEF Cycles, Proc
<1>5. ~NoTx.busy /\ NoTx.at = Null
  BY DEF NoTx
\* Only a commit of a cycle makes a row where there was none.
<1>6. ASSUME NEW p \in Proc, tx'[p].busy \/ tx'[p] = NoTx,
             \A q \in Proc : q # p => tx'[q] = tx[q],
             p \in Cycles /\ tx'[p].busy => \A q \in Cycles : q # p => ~tx[q].busy,
             p \in Cycles /\ tx'[p].at # Null /\ ~tx'[p].found
               => staging'[tx'[p].at] = Null,
             \A q \in Cycles : q # p /\ tx[q].at # Null /\ ~tx[q].found
               => staging'[tx[q].at] = staging[tx[q].at],
             rejected' = rejected
      PROVE  Serial'
  <2>1. OneCycleAtATime'
    <3> SUFFICES ASSUME NEW q \in Cycles
                 PROVE  /\ tx'[q].busy => \A r \in Cycles : tx'[r].busy => r = q
                        /\ ~tx'[q].busy => tx'[q] = NoTx
                        /\ tx'[q].at # Null /\ ~tx'[q].found => staging'[tx'[q].at] = Null
      BY DEF OneCycleAtATime
    <3>1. CASE q = p
      BY <1>4, <1>6, <3>1 DEF OneCycleAtATime
    <3>2. CASE q # p
      BY <1>4, <1>5, <1>6, <3>2 DEF OneCycleAtATime
    <3> QED
      BY <3>1, <3>2
  <2> QED
    BY <1>2, <1>6, <2>1 DEF NoCycleRejected
<1>7. ASSUME UNCHANGED <<staging, tx, rejected>>
      PROVE  Serial'
  BY <1>2, <1>7 DEF OneCycleAtATime, NoCycleRejected
<1>8. ASSUME NEW p \in Proc, NEW keys, Begin(p, keys), UNCHANGED <<staging, rejected>>,
             p \in Cycles => \A q \in Cycles : ~tx[q].busy
      PROVE  Serial'
  <2>1. /\ tx'[p].busy /\ tx'[p].at = Null
        /\ \A q \in Proc : q # p => tx'[q] = tx[q]
    BY <1>3, <1>8 DEF Begin, NoTx
  <2> QED
    BY <1>6, <1>8, <2>1
<1>9. ASSUME NEW p \in Proc, tx' = [tx EXCEPT ![p] = NoTx], rejected' = rejected,
             \A q \in Cycles : q # p /\ tx[q].at # Null /\ ~tx[q].found
               => staging'[tx[q].at] = staging[tx[q].at]
      PROVE  Serial'
  <2>1. tx'[p] = NoTx /\ \A q \in Proc : q # p => tx'[q] = tx[q]
    BY <1>3, <1>9
  <2> QED
    BY <1>5, <1>6, <1>9, <2>1
<1>10. ASSUME NEW p \in Cycles, BeginCycle(p) PROVE Serial'
  <2>1. \A q \in Cycles : ~tx[q].busy
    BY <1>4, <1>10 DEF BeginCycle
  <2> QED
    BY <1>4, <1>8, <1>10, <2>1 DEF BeginCycle
<1>11. ASSUME NEW p \in Cycles, Find(p) PROVE Serial'
  <2>1. PICK r \in tx[p].todo :
          tx' = [tx EXCEPT ![p].todo = @ \ {r},
                           ![p].at = IF Flushed(r) THEN Null ELSE r,
                           ![p].found = staging[r] # Null,
                           ![p].skipped = IF Flushed(r) THEN @ \cup {r} ELSE @]
    BY <1>11 DEF Find
  <2>2. tx[p].busy
    BY <2>1, <1>4 DEF OneCycleAtATime, NoTx
  <2>3. /\ tx'[p].busy = tx[p].busy /\ tx'[p].found = (staging[r] # Null)
        /\ tx'[p].at \in {r, Null}
        /\ \A q \in Proc : q # p => tx'[q] = tx[q]
    BY <1>3, <1>4, <2>1 DEF Tx
  <2>4. \A q \in Cycles : q # p => ~tx[q].busy
    BY <2>2 DEF OneCycleAtATime
  <2>5. staging' = staging /\ rejected' = rejected
    BY <1>11 DEF Find
  <2> QED
    BY <1>4, <1>6, <2>2, <2>3, <2>4, <2>5
<1>12. ASSUME NEW p \in Cycles, Increment(p) \/ Create(p) PROVE Serial'
  <2>1. tx[p].at # Null /\ staging' = staging
    BY <1>12 DEF Increment, Create
  <2>2. tx[p].busy
    BY <1>5, <2>1 DEF OneCycleAtATime
  <2>3. tx' = [tx EXCEPT ![p].at = Null, ![p].mine = @ \cup {tx[p].at}]
        /\ rejected' = rejected
    BY <1>12 DEF Increment, Create, OneCycleAtATime
  <2>4. /\ tx'[p].busy = tx[p].busy /\ tx'[p].at = Null
        /\ \A q \in Proc : q # p => tx'[q] = tx[q]
    BY <1>3, <1>4, <2>3 DEF Tx
  <2>5. \A q \in Cycles : q # p => ~tx[q].busy
    BY <2>2 DEF OneCycleAtATime
  <2> QED
    BY <1>4, <1>6, <2>1, <2>2, <2>3, <2>4, <2>5
<1>13. ASSUME NEW p \in Cycles, CommitCycle(p) PROVE Serial'
  <2>1. \A q \in Cycles : q # p => ~tx[q].busy
    BY <1>13 DEF CommitCycle, OneCycleAtATime
  <2>2. \A q \in Cycles : q # p => tx[q].at = Null
    BY <1>5, <2>1 DEF OneCycleAtATime
  <2> QED
    BY <1>4, <1>9, <1>13, <2>2 DEF CommitCycle
<1>14. ASSUME NEW p \in Flushers, BeginFlush(p) PROVE Serial'
  BY <1>4, <1>8, <1>14 DEF BeginFlush
<1>15. ASSUME NEW p \in Flushers, LockRow(p) PROVE Serial'
  <2>1. /\ staging' = staging /\ rejected' = rejected
        /\ \A q \in Proc : q # p => tx'[q] = tx[q]
    BY <1>3, <1>4, <1>15 DEF LockRow
  <2> QED
    BY <1>2, <1>4, <2>1 DEF OneCycleAtATime, NoCycleRejected
<1>16. ASSUME NEW p \in Flushers, CommitFlush(p) PROVE Serial'
  <2>1. \A r \in Rows : staging[r] = Null => staging'[r] = Null
    BY <1>4, <1>16 DEF CommitFlush, LocksHold, Unflushed
  <2>2. \A q \in Cycles : tx[q].at # Null => tx[q].at \in Rows
    BY <1>3, <1>4 DEF Tx
  <2>3. \A q \in Cycles : tx[q].at # Null /\ ~tx[q].found
          => staging'[tx[q].at] = staging[tx[q].at]
    BY <2>1, <2>2 DEF OneCycleAtATime
  <2> QED
    BY <1>4, <1>9, <1>16, <2>3 DEF CommitFlush
<1>17. ASSUME NEW p \in Proc, Abort(p) PROVE Serial'
  BY <1>9, <1>17 DEF Abort
<1>18. CASE Next
  BY <1>7, <1>10, <1>11, <1>12, <1>13, <1>14, <1>15, <1>16, <1>17, <1>18 DEF Next, Shift
<1> QED
  BY <1>7, <1>18 DEF vars

\* When every completion of the station holds its lock, no cycle is rolled back
\* for a staging row that another cycle created first.
THEOREM LockedCyclesCommit ==
  ASSUME Unlocked = {}
  PROVE  Spec => []NoCycleRejected
<1>1. Init => Serial
  <2>1. ASSUME Init PROVE Inductive
    BY <2>1, InitInductive
  <2>2. ASSUME Init PROVE OneCycleAtATime /\ NoCycleRejected
    BY <2>2, UsageAssumption DEF Init, OneCycleAtATime, NoCycleRejected, NoTx, Proc
  <2> QED
    BY <2>1, <2>2 DEF Serial, Inductive
<1>2. Inductive /\ Serial /\ [Next]_vars => Serial'
  BY SerialStep
<1>3. Serial => NoCycleRejected
  BY DEF Serial
<1> QED
  BY <1>1, <1>2, <1>3, InductiveInvariant, PTL DEF Spec

-----------------------------------------------------------------------------
(* When no flush runs while a cycle does *)

\* The rows that a cycle has looked up or written are still to be flushed, if
\* they exist, those it leaves out are flushed, and a cycle that does not run has
\* none.
UnflushedInHand ==
  \A p \in Cycles :
    /\ ~tx[p].busy => tx[p] = NoTx
    /\ \A r \in Rows : r \in tx[p].mine \/ r = tx[p].at => staging[r] = Null \/ Unflushed(r)
    /\ \A r \in tx[p].skipped : Flushed(r)

\* What holds besides as long as cycles and flushes keep apart.
ApartSound == UnflushedInHand /\ UseIsCounted

\* It holds before anything is used.
LEMMA ApartInit == Init => ApartSound
<1> SUFFICES ASSUME Init PROVE ApartSound
  OBVIOUS
<1>1. \A p \in Cycles : tx[p] = NoTx
  BY DEF Init, Proc
<1>2. UseIsCounted
  BY DEF Init, UseIsCounted, Counted, Pending, Unflushed
<1>3. (\A r \in Rows : staging[r] = Null) /\ NoTx.skipped = {}
  BY DEF Init, NoTx
<1> QED
  BY <1>1, <1>2, <1>3 DEF ApartSound, UnflushedInHand

\* A step that leaves the data alone keeps it when the transaction it changes has
\* only unflushed rows at hand.
LEMMA QuietApart ==
  ASSUME Inductive, ApartSound, UNCHANGED <<staging, ledger, used, missed>>, NEW p \in Proc,
         \A q \in Proc : q # p => tx'[q] = tx[q],
         p \in Cycles =>
           /\ tx'[p].busy \/ tx'[p] = NoTx
           /\ \A r \in Rows : r \in tx'[p].mine \/ r = tx'[p].at =>
                staging[r] = Null \/ Unflushed(r)
           /\ \A r \in tx'[p].skipped : r \in Rows /\ Flushed(r)
  PROVE  ApartSound'
<1>1. \A r \in Rows : /\ Counted(r)' = Counted(r) /\ Unflushed(r)' = Unflushed(r)
                    /\ Flushed(r)' = Flushed(r)
  BY DataUnchanged DEF Flushed
<1>2. UseIsCounted'
  BY <1>1 DEF ApartSound, UseIsCounted
<1>9. \A q \in Proc : tx[q].skipped \subseteq Rows
  BY TxType DEF Inductive, Tx
<1>3. ASSUME NEW q \in Cycles
      PROVE  /\ ~tx'[q].busy => tx'[q] = NoTx
             /\ \A r \in Rows : r \in tx'[q].mine \/ r = tx'[q].at =>
                  staging'[r] = Null \/ Unflushed(r)'
             /\ \A r \in tx'[q].skipped : Flushed(r)'
  <2>1. CASE q = p
    BY <1>1, <2>1
  <2>2. CASE q # p
    <3>1. tx'[q] = tx[q]
      BY <2>2 DEF Proc
    <3> QED
      BY <1>1, <1>9, <3>1 DEF ApartSound, UnflushedInHand, Proc
  <2> QED
    BY <2>1, <2>2
<1> QED
  BY <1>2, <1>3 DEF ApartSound, UnflushedInHand

\* What a cycle does before it commits: it looks for rows and takes them.
LEMMA CycleApart ==
  ASSUME Inductive, ApartSound, NEW p \in Cycles,
         BeginCycle(p) \/ Find(p) \/ Increment(p) \/ Create(p)
  PROVE  ApartSound'
<1>0. p \in Proc /\ Null \notin Rows
  BY UsageAssumption DEF Proc
<1>1. tx \in [Proc -> Tx] /\ tx[p] \in Tx
  BY <1>0, TxType DEF Inductive, TypeOK, Tx
<1>2. ~tx[p].busy => tx[p] = NoTx
  BY DEF ApartSound, UnflushedInHand
<1>3. \A r \in Rows : r \in tx[p].mine \/ r = tx[p].at => staging[r] = Null \/ Unflushed(r)
  BY DEF ApartSound, UnflushedInHand
<1>4. UNCHANGED <<staging, ledger, used, missed>>
  BY DEF BeginCycle, Find, Increment, Create
<1>9. \A r \in tx[p].skipped : r \in Rows /\ Flushed(r)
  BY <1>1 DEF ApartSound, UnflushedInHand, Tx
<1>5. CASE BeginCycle(p)
  <2>1. PICK keys : Begin(p, keys)
    BY <1>5 DEF BeginCycle
  <2>2. /\ tx'[p].busy /\ tx'[p].at = Null /\ tx'[p].mine = {} /\ tx'[p].skipped = {}
        /\ \A q \in Proc : q # p => tx'[q] = tx[q]
    BY <1>0, <1>1, <2>1 DEF Begin, NoTx
  <2> QED
    BY <1>0, <1>4, <2>2, QuietApart
<1>6. CASE Find(p)
  <2>1. PICK r \in tx[p].todo :
          tx' = [tx EXCEPT ![p].todo = @ \ {r},
                           ![p].at = IF Flushed(r) THEN Null ELSE r,
                           ![p].found = staging[r] # Null,
                           ![p].skipped = IF Flushed(r) THEN @ \cup {r} ELSE @]
    BY <1>6 DEF Find
  <2>2. tx[p].busy
    BY <1>2, <2>1 DEF NoTx
  <2>3. /\ tx'[p].busy = tx[p].busy /\ tx'[p].mine = tx[p].mine
        /\ tx'[p].at = (IF Flushed(r) THEN Null ELSE r)
        /\ tx'[p].skipped = (IF Flushed(r) THEN tx[p].skipped \cup {r} ELSE tx[p].skipped)
        /\ \A q \in Proc : q # p => tx'[q] = tx[q]
    BY <1>0, <1>1, <2>1 DEF Tx
  <2>4. r \in Rows
    BY <1>1 DEF Tx
  <2>5. Flushed(r) \/ staging[r] = Null \/ Unflushed(r)
    BY DEF Flushed, Unflushed
  <2>6. \A s \in Rows : s \in tx'[p].mine \/ s = tx'[p].at => staging[s] = Null \/ Unflushed(s)
    BY <1>0, <1>3, <2>3, <2>5
  <2>7. \A s \in tx'[p].skipped : s \in Rows /\ Flushed(s)
    BY <1>9, <2>3, <2>4
  <2> QED
    BY <1>0, <1>4, <2>2, <2>3, <2>6, <2>7, QuietApart
<1>7. CASE (Increment(p) \/ Create(p)) /\ tx' = [tx EXCEPT ![p].at = Null, ![p].mine = @ \cup {tx[p].at}]
  <2>1. tx[p].busy
    BY <1>2, <1>7 DEF Increment, Create, NoTx
  <2>2. /\ tx'[p].busy = tx[p].busy /\ tx'[p].mine = tx[p].mine \cup {tx[p].at} /\ tx'[p].at = Null
        /\ tx'[p].skipped = tx[p].skipped
        /\ \A q \in Proc : q # p => tx'[q] = tx[q]
    BY <1>0, <1>1, <1>7 DEF Tx
  <2>3. \A s \in Rows : s \in tx'[p].mine \/ s = tx'[p].at => staging[s] = Null \/ Unflushed(s)
    BY <1>0, <1>3, <2>2
  <2> QED
    BY <1>0, <1>4, <1>9, <2>1, <2>2, <2>3, QuietApart
<1>8. CASE tx' = [tx EXCEPT ![p] = NoTx]
  <2>1. /\ tx'[p] = NoTx /\ NoTx.mine = {} /\ NoTx.at = Null /\ NoTx.skipped = {}
        /\ \A q \in Proc : q # p => tx'[q] = tx[q]
    BY <1>0, <1>1, <1>8 DEF NoTx
  <2>2. \A s \in Rows : ~(s \in tx'[p].mine \/ s = tx'[p].at)
    BY <1>0, <2>1
  <2> QED
    BY <1>0, <1>4, <2>1, <2>2, QuietApart
<1> QED
  BY <1>5, <1>6, <1>7, <1>8 DEF Increment, Create

\* A cycle's commit adds to what is used and to unflushed rows, so to what the
\* balance counts; what it leaves out belongs to rows that stay flushed.
LEMMA CommitCycleApart ==
  ASSUME Inductive, ApartSound, NEW p \in Cycles, CommitCycle(p)
  PROVE  /\ ApartSound'
         /\ \A r \in Rows : Flushed(r) => staging'[r] = staging[r]
<1>0. p \in Proc /\ Null \notin Rows
  BY UsageAssumption DEF Proc
<1>1. /\ tx \in [Proc -> Tx] /\ tx'[p] = NoTx /\ \A q \in Proc : q # p => tx'[q] = tx[q]
      /\ NoTx.mine = {} /\ NoTx.at = Null /\ NoTx.skipped = {}
  BY <1>0 DEF Inductive, TypeOK, Tx, CommitCycle, NoTx
<1>2. \A r \in Rows : /\ staging[r] \in Staged \cup {Null}
                    /\ ledger[r] \in Nat /\ used[r] \in Nat /\ missed[r] \in Nat
  BY DEF Inductive, TypeOK
<1>3. ASSUME NEW r \in Rows
      PROVE  /\ staging[r] = Null \/ Unflushed(r) => staging'[r] = Null \/ Unflushed(r)'
             /\ Counted(r)' = Counted(r) + CountOf(r, tx[p].mine)
             /\ Flushed(r) => staging'[r] = staging[r]
  <2>1. ledger'[r] = ledger[r] /\ CountOf(r, tx[p].mine) \in Nat
    BY DEF CommitCycle, CountOf
  <2>2. CASE r \in tx[p].mine
    <3>1. staging'[r] = OneMore(staging[r]) /\ CountOf(r, tx[p].mine) = 1
      BY <2>2 DEF CommitCycle, CountOf
    <3>2. CASE staging[r] = Null
      <4>1. staging'[r] = [qty |-> 1, flushed |-> FALSE] /\ staging'[r] # Null
        <5>1. staging'[r] = [qty |-> 1, flushed |-> FALSE]
          BY <3>1, <3>2 DEF OneMore
        <5>2. staging'[r] \in Staged
          BY <5>1 DEF Staged
        <5> QED
          BY <5>1, <5>2, NullRowAssumption
      <4>2. Pending(r) = 0 /\ Pending(r)' = 1 /\ Unflushed(r)' /\ ~Flushed(r)
        BY <3>2, <4>1 DEF Pending, Unflushed, Flushed
      <4> QED
        BY <1>2, <2>1, <3>1, <3>2, <4>2 DEF Counted
    <3>3. CASE staging[r] # Null
      <4>1. Unflushed(r) /\ staging[r] \in Staged
        BY <1>2, <2>2, <3>3 DEF ApartSound, UnflushedInHand
      <4>2. /\ staging'[r] = [staging[r] EXCEPT !.qty = @ + 1] /\ staging'[r] \in Staged
            /\ staging'[r].qty = staging[r].qty + 1 /\ staging'[r].flushed = staging[r].flushed
        BY <3>1, <3>3, <4>1 DEF OneMore, Staged
      <4>3. staging'[r] # Null
        BY <4>2, NullRowAssumption
      <4>4. /\ Unflushed(r)' /\ ~Flushed(r)
            /\ Pending(r) = staging[r].qty /\ Pending(r)' = staging[r].qty + 1
        BY <4>1, <4>2, <4>3 DEF Unflushed, Pending, Flushed
      <4> QED
        BY <1>2, <2>1, <3>1, <4>1, <4>4 DEF Counted, Staged
    <3> QED
      BY <3>2, <3>3
  <2>3. CASE r \notin tx[p].mine
    <3>1. staging'[r] = staging[r] /\ CountOf(r, tx[p].mine) = 0
      BY <2>3 DEF CommitCycle, CountOf
    <3>2. Pending(r)' = Pending(r) /\ Pending(r) \in Nat /\ Unflushed(r)' = Unflushed(r)
      BY <1>2, <3>1 DEF Pending, Unflushed, Staged
    <3> QED
      BY <1>2, <2>1, <3>1, <3>2 DEF Counted
  <2> QED
    BY <2>2, <2>3
<1>4. ASSUME NEW q \in Cycles
      PROVE  /\ ~tx'[q].busy => tx'[q] = NoTx
             /\ \A r \in Rows : r \in tx'[q].mine \/ r = tx'[q].at =>
                  staging'[r] = Null \/ Unflushed(r)'
             /\ \A r \in tx'[q].skipped : Flushed(r)'
  <2>1. CASE q = p
    BY <1>0, <1>1, <2>1
  <2>2. CASE q # p
    <3>1. tx'[q] = tx[q] /\ tx[q].skipped \subseteq Rows
      BY <1>1, <2>2 DEF Proc, Tx
    <3>2. \A r \in tx[q].skipped : Flushed(r)'
      BY <1>3, <3>1 DEF ApartSound, UnflushedInHand, Flushed
    <3> QED
      BY <1>3, <3>1, <3>2 DEF ApartSound, UnflushedInHand
  <2> QED
    BY <2>1, <2>2
<1>5. ASSUME NEW r \in Rows
      PROVE  used'[r] = Counted(r)' + missed'[r] /\ (missed'[r] > 0 => Flushed(r)')
  <2>1. /\ used'[r] = used[r] + CountOf(r, tx[p].mine) + CountOf(r, tx[p].skipped)
        /\ missed'[r] = missed[r] + CountOf(r, tx[p].skipped)
    BY DEF CommitCycle
  <2>2. used[r] = Counted(r) + missed[r] /\ (missed[r] > 0 => Flushed(r))
    BY DEF ApartSound, UseIsCounted
  <2>3. Counted(r) \in Nat /\ CountOf(r, tx[p].mine) \in Nat /\ CountOf(r, tx[p].skipped) \in Nat
    BY <1>2 DEF Counted, Pending, Unflushed, Staged, CountOf
  <2>4. missed'[r] > 0 => Flushed(r)
    BY <1>2, <2>1, <2>2 DEF CountOf, ApartSound, UnflushedInHand
  <2>5. Flushed(r) => Flushed(r)'
    BY <1>3 DEF Flushed
  <2>6. used'[r] = Counted(r)' + missed'[r]
    BY <1>2, <1>3, <2>1, <2>2, <2>3
  <2> QED
    BY <2>4, <2>5, <2>6
<1>6. UseIsCounted'
  BY <1>5 DEF UseIsCounted
<1> QED
  BY <1>3, <1>4, <1>6 DEF ApartSound, UnflushedInHand

\* A flush's commit stamps unflushed rows, at a time when no cycle has any.
LEMMA CommitFlushApart ==
  ASSUME Inductive, ApartSound, Apart, NEW p \in Flushers, CommitFlush(p)
  PROVE  /\ ApartSound'
         /\ \A r \in Rows : Flushed(r) => staging'[r] = staging[r]
<1>0. p \in Proc /\ p \notin Cycles /\ Null \notin Rows
  BY UsageAssumption DEF Proc
<1>1. \A q \in Cycles : tx'[q] = NoTx
  <2>1. \A q \in Cycles : tx'[q] = tx[q] /\ ~tx[q].busy
    BY <1>0 DEF CommitFlush, Apart, Inductive, TypeOK, Proc
  <2> QED
    BY <2>1 DEF ApartSound, UnflushedInHand
<1>2. UnflushedInHand'
  <2>1. NoTx.mine = {} /\ NoTx.at = Null /\ NoTx.skipped = {}
    BY DEF NoTx
  <2> QED
    BY <1>0, <1>1, <2>1 DEF UnflushedInHand
<1>3. ASSUME NEW r \in Rows
      PROVE  Counted(r)' = Counted(r)
  <2>1. ledger[r] \in Nat /\ staging[r] \in Staged \cup {Null}
    BY DEF Inductive, TypeOK
  <2>2. CASE r \in tx[p].mine
    <3>1. Unflushed(r) /\ staging[r].qty \in Nat
      BY <1>0, <2>1, <2>2 DEF Inductive, LocksHold, Unflushed, Staged
    <3>2. ledger'[r] = ledger[r] + staging[r].qty
      BY <2>2 DEF CommitFlush
    <3>3. staging'[r] = [staging[r] EXCEPT !.flushed = TRUE]
      BY <2>2 DEF CommitFlush
    <3>4. ~Unflushed(r)'
      BY <2>1, <3>1, <3>3 DEF Unflushed, Staged
    <3> QED
      BY <2>1, <3>1, <3>2, <3>4 DEF Counted, Pending
  <2>3. CASE r \notin tx[p].mine
    BY <2>3 DEF CommitFlush, Counted, Pending, Unflushed
  <2> QED
    BY <2>2, <2>3
<1>5. \A r \in Rows : Flushed(r) => staging'[r] = staging[r]
  BY <1>0 DEF CommitFlush, Inductive, LocksHold, Unflushed, Flushed
<1>4. UseIsCounted'
  <2>1. \A r \in Rows : Flushed(r) => Flushed(r)'
    BY <1>5 DEF Flushed
  <2> QED
    BY <1>3, <2>1 DEF CommitFlush, ApartSound, UseIsCounted
<1> QED
  BY <1>2, <1>4, <1>5 DEF ApartSound

\* Every step keeps it, and changes no flushed row, as long as flushes keep apart
\* from cycles.
LEMMA ApartStep ==
  ASSUME Inductive, ApartSound, Apart, [Next]_vars
  PROVE  /\ ApartSound'
         /\ \A r \in Rows : Flushed(r) => staging'[r] = staging[r]
<1> DEFINE Frozen ==
      \A r \in Rows : Flushed(r) => staging'[r] = staging[r]
<1>1. ASSUME UNCHANGED <<staging, ledger, used, missed, tx>> PROVE ApartSound' /\ Frozen
  BY <1>1 DEF ApartSound, UnflushedInHand, UseIsCounted, Counted, Pending, Unflushed, Flushed
<1>2. tx \in [Proc -> Tx]
  BY DEF Inductive, TypeOK, Tx
<1>3. ASSUME NEW p \in Cycles, BeginCycle(p) \/ Find(p) \/ Increment(p) \/ Create(p)
      PROVE  ApartSound' /\ Frozen
  BY <1>3, CycleApart DEF BeginCycle, Find, Increment, Create
<1>4. ASSUME NEW p \in Flushers, BeginFlush(p) \/ LockRow(p)
      PROVE  ApartSound' /\ Frozen
  <2>1. p \in Proc /\ p \notin Cycles /\ UNCHANGED <<staging, ledger, used, missed>>
    BY <1>4, UsageAssumption DEF Proc, BeginFlush, LockRow
  <2>2. \A q \in Proc : q # p => tx'[q] = tx[q]
    BY <1>2, <1>4, <2>1 DEF BeginFlush, Begin, LockRow
  <2> QED
    BY <2>1, <2>2, QuietApart
<1>5. ASSUME NEW p \in Proc, Abort(p) PROVE ApartSound' /\ Frozen
  <2>1. /\ tx'[p] = NoTx /\ NoTx.mine = {} /\ NoTx.at = Null /\ NoTx.skipped = {}
        /\ \A q \in Proc : q # p => tx'[q] = tx[q]
        /\ UNCHANGED <<staging, ledger, used, missed>>
    BY <1>2, <1>5 DEF Abort, NoTx
  <2>2. \A s \in Rows : ~(s \in tx'[p].mine \/ s = tx'[p].at)
    BY <2>1, UsageAssumption
  <2> QED
    BY <2>1, <2>2, QuietApart
<1> QED
  BY <1>1, <1>3, <1>4, <1>5, CommitCycleApart, CommitFlushApart DEF Next, Shift, vars

\* As long as flushes keep apart from cycles, the balance counts exactly what
\* committed cycles have used.
THEOREM ApartCountsExactly == Spec => ApartUseIsCounted
<1>1. Inductive /\ ApartSound /\ Apart /\ [Next]_vars => ApartSound'
  BY ApartStep
<1>2. ApartSound => UseIsCounted
  BY DEF ApartSound
<1> QED
  BY <1>1, <1>2, ApartInit, InductiveInvariant, PTL DEF Spec, ApartUseIsCounted

\* As long as flushes keep apart from cycles, a flushed row is the frozen audit
\* record it is meant to be.
THEOREM FlushedRowsStay == Spec /\ []Apart => FlushedRowsFrozen
<1>1. Inductive /\ ApartSound /\ Apart /\ [Next]_vars =>
        /\ ApartSound'
        /\ [\A r \in Rows : Flushed(r) => staging'[r] = staging[r]]_staging
  BY ApartStep
<1> QED
  BY <1>1, ApartInit, InductiveInvariant, PTL DEF Spec, FlushedRowsFrozen

=============================================================================
