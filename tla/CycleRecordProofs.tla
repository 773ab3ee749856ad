------------------------- MODULE CycleRecordProofs -------------------------
(* Theorems about CycleRecord and about the detection timers that cycles    *)
(* schedule, for every number of completions and all bounds.               *)
EXTENDS CycleRecord, TLAPS

\* The fields of a transaction on a station with the cycles of ids.
Tx(ids) == [step: Steps, ts: Nat, start: Nat, open: SUBSET ids,
            todo: SUBSET ids, mine: SUBSET ids, zero: BOOLEAN]

\* An idle transaction has a transaction's type and holds no cycle.
LEMMA NoTxType ==
  ASSUME NEW ids
  PROVE  NoTx \in Tx(ids) /\ NoTx.open = {} /\ NoTx.todo = {} /\ NoTx.mine = {}
BY DEF NoTx, Tx, Steps

\* What the invariant says of p's transaction alone.
Sound(t) ==
  /\ t.mine \subseteq Open
  /\ t.step \in {"close", "lock", "insert"} => t.open \subseteq Ended \cup t.todo \cup t.mine
  /\ t.step # "close" => t.todo = {}
  /\ t.step = "first" => t.open = {}

\* The invariant, seen from one transaction.
LEMMA InductiveTx ==
  ASSUME Inductive, NEW p \in Proc
  PROVE  tx[p] \in Tx(DOMAIN cycles) /\ Sound(tx[p])
BY DEF Inductive, TypeOK, ClosersHoldOpenCycles, MakersClose, Sound, Tx

\* The invariant holds on a station without cycles.
LEMMA InitInductive == Init => Inductive
<1> SUFFICES ASSUME Init PROVE Inductive
  OBVIOUS
<1>1. cycles = <<>> /\ made = <<>> /\ DOMAIN cycles = {} /\ DOMAIN made = {} /\ Open = {}
  BY DEF Init, Open
<1>2. TypeOK
  <2>1. NoTx \in Tx(DOMAIN cycles)
    BY NoTxType
  <2> QED
    BY <1>1, <2>1 DEF Init, TypeOK, Tx
<1>3. ClosersHoldOpenCycles /\ MakersClose
  BY NoTxType DEF Init, ClosersHoldOpenCycles, MakersClose, NoTx
<1>4. OpenCyclesMadeNothing
  BY <1>1 DEF OpenCyclesMadeNothing
<1> QED
  BY <1>2, <1>3, <1>4 DEF Inductive

-----------------------------------------------------------------------------
(* Steps that leave the rows alone: they change at most one transaction. *)

\* A step that replaces one transaction by a sound one that closes no other's
\* cycles, and leaves the rows alone, keeps the invariant.
LEMMA Quiet ==
  ASSUME Inductive, NEW p \in Proc, NEW t \in Tx(DOMAIN cycles),
         tx' = [tx EXCEPT ![p] = t],
         Sound(t),
         \A q \in Proc : p # q => t.mine \cap tx[q].mine = {},
         clock' \in Nat, lock' \in Proc \cup {Null},
         UNCHANGED <<cycles, made>>
  PROVE  Inductive'
<1>1. /\ tx \in [Proc -> Tx(DOMAIN cycles)] /\ tx'[p] = t
      /\ \A q \in Proc : q # p => tx'[q] = tx[q]
  BY DEF Inductive, TypeOK, Tx
<1>2. Open' = Open /\ Ended' = Ended
  BY DEF Open, Ended
<1>3. TypeOK'
  BY <1>1 DEF Inductive, TypeOK, Tx
<1>4. ClosersHoldOpenCycles'
  <2> SUFFICES ASSUME NEW q \in Proc
               PROVE  /\ tx'[q].mine \subseteq Open
                      /\ \A s \in Proc : q # s => tx'[q].mine \cap tx'[s].mine = {}
    BY <1>2 DEF ClosersHoldOpenCycles
  <2>1. tx'[q].mine \subseteq Open
    BY <1>1 DEF Inductive, ClosersHoldOpenCycles, Sound
  <2>2. ASSUME NEW s \in Proc, q # s PROVE tx'[q].mine \cap tx'[s].mine = {}
    BY <1>1, <2>2 DEF Inductive, ClosersHoldOpenCycles
  <2> QED
    BY <2>1, <2>2
<1>5. MakersClose'
  BY <1>1, <1>2 DEF Inductive, MakersClose, Sound
<1>6. OpenCyclesMadeNothing'
  BY <1>2 DEF Inductive, OpenCyclesMadeNothing
<1> QED
  BY <1>3, <1>4, <1>5, <1>6 DEF Inductive

\* The snapshot an immediate completion takes before it waits.
LEMMA BeginImmediateInductive ==
  ASSUME Inductive, NEW p \in Immediate, BeginImmediate(p)
  PROVE  Inductive'
<1>1. PICK t \in 0 .. MaxTime : \E start \in PrevEnd(t) :
        tx' = [tx EXCEPT ![p] = [NoTx EXCEPT !.step = "lock", !.ts = t, !.start = start]]
  BY DEF BeginImmediate
<1>0. PICK start \in PrevEnd(t) :
        tx' = [tx EXCEPT ![p] = [NoTx EXCEPT !.step = "lock", !.ts = t, !.start = start]]
  BY <1>1
<1>2. p \in Proc
  BY DEF Proc
<1>3. t \in Nat /\ start \in Nat
  <2>1. t \in Nat
    BY CycleBounds
  <2>2. cycles \in Seq(Cycle)
    BY DEF Inductive, TypeOK
  <2>3. ASSUME NEW i \in Ended PROVE cycles[i].end \in Nat
    <3>1. cycles[i] \in Cycle
      BY <2>2 DEF Ended
    <3> QED
      BY <3>1 DEF Ended, Open, Cycle
  <2> QED
    BY <2>1, <2>3 DEF PrevEnd, LatestEnd
<1> DEFINE new == [NoTx EXCEPT !.step = "lock", !.ts = t, !.start = start]
<1>4. new \in Tx(DOMAIN cycles) /\ new.mine = {} /\ new.open = {} /\ new.todo = {}
      /\ new.step = "lock"
  BY <1>3 DEF NoTx, Tx, Steps
<1>5. Sound(new)
  BY <1>4 DEF Sound
<1>6. \A q \in Proc : p # q => new.mine \cap tx[q].mine = {}
  BY <1>4
<1>7. clock' \in Nat /\ lock' \in Proc \cup {Null} /\ UNCHANGED <<cycles, made>>
  BY DEF BeginImmediate, Inductive, TypeOK
<1>8. tx' = [tx EXCEPT ![p] = new]
  BY <1>0
<1> HIDE DEF new
<1> QED
  BY <1>2, <1>4, <1>5, <1>6, <1>7, <1>8, Quiet

\* The read of the open cycles.
LEMMA BeginOpenCloseInductive ==
  ASSUME Inductive, NEW p \in OpenClose \cup Replays, BeginOpenClose(p)
  PROVE  Inductive'
<1>1. PICK t \in 0 .. MaxTime :
        tx' = [tx EXCEPT ![p] =
          [NoTx EXCEPT !.step = IF Open = {} THEN "first" ELSE "make",
                       !.ts = t, !.open = Open]]
  BY DEF BeginOpenClose
<1>2. p \in Proc /\ t \in Nat
  BY CycleBounds DEF Proc
<1> DEFINE new == [NoTx EXCEPT !.step = IF Open = {} THEN "first" ELSE "make",
                               !.ts = t, !.open = Open]
<1>3. new \in Tx(DOMAIN cycles)
  BY <1>2 DEF NoTx, Tx, Steps, Open
<1>4. /\ new.mine = {} /\ new.todo = {} /\ new.open = Open
      /\ new.step = IF Open = {} THEN "first" ELSE "make"
  BY DEF NoTx
<1>5. Sound(new)
  BY <1>4 DEF Sound
<1> HIDE DEF new
<1>6. tx' = [tx EXCEPT ![p] = new]
  BY <1>1 DEF new
<1>7. \A q \in Proc : p # q => new.mine \cap tx[q].mine = {}
  BY <1>4
<1>8. clock' \in Nat /\ lock' \in Proc \cup {Null} /\ UNCHANGED <<cycles, made>>
  BY DEF BeginOpenClose, Inductive, TypeOK
<1> QED
  BY <1>2, <1>3, <1>5, <1>6, <1>7, <1>8, Quiet

\* The look-up that decides on a zero cycle.
LEMMA LookForFirstInductive ==
  ASSUME Inductive, NEW p \in OpenClose \cup Replays, LookForFirst(p)
  PROVE  Inductive'
<1>1. p \in Proc
  BY DEF Proc
<1> DEFINE new == [tx[p] EXCEPT !.zero = (cycles = <<>>), !.step = AfterClosing(p)]
<1>2. tx[p] \in Tx(DOMAIN cycles) /\ Sound(tx[p])
  BY <1>1, InductiveTx
<1>3. /\ new \in Tx(DOMAIN cycles) /\ new.mine = tx[p].mine
      /\ new.open = tx[p].open /\ new.todo = tx[p].todo /\ new.step \in {"lock", "insert"}
  BY <1>2 DEF Tx, Steps, AfterClosing
<1>4. tx' = [tx EXCEPT ![p] = new]
  BY <1>1 DEF LookForFirst, Inductive, TypeOK
<1> HIDE DEF new
<1>5. Sound(new)
  BY <1>2, <1>3 DEF Sound, LookForFirst
<1>6. \A q \in Proc : p # q => new.mine \cap tx[q].mine = {}
  BY <1>1, <1>3 DEF Inductive, ClosersHoldOpenCycles
<1> QED
  BY <1>1, <1>3, <1>4, <1>5, <1>6, Quiet DEF LookForFirst, Inductive, TypeOK

\* From the inventory of the open cycles to the update that closes them: those
\* that were read are ended by now or among those it will come to.
LEMMA StartClosingInductive ==
  ASSUME Inductive, NEW p \in OpenClose \cup Replays, StartClosing(p)
  PROVE  Inductive'
<1>1. p \in Proc
  BY DEF Proc
<1> DEFINE new == [tx[p] EXCEPT !.step = "close", !.todo = Open]
<1>2. tx[p] \in Tx(DOMAIN cycles) /\ Sound(tx[p])
  BY <1>1, InductiveTx
<1>3. /\ new \in Tx(DOMAIN cycles) /\ new.mine = tx[p].mine
      /\ new.open = tx[p].open /\ new.todo = Open /\ new.step = "close"
  BY <1>2 DEF Tx, Steps, Open
<1>4. tx' = [tx EXCEPT ![p] = new]
  BY <1>1 DEF StartClosing, Inductive, TypeOK
<1> HIDE DEF new
<1>5. Sound(new)
  BY <1>2, <1>3 DEF Sound, Tx, Ended
<1>6. \A q \in Proc : p # q => new.mine \cap tx[q].mine = {}
  BY <1>1, <1>3 DEF Inductive, ClosersHoldOpenCycles
<1> QED
  BY <1>1, <1>3, <1>4, <1>5, <1>6, Quiet DEF StartClosing, Inductive, TypeOK

\* The row an update comes to is not locked by another one; when it was closed
\* meanwhile it is skipped, and is somebody else's.
LEMMA LockCycleInductive ==
  ASSUME Inductive, NEW p \in OpenClose \cup Replays, LockCycle(p)
  PROVE  Inductive'
<1>1. p \in Proc
  BY DEF Proc
<1>2. PICK i \in tx[p].todo :
        /\ ~Locked(i)
        /\ tx' = [tx EXCEPT ![p].todo = @ \ {i},
                            ![p].mine = IF i \in Open THEN @ \cup {i} ELSE @]
  BY DEF LockCycle
<1> DEFINE mine == IF i \in Open THEN tx[p].mine \cup {i} ELSE tx[p].mine
           new == [tx[p] EXCEPT !.todo = @ \ {i}, !.mine = mine]
<1>3. tx[p] \in Tx(DOMAIN cycles) /\ Sound(tx[p])
  BY <1>1, InductiveTx
<1>4. /\ new \in Tx(DOMAIN cycles) /\ new.mine = mine
      /\ new.open = tx[p].open /\ new.todo = tx[p].todo \ {i} /\ new.step = "close"
  BY <1>3 DEF Tx, LockCycle
<1>5. tx' = [tx EXCEPT ![p] = new]
  BY <1>1, <1>2 DEF Inductive, TypeOK
<1>6. i \in DOMAIN cycles
  BY <1>3 DEF Tx
<1> HIDE DEF new
<1>7. Sound(new)
  BY <1>3, <1>4, <1>6 DEF Sound, Ended, LockCycle
<1>8. \A q \in Proc : p # q => new.mine \cap tx[q].mine = {}
  BY <1>1, <1>2, <1>4 DEF Inductive, ClosersHoldOpenCycles, Locked
<1> QED
  BY <1>1, <1>4, <1>5, <1>7, <1>8, Quiet DEF LockCycle, Inductive, TypeOK

\* The end of the update.
LEMMA EndClosingInductive ==
  ASSUME Inductive, NEW p \in OpenClose \cup Replays, EndClosing(p)
  PROVE  Inductive'
<1>1. p \in Proc
  BY DEF Proc
<1> DEFINE new == [tx[p] EXCEPT !.step = AfterClosing(p)]
<1>2. tx[p] \in Tx(DOMAIN cycles) /\ Sound(tx[p])
  BY <1>1, InductiveTx
<1>3. /\ new \in Tx(DOMAIN cycles) /\ new.mine = tx[p].mine
      /\ new.open = tx[p].open /\ new.todo = {} /\ new.step \in {"lock", "insert"}
  BY <1>2 DEF Tx, Steps, AfterClosing, EndClosing
<1>4. tx' = [tx EXCEPT ![p] = new]
  BY <1>1 DEF EndClosing, Inductive, TypeOK
<1> HIDE DEF new
<1>5. Sound(new)
  BY <1>2, <1>3 DEF Sound, EndClosing
<1>6. \A q \in Proc : p # q => new.mine \cap tx[q].mine = {}
  BY <1>1, <1>3 DEF Inductive, ClosersHoldOpenCycles
<1> QED
  BY <1>1, <1>3, <1>4, <1>5, <1>6, Quiet DEF EndClosing, Inductive, TypeOK

\* The station's lock is granted.
LEMMA AcquireInductive ==
  ASSUME Inductive, NEW p \in Proc, Acquire(p)
  PROVE  Inductive'
<1> DEFINE new == [tx[p] EXCEPT !.step = "insert"]
<1>1. tx[p] \in Tx(DOMAIN cycles) /\ Sound(tx[p])
  BY InductiveTx
<1>2. /\ new \in Tx(DOMAIN cycles) /\ new.mine = tx[p].mine
      /\ new.open = tx[p].open /\ new.todo = tx[p].todo /\ new.step = "insert"
  BY <1>1 DEF Tx, Steps
<1>3. tx' = [tx EXCEPT ![p] = new]
  BY DEF Acquire, Inductive, TypeOK
<1> HIDE DEF new
<1>4. Sound(new)
  BY <1>1, <1>2 DEF Sound, Acquire
<1>5. \A q \in Proc : p # q => new.mine \cap tx[q].mine = {}
  BY <1>2 DEF Inductive, ClosersHoldOpenCycles
<1>6. clock' \in Nat /\ lock' \in Proc \cup {Null} /\ UNCHANGED <<cycles, made>>
  BY DEF Acquire, Inductive, TypeOK
<1> QED
  BY <1>2, <1>3, <1>4, <1>5, <1>6, Quiet

\* A rollback forgets what the transaction holds and changes no row.
LEMMA AbortInductive ==
  ASSUME Inductive, NEW p \in Proc, Abort(p)
  PROVE  Inductive'
<1>1. NoTx \in Tx(DOMAIN cycles) /\ NoTx.mine = {} /\ Sound(NoTx)
  BY NoTxType DEF Sound, NoTx
<1>2. /\ tx' = [tx EXCEPT ![p] = NoTx] /\ lock' \in Proc \cup {Null}
      /\ clock' \in Nat /\ UNCHANGED <<cycles, made>>
  BY DEF Abort, End, Inductive, TypeOK
<1>3. \A q \in Proc : p # q => NoTx.mine \cap tx[q].mine = {}
  BY <1>1
<1> QED
  BY <1>1, <1>2, <1>3, Quiet

\* Time passes.
LEMMA TickInductive ==
  ASSUME Inductive, Tick
  PROVE  Inductive'
<1>1. clock' \in Nat /\ UNCHANGED <<cycles, made, lock, tx>>
  BY DEF Tick, Inductive, TypeOK
<1> QED
  BY <1>1 DEF Inductive, TypeOK, ClosersHoldOpenCycles, MakersClose,
              OpenCyclesMadeNothing, Open, Ended

-----------------------------------------------------------------------------
(* The commit: rows are closed and rows are added. *)

\* A concatenation, by its elements.
LEMMA Concat ==
  ASSUME NEW S, NEW a \in Seq(S), NEW b \in Seq(S)
  PROVE  /\ a \o b \in Seq(S)
         /\ DOMAIN (a \o b) = 1 .. (Len(a) + Len(b))
         /\ \A i \in 1 .. Len(a) : (a \o b)[i] = a[i]
         /\ \A i \in 1 .. (Len(a) + Len(b)) : i \notin 1 .. Len(a) =>
              i - Len(a) \in 1 .. Len(b) /\ (a \o b)[i] = b[i - Len(a)]
OBVIOUS

\* The rows a completion inserts are cycles; an open one has no inventory yet,
\* an ended one has it.  Those of an immediate completion are ended.
LEMMA InsertedType ==
  ASSUME Inductive, NEW p \in Proc
  PROVE  /\ Inserted(p) \in Seq(Cycle)
         /\ MadeFor(Inserted(p)) \in Seq(Nat)
         /\ Len(MadeFor(Inserted(p))) = Len(Inserted(p))
         /\ \A i \in DOMAIN Inserted(p) :
              /\ MadeFor(Inserted(p))[i] = IF Inserted(p)[i].end = Null THEN 0 ELSE 1
              /\ p \in Immediate => Inserted(p)[i].end # Null
<1>1. tx[p].ts \in Nat /\ tx[p].start \in Nat
  BY InductiveTx DEF Tx
<1>2. /\ [start |-> tx[p].start, end |-> tx[p].ts] \in Cycle
      /\ [start |-> tx[p].ts, end |-> tx[p].ts] \in Cycle
      /\ [start |-> tx[p].ts, end |-> Null] \in Cycle
  BY <1>1 DEF Cycle
<1>3. Inserted(p) \in Seq(Cycle)
  BY <1>2 DEF Inserted
<1>4. /\ MadeFor(Inserted(p)) \in Seq(Nat)
      /\ Len(MadeFor(Inserted(p))) = Len(Inserted(p))
      /\ \A i \in DOMAIN Inserted(p) :
           MadeFor(Inserted(p))[i] = IF Inserted(p)[i].end = Null THEN 0 ELSE 1
  BY <1>3 DEF MadeFor
<1>5. ASSUME p \in Immediate, NEW i \in DOMAIN Inserted(p)
      PROVE  Inserted(p)[i].end # Null
  <2>1. Inserted(p) = <<[start |-> tx[p].start, end |-> tx[p].ts]>> /\ i = 1
    BY <1>5 DEF Inserted
  <2> QED
    BY <1>1, <2>1, CycleNull
<1> QED
  BY <1>3, <1>4, <1>5

\* The old rows keep their places; those p was closing get its timestamp.
LEMMA CommitRows ==
  ASSUME Inductive, NEW p \in Proc, Commit(p)
  PROVE  /\ cycles' \in Seq(Cycle) /\ made' \in Seq(Nat)
         /\ DOMAIN made' = DOMAIN cycles'
         /\ DOMAIN cycles \subseteq DOMAIN cycles'
         /\ \A i \in DOMAIN cycles :
              /\ cycles'[i] = IF i \in tx[p].mine THEN [cycles[i] EXCEPT !.end = tx[p].ts]
                              ELSE cycles[i]
              /\ made'[i] = IF i \in tx[p].open THEN made[i] + 1 ELSE made[i]
         /\ \A i \in DOMAIN cycles' \ DOMAIN cycles :
              /\ made'[i] = IF cycles'[i].end = Null THEN 0 ELSE 1
              /\ p \in Immediate => cycles'[i].end # Null
<1> DEFINE c == [i \in DOMAIN cycles |->
                   IF i \in tx[p].mine THEN [cycles[i] EXCEPT !.end = tx[p].ts] ELSE cycles[i]]
           m == [i \in DOMAIN made |-> IF i \in tx[p].open THEN made[i] + 1 ELSE made[i]]
           ins == Inserted(p)
           new == MadeFor(Inserted(p))
<1>1. cycles' = c \o ins /\ made' = m \o new
  BY DEF Commit
<1>2. cycles \in Seq(Cycle) /\ made \in Seq(Nat) /\ DOMAIN made = DOMAIN cycles
  BY DEF Inductive, TypeOK
<1>3. c \in Seq(Cycle) /\ Len(c) = Len(cycles)
  <2>1. tx[p].ts \in Nat
    BY InductiveTx DEF Tx
  <2>2. ASSUME NEW i \in DOMAIN cycles PROVE c[i] \in Cycle
    <3>1. cycles[i] \in Cycle
      BY <1>2
    <3> QED
      BY <2>1, <3>1 DEF Cycle
  <2> QED
    BY <1>2, <2>2
<1>4. m \in Seq(Nat) /\ Len(m) = Len(cycles)
  BY <1>2
<1>5. DOMAIN cycles = 1 .. Len(cycles) /\ Len(cycles) \in Nat
  BY <1>2
<1>6. ins \in Seq(Cycle) /\ new \in Seq(Nat) /\ Len(new) = Len(ins) /\ Len(ins) \in Nat
  BY InsertedType
<1>7. \A i \in DOMAIN ins : /\ new[i] = IF ins[i].end = Null THEN 0 ELSE 1
                            /\ p \in Immediate => ins[i].end # Null
  BY InsertedType
<1>8. \A i \in DOMAIN cycles :
        /\ c[i] = IF i \in tx[p].mine THEN [cycles[i] EXCEPT !.end = tx[p].ts] ELSE cycles[i]
        /\ m[i] = IF i \in tx[p].open THEN made[i] + 1 ELSE made[i]
  BY <1>2
<1> HIDE DEF c, m, ins, new
<1>9. /\ c \o ins \in Seq(Cycle) /\ DOMAIN (c \o ins) = 1 .. (Len(cycles) + Len(ins))
      /\ \A i \in DOMAIN cycles : (c \o ins)[i] = c[i]
      /\ \A i \in DOMAIN (c \o ins) : i \notin DOMAIN cycles =>
           i - Len(cycles) \in 1 .. Len(ins) /\ (c \o ins)[i] = ins[i - Len(cycles)]
  <2>1. /\ c \o ins \in Seq(Cycle)
        /\ DOMAIN (c \o ins) = 1 .. (Len(c) + Len(ins))
        /\ \A i \in 1 .. Len(c) : (c \o ins)[i] = c[i]
        /\ \A i \in 1 .. (Len(c) + Len(ins)) : i \notin 1 .. Len(c) =>
             i - Len(c) \in 1 .. Len(ins) /\ (c \o ins)[i] = ins[i - Len(c)]
    BY <1>3, <1>6
  <2>2. Len(c) = Len(cycles) /\ 1 .. Len(c) = DOMAIN cycles
        /\ 1 .. (Len(c) + Len(ins)) = DOMAIN (c \o ins)
    <3>1. DOMAIN cycles = 1 .. Len(c)
      BY <1>3, <1>5, Zenon
    <3> QED
      BY <2>1, <1>3, <3>1, Zenon
  <2>3. \A i \in DOMAIN cycles : (c \o ins)[i] = c[i]
    BY <2>1, <2>2, Zenon
  <2>4. ASSUME NEW i \in DOMAIN (c \o ins), i \notin DOMAIN cycles
        PROVE  i - Len(cycles) \in 1 .. Len(ins) /\ (c \o ins)[i] = ins[i - Len(cycles)]
    <3>1. i \in 1 .. (Len(c) + Len(ins)) /\ i \notin 1 .. Len(c)
      BY <2>2, <2>4, Zenon
    <3>2. i - Len(c) \in 1 .. Len(ins) /\ (c \o ins)[i] = ins[i - Len(c)]
      BY <2>1, <3>1, Zenon
    <3> QED
      BY <3>2, <2>2, Zenon
  <2> QED
    BY <2>1, <2>2, <2>3, <2>4, Zenon
<1>10. /\ m \o new \in Seq(Nat) /\ DOMAIN (m \o new) = 1 .. (Len(cycles) + Len(ins))
       /\ \A i \in DOMAIN cycles : (m \o new)[i] = m[i]
       /\ \A i \in DOMAIN (m \o new) : i \notin DOMAIN cycles =>
            (m \o new)[i] = new[i - Len(cycles)]
  <2>1. /\ m \o new \in Seq(Nat)
        /\ DOMAIN (m \o new) = 1 .. (Len(m) + Len(new))
        /\ \A i \in 1 .. Len(m) : (m \o new)[i] = m[i]
        /\ \A i \in 1 .. (Len(m) + Len(new)) : i \notin 1 .. Len(m) =>
             i - Len(m) \in 1 .. Len(new) /\ (m \o new)[i] = new[i - Len(m)]
    BY <1>4, <1>6, Concat
  <2>2. /\ Len(m) = Len(cycles) /\ 1 .. Len(m) = DOMAIN cycles /\ Len(new) = Len(ins)
        /\ 1 .. (Len(m) + Len(new)) = DOMAIN (m \o new)
    <3>1. DOMAIN cycles = 1 .. Len(m)
      BY <1>4, <1>5, Zenon
    <3> QED
      BY <2>1, <1>4, <1>6, <3>1, Zenon
  <2>3. \A i \in DOMAIN cycles : (m \o new)[i] = m[i]
    BY <2>1, <2>2, Zenon
  <2>4. ASSUME NEW i \in DOMAIN (m \o new), i \notin DOMAIN cycles
        PROVE  (m \o new)[i] = new[i - Len(cycles)]
    <3>1. i \in 1 .. (Len(m) + Len(new)) /\ i \notin 1 .. Len(m)
      BY <2>2, <2>4, Zenon
    <3>2. (m \o new)[i] = new[i - Len(m)]
      BY <2>1, <3>1, Zenon
    <3> QED
      BY <3>2, <2>2, Zenon
  <2> QED
    BY <2>1, <2>2, <2>3, <2>4, Zenon
<1>11. DOMAIN cycles \subseteq DOMAIN cycles'
  BY <1>1, <1>5, <1>6, <1>9
<1>12. ASSUME NEW i \in DOMAIN cycles' \ DOMAIN cycles
       PROVE  /\ made'[i] = IF cycles'[i].end = Null THEN 0 ELSE 1
              /\ p \in Immediate => cycles'[i].end # Null
  <2> DEFINE j == i - Len(cycles)
  <2>1. /\ i \in DOMAIN (c \o ins) /\ i \in DOMAIN (m \o new)
        /\ j \in DOMAIN ins
    <3>1. DOMAIN ins = 1 .. Len(ins)
      BY <1>6
    <3> QED
      BY <3>1, <1>1, <1>9, <1>10
  <2>2. cycles'[i] = ins[j] /\ made'[i] = new[j]
    BY <2>1, <1>1, <1>9, <1>10, <1>12
  <2> HIDE DEF j
  <2> QED
    BY <2>1, <2>2, <1>7, <1>12
<1> QED
  BY <1>1, <1>8, <1>9, <1>10, <1>11, <1>12

\* A commit closes what the transaction holds, counts the inventory it made and
\* inserts its rows: nobody else loses the cycles he holds or relies on.
LEMMA CommitInductive ==
  ASSUME Inductive, NEW p \in Proc, Commit(p)
  PROVE  Inductive'
<1>1. /\ cycles' \in Seq(Cycle) /\ made' \in Seq(Nat) /\ DOMAIN made' = DOMAIN cycles'
      /\ DOMAIN cycles \subseteq DOMAIN cycles'
  BY CommitRows
<1>2. tx[p] \in Tx(DOMAIN cycles) /\ Sound(tx[p]) /\ tx[p].step = "insert"
  BY InductiveTx DEF Commit
<1>3. /\ tx' \in [Proc -> Tx(DOMAIN cycles')] /\ tx'[p] = NoTx
      /\ \A q \in Proc : q # p => tx'[q] = tx[q]
  <2>1. tx \in [Proc -> Tx(DOMAIN cycles')]
    BY <1>1 DEF Inductive, TypeOK, Tx
  <2>2. NoTx \in Tx(DOMAIN cycles')
    BY NoTxType
  <2>3. tx' = [tx EXCEPT ![p] = NoTx]
    BY DEF Commit, End
  <2> QED
    BY <2>1, <2>2, <2>3
<1>4. Open' \cap DOMAIN cycles = Open \ tx[p].mine
  <2>1. ASSUME NEW i \in DOMAIN cycles
        PROVE  cycles'[i].end = Null <=> cycles[i].end = Null /\ i \notin tx[p].mine
    <3>1. cycles[i] \in Cycle
      BY DEF Inductive, TypeOK
    <3>2. tx[p].ts \in Nat
      BY <1>2 DEF Tx
    <3>3. cycles'[i] = IF i \in tx[p].mine THEN [cycles[i] EXCEPT !.end = tx[p].ts]
                      ELSE cycles[i]
      BY CommitRows
    <3>4. CASE i \in tx[p].mine
      BY <3>1, <3>2, <3>3, <3>4, CycleNull DEF Cycle
    <3>5. CASE i \notin tx[p].mine
      BY <3>3, <3>5
    <3> QED
      BY <3>4, <3>5
  <2> QED
    BY <1>1, <2>1 DEF Open
<1>5. Ended \subseteq Ended' /\ Ended \subseteq DOMAIN cycles
  BY <1>1, <1>4 DEF Ended
<1>6. TypeOK'
  <2>1. lock' \in Proc \cup {Null} /\ clock' \in Nat
    BY DEF Commit, End, Inductive, TypeOK
  <2> QED
    BY <1>1, <1>3, <2>1 DEF TypeOK, Tx
<1>7. ClosersHoldOpenCycles'
  <2> SUFFICES ASSUME NEW q \in Proc
               PROVE  /\ tx'[q].mine \subseteq Open'
                      /\ \A s \in Proc : q # s => tx'[q].mine \cap tx'[s].mine = {}
    BY DEF ClosersHoldOpenCycles
  <2>1. CASE q = p
    BY <1>3, <2>1, NoTxType
  <2>2. CASE q # p
    <3>1. tx'[q].mine = tx[q].mine /\ tx[q].mine \subseteq Open \ tx[p].mine
      BY <1>3, <2>2 DEF Inductive, ClosersHoldOpenCycles
    <3>2. ASSUME NEW s \in Proc, q # s PROVE tx'[q].mine \cap tx'[s].mine = {}
      BY <1>3, <2>2, <3>2, NoTxType DEF Inductive, ClosersHoldOpenCycles
    <3> QED
      BY <1>4, <3>1, <3>2
  <2> QED
    BY <2>1, <2>2
<1>8. MakersClose'
  <2> SUFFICES ASSUME NEW q \in Proc
               PROVE  /\ tx'[q].step \in {"close", "lock", "insert"} =>
                           tx'[q].open \subseteq Ended' \cup tx'[q].todo \cup tx'[q].mine
                      /\ tx'[q].step # "close" => tx'[q].todo = {}
                      /\ tx'[q].step = "first" => tx'[q].open = {}
    BY DEF MakersClose
  <2>1. CASE q = p
    BY <1>3, <2>1 DEF NoTx
  <2>2. CASE q # p
    BY <1>3, <1>5, <2>2 DEF Inductive, MakersClose
  <2> QED
    BY <2>1, <2>2
<1>9. OpenCyclesMadeNothing'
  <2> SUFFICES ASSUME NEW i \in Open' PROVE made'[i] = 0
    BY DEF OpenCyclesMadeNothing
  <2>1. i \in DOMAIN cycles' /\ cycles'[i].end = Null
    BY DEF Open
  <2>2. CASE i \in DOMAIN cycles
    <3>1. i \in Open /\ i \notin tx[p].mine
      BY <1>4, <2>2
    <3>2. i \notin tx[p].open
      BY <1>2, <3>1 DEF Sound, Ended
    <3>3. made[i] = 0
      BY <3>1 DEF Inductive, OpenCyclesMadeNothing
    <3> QED
      BY <2>2, <3>2, <3>3, CommitRows
  <2>3. CASE i \notin DOMAIN cycles
    BY <2>1, <2>3, CommitRows
  <2> QED
    BY <2>2, <2>3
<1> QED
  BY <1>6, <1>7, <1>8, <1>9 DEF Inductive

-----------------------------------------------------------------------------
(* The theorems *)

\* Every step keeps the invariant.
LEMMA NextInductive ==
  ASSUME Inductive, [Next]_vars
  PROVE  Inductive'
<1>1. CASE Tick
  BY <1>1, TickInductive
<1>2. ASSUME NEW p \in Immediate, BeginImmediate(p) PROVE Inductive'
  BY <1>2, BeginImmediateInductive
<1>3. ASSUME NEW p \in OpenClose \cup Replays,
             \/ BeginOpenClose(p) \/ LookForFirst(p)
             \/ StartClosing(p) \/ LockCycle(p) \/ EndClosing(p)
      PROVE  Inductive'
  BY <1>3, BeginOpenCloseInductive, LookForFirstInductive, StartClosingInductive,
     LockCycleInductive, EndClosingInductive
<1>4. ASSUME NEW p \in Proc, Acquire(p) \/ Commit(p) \/ Abort(p)
      PROVE  Inductive'
  BY <1>4, AcquireInductive, CommitInductive, AbortInductive
<1>5. CASE UNCHANGED vars
  BY <1>5 DEF vars, Inductive, TypeOK, ClosersHoldOpenCycles, MakersClose,
              OpenCyclesMadeNothing, Open, Ended
<1> QED
  BY <1>1, <1>2, <1>3, <1>4, <1>5 DEF Next

\* Whatever completions race, wait and abort, the invariant of the cycle rows is
\* kept.
THEOREM InductiveInvariant == Spec => []Inductive
<1>1. Inductive /\ [Next]_vars => Inductive'
  BY NextInductive
<1> QED
  BY <1>1, InitInductive, PTL DEF Spec

\* Every variable keeps its type.
THEOREM TypeCorrect == Spec => []TypeOK
<1>1. Inductive => TypeOK
  BY DEF Inductive
<1> QED
  BY <1>1, InductiveInvariant, PTL

\* No completion makes inventory for a cycle and leaves it open.
THEOREM OpenCyclesHaveMadeNothing == Spec => []OpenCyclesMadeNothing
<1>1. Inductive => OpenCyclesMadeNothing
  BY DEF Inductive
<1> QED
  BY <1>1, InductiveInvariant, PTL

\* Two transactions never close the same cycle.
THEOREM ClosersAreAlone == Spec => []ClosersHoldOpenCycles
<1>1. Inductive => ClosersHoldOpenCycles
  BY DEF Inductive
<1> QED
  BY <1>1, InductiveInvariant, PTL

\* No completion changes a cycle that has its end.
THEOREM CompletedCyclesStayFrozen == Spec => CompletedCyclesFrozen
<1>1. Inductive /\ [Next]_vars => [\A i \in Ended : cycles'[i] = cycles[i]]_cycles
  <2> SUFFICES ASSUME Inductive, [Next]_vars, cycles' # cycles, NEW i \in Ended
               PROVE  cycles'[i] = cycles[i]
    OBVIOUS
  <2>1. PICK p \in Proc : Commit(p)
    BY DEF Next, vars, Tick, BeginImmediate, BeginOpenClose, LookForFirst, StartClosing,
           LockCycle, EndClosing, Acquire, Abort
  <2>2. i \in DOMAIN cycles /\ i \notin Open
    BY DEF Ended
  <2>3. i \notin tx[p].mine
    BY <2>2 DEF Inductive, ClosersHoldOpenCycles
  <2> QED
    BY <2>1, <2>2, <2>3, CommitRows
<1> QED
  BY <1>1, InductiveInvariant, PTL DEF Spec, CompletedCyclesFrozen

-----------------------------------------------------------------------------
(* Open-close completions that take turns *)

\* While completions take turns, the open cycles one has read stay the open ones:
\* its update comes to all of them, and closes each.
Tidy(p, t) ==
  /\ t.step \notin {"make", "close"} => t.open = t.mine
  /\ t.step = "make" => t.open = Open /\ t.mine = {}
  /\ t.step = "close" => t.todo \subseteq Open /\ t.open = t.todo \cup t.mine
  /\ p \in Immediate => t.mine = {} /\ t.step \notin {"make", "close"}

\* What holds besides as long as completions take turns.
TurnsSound ==
  /\ \A p \in Proc : Tidy(p, tx[p])
  /\ ClosedCyclesMadeItemsOnce

\* A station without cycles.
LEMMA TurnsInit == Init => TurnsSound
<1> SUFFICES ASSUME Init PROVE TurnsSound
  OBVIOUS
<1>1. cycles = <<>> /\ Ended = {} /\ \A p \in Proc : tx[p] = NoTx
  BY DEF Init, Ended
<1>2. /\ NoTx.step = "idle" /\ NoTx.open = {} /\ NoTx.mine = {}
      /\ ClosedCyclesMadeItemsOnce
  BY <1>1 DEF NoTx, ClosedCyclesMadeItemsOnce
<1>3. \A p \in Proc : Tidy(p, NoTx)
  BY <1>2 DEF Tidy
<1> QED
  BY <1>1, <1>2, <1>3, Zenon DEF TurnsSound

\* A step that leaves the rows alone keeps it when it leaves its transaction tidy.
LEMMA QuietTurns ==
  ASSUME TurnsSound, Inductive, NEW p \in Proc, NEW t, tx' = [tx EXCEPT ![p] = t],
         Tidy(p, t), UNCHANGED <<cycles, made>>
  PROVE  TurnsSound'
<1>1. tx'[p] = t /\ \A q \in Proc : q # p => tx'[q] = tx[q]
  BY DEF Inductive, TypeOK
<1>2. Open' = Open /\ Ended' = Ended
  BY DEF Open, Ended
<1>3. \A q \in Proc : Tidy(q, tx[q])'
  BY <1>1, <1>2 DEF TurnsSound, Tidy
<1>4. ClosedCyclesMadeItemsOnce'
  BY <1>2 DEF TurnsSound, ClosedCyclesMadeItemsOnce
<1> QED
  BY <1>3, <1>4 DEF TurnsSound

\* What an open-close completion does before it commits.
LEMMA CloserTurns ==
  ASSUME TurnsSound, Inductive, NEW p \in OpenClose \cup Replays,
         \/ BeginOpenClose(p) \/ LookForFirst(p)
         \/ StartClosing(p) \/ LockCycle(p) \/ EndClosing(p)
  PROVE  TurnsSound'
<1>1. p \in Proc /\ p \notin Immediate
  BY CycleProcs DEF Proc
<1>2. tx[p] \in Tx(DOMAIN cycles) /\ Sound(tx[p]) /\ Tidy(p, tx[p])
  BY <1>1, InductiveTx DEF TurnsSound
<1>3. UNCHANGED <<cycles, made>>
  BY DEF BeginOpenClose, LookForFirst, StartClosing, LockCycle, EndClosing
<1>4. CASE BeginOpenClose(p)
  <2>1. PICK t \in 0 .. MaxTime :
          tx' = [tx EXCEPT ![p] =
            [NoTx EXCEPT !.step = IF Open = {} THEN "first" ELSE "make",
                         !.ts = t, !.open = Open]]
    BY <1>4 DEF BeginOpenClose
  <2> DEFINE new == [NoTx EXCEPT !.step = IF Open = {} THEN "first" ELSE "make",
                                 !.ts = t, !.open = Open]
  <2>2. /\ new.open = Open /\ new.mine = {}
        /\ new.step = IF Open = {} THEN "first" ELSE "make"
    BY DEF NoTx
  <2>3. tx' = [tx EXCEPT ![p] = new]
    BY <2>1
  <2> HIDE DEF new
  <2>4. Tidy(p, new)
    BY <1>1, <2>2 DEF Tidy
  <2> QED
    BY <1>1, <1>3, <2>3, <2>4, QuietTurns
<1>5. CASE LookForFirst(p)
  <2> DEFINE new == [tx[p] EXCEPT !.zero = (cycles = <<>>), !.step = AfterClosing(p)]
  <2>1. /\ new.mine = tx[p].mine /\ new.open = tx[p].open
        /\ new.step \in {"lock", "insert"} /\ tx[p].step = "first"
    BY <1>2, <1>5 DEF Tx, AfterClosing, LookForFirst
  <2>2. tx' = [tx EXCEPT ![p] = new]
    BY <1>1, <1>5 DEF LookForFirst, Inductive, TypeOK
  <2> HIDE DEF new
  <2>3. Tidy(p, new)
    BY <1>1, <1>2, <2>1 DEF Tidy
  <2> QED
    BY <1>1, <1>3, <2>2, <2>3, QuietTurns
<1>6. CASE StartClosing(p)
  <2> DEFINE new == [tx[p] EXCEPT !.step = "close", !.todo = Open]
  <2>1. /\ new.mine = tx[p].mine /\ new.open = tx[p].open /\ new.todo = Open
        /\ new.step = "close" /\ tx[p].step = "make"
    BY <1>2, <1>6 DEF Tx, StartClosing
  <2>2. tx' = [tx EXCEPT ![p] = new]
    BY <1>1, <1>6 DEF StartClosing, Inductive, TypeOK
  <2> HIDE DEF new
  <2>3. Tidy(p, new)
    BY <1>1, <1>2, <2>1 DEF Tidy
  <2> QED
    BY <1>1, <1>3, <2>2, <2>3, QuietTurns
<1>7. CASE LockCycle(p)
  <2>1. PICK i \in tx[p].todo :
          tx' = [tx EXCEPT ![p].todo = @ \ {i},
                           ![p].mine = IF i \in Open THEN @ \cup {i} ELSE @]
    BY <1>7 DEF LockCycle
  <2>2. tx[p].step = "close" /\ i \in Open
    BY <1>2, <1>7 DEF LockCycle, Tidy
  <2> DEFINE new == [tx[p] EXCEPT !.todo = @ \ {i}, !.mine = @ \cup {i}]
  <2>3. /\ new.mine = tx[p].mine \cup {i} /\ new.open = tx[p].open
        /\ new.todo = tx[p].todo \ {i} /\ new.step = "close"
    BY <1>2, <2>2 DEF Tx
  <2>4. tx' = [tx EXCEPT ![p] = new]
    BY <1>1, <2>1, <2>2 DEF Inductive, TypeOK
  <2> HIDE DEF new
  <2>5. Tidy(p, new)
    BY <1>1, <1>2, <2>2, <2>3 DEF Tidy
  <2> QED
    BY <1>1, <1>3, <2>4, <2>5, QuietTurns
<1>8. CASE EndClosing(p)
  <2> DEFINE new == [tx[p] EXCEPT !.step = AfterClosing(p)]
  <2>1. /\ new.mine = tx[p].mine /\ new.open = tx[p].open
        /\ new.step \in {"lock", "insert"} /\ tx[p].step = "close" /\ tx[p].todo = {}
    BY <1>2, <1>8 DEF Tx, AfterClosing, EndClosing
  <2>2. tx' = [tx EXCEPT ![p] = new]
    BY <1>1, <1>8 DEF EndClosing, Inductive, TypeOK
  <2> HIDE DEF new
  <2>3. Tidy(p, new)
    BY <1>1, <1>2, <2>1 DEF Tidy
  <2> QED
    BY <1>1, <1>3, <2>2, <2>3, QuietTurns
<1> QED
  BY <1>4, <1>5, <1>6, <1>7, <1>8

\* The snapshot of an immediate completion, the station's lock, and a rollback.
LEMMA OtherTurns ==
  ASSUME TurnsSound, Inductive, NEW p \in Proc,
         \/ p \in Immediate /\ BeginImmediate(p)
         \/ Acquire(p)
         \/ Abort(p)
  PROVE  TurnsSound'
<1>1. tx[p] \in Tx(DOMAIN cycles) /\ Tidy(p, tx[p])
  BY InductiveTx DEF TurnsSound
<1>2. CASE p \in Immediate /\ BeginImmediate(p)
  <2>1. PICK t \in 0 .. MaxTime : \E start \in PrevEnd(t) :
          tx' = [tx EXCEPT ![p] = [NoTx EXCEPT !.step = "lock", !.ts = t, !.start = start]]
    BY <1>2 DEF BeginImmediate
  <2>2. PICK start \in PrevEnd(t) :
          tx' = [tx EXCEPT ![p] = [NoTx EXCEPT !.step = "lock", !.ts = t, !.start = start]]
    BY <2>1
  <2> DEFINE new == [NoTx EXCEPT !.step = "lock", !.ts = t, !.start = start]
  <2>3. new.mine = {} /\ new.open = {} /\ new.step = "lock"
    BY DEF NoTx
  <2>4. tx' = [tx EXCEPT ![p] = new] /\ UNCHANGED <<cycles, made>>
    BY <1>2, <2>2 DEF BeginImmediate
  <2> HIDE DEF new
  <2>5. Tidy(p, new)
    BY <2>3 DEF Tidy
  <2> QED
    BY <2>4, <2>5, QuietTurns
<1>3. CASE Acquire(p)
  <2> DEFINE new == [tx[p] EXCEPT !.step = "insert"]
  <2>1. new.mine = tx[p].mine /\ new.open = tx[p].open /\ new.step = "insert" /\ tx[p].step = "lock"
    BY <1>1, <1>3 DEF Tx, Acquire
  <2>2. tx' = [tx EXCEPT ![p] = new] /\ UNCHANGED <<cycles, made>>
    BY <1>3 DEF Acquire, Inductive, TypeOK
  <2> HIDE DEF new
  <2>3. Tidy(p, new)
    BY <1>1, <2>1 DEF Tidy
  <2> QED
    BY <2>2, <2>3, QuietTurns
<1>4. CASE Abort(p)
  <2>1. tx' = [tx EXCEPT ![p] = NoTx] /\ UNCHANGED <<cycles, made>>
    BY <1>4 DEF Abort, End
  <2>2. Tidy(p, NoTx)
    BY NoTxType DEF Tidy, NoTx
  <2> QED
    BY <2>1, <2>2, QuietTurns
<1> QED
  BY <1>2, <1>3, <1>4

\* The commit closes the cycles whose inventory it has made, all of them and no
\* others.
LEMMA CommitTurns ==
  ASSUME TurnsSound, Inductive, Turns, NEW p \in Proc, Commit(p)
  PROVE  TurnsSound'
<1>1. tx[p] \in Tx(DOMAIN cycles) /\ Sound(tx[p]) /\ Tidy(p, tx[p]) /\ tx[p].step = "insert"
  BY InductiveTx DEF TurnsSound, Commit
<1>2. tx[p].open = tx[p].mine /\ tx[p].mine \subseteq Open
  BY <1>1 DEF Tidy, Sound
<1>3. tx'[p] = NoTx /\ \A q \in Proc : q # p => tx'[q] = tx[q]
  BY DEF Commit, End, Inductive, TypeOK
<1>4. ClosedCyclesMadeItemsOnce'
  <2> SUFFICES ASSUME NEW i \in Ended' PROVE made'[i] = 1
    BY DEF ClosedCyclesMadeItemsOnce
  <2>1. i \in DOMAIN cycles' /\ cycles'[i].end # Null
    BY DEF Ended, Open
  <2>2. CASE i \in tx[p].mine
    <3>1. i \in DOMAIN cycles /\ made[i] = 0
      BY <1>2, <2>2 DEF Inductive, OpenCyclesMadeNothing, Open
    <3>2. made'[i] = IF i \in tx[p].open THEN made[i] + 1 ELSE made[i]
      BY <3>1, CommitRows
    <3> QED
      BY <1>2, <2>2, <3>1, <3>2
  <2>3. CASE i \in DOMAIN cycles /\ i \notin tx[p].mine
    <3>1. cycles'[i] = cycles[i] /\ made'[i] = made[i]
      BY <1>2, <2>3, CommitRows
    <3>2. i \in Ended
      BY <2>1, <2>3, <3>1 DEF Ended, Open
    <3> QED
      BY <3>1, <3>2 DEF TurnsSound, ClosedCyclesMadeItemsOnce
  <2>4. CASE i \notin DOMAIN cycles
    BY <2>1, <2>4, CommitRows
  <2> QED
    BY <2>2, <2>3, <2>4
<1>5. ASSUME NEW q \in Proc PROVE Tidy(q, tx[q])'
  <2>1. CASE q = p
    BY <1>3, <2>1, NoTxType DEF Tidy, NoTx
  <2>2. CASE q # p /\ tx[q].step \notin {"make", "close"}
    BY <1>3, <2>2 DEF TurnsSound, Tidy
  <2>3. CASE q # p /\ tx[q].step \in {"make", "close"}
    <3>1. q \in OpenClose \cup Replays /\ tx[q].step # "idle"
      BY <2>3 DEF TurnsSound, Tidy, Proc
    <3>2. p \in Immediate
      BY <1>1, <2>3, <3>1 DEF Turns, Proc
    <3>3. tx[p].mine = {}
      BY <1>1, <3>2 DEF Tidy
    <3>4. Open' = Open
      <4>1. DOMAIN cycles \subseteq DOMAIN cycles'
        BY CommitRows
      <4>2. \A i \in DOMAIN cycles : cycles'[i] = cycles[i]
        BY <3>3, CommitRows
      <4>3. \A i \in DOMAIN cycles' \ DOMAIN cycles : cycles'[i].end # Null
        BY <3>2, CommitRows
      <4> QED
        BY <4>1, <4>2, <4>3 DEF Open
    <3> QED
      BY <1>3, <2>3, <3>4 DEF TurnsSound, Tidy
  <2> QED
    BY <2>1, <2>2, <2>3
<1> QED
  BY <1>4, <1>5 DEF TurnsSound

\* A completed cycle has its inventory, once, when open-close completions take
\* turns.
THEOREM TurnsMakeOnce == Spec => TurnsMakeItemsOnce
<1>1. ASSUME TurnsSound, Inductive, Turns, [Next]_vars PROVE TurnsSound'
  <2>1. CASE Tick
    BY <1>1, <2>1 DEF Tick, TurnsSound, Tidy, ClosedCyclesMadeItemsOnce, Open, Ended
  <2>2. ASSUME NEW p \in Immediate, BeginImmediate(p) PROVE TurnsSound'
    BY <1>1, <2>2, OtherTurns DEF Proc
  <2>3. ASSUME NEW p \in Proc, Acquire(p) \/ Commit(p) \/ Abort(p) PROVE TurnsSound'
    BY <1>1, <2>3, OtherTurns, CommitTurns
  <2>4. CASE UNCHANGED vars
    BY <1>1, <2>4 DEF vars, TurnsSound, Tidy, ClosedCyclesMadeItemsOnce, Open, Ended
  <2> QED
    BY <1>1, <2>1, <2>2, <2>3, <2>4, CloserTurns DEF Next
<1>2. TurnsSound => ClosedCyclesMadeItemsOnce
  BY DEF TurnsSound
<1> QED
  BY <1>1, <1>2, TurnsInit, InductiveInvariant, PTL DEF Spec, TurnsMakeItemsOnce

-----------------------------------------------------------------------------
(* The detection timers of StationDetection: completers, one worker per queue, *)
(* and time, for every number of completers and all bounds                     *)

\* The constants of StationDetection that CycleRecord does not have.
CONSTANTS Completers, SlowAfter, DownAfter, MaxStalls, MaxLosses

\* The variables of StationDetection besides the clock; completed are its cycles.
VARIABLES
  status, since, lastCycle, planned, jobs, work, todo, completed, stalls, losses

\* The timers, with a count of cycles of their own.
Detect == INSTANCE StationDetection WITH cycles <- completed

\* What StationDetection assumes of its bounds.
DetectBounds ==
  /\ SlowAfter \in Nat \ {0} /\ DownAfter \in Nat \ {0}
  /\ {MaxTime, MaxCycles, MaxStalls, MaxLosses} \subseteq Nat

\* A worker is at work on a job exactly while it is active, and no job is there
\* before the first cycle.
TimersSound ==
  /\ \A k \in Detect!Kinds :
       /\ work[k].step # "idle" <=> jobs[k].state = "active"
       /\ jobs[k].state # "failed"
  /\ status = "NONE" =>
       /\ \A k \in Detect!Kinds : jobs[k].state = "none"
       /\ \A p \in Completers : todo[p] = Detect!NothingLeft

\* What holds however completers, workers and failures interleave.
DetectInductive == Detect!TypeOK /\ TimersSound

\* A completer that has not scheduled its timers carries the time and the plan of
\* the last cycle; once it has removed the down job there is none until it adds it.
TodoCurrent ==
  \A p \in Completers : todo[p] # Detect!NothingLeft =>
    /\ todo[p].at = lastCycle
    /\ Detect!Has("down", planned) => Detect!Has("down", todo[p].add)
    /\ "down" \notin todo[p].remove => jobs["down"].state = "none"

\* A down job that no completer is about to replace is due a threshold after the
\* last cycle; the worker that runs it started no earlier, and is done only when
\* the station is DOWN.
DownJobCurrent ==
  (\A p \in Completers : todo[p] = Detect!NothingLeft) /\ jobs["down"].state # "none" =>
    /\ jobs["down"].due >= lastCycle + DownAfter
    /\ jobs["down"].state = "active" =>
         /\ clock >= lastCycle + DownAfter
         /\ work["down"].step = "done" => status = "DOWN"

\* What holds besides as long as nothing disturbs detection.
QuietSound ==
  /\ TodoCurrent
  /\ DownJobCurrent
  /\ Detect!NoTimerLost
  /\ Detect!DownOnlyAfterThreshold

\* There are two kinds of timer.
LEMMA KindsAre == Detect!Kinds = {"slow", "down"}
BY DEF Detect!Kinds

\* What is left of a completer's schedule.
Schedules == [remove: SUBSET Detect!Kinds, add: Detect!Plans, at: 0 .. MaxTime]

\* Only the plans that have it ask for a down timer.
LEMMA DownPlans ==
  /\ ~Detect!Has("down", <<>>) /\ ~Detect!Has("down", <<"slow">>)
  /\ Detect!Has("down", <<"down">>) /\ Detect!Has("down", <<"slow", "down">>)
<1>1. DOMAIN <<>> = {} /\ DOMAIN <<"slow">> = {1} /\ DOMAIN <<"down">> = {1}
  OBVIOUS
<1>2. DOMAIN <<"slow", "down">> = {1, 2}
  OBVIOUS
<1>3. ~Detect!Has("down", <<>>)
  BY <1>1 DEF Detect!Has, Detect!Range
<1>4. ~Detect!Has("down", <<"slow">>)
  BY <1>1 DEF Detect!Has, Detect!Range
<1>5. Detect!Has("down", <<"down">>)
  BY <1>1 DEF Detect!Has, Detect!Range
<1>6. Detect!Has("down", <<"slow", "down">>)
  BY <1>2 DEF Detect!Has, Detect!Range
<1> QED
  BY <1>3, <1>4, <1>5, <1>6

\* What adding the first timer leaves of a plan.
LEMMA PlanParts ==
  ASSUME NEW plan \in Detect!Plans, plan # <<>>
  PROVE  /\ Head(plan) \in Detect!Kinds /\ Tail(plan) \in Detect!Plans
         /\ Head(plan) = "slow" => (Detect!Has("down", Tail(plan)) <=> Detect!Has("down", plan))
         /\ Head(plan) = "down" => Detect!Has("down", plan) /\ Tail(plan) = <<>>
<1>1. CASE plan = <<"slow">>
  <2>1. Head(plan) = "slow" /\ Tail(plan) = <<>>
    BY <1>1
  <2> QED
    BY <1>1, <2>1, DownPlans DEF Detect!Plans, Detect!Kinds
<1>2. CASE plan = <<"down">>
  <2>1. Head(plan) = "down" /\ Tail(plan) = <<>>
    BY <1>2
  <2> QED
    BY <1>2, <2>1, DownPlans DEF Detect!Plans, Detect!Kinds
<1>3. CASE plan = <<"slow", "down">>
  <2>1. Head(plan) = "slow" /\ Tail(plan) = <<"down">>
    BY <1>3
  <2> QED
    BY <1>3, <2>1, DownPlans DEF Detect!Plans, Detect!Kinds
<1> QED
  BY <1>1, <1>2, <1>3 DEF Detect!Plans

\* A schedule that is carried out is forgotten, another is kept as it is.
LEMMA LeftOf ==
  ASSUME DetectBounds, NEW t \in Schedules
  PROVE  /\ Detect!Left(t) \in Schedules
         /\ Detect!Left(t).remove = t.remove /\ Detect!Left(t).add = t.add
         /\ Detect!Left(t) # Detect!NothingLeft => Detect!Left(t) = t
         /\ t.remove # {} \/ t.add # <<>> =>
              Detect!Left(t) = t /\ Detect!Left(t) # Detect!NothingLeft
<1>1. Detect!NothingLeft.remove = {} /\ Detect!NothingLeft.add = <<>>
  BY DEF Detect!NothingLeft
<1>2. CASE t.remove = {} /\ t.add = <<>>
  <2>1. Detect!Left(t) = Detect!NothingLeft
    BY <1>2 DEF Detect!Left
  <2>2. Detect!NothingLeft \in Schedules
    BY DEF Detect!NothingLeft, Detect!Plans, Schedules, DetectBounds
  <2> QED
    BY <1>1, <1>2, <2>1, <2>2
<1>3. CASE t.remove # {} \/ t.add # <<>>
  <2>1. Detect!Left(t) = t
    BY <1>3 DEF Detect!Left
  <2> QED
    BY <1>1, <1>3, <2>1
<1> QED
  BY <1>2, <1>3

\* What each queue operation makes of a job.
LEMMA TimerOperations ==
  /\ Detect!NoJob \in Detect!Job /\ Detect!NoJob.state = "none"
  /\ \A j \in Detect!Job :
       /\ Detect!Removed(j) = IF j.state = "active" THEN j ELSE Detect!NoJob
       /\ Detect!Removed(j) \in Detect!Job
       /\ Detect!Started(j) \in Detect!Job
       /\ Detect!Started(j).state = "active" /\ Detect!Started(j).due = j.due
       /\ Detect!Restarted(j) \in Detect!Job
       /\ Detect!Restarted(j).state = "delayed" /\ Detect!Restarted(j).due = j.due
       /\ Detect!Completed(j) = Detect!NoJob
BY DEF Detect!Job, Detect!NoJob, Detect!Removed, Detect!Started,
       Detect!Restarted, Detect!Completed

\* Adding a job makes one unless its id exists.
LEMMA AddedJob ==
  ASSUME NEW j \in Detect!Job, NEW due \in Nat
  PROVE  /\ Detect!Added(j, due) \in Detect!Job
         /\ j.state = "none" =>
              Detect!Added(j, due).state = "delayed" /\ Detect!Added(j, due).due = due
         /\ j.state # "none" => Detect!Added(j, due) = j
         /\ Detect!Added(j, due).state # "none"
BY DEF Detect!Job, Detect!Added

\* What removing one job leaves of a schedule.
LEMMA AfterRemoval ==
  ASSUME DetectBounds, NEW t \in Schedules, NEW k \in Detect!Kinds
  PROVE  /\ Detect!RemovedOne(t, k) \in Schedules
         /\ Detect!RemovedOne(t, k).remove = t.remove \ {k}
         /\ Detect!RemovedOne(t, k).add = t.add
         /\ Detect!RemovedOne(t, k) # Detect!NothingLeft =>
              Detect!RemovedOne(t, k).at = t.at
         /\ t.add # <<>> => Detect!RemovedOne(t, k) # Detect!NothingLeft
<1> DEFINE new == [t EXCEPT !.remove = @ \ {k}]
<1>1. /\ new \in Schedules /\ new.remove = t.remove \ {k} /\ new.add = t.add
      /\ new.at = t.at
  BY DEF Schedules
<1>2. Detect!RemovedOne(t, k) = Detect!Left(new)
  BY DEF Detect!RemovedOne
<1> HIDE DEF new
<1> QED
  BY <1>1, <1>2, LeftOf

\* What adding the first timer leaves of a schedule.
LEMMA AfterAddition ==
  ASSUME DetectBounds, NEW t \in Schedules, t.remove = {}, t.add # <<>>
  PROVE  /\ Detect!AddedFirst(t) \in Schedules
         /\ Detect!AddedFirst(t).remove = {}
         /\ Detect!AddedFirst(t).add = Tail(t.add)
         /\ Detect!AddedFirst(t) # Detect!NothingLeft => Detect!AddedFirst(t).at = t.at
         /\ Tail(t.add) # <<>> => Detect!AddedFirst(t) # Detect!NothingLeft
         /\ Tail(t.add) = <<>> => Detect!AddedFirst(t) = Detect!NothingLeft
<1> DEFINE new == [t EXCEPT !.add = Tail(@)]
<1>1. t.add \in Detect!Plans /\ Tail(t.add) \in Detect!Plans
  BY PlanParts DEF Schedules
<1>2. /\ new \in Schedules /\ new.remove = {} /\ new.add = Tail(t.add)
      /\ new.at = t.at
  BY <1>1 DEF Schedules
<1>3. Detect!AddedFirst(t) = Detect!Left(new)
  BY DEF Detect!AddedFirst
<1> HIDE DEF new
<1>4. Tail(t.add) = <<>> => Detect!Left(new) = Detect!NothingLeft
  BY <1>2 DEF Detect!Left
<1> QED
  BY <1>2, <1>3, <1>4, LeftOf

\* It holds on a station without cycles.
LEMMA DetectInit ==
  ASSUME DetectBounds, Detect!Init
  PROVE  DetectInductive
BY TimerOperations
   DEF DetectBounds, Detect!Init, Detect!Station!Init, DetectInductive, TimersSound, Detect!TypeOK,
       Detect!Kinds, Detect!Plans, Detect!Resting, Detect!NothingLeft

\* What a completer does.
LEMMA CompleterSound ==
  ASSUME DetectBounds, DetectInductive, NEW p \in Completers,
         Detect!Complete(p) \/ Detect!Schedule(p) \/ Detect!Lose(p)
  PROVE  DetectInductive'
<1> USE DEF DetectInductive, Detect!TypeOK, TimersSound, DetectBounds
<1>0. /\ clock \in Nat /\ DownAfter \in Nat /\ SlowAfter \in Nat
      /\ todo \in [Completers -> Schedules]
  BY DEF Schedules
<1>1. CASE Detect!Complete(p)
  <2>1. /\ todo' = [todo EXCEPT ![p] =
             [remove |-> Detect!Kinds, add |-> planned', at |-> clock]]
        /\ UNCHANGED <<clock, jobs, work, stalls, losses>>
        /\ planned' \in Detect!Plans
        /\ lastCycle' = clock /\ since' = clock /\ status' \in {"UP", "SLOW"}
        /\ completed < MaxCycles /\ completed' = completed + 1
    BY <1>1 DEF Detect!Complete, Detect!Station!Produce
  <2>2. completed' \in 0 .. MaxCycles
    BY <2>1
  <2>3. Detect!TypeOK'
    BY <2>1, <2>2
  <2> QED
    BY <2>1, <2>3
<1>2. ASSUME NEW k \in Detect!Kinds, Detect!Remove(p, k)
      PROVE  DetectInductive'
  <2> DEFINE new == Detect!RemovedOne(todo[p], k)
  <2>1. /\ jobs' = [jobs EXCEPT ![k] = Detect!Removed(@)]
        /\ k \in todo[p].remove
        /\ todo' = [todo EXCEPT ![p] = new]
        /\ UNCHANGED <<clock, status, since, lastCycle, planned, work, completed, stalls,
                        losses>>
    BY <1>2, Zenon DEF Detect!Remove, Detect!station, Detect!counts
  <2>2. todo[p] # Detect!NothingLeft
    BY <2>1 DEF Detect!NothingLeft
  <2>3. /\ Detect!Removed(jobs[k]) \in Detect!Job
        /\ Detect!Removed(jobs[k]).state = "active" <=> jobs[k].state = "active"
        /\ Detect!Removed(jobs[k]).state # "failed"
    BY TimerOperations
  <2>4. new \in Schedules
    BY <1>0, AfterRemoval
  <2> HIDE DEF new
  <2>5. todo' \in [Completers -> Schedules]
    BY <1>0, <2>1, <2>4
  <2> QED
    BY <2>1, <2>2, <2>3, <2>5 DEF Schedules
<1>3. ASSUME NEW k \in Detect!Kinds, Detect!Add(p, k)
      PROVE  DetectInductive'
  <2> DEFINE at == todo[p].at + Detect!DelayOf(k)
             due == IF at < clock THEN clock ELSE at
             new == Detect!AddedFirst(todo[p])
  <2>1. due \in Nat
    BY <1>0 DEF Detect!DelayOf
  <2>2. /\ jobs' = [jobs EXCEPT ![k] = Detect!Added(@, due)]
        /\ todo' = [todo EXCEPT ![p] = new]
        /\ UNCHANGED <<clock, status, since, lastCycle, planned, work, completed, stalls,
                        losses>>
        /\ todo[p].remove = {} /\ todo[p].add # <<>>
    BY <1>3, Zenon DEF Detect!Add, Detect!station, Detect!counts
  <2>3. new \in Schedules
    BY <1>0, <2>2, AfterAddition
  <2>4. status # "NONE"
    BY <2>2 DEF Detect!NothingLeft
  <2> HIDE DEF due, new
  <2>5. /\ Detect!Added(jobs[k], due) \in Detect!Job
        /\ Detect!Added(jobs[k], due).state = "active" <=> jobs[k].state = "active"
        /\ Detect!Added(jobs[k], due).state # "failed"
    <3>1. jobs[k] \in Detect!Job /\ jobs[k].state # "failed"
      OBVIOUS
    <3> QED
      BY <2>1, <3>1, AddedJob
  <2>6. todo' \in [Completers -> Schedules]
    BY <1>0, <2>2, <2>3
  <2> QED
    BY <2>2, <2>4, <2>5, <2>6 DEF Schedules
<1>4. CASE Detect!Lose(p)
  <2>1. /\ todo' = [todo EXCEPT ![p] = Detect!NothingLeft]
        /\ UNCHANGED <<clock, status, since, lastCycle, planned, jobs, work, completed, stalls>>
        /\ losses < MaxLosses /\ losses' = losses + 1
    BY <1>4 DEF Detect!Lose, Detect!station
  <2>2. Detect!NothingLeft \in Schedules
    BY DEF Detect!NothingLeft, Detect!Plans, Schedules
  <2>3. todo' \in [Completers -> Schedules]
    BY <1>0, <2>1, <2>2
  <2> QED
    BY <2>1, <2>3 DEF Schedules
<1> QED
  BY <1>1, <1>2, <1>3, <1>4 DEF Detect!Schedule

\* What the worker of a queue does.
LEMMA WorkerSound ==
  ASSUME DetectBounds, DetectInductive, NEW k \in Detect!Kinds,
         Detect!Work(k) \/ Detect!Stall(k) \/ Detect!Throw(k)
  PROVE  DetectInductive'
<1> USE DEF DetectInductive, Detect!TypeOK, TimersSound, Detect!Kinds, DetectBounds
<1>1. CASE Detect!Fire(k)
  <2>1. /\ jobs' = [jobs EXCEPT ![k] = Detect!Started(@)] /\ jobs[k].state = "delayed"
        /\ work' = [work EXCEPT ![k] = [step |-> "fired", at |-> clock]]
        /\ UNCHANGED <<clock, status, since, lastCycle, planned, todo, completed, stalls, losses>>
    BY <1>1 DEF Detect!Fire, Detect!IsDue, Detect!station, Detect!counts
  <2>2. Detect!Started(jobs[k]) \in Detect!Job /\ Detect!Started(jobs[k]).state = "active"
    BY TimerOperations
  <2> QED
    BY <2>1, <2>2
<1>2. CASE Detect!Transition(k)
  <2>1. /\ work[k].step = "fired"
        /\ work' = [work EXCEPT ![k].step = "done"]
        /\ UNCHANGED <<clock, lastCycle, planned, jobs, todo, completed, stalls, losses>>
        /\ status # "NONE" => since' = since /\ status' \in {status, "SLOW", "DOWN"}
    BY <1>2 DEF Detect!Transition, Detect!counts, Detect!Station!GoSlow, Detect!Station!GoDown
  <2>2. status # "NONE"
    BY <2>1
  <2> QED
    BY <2>1, <2>2
<1>3. CASE Detect!Finish(k)
  <2>1. /\ jobs' = [jobs EXCEPT ![k] = Detect!NoJob]
        /\ work' = [work EXCEPT ![k] = [step |-> "idle", at |-> 0]]
        /\ UNCHANGED <<clock, status, since, lastCycle, planned, todo, completed, stalls, losses>>
    BY <1>3 DEF Detect!Finish, Detect!Resting, Detect!station, Detect!counts, Detect!Completed
  <2> QED
    BY <2>1, TimerOperations
<1>4. CASE Detect!Stall(k)
  <2>1. /\ jobs' = [jobs EXCEPT ![k] = Detect!Restarted(@)] /\ work[k].step # "idle"
        /\ work' = [work EXCEPT ![k] = [step |-> "idle", at |-> 0]]
        /\ UNCHANGED <<clock, status, since, lastCycle, planned, todo, completed, losses>>
        /\ stalls < MaxStalls /\ stalls' = stalls + 1
    BY <1>4 DEF Detect!Stall, Detect!Resting, Detect!station
  <2>2. Detect!Restarted(jobs[k]) \in Detect!Job /\ Detect!Restarted(jobs[k]).state = "delayed"
    BY TimerOperations
  <2> QED
    BY <2>1, <2>2
<1>5. CASE Detect!Throw(k)
  <2>1. /\ jobs' = [jobs EXCEPT ![k] = Detect!NoJob]
        /\ work' = [work EXCEPT ![k] = [step |-> "idle", at |-> 0]]
        /\ UNCHANGED <<clock, status, since, lastCycle, planned, todo, completed, stalls>>
        /\ losses < MaxLosses /\ losses' = losses + 1
    BY <1>5 DEF Detect!Throw, Detect!Resting, Detect!station, Detect!Completed
  <2> QED
    BY <2>1, TimerOperations
<1> QED
  BY <1>1, <1>2, <1>3, <1>4, <1>5 DEF Detect!Work

\* Time touches no job, and a stuttering step nothing.
LEMMA TimeSound ==
  ASSUME DetectBounds, DetectInductive, Detect!Tick \/ UNCHANGED Detect!vars
  PROVE  DetectInductive'
<1> USE DEF DetectInductive, Detect!TypeOK, TimersSound, Detect!Kinds, DetectBounds
<1>1. CASE Detect!Tick
  BY <1>1 DEF Detect!Tick, Detect!station, Detect!counts
<1>2. CASE UNCHANGED Detect!vars
  BY <1>2 DEF Detect!vars
<1> QED
  BY <1>1, <1>2

\* What holds of the timers however completers and workers interleave.
THEOREM DetectInvariant ==
  ASSUME DetectBounds
  PROVE  Detect!Spec => []DetectInductive
<1>1. DetectInductive /\ [Detect!Next]_(Detect!vars) => DetectInductive'
  BY CompleterSound, WorkerSound, TimeSound DEF Detect!Next
<1> QED
  BY <1>1, DetectInit, PTL DEF Detect!Spec

\* The jobs, the workers and what is left to schedule stay in their types.
THEOREM DetectTypes ==
  ASSUME DetectBounds
  PROVE  Detect!Spec => []Detect!TypeOK
<1>1. DetectInductive => Detect!TypeOK
  BY DEF DetectInductive
<1> QED
  BY <1>1, DetectInvariant, PTL

\* A down timer that is needed, or about to be added, is lost with a completer or
\* a transition that fails, with the job whose transition a cycle has overtaken, or
\* to the late cancel of an older completion.
THEOREM TimersLostByOverlaps ==
  ASSUME DetectBounds
  PROVE  Detect!Spec => Detect!OnlyOverlapsLoseTimers
<1>1. ASSUME DetectInductive, Detect!Next, Detect!Guarded, ~Detect!Guarded'
      PROVE  \/ losses' > losses
             \/ jobs["down"].state = "active" /\ work["down"].step = "done"
             \/ \E p \in Completers : Detect!Cancels(p) /\ ~(Detect!Cancels(p))'
  <2> USE <1>1, KindsAre DEF DetectInductive, Detect!TypeOK, TimersSound, DetectBounds,
                             Detect!Guarded
  <2>0. todo \in [Completers -> Schedules]
    BY DEF Schedules
  <2>1. CASE Detect!Tick
    BY <2>1 DEF Detect!Tick, Detect!station
  <2>2. ASSUME NEW p \in Completers, Detect!Complete(p) PROVE FALSE
    <3>1. /\ todo[p] = Detect!NothingLeft /\ UNCHANGED jobs
          /\ \A q \in Completers : q # p => todo'[q] = todo[q]
      BY <2>2 DEF Detect!Complete
    <3>2. ~Detect!Has("down", todo[p].add)
      BY <3>1, DownPlans DEF Detect!NothingLeft
    <3> QED
      BY <3>1, <3>2
  <2>3. ASSUME NEW p \in Completers, NEW k \in Detect!Kinds, Detect!Remove(p, k)
        PROVE  Detect!Cancels(p) /\ ~(Detect!Cancels(p))'
    <3>1. /\ k \in todo[p].remove
          /\ todo' = [todo EXCEPT ![p] = Detect!RemovedOne(todo[p], k)]
          /\ jobs' = [jobs EXCEPT ![k] = Detect!Removed(@)]
      BY <2>3 DEF Detect!Remove
    <3>2. todo'[p] = Detect!RemovedOne(todo[p], k)
      BY <2>0, <3>1
    <3>3. todo'[p].add = todo[p].add /\ todo'[p].remove = todo[p].remove \ {k}
      BY <2>0, <3>2, AfterRemoval
    <3>4. \A q \in Completers : todo'[q].add = todo[q].add
      <4>1. \A q \in Completers : q # p => todo'[q] = todo[q]
        BY <3>1
      <4> QED
        BY <3>3, <4>1
    <3>5. k = "down"
      <4>1. k # "down" => jobs'["down"] = jobs["down"]
        BY <3>1
      <4> QED
        BY <3>4, <4>1
    <3>6. ~Detect!Has("down", todo[p].add)
      BY <3>4
    <3> QED
      BY <3>1, <3>3, <3>5, <3>6 DEF Detect!Cancels
  <2>4. ASSUME NEW p \in Completers, NEW k \in Detect!Kinds, Detect!Add(p, k)
        PROVE  FALSE
    <3>1. PICK due \in Nat : jobs' = [jobs EXCEPT ![k] = Detect!Added(@, due)]
      <4> DEFINE at == todo[p].at + Detect!DelayOf(k)
      <4>1. at \in Nat /\ (IF at < clock THEN clock ELSE at) \in Nat
        BY DEF Detect!DelayOf
      <4> QED
        BY <2>4, <4>1 DEF Detect!Add
    <3>2. CASE k = "slow"
      <4>1. /\ todo' = [todo EXCEPT ![p] = Detect!AddedFirst(todo[p])]
            /\ todo[p].remove = {} /\ todo[p].add # <<>> /\ Head(todo[p].add) = "slow"
        BY <2>4, <3>2 DEF Detect!Add
      <4>2. Detect!Has("down", Tail(todo[p].add)) <=> Detect!Has("down", todo[p].add)
        <5>1. todo[p].add \in Detect!Plans
          BY <2>0 DEF Schedules
        <5> QED
          BY <4>1, <5>1, PlanParts
      <4>3. todo'[p] = Detect!AddedFirst(todo[p])
        BY <2>0, <4>1
      <4>4. todo'[p].add = Tail(todo[p].add)
        BY <2>0, <4>1, <4>3, AfterAddition
      <4>5. \A q \in Completers : q # p => todo'[q] = todo[q]
        BY <4>1
      <4>6. jobs'["down"] = jobs["down"]
        BY <3>1, <3>2
      <4> QED
        BY <4>2, <4>4, <4>5, <4>6
    <3>3. CASE k = "down"
      <4>1. jobs["down"] \in Detect!Job
        OBVIOUS
      <4>2. jobs'["down"] = Detect!Added(jobs["down"], due)
        BY <3>1, <3>3
      <4>3. jobs'["down"].state # "none"
        BY <4>1, <4>2, AddedJob
      <4> QED
        BY <4>3
    <3>4. k = "slow" \/ k = "down"
      BY KindsAre
    <3> QED
      BY <3>2, <3>3, <3>4
  <2>5. ASSUME NEW p \in Completers, Detect!Lose(p) PROVE losses' > losses
    BY <2>5 DEF Detect!Lose
  <2>6. ASSUME NEW k \in Detect!Kinds, Detect!Fire(k) \/ Detect!Stall(k) PROVE FALSE
    <3>1. /\ jobs' = [jobs EXCEPT ![k] = Detect!Started(@)]
             \/ jobs' = [jobs EXCEPT ![k] = Detect!Restarted(@)]
          /\ UNCHANGED todo
          /\ jobs[k].state # "none"
      BY <2>6 DEF Detect!Fire, Detect!Stall, Detect!IsDue, Detect!station, Detect!Kinds
    <3>2. jobs["down"] \in Detect!Job /\ jobs[k] \in Detect!Job
      OBVIOUS
    <3>3. jobs'["down"].state = "none" <=> jobs["down"].state = "none"
      BY <3>1, <3>2, TimerOperations
    <3> QED
      BY <3>1, <3>3
  <2>7. ASSUME NEW k \in Detect!Kinds, Detect!Transition(k) PROVE FALSE
    BY <2>7 DEF Detect!Transition
  <2>8. ASSUME NEW k \in Detect!Kinds, Detect!Finish(k)
        PROVE  jobs["down"].state = "active" /\ work["down"].step = "done"
    <3>1. /\ work[k].step = "done" /\ jobs' = [jobs EXCEPT ![k] = Detect!Completed(@)]
          /\ UNCHANGED todo
      BY <2>8 DEF Detect!Finish
    <3>2. work[k].step # "idle" => jobs[k].state = "active"
      OBVIOUS
    <3>3. k # "down" => jobs'["down"] = jobs["down"]
      BY <3>1
    <3>4. k = "down"
      BY <3>1, <3>3
    <3> QED
      BY <3>1, <3>2, <3>4
  <2>9. ASSUME NEW k \in Detect!Kinds, Detect!Throw(k) PROVE losses' > losses
    BY <2>9 DEF Detect!Throw
  <2> QED
    BY <2>1, <2>2, <2>3, <2>4, <2>5, <2>6, <2>7, <2>8, <2>9
    DEF Detect!Next, Detect!Schedule, Detect!Work
<1>2. DetectInductive /\ [Detect!Next]_(Detect!vars) =>
        [Detect!NeedsTimer /\ Detect!Guarded /\ Detect!NeedsTimer' /\ ~Detect!Guarded' =>
           \/ losses' > losses
           \/ jobs["down"].state = "active" /\ work["down"].step = "done"
           \/ \E p \in Completers : Detect!Cancels(p) /\ ~(Detect!Cancels(p))']_(Detect!vars)
  BY <1>1
<1> QED
  BY <1>2, DetectInvariant, PTL DEF Detect!Spec, Detect!OnlyOverlapsLoseTimers

-----------------------------------------------------------------------------
(* Detection that nothing disturbs *)

\* A station that has had no cycle has lost no timer.
LEMMA QuietInit ==
  ASSUME DetectBounds, Detect!Init
  PROVE  QuietSound
BY KindsAre DEF DetectBounds, Detect!Init, Detect!Station!Init, QuietSound, TodoCurrent, DownJobCurrent,
       Detect!NeedsTimer, Detect!NoTimerLost, Detect!DownOnlyAfterThreshold, Detect!Resting, Detect!NoJob,
       Detect!NothingLeft

\* While a completer has timers to schedule no other has, and no down job runs.
LEMMA OneScheduler ==
  ASSUME Detect!Undisturbed, NEW p \in Completers, todo[p] # Detect!NothingLeft
  PROVE  /\ jobs["down"].state # "active"
         /\ \A q \in Completers : q # p => todo[q] = Detect!NothingLeft
BY DEF Detect!Undisturbed

\* A cycle that no other overlaps leaves the down timer it planned, which is due at
\* its threshold.
LEMMA QuietCompleter ==
  ASSUME DetectBounds, DetectInductive, QuietSound, Detect!Undisturbed, Detect!Undisturbed',
         NEW p \in Completers, Detect!Complete(p) \/ Detect!Schedule(p) \/ Detect!Lose(p)
  PROVE  QuietSound'
<1> USE KindsAre
    DEF DetectInductive, Detect!TypeOK, TimersSound, DetectBounds, QuietSound, TodoCurrent,
        DownJobCurrent, Detect!NeedsTimer, Detect!NoTimerLost, Detect!DownOnlyAfterThreshold
<1>0. todo \in [Completers -> Schedules] /\ todo[p] \in Schedules
  BY DEF Schedules
<1>1. CASE Detect!Complete(p)
  <2>1. /\ todo' = [todo EXCEPT ![p] =
             [remove |-> Detect!Kinds, add |-> planned', at |-> clock]]
        /\ UNCHANGED <<clock, jobs, work, stalls, losses>>
        /\ lastCycle' = clock /\ status' \in {"UP", "SLOW"}
    BY <1>1 DEF Detect!Complete, Detect!Station!Produce
  <2>2. /\ todo'[p] # Detect!NothingLeft /\ todo'[p].at = clock
        /\ todo'[p].remove = Detect!Kinds /\ todo'[p].add = planned'
    BY <2>1 DEF Detect!NothingLeft
  <2>3. \A q \in Completers : q # p => todo'[q] = Detect!NothingLeft
    BY <2>1, <2>2 DEF Detect!Undisturbed
  <2> QED
    BY <2>1, <2>2, <2>3
<1>2. ASSUME NEW k \in Detect!Kinds, Detect!Remove(p, k)
      PROVE  QuietSound'
  <2>1. /\ jobs' = [jobs EXCEPT ![k] = Detect!Removed(@)]
        /\ k \in todo[p].remove
        /\ todo' = [todo EXCEPT ![p] = Detect!RemovedOne(@, k)]
        /\ UNCHANGED <<clock, status, since, lastCycle, planned, work>>
    BY <1>2, Zenon DEF Detect!Remove, Detect!station, Detect!counts
  <2>2. todo[p] # Detect!NothingLeft
    BY <2>1 DEF Detect!NothingLeft
  <2>3. jobs["down"].state # "active" /\ \A q \in Completers : q # p => todo'[q] = Detect!NothingLeft
    BY <2>1, <2>2, OneScheduler
  <2>4. todo'[p] = Detect!RemovedOne(todo[p], k) /\ todo[p].at = lastCycle
    BY <1>0, <2>1, <2>2
  <2>5. /\ todo'[p].remove = todo[p].remove \ {k} /\ todo'[p].add = todo[p].add
        /\ todo'[p] # Detect!NothingLeft => todo'[p].at = lastCycle
        /\ todo[p].add # <<>> => todo'[p] # Detect!NothingLeft
    BY <1>0, <2>4, AfterRemoval
  <2>6. Detect!Has("down", planned) => Detect!Has("down", todo[p].add) /\ todo[p].add # <<>>
    BY <2>2, DownPlans
  <2>7. jobs["down"] \in Detect!Job
    OBVIOUS
  <2>8. "down" \notin todo'[p].remove => jobs'["down"].state = "none"
    <3>1. CASE k = "down"
      BY <2>1, <2>3, <2>7, <3>1, TimerOperations
    <3>2. CASE k # "down"
      BY <2>1, <2>2, <2>5, <3>2
    <3> QED
      BY <3>1, <3>2
  <2>9. todo'[p] = Detect!NothingLeft => jobs'["down"].state = "none"
    BY <2>8 DEF Detect!NothingLeft
  <2> QED
    BY <2>1, <2>3, <2>5, <2>6, <2>8, <2>9
<1>3. ASSUME NEW k \in Detect!Kinds, Detect!Add(p, k)
      PROVE  QuietSound'
  <2> DEFINE at == todo[p].at + Detect!DelayOf(k)
             due == IF at < clock THEN clock ELSE at
  <2>0. todo[p].at \in 0 .. MaxTime /\ todo[p].add \in Detect!Plans
    BY <1>0 DEF Schedules
  <2>1. due \in Nat /\ (k = "down" => due >= todo[p].at + DownAfter)
    BY <2>0 DEF Detect!DelayOf
  <2>2. /\ jobs' = [jobs EXCEPT ![k] = Detect!Added(@, due)]
        /\ todo' = [todo EXCEPT ![p] = Detect!AddedFirst(@)]
        /\ UNCHANGED <<clock, status, since, lastCycle, planned, work>>
        /\ todo[p].remove = {} /\ todo[p].add # <<>> /\ Head(todo[p].add) = k
    BY <1>3, Zenon DEF Detect!Add, Detect!station, Detect!counts
  <2> HIDE DEF due
  <2>3. todo[p] # Detect!NothingLeft
    BY <2>2 DEF Detect!NothingLeft
  <2>4. /\ jobs["down"].state = "none" /\ todo[p].at = lastCycle
        /\ Detect!Has("down", planned) => Detect!Has("down", todo[p].add)
        /\ jobs["down"] \in Detect!Job
    BY <2>2, <2>3
  <2>5. \A q \in Completers : q # p => todo'[q] = Detect!NothingLeft
    BY <2>2, <2>3, OneScheduler
  <2>6. todo'[p] = Detect!AddedFirst(todo[p])
    BY <1>0, <2>2
  <2>7. /\ todo'[p].remove = {} /\ todo'[p].add = Tail(todo[p].add)
        /\ todo'[p] # Detect!NothingLeft => todo'[p].at = lastCycle
        /\ Tail(todo[p].add) # <<>> => todo'[p] # Detect!NothingLeft
        /\ Tail(todo[p].add) = <<>> => todo'[p] = Detect!NothingLeft
    BY <1>0, <2>2, <2>4, <2>6, AfterAddition
  <2>8. CASE k = "slow"
    <3>1. jobs'["down"] = jobs["down"]
      BY <2>2, <2>8
    <3>2. Detect!Has("down", planned) =>
            Detect!Has("down", todo'[p].add) /\ todo'[p] # Detect!NothingLeft
      <4>1. Detect!Has("down", Tail(todo[p].add)) <=> Detect!Has("down", todo[p].add)
        BY <2>0, <2>2, <2>8, PlanParts
      <4> QED
        BY <2>4, <2>7, <4>1, DownPlans
    <3> QED
      BY <2>2, <2>4, <2>5, <2>7, <3>1, <3>2
  <2>9. CASE k = "down"
    <3>1. \A q \in Completers : todo'[q] = Detect!NothingLeft
      BY <2>0, <2>2, <2>5, <2>7, <2>9, PlanParts
    <3>2. jobs'["down"].state = "delayed" /\ jobs'["down"].due = due
      BY <2>1, <2>2, <2>4, <2>9, AddedJob
    <3> QED
      BY <2>1, <2>2, <2>4, <2>9, <3>1, <3>2
  <2> QED
    BY <2>8, <2>9
<1>4. CASE Detect!Lose(p)
  BY <1>4 DEF Detect!Lose, Detect!Undisturbed
<1> QED
  BY <1>1, <1>2, <1>3, <1>4 DEF Detect!Schedule

\* A transition that no cycle overtakes finds the cycle its timer was set for.
LEMMA QuietWorker ==
  ASSUME DetectBounds, DetectInductive, QuietSound, Detect!Undisturbed, Detect!Undisturbed',
         NEW k \in Detect!Kinds, Detect!Work(k) \/ Detect!Stall(k) \/ Detect!Throw(k)
  PROVE  QuietSound'
<1> USE KindsAre
    DEF DetectInductive, Detect!TypeOK, TimersSound, DetectBounds, QuietSound, TodoCurrent,
        DownJobCurrent, Detect!NeedsTimer, Detect!NoTimerLost, Detect!DownOnlyAfterThreshold
<1>0. jobs["down"] \in Detect!Job /\ jobs[k] \in Detect!Job /\ jobs["down"].due \in Nat
  BY DEF Detect!Job
<1>1. CASE Detect!Fire(k)
  <2>1. /\ jobs' = [jobs EXCEPT ![k] = Detect!Started(@)]
        /\ jobs[k].state = "delayed" /\ jobs[k].due <= clock
        /\ work' = [work EXCEPT ![k] = [step |-> "fired", at |-> clock]]
        /\ UNCHANGED <<clock, status, since, lastCycle, planned, todo>>
    BY <1>1 DEF Detect!Fire, Detect!IsDue, Detect!station, Detect!counts
  <2>2. CASE k = "slow"
    <3>1. jobs'["down"] = jobs["down"] /\ work'["down"] = work["down"]
      BY <2>1, <2>2
    <3>2. Detect!NoTimerLost'
      BY <2>1, <3>1
    <3>3. Detect!DownOnlyAfterThreshold'
      BY <2>1
    <3>4. TodoCurrent'
      BY <2>1, <3>1
    <3>5. DownJobCurrent'
      BY <2>1, <3>1
    <3> QED
      BY <3>2, <3>3, <3>4, <3>5
  <2>3. CASE k = "down"
    <3>1. /\ jobs'["down"].state = "active" /\ jobs'["down"].due = jobs["down"].due
          /\ work'["down"].step = "fired"
      BY <1>0, <2>1, <2>3, TimerOperations
    <3>2. \A q \in Completers : todo[q] = Detect!NothingLeft
      BY <2>1, <3>1 DEF Detect!Undisturbed
    <3> QED
      BY <1>0, <2>1, <2>3, <3>1, <3>2
  <2> QED
    BY <2>2, <2>3
<1>2. CASE Detect!Transition(k)
  <2>1. /\ work[k].step = "fired"
        /\ work' = [work EXCEPT ![k].step = "done"]
        /\ UNCHANGED <<clock, lastCycle, planned, jobs, todo>>
        /\ status # "NONE"
        /\ k = "slow" => status' = IF status = "UP" THEN "SLOW" ELSE status
        /\ k = "down" => status' = "DOWN"
    BY <1>2 DEF Detect!Transition, Detect!counts, Detect!Station!GoSlow, Detect!Station!GoDown
  <2>2. CASE k = "slow"
    <3>1. work'["down"] = work["down"] /\ (status' = "DOWN" <=> status = "DOWN")
      BY <2>1, <2>2
    <3> QED
      BY <2>1, <2>2, <3>1
  <2>3. CASE k = "down"
    <3>1. jobs["down"].state = "active" /\ status' = "DOWN"
      BY <2>1, <2>3
    <3>2. \A q \in Completers : todo[q] = Detect!NothingLeft
      BY <3>1 DEF Detect!Undisturbed
    <3>3. clock >= lastCycle + DownAfter
      BY <3>1, <3>2
    <3> QED
      BY <2>1, <3>1, <3>2, <3>3
  <2> QED
    BY <2>2, <2>3
<1>3. CASE Detect!Finish(k)
  <2>1. /\ work[k].step = "done"
        /\ jobs' = [jobs EXCEPT ![k] = Detect!NoJob]
        /\ work' = [work EXCEPT ![k] = [step |-> "idle", at |-> 0]]
        /\ UNCHANGED <<clock, status, since, lastCycle, planned, todo>>
    BY <1>3 DEF Detect!Finish, Detect!Resting, Detect!station, Detect!counts, Detect!Completed
  <2>2. CASE k = "slow"
    <3>1. jobs'["down"] = jobs["down"] /\ work'["down"] = work["down"]
      BY <2>1, <2>2
    <3>2. Detect!NoTimerLost'
      BY <2>1, <3>1
    <3>3. Detect!DownOnlyAfterThreshold'
      BY <2>1
    <3>4. TodoCurrent'
      BY <2>1, <3>1
    <3>5. DownJobCurrent'
      BY <2>1, <3>1
    <3> QED
      BY <3>2, <3>3, <3>4, <3>5
  <2>3. CASE k = "down"
    <3>1. jobs["down"].state = "active" /\ jobs'["down"].state = "none"
      BY <2>1, <2>3, TimerOperations
    <3>2. \A q \in Completers : todo[q] = Detect!NothingLeft
      BY <3>1 DEF Detect!Undisturbed
    <3>3. status = "DOWN"
      BY <2>1, <2>3, <3>1, <3>2
    <3> QED
      BY <2>1, <3>1, <3>2, <3>3
  <2> QED
    BY <2>2, <2>3
<1>4. CASE Detect!Stall(k)
  <2>1. /\ jobs' = [jobs EXCEPT ![k] = Detect!Restarted(@)] /\ work[k].step # "idle"
        /\ work' = [work EXCEPT ![k] = [step |-> "idle", at |-> 0]]
        /\ UNCHANGED <<clock, status, since, lastCycle, planned, todo>>
    BY <1>4 DEF Detect!Stall, Detect!Resting, Detect!station
  <2>2. CASE k = "slow"
    <3>1. jobs'["down"] = jobs["down"] /\ work'["down"] = work["down"]
      BY <2>1, <2>2
    <3>2. Detect!NoTimerLost'
      BY <2>1, <3>1
    <3>3. Detect!DownOnlyAfterThreshold'
      BY <2>1
    <3>4. TodoCurrent'
      BY <2>1, <3>1
    <3>5. DownJobCurrent'
      BY <2>1, <3>1
    <3> QED
      BY <3>2, <3>3, <3>4, <3>5
  <2>3. CASE k = "down"
    <3>1. /\ jobs["down"].state = "active"
          /\ jobs'["down"].state = "delayed" /\ jobs'["down"].due = jobs["down"].due
      BY <1>0, <2>1, <2>3, TimerOperations
    <3>2. \A q \in Completers : todo[q] = Detect!NothingLeft
      BY <3>1 DEF Detect!Undisturbed
    <3> QED
      BY <1>0, <2>1, <3>1, <3>2
  <2> QED
    BY <2>2, <2>3
<1>5. CASE Detect!Throw(k)
  BY <1>5 DEF Detect!Throw, Detect!Undisturbed
<1> QED
  BY <1>1, <1>2, <1>3, <1>4, <1>5 DEF Detect!Work

\* Time makes a threshold pass, never unpass.
LEMMA QuietTime ==
  ASSUME DetectBounds, DetectInductive, QuietSound, Detect!Tick \/ UNCHANGED Detect!vars
  PROVE  QuietSound'
<1> USE DEF QuietSound, TodoCurrent, DownJobCurrent, Detect!NeedsTimer, Detect!NoTimerLost,
            Detect!DownOnlyAfterThreshold
<1>1. CASE Detect!Tick
  <2>1. clock' = clock + 1
        /\ UNCHANGED <<status, since, lastCycle, planned, jobs, work, todo, completed, stalls, losses>>
    BY <1>1 DEF Detect!Tick, Detect!station, Detect!counts
  <2>2. /\ clock \in Nat /\ lastCycle + DownAfter \in Nat /\ jobs["down"].due \in Nat
    BY KindsAre DEF DetectInductive, Detect!TypeOK, DetectBounds, Detect!Job
  <2> QED
    BY <2>1, <2>2
<1>2. CASE UNCHANGED Detect!vars
  BY <1>2 DEF Detect!vars
<1> QED
  BY <1>1, <1>2

\* Detection that nothing disturbs loses no timer and takes a station DOWN only
\* after the threshold.
THEOREM QuietDetection ==
  ASSUME DetectBounds
  PROVE  Detect!Spec => Detect!QuietTimersAreExact
<1>1. ASSUME DetectInductive, QuietSound, Detect!Undisturbed, Detect!Undisturbed',
             [Detect!Next]_(Detect!vars)
      PROVE  QuietSound'
  BY <1>1, QuietCompleter, QuietWorker, QuietTime DEF Detect!Next
<1>2. QuietSound => Detect!NoTimerLost /\ Detect!DownOnlyAfterThreshold
  BY DEF QuietSound
<1> QED
  BY <1>1, <1>2, QuietInit, DetectInvariant, PTL DEF Detect!Spec, Detect!QuietTimersAreExact

=============================================================================
