-------------------------- MODULE StationLogProofs --------------------------
(* Theorems about StationLog, for every set of processes and every bound. *)
EXTENDS StationLog, SequenceTheorems, TLAPS

-----------------------------------------------------------------------------
(* What the writing operators return. *)

\* A function over the positions of a log whose values are rows is a log.
LEMMA RowMap ==
  ASSUME NEW l \in Seq(Row), NEW m,
         m = [i \in DOMAIN l |-> m[i]],
         \A i \in DOMAIN l : m[i] \in Row
  PROVE  m \in Seq(Row) /\ Len(m) = Len(l)
<1>1. Len(l) \in Nat /\ DOMAIN l = 1 .. Len(l)
  BY LenProperties
<1>2. m \in [1 .. Len(l) -> Row]
  BY <1>1
<1> QED
  BY <1>1, <1>2, SeqDef

\* A row written by createStateEntry.
LEMMA NewRowType ==
  ASSUME NEW t \in Nat, NEW state \in {"UP", "DOWN"},
         NEW status \in {"UP", "SLOW", "DOWN"}, NEW b \in Nat
  PROVE  NewRow(t, state, status, b) \in Row
BY DEF NewRow, Row

\* A log one row longer.
LEMMA AppendRow ==
  ASSUME NEW l \in Seq(Row), NEW r \in Row
  PROVE  /\ Append(l, r) \in Seq(Row)
         /\ Len(Append(l, r)) = Len(l) + 1
         /\ DOMAIN Append(l, r) = 1 .. Len(l) + 1
         /\ \A i \in DOMAIN l : Append(l, r)[i] = l[i]
         /\ Append(l, r)[Len(l) + 1] = r
         /\ DOMAIN l = 1 .. Len(l)
         /\ Len(l) \in Nat
OBVIOUS

\* closeOpenStateEntries returns a log without open rows.
LEMMA CloseOpenLog ==
  ASSUME NEW l \in Seq(Row), NEW t \in Nat
  PROVE  /\ CloseOpen(l, t) \in Seq(Row)
         /\ Len(CloseOpen(l, t)) = Len(l)
         /\ \A i \in DOMAIN l : CloseOpen(l, t)[i] =
              IF IsOpen(l[i]) THEN [l[i] EXCEPT !.end = t] ELSE l[i]
<1>1. \A i \in DOMAIN l : l[i] \in Row
  BY ElementOfSeq, LenProperties
<1>2. \A i \in DOMAIN l : CloseOpen(l, t)[i] \in Row
  BY <1>1 DEF CloseOpen, Row
<1>3. CloseOpen(l, t) = [i \in DOMAIN l |-> CloseOpen(l, t)[i]]
  BY DEF CloseOpen
<1> QED
  BY <1>2, <1>3, RowMap DEF CloseOpen

\* A log whose rows are well typed and consistent.
GoodLog(l) == l \in Seq(Row) /\ \A i \in DOMAIN l : RowConsistent(l[i])

\* What no write undoes: rows stay, downtimes and closed rows stay so.
Evolves(l, m) ==
  \A i \in DOMAIN l :
    /\ i \in DOMAIN m
    /\ l[i].state = "DOWN" => m[i].state = "DOWN"
    /\ l[i].end # Null => m[i].end # Null

\* Exactly one live open row.
OneOpen(l) == \E i \in OpenIds(l) : OpenIds(l) = {i}

\* What a log is, for the provers: rows at the positions 1 to its length.
LEMMA RowsOf ==
  ASSUME NEW l \in Seq(Row)
  PROVE  /\ \A i \in DOMAIN l : l[i] \in Row
         /\ DOMAIN l = 1 .. Len(l)
         /\ Len(l) \in Nat
BY ElementOfSeq, LenProperties

\* Every row but the appended one keeps what Evolves names.
LEMMA AppendEvolves ==
  ASSUME NEW l \in Seq(Row), NEW m \in Seq(Row), NEW r \in Row,
         Len(m) = Len(l), Evolves(l, m)
  PROVE  Evolves(l, Append(m, r))
<1>1. DOMAIN l = DOMAIN m
  BY RowsOf
<1>2. \A i \in DOMAIN m : i \in DOMAIN Append(m, r) /\ Append(m, r)[i] = m[i]
  BY AppendRow
<1> QED
  BY <1>1, <1>2 DEF Evolves

\* A log without open rows gets exactly one from an open row appended to it.
LEMMA AppendOpen ==
  ASSUME NEW l \in Seq(Row), NEW r \in Row, IsOpen(r), OpenIds(l) = {}
  PROVE  OneOpen(Append(l, r))
<1>1. Len(l) + 1 \in OpenIds(Append(l, r))
  BY AppendRow DEF OpenIds
<1>2. \A i \in OpenIds(Append(l, r)) : i = Len(l) + 1
  BY AppendRow DEF OpenIds
<1> QED
  BY <1>1, <1>2 DEF OneOpen

\* The snapshot of an UP row, or a new id, gives the block of a new UP row.
LEMMA UpBlockType ==
  ASSUME NEW t \in Tx, NEW b \in Nat
  PROVE  UpBlock(t, b) \in Nat
BY NullAssumption DEF UpBlock, Tx, Row

\* A completion closes whatever is open and leaves its new row the only open one.
LEMMA CycleLogSound ==
  ASSUME NEW l, GoodLog(l), NEW t \in Tx, NEW b \in Nat, NEW slow \in BOOLEAN
  PROVE  LET m == CycleLog(l, t, b, slow)
         IN  GoodLog(m) /\ Evolves(l, m) /\ OneOpen(m)
<1> DEFINE c == CloseOpen(l, t.ts)
           r == NewRow(t.ts, "UP", IF slow THEN "SLOW" ELSE "UP", UpBlock(t, b))
<1>1. t.ts \in Nat /\ Null \notin Nat
  BY NullAssumption DEF Tx
<1>2. /\ l \in Seq(Row) /\ c \in Seq(Row) /\ Len(c) = Len(l)
      /\ DOMAIN c = DOMAIN l
      /\ \A i \in DOMAIN l : c[i] =
           IF IsOpen(l[i]) THEN [l[i] EXCEPT !.end = t.ts] ELSE l[i]
  BY <1>1, CloseOpenLog, RowsOf DEF GoodLog
<1>3. r \in Row /\ IsOpen(r) /\ RowConsistent(r)
  <2>1. r \in Row
    BY <1>1, UpBlockType, NewRowType
  <2> QED
    BY <2>1 DEF NewRow, IsOpen, IsLive, RowConsistent
<1>4. \A i \in DOMAIN l : l[i] \in Row
  BY <1>2, RowsOf
<1>5. OpenIds(c) = {}
  BY <1>1, <1>2, <1>4 DEF OpenIds, IsOpen, IsLive, Row
<1>6. Evolves(l, c)
  <2>1. ASSUME NEW i \in DOMAIN l
        PROVE  c[i].state = l[i].state /\ (l[i].end # Null => c[i] = l[i])
    <3>1. l[i] \in Row /\ c[i] = IF IsOpen(l[i]) THEN [l[i] EXCEPT !.end = t.ts] ELSE l[i]
      BY <1>2, <1>4
    <3> HIDE DEF c
    <3> QED
      BY <3>1 DEF Row, IsOpen
  <2> HIDE DEF c
  <2> QED
    BY <1>2, <2>1 DEF Evolves
<1>7. ASSUME NEW i \in DOMAIN c PROVE RowConsistent(c[i])
  <2>1. /\ l[i] \in Row /\ RowConsistent(l[i])
        /\ c[i] = l[i] \/ c[i] = [l[i] EXCEPT !.end = t.ts]
    BY <1>2, <1>4 DEF GoodLog
  <2> HIDE DEF c
  <2> QED
    BY <2>1 DEF RowConsistent, Row
<1>8. GoodLog(Append(c, r))
  BY <1>2, <1>3, <1>7, AppendRow DEF GoodLog
<1>9. Evolves(l, Append(c, r))
  BY <1>2, <1>3, <1>6, AppendEvolves
<1>10. OneOpen(Append(c, r))
  BY <1>2, <1>3, <1>5, AppendOpen
<1> QED
  BY <1>8, <1>9, <1>10 DEF CycleLog

\* The slow timer, given the open row as it is under the lock.
LEMMA SlowLogSound ==
  ASSUME NEW l, GoodLog(l), NEW t \in Tx, NEW b \in Nat,
         l # <<>> => OneOpen(l), ReadIsCurrent(l, t), SnapshotHolds(l, t)
  PROVE  LET m == SlowLog(l, t, b)
         IN  GoodLog(m) /\ Evolves(l, m) /\ (m # <<>> => OneOpen(m))
<1>1. /\ l \in Seq(Row) /\ DOMAIN l = 1 .. Len(l)
      /\ \A i \in DOMAIN l : l[i] \in Row
      /\ t.ts \in Nat
  BY RowsOf DEF GoodLog, Tx
<1>2. Evolves(l, l)
  BY DEF Evolves
<1>3. CASE t.seen = Null
  <2> DEFINE r == NewRow(t.ts, "UP", "SLOW", b)
  <2>1. r \in Row /\ IsOpen(r) /\ RowConsistent(r)
    <3>1. r \in Row
      BY <1>1, NewRowType
    <3> QED
      BY <3>1 DEF NewRow, IsOpen, IsLive, RowConsistent
  <2>2. OpenIds(l) = {}
    BY <1>3 DEF ReadIsCurrent
  <2>3. GoodLog(Append(l, r))
    BY <1>1, <2>1, AppendRow DEF GoodLog
  <2>4. Evolves(l, Append(l, r))
    BY <1>1, <1>2, <2>1, AppendEvolves
  <2>5. OneOpen(Append(l, r))
    BY <1>1, <2>1, <2>2, AppendOpen
  <2> QED
    BY <1>3, <2>3, <2>4, <2>5 DEF SlowLog
<1>4. CASE t.seen # Null /\ (t.seen.state = "DOWN" \/ t.seen.status = "SLOW")
  BY <1>2, <1>4 DEF SlowLog
<1>5. CASE t.seen # Null /\ t.seen.state # "DOWN" /\ t.seen.status # "SLOW"
  <2> DEFINE m == [l EXCEPT ![t.id].status = "SLOW"]
  <2>1. /\ t.id \in DOMAIN l /\ IsOpen(l[t.id])
        /\ l[t.id].state = t.seen.state
    BY <1>5 DEF ReadIsCurrent, SnapshotHolds
  <2>2. [l[t.id] EXCEPT !.status = "SLOW"] \in Row
    BY <1>1, <2>1 DEF Row
  <2>3. /\ m \in Seq(Row) /\ Len(m) = Len(l) /\ DOMAIN m = DOMAIN l
        /\ \A i \in DOMAIN l : m[i] =
             IF i = t.id THEN [l[i] EXCEPT !.status = "SLOW"] ELSE l[i]
    <3>1. m = [l EXCEPT ![t.id] = [l[t.id] EXCEPT !.status = "SLOW"]]
      OBVIOUS
    <3> QED
      BY <1>1, <2>1, <2>2, <3>1, ExceptSeq, RowsOf
  <2>4. \A i \in DOMAIN l :
          /\ m[i].state = l[i].state /\ m[i].end = l[i].end
          /\ m[i].reason = l[i].reason /\ m[i].deleted = l[i].deleted
    BY <1>1, <2>3 DEF Row
  <2>5. OpenIds(m) = OpenIds(l)
    BY <2>3, <2>4 DEF OpenIds, IsOpen, IsLive
  <2>6. \A i \in DOMAIN l : RowConsistent(m[i])
    <3> SUFFICES ASSUME NEW i \in DOMAIN l PROVE RowConsistent(m[i])
      OBVIOUS
    <3>1. CASE i = t.id
      <4>1. m[i].status = "SLOW" /\ m[i].state # "DOWN"
        BY <1>1, <1>5, <2>1, <2>3, <3>1 DEF Row
      <4>2. l[i].reason = Null
        BY <1>5, <2>1, <3>1 DEF GoodLog, RowConsistent
      <4> QED
        BY <2>4, <4>1, <4>2 DEF RowConsistent
    <3>2. CASE i # t.id
      BY <2>3, <3>2 DEF GoodLog, RowConsistent
    <3> QED
      BY <3>1, <3>2
  <2>7. GoodLog(m)
    BY <2>3, <2>6 DEF GoodLog
  <2>8. Evolves(l, m)
    BY <2>3, <2>4 DEF Evolves
  <2>9. OneOpen(m)
    <3>1. l # <<>>
      BY <2>1
    <3> QED
      BY <2>5, <3>1 DEF OneOpen
  <2> QED
    BY <1>5, <2>7, <2>8, <2>9 DEF SlowLog
<1> QED
  BY <1>3, <1>4, <1>5

\* The conversion of the open row in place.
LEMMA ConvertSound ==
  ASSUME NEW l, GoodLog(l), NEW t \in Tx, NEW b \in Nat,
         t.id \in DOMAIN l, IsOpen(l[t.id])
  PROVE  LET m == Convert(l, t, b)
         IN  GoodLog(m) /\ Evolves(l, m) /\ OneOpen(m)
<1> DEFINE m == Convert(l, t, b)
<1>1. /\ l \in Seq(Row) /\ DOMAIN l = 1 .. Len(l)
      /\ \A i \in DOMAIN l : l[i] \in Row
      /\ t.ts \in Nat /\ Null \notin Nat
  BY RowsOf, NullAssumption DEF GoodLog, Tx
<1>2. m = [i \in DOMAIN l |-> m[i]] /\ DOMAIN m = DOMAIN l
  BY DEF Convert
<1>3. \A i \in DOMAIN l : m[i] \in Row
  BY <1>1 DEF Convert, Row
<1>4. m \in Seq(Row) /\ Len(m) = Len(l)
  BY <1>1, <1>2, <1>3, RowMap
<1>5. /\ m[t.id].end = Null /\ ~m[t.id].deleted
      /\ m[t.id].state = "DOWN" /\ m[t.id].status = "DOWN"
  BY <1>1 DEF Convert, IsOpen, IsLive, Row
<1>6. \A i \in DOMAIN l \ {t.id} :
        /\ m[i].state = l[i].state /\ m[i].status = l[i].status
        /\ m[i].reason = l[i].reason /\ m[i].deleted = l[i].deleted
        /\ m[i].end = IF IsOpen(l[i]) THEN t.ts ELSE l[i].end
  BY <1>1 DEF Convert, Row
<1>7. OneOpen(m)
  <2>1. t.id \in OpenIds(m)
    BY <1>2, <1>5 DEF OpenIds, IsOpen, IsLive
  <2>2. \A i \in OpenIds(m) : i = t.id
    BY <1>1, <1>2, <1>6 DEF OpenIds, IsOpen, IsLive
  <2> QED
    BY <2>1, <2>2 DEF OneOpen
<1>8. \A i \in DOMAIN l : RowConsistent(m[i])
  BY <1>5, <1>6 DEF GoodLog, RowConsistent
<1>9. Evolves(l, m)
  BY <1>1, <1>2, <1>5, <1>6 DEF Evolves, IsOpen
<1> QED
  BY <1>2, <1>4, <1>7, <1>8, <1>9 DEF GoodLog

\* The down timer, given the open row as it is under the lock.
LEMMA DownLogSound ==
  ASSUME NEW l, GoodLog(l), NEW t \in Tx, NEW b \in Nat,
         l # <<>> => OneOpen(l), ReadIsCurrent(l, t), SnapshotHolds(l, t)
  PROVE  LET m == DownLog(l, t, b)
         IN  GoodLog(m) /\ Evolves(l, m) /\ (m # <<>> => OneOpen(m))
<1>1. l \in Seq(Row) /\ t.ts \in Nat
  BY DEF GoodLog, Tx
<1>2. Evolves(l, l)
  BY DEF Evolves
<1>3. CASE t.seen = Null
  <2> DEFINE r == NewRow(t.ts, "DOWN", "DOWN", b)
  <2>1. r \in Row /\ IsOpen(r) /\ RowConsistent(r)
    <3>1. r \in Row
      BY <1>1, NewRowType
    <3> QED
      BY <3>1 DEF NewRow, IsOpen, IsLive, RowConsistent
  <2>2. OpenIds(l) = {}
    BY <1>3 DEF ReadIsCurrent
  <2>3. GoodLog(Append(l, r))
    BY <1>1, <2>1, AppendRow DEF GoodLog
  <2>4. Evolves(l, Append(l, r))
    BY <1>1, <1>2, <2>1, AppendEvolves
  <2>5. OneOpen(Append(l, r))
    BY <1>1, <2>1, <2>2, AppendOpen
  <2> QED
    BY <1>3, <2>3, <2>4, <2>5 DEF DownLog
<1>4. CASE t.seen # Null /\ t.seen.state = "DOWN"
  BY <1>2, <1>4 DEF DownLog
<1>5. CASE t.seen # Null /\ t.seen.state # "DOWN"
  <2>1. t.id \in DOMAIN l /\ IsOpen(l[t.id])
    BY <1>5 DEF ReadIsCurrent, SnapshotHolds
  <2> QED
    BY <1>5, <2>1, ConvertSound DEF DownLog
<1> QED
  BY <1>3, <1>4, <1>5

\* A split from any snapshot, current or stale, leaves an open row if there was
\* one: either the copy is open, or the entry was already closed when read.
LEMMA SplitLogSound ==
  ASSUME NEW l, GoodLog(l), NEW t \in Tx, OpenIds(l) # {},
         t.seen # Null, SnapshotHolds(l, t)
  PROVE  LET m == SplitLog(l, t)
         IN  GoodLog(m) /\ Evolves(l, m) /\ OpenIds(m) # {}
<1> DEFINE c == [l EXCEPT ![t.id].end = t.ts]
           r == [t.seen EXCEPT !.start = t.ts]
<1>1. /\ l \in Seq(Row) /\ DOMAIN l = 1 .. Len(l)
      /\ \A i \in DOMAIN l : l[i] \in Row
      /\ t.ts \in Nat /\ Null \notin Nat
      /\ t.id \in DOMAIN l /\ t.seen \in Row
  BY RowsOf, NullAssumption DEF GoodLog, Tx, SnapshotHolds
<1>2. r \in Row /\ RowConsistent(r) /\ IsLive(r) /\ r.end = t.seen.end
  BY <1>1 DEF Row, RowConsistent, IsLive, SnapshotHolds
<1>3. [l[t.id] EXCEPT !.end = t.ts] \in Row
  BY <1>1 DEF Row
<1>4. /\ c \in Seq(Row) /\ Len(c) = Len(l) /\ DOMAIN c = DOMAIN l
      /\ \A i \in DOMAIN l : c[i] =
           IF i = t.id THEN [l[i] EXCEPT !.end = t.ts] ELSE l[i]
  <2>1. c = [l EXCEPT ![t.id] = [l[t.id] EXCEPT !.end = t.ts]]
    OBVIOUS
  <2> QED
    BY <1>1, <1>3, <2>1, ExceptSeq, RowsOf
<1>5. \A i \in DOMAIN l :
        /\ c[i].state = l[i].state /\ c[i].status = l[i].status
        /\ c[i].reason = l[i].reason /\ c[i].deleted = l[i].deleted
        /\ c[i].end = IF i = t.id THEN t.ts ELSE l[i].end
  <2> SUFFICES ASSUME NEW i \in DOMAIN l
               PROVE  /\ c[i].state = l[i].state /\ c[i].status = l[i].status
                      /\ c[i].reason = l[i].reason /\ c[i].deleted = l[i].deleted
                      /\ c[i].end = IF i = t.id THEN t.ts ELSE l[i].end
    OBVIOUS
  <2>1. l[i] \in Row /\ c[i] = IF i = t.id THEN [l[i] EXCEPT !.end = t.ts] ELSE l[i]
    BY <1>1, <1>4
  <2> HIDE DEF c
  <2> QED
    BY <2>1 DEF Row
<1>6. \A i \in DOMAIN c : RowConsistent(c[i])
  BY <1>4, <1>5 DEF GoodLog, RowConsistent
<1>7. Evolves(l, c)
  BY <1>1, <1>4, <1>5 DEF Evolves
<1>8. GoodLog(Append(c, r))
  BY <1>2, <1>4, <1>6, AppendRow DEF GoodLog
<1>9. Evolves(l, Append(c, r))
  BY <1>1, <1>2, <1>4, <1>7, AppendEvolves
<1>10. OpenIds(Append(c, r)) # {}
  <2>1. CASE t.seen.end = Null
    <3>1. Len(c) + 1 \in OpenIds(Append(c, r))
      BY <1>2, <1>4, <2>1, AppendRow DEF OpenIds, IsOpen
    <3> QED
      BY <3>1
  <2>2. CASE t.seen.end # Null
    <3>1. PICK i \in OpenIds(l) : TRUE
      OBVIOUS
    <3>2. i \in DOMAIN l /\ IsOpen(l[i]) /\ i # t.id
      BY <2>2, <3>1 DEF OpenIds, IsOpen, SnapshotHolds
    <3>3. i \in DOMAIN c /\ IsOpen(c[i])
      BY <1>4, <1>5, <3>2 DEF IsOpen, IsLive
    <3>4. i \in OpenIds(Append(c, r))
      BY <1>2, <1>4, <3>3, AppendRow DEF OpenIds
    <3> QED
      BY <3>4
  <2> QED
    BY <2>1, <2>2
<1> QED
  BY <1>8, <1>9, <1>10 DEF SplitLog

\* An assignment changes reasons only, and those of DOWN rows only.
LEMMA ReasonLogSound ==
  ASSUME NEW l, GoodLog(l), NEW t \in Tx, NEW scope, NEW reason \in Reasons \cup {Null},
         t.seen # Null, t.seen.state = "DOWN", SnapshotHolds(l, t)
  PROVE  LET m == ReasonLog(l, t, scope, reason)
         IN  GoodLog(m) /\ Evolves(l, m) /\ OpenIds(m) = OpenIds(l)
             /\ \A i \in DOMAIN l : m[i].state = l[i].state
<1> DEFINE m == ReasonLog(l, t, scope, reason)
<1>1. /\ l \in Seq(Row) /\ DOMAIN l = 1 .. Len(l)
      /\ \A i \in DOMAIN l : l[i] \in Row
      /\ t.id \in DOMAIN l /\ l[t.id].state = "DOWN"
  BY RowsOf DEF GoodLog, SnapshotHolds
<1>2. m = [i \in DOMAIN l |-> m[i]] /\ DOMAIN m = DOMAIN l
  BY DEF ReasonLog
<1>3. \A i \in DOMAIN l :
        /\ m[i] \in Row
        /\ m[i].state = l[i].state /\ m[i].status = l[i].status
        /\ m[i].end = l[i].end /\ m[i].deleted = l[i].deleted
        /\ m[i].reason = l[i].reason \/ l[i].state = "DOWN"
  <2> SUFFICES ASSUME NEW i \in DOMAIN l
               PROVE  /\ m[i] \in Row
                      /\ m[i].state = l[i].state /\ m[i].status = l[i].status
                      /\ m[i].end = l[i].end /\ m[i].deleted = l[i].deleted
                      /\ m[i].reason = l[i].reason \/ l[i].state = "DOWN"
    OBVIOUS
  <2>1. /\ l[i] \in Row
        /\ \/ m[i] = l[i]
           \/ m[i] = [l[i] EXCEPT !.reason = reason] /\ l[i].state = "DOWN"
    BY <1>1 DEF ReasonLog
  <2> HIDE DEF m
  <2> QED
    BY <2>1 DEF Row
<1>4. m \in Seq(Row)
  BY <1>1, <1>2, <1>3, RowMap
<1>5. \A i \in DOMAIN m : RowConsistent(m[i])
  BY <1>2, <1>3 DEF GoodLog, RowConsistent
<1>6. Evolves(l, m)
  BY <1>2, <1>3 DEF Evolves
<1>7. OpenIds(m) = OpenIds(l)
  BY <1>2, <1>3 DEF OpenIds, IsOpen, IsLive
<1> QED
  BY <1>3, <1>4, <1>5, <1>6, <1>7 DEF GoodLog

\* A reconciliation deletes every open row and opens one.
LEMMA ReconcileLogSound ==
  ASSUME NEW l, GoodLog(l), NEW t \in Tx, NEW b \in Nat
  PROVE  LET m == ReconcileLog(l, t, b)
         IN  GoodLog(m) /\ Evolves(l, m) /\ OneOpen(m)
<1> DEFINE c == Purged(l, t)
           q == [NewRow(t.ts, "UP", "UP", b) EXCEPT !.end = t.hi]
           r == NewRow(t.hi, "UP", "UP", b)
<1>1. /\ l \in Seq(Row) /\ DOMAIN l = 1 .. Len(l)
      /\ \A i \in DOMAIN l : l[i] \in Row
      /\ t.ts \in Nat /\ t.hi \in Nat /\ Null \notin Nat
  BY RowsOf, NullAssumption DEF GoodLog, Tx
<1>2. q \in Row /\ RowConsistent(q) /\ ~IsOpen(q)
  BY <1>1 DEF NewRow, Row, RowConsistent, IsOpen
<1>3. r \in Row /\ RowConsistent(r) /\ IsOpen(r)
  BY <1>1 DEF NewRow, Row, RowConsistent, IsOpen, IsLive
<1>4. c = [i \in DOMAIN l |-> c[i]] /\ DOMAIN c = DOMAIN l
  BY DEF Purged
<1>5. \A i \in DOMAIN l :
        /\ c[i] \in Row
        /\ c[i].state = l[i].state /\ c[i].status = l[i].status
        /\ c[i].reason = l[i].reason /\ c[i].end = l[i].end
        /\ l[i].end = Null => c[i].deleted
  BY <1>1 DEF Purged, IsLive, InWindow, Row
<1>6. c \in Seq(Row) /\ Len(c) = Len(l)
  BY <1>1, <1>4, <1>5, RowMap
<1>7. \A i \in DOMAIN c : RowConsistent(c[i])
  BY <1>4, <1>5 DEF GoodLog, RowConsistent
<1>8. Evolves(l, c)
  BY <1>4, <1>5 DEF Evolves
<1>9. OpenIds(c) = {}
  BY <1>4, <1>5 DEF OpenIds, IsOpen, IsLive
<1> DEFINE d == Append(c, q)
<1>10. d \in Seq(Row) /\ Len(d) = Len(l) + 1 /\ DOMAIN d = 1 .. Len(l) + 1
  BY <1>2, <1>6, AppendRow
<1>11. \A i \in DOMAIN d : d[i] = q \/ (i \in DOMAIN c /\ d[i] = c[i])
  BY <1>2, <1>6, AppendRow
<1>12. (\A i \in DOMAIN d : RowConsistent(d[i])) /\ OpenIds(d) = {}
  BY <1>2, <1>7, <1>9, <1>11 DEF OpenIds
<1>13. Evolves(l, d)
  BY <1>1, <1>2, <1>6, <1>8, AppendEvolves
<1> HIDE DEF d
<1>14. GoodLog(Append(d, r))
  BY <1>3, <1>10, <1>12, AppendRow DEF GoodLog
<1>15. OneOpen(Append(d, r))
  BY <1>3, <1>10, <1>12, AppendOpen
<1>16. Evolves(l, Append(d, r))
  <2>1. \A i \in DOMAIN d : i \in DOMAIN Append(d, r) /\ Append(d, r)[i] = d[i]
    BY <1>3, <1>10, AppendRow
  <2> QED
    BY <1>13, <2>1 DEF Evolves
<1> QED
  BY <1>14, <1>15, <1>16 DEF ReconcileLog, d

-----------------------------------------------------------------------------
(* The inductive invariant. *)

\* The invariant holds for a station without a log.
LEMMA InitSound == Init => Inductive
<1> SUFFICES ASSUME Init PROVE Inductive
  OBVIOUS
<1>1. Idle \in Tx
  BY DEF Idle, Tx
<1>2. log \in Seq(Row) /\ DOMAIN log = {}
  BY EmptySeq DEF Init
<1>3. TypeOK
  BY <1>1, <1>2 DEF Init, TypeOK
<1>4. RowsConsistent /\ CurrentStateUnique /\ OnlyStaleSplitsRejected
  BY <1>2 DEF Init, RowsConsistent, CurrentStateUnique, OnlyStaleSplitsRejected
<1>5. TransactionsSound
  BY DEF Init, TransactionsSound, Idle, SnapshotHolds, HoldsLock
<1> QED
  BY <1>3, <1>4, <1>5 DEF Inductive

\* A snapshot holds of every log the one it was taken from evolves into.
LEMMA SnapshotKept ==
  ASSUME NEW l, NEW m, NEW t, SnapshotHolds(l, t), Evolves(l, m)
  PROVE  SnapshotHolds(m, t)
BY DEF SnapshotHolds, Evolves

\* The end of a transaction keeps the invariant when the log it writes is
\* sound, and it writes no state or open row unless it holds the lock.
LEMMA EndSound ==
  ASSUME Inductive, NEW p \in Proc, tx[p].op # "none", NEW l, End(p, l),
         GoodLog(l), Evolves(log, l),
         \/ l # <<>> => OneOpen(l)
         \/ tx[p].op = "split" /\ OpenIds(l) # {},
         \/ HoldsLock(p)
         \/ /\ OpenIds(l) = OpenIds(log)
            /\ \A i \in DOMAIN log : l[i].state = log[i].state
  PROVE  Inductive'
<1>1. /\ log \in Seq(Row) /\ nextBlock \in Nat /\ tx \in [Proc -> Tx]
      /\ lock \in Proc \cup {Null} /\ rejected \subseteq Ops
      /\ clock \in Nat /\ window \in Window \cup {Null}
  BY DEF Inductive, TypeOK
<1>2. log' = log \/ log' = l
  BY DEF End
<1>3. Idle \in Tx /\ tx[p].op \in Ops
  BY <1>1 DEF Idle, Tx
<1>4. /\ tx' = [tx EXCEPT ![p] = Idle]
      /\ \A q \in Proc \ {p} : tx'[q] = tx[q]
      /\ tx'[p] = Idle
  BY <1>1 DEF End
<1>5. TypeOK'
  <2>1. log' \in Seq(Row)
    BY <1>1, <1>2 DEF GoodLog
  <2>2. tx' \in [Proc -> Tx]
    BY <1>1, <1>3, <1>4
  <2>3. nextBlock' \in Nat /\ rejected' \subseteq Ops /\ lock' \in Proc \cup {Null}
    BY <1>1, <1>3 DEF End
  <2>4. clock' \in Nat /\ window' \in Window \cup {Null}
    BY <1>1 DEF End
  <2> QED
    BY <2>1, <2>2, <2>3, <2>4 DEF TypeOK
<1>6. RowsConsistent'
  BY <1>2 DEF Inductive, RowsConsistent, GoodLog
<1>7. Conflict(l) => tx[p].op = "split"
  BY DEF Conflict, OneOpen, OpenIds
<1>8. CurrentStateUnique'
  <2>1. CASE log' = log
    BY <2>1 DEF Inductive, CurrentStateUnique
  <2>2. CASE log' # log
    <3>1. log' = l /\ ~Conflict(l)
      BY <2>2 DEF End
    <3>2. l # <<>> => OneOpen(l)
      BY <3>1 DEF Conflict, OneOpen
    <3> QED
      BY <3>1, <3>2 DEF OneOpen, CurrentStateUnique
  <2> QED
    BY <2>1, <2>2
<1>9. OnlyStaleSplitsRejected'
  BY <1>7 DEF End, Inductive, OnlyStaleSplitsRejected
<1>10. TransactionsSound'
  <2> SUFFICES ASSUME NEW q \in Proc
      PROVE /\ SnapshotHolds(log', tx'[q])
            /\ HoldsLock(q)' => lock' = q
            /\ HoldsLock(q)' /\ ReadsUnderLock(tx'[q].op) => ReadIsCurrent(log', tx'[q])
            /\ tx'[q].op \in {"split", "reason"} =>
                 tx'[q].seen # Null /\ tx'[q].seen.state = "DOWN"
    BY DEF TransactionsSound
  <2>1. CASE q = p
    BY <1>4, <2>1 DEF Idle, SnapshotHolds, HoldsLock
  <2>2. CASE q # p
    <3>1. tx'[q] = tx[q]
      BY <1>4, <2>2
    <3>2. /\ SnapshotHolds(log, tx[q])
          /\ HoldsLock(q) => lock = q
          /\ HoldsLock(q) /\ ReadsUnderLock(tx[q].op) => ReadIsCurrent(log, tx[q])
          /\ tx[q].op \in {"split", "reason"} =>
               tx[q].seen # Null /\ tx[q].seen.state = "DOWN"
          /\ HoldsLock(p) => lock = p
      BY DEF Inductive, TransactionsSound
    <3>3. SnapshotHolds(log', tx'[q])
      BY <1>2, <3>1, <3>2, SnapshotKept
    <3>4. HoldsLock(q)' <=> HoldsLock(q)
      BY <3>1 DEF HoldsLock
    <3>5. HoldsLock(q) => lock' = q
      BY <2>2, <3>2 DEF End
    <3>6. HoldsLock(q) /\ ReadsUnderLock(tx[q].op) => ReadIsCurrent(log', tx[q])
      <4> SUFFICES ASSUME HoldsLock(q), ReadsUnderLock(tx[q].op)
                   PROVE  ReadIsCurrent(log', tx[q])
        OBVIOUS
      <4>1. ReadIsCurrent(log, tx[q]) /\ SnapshotHolds(log, tx[q])
        BY <3>2
      <4>2. ~HoldsLock(p)
        BY <2>2, <3>2
      <4>3. /\ OpenIds(log') = OpenIds(log)
            /\ \A i \in DOMAIN log : i \in DOMAIN log' /\ log'[i].state = log[i].state
        BY <1>2, <4>2 DEF Evolves
      <4>4. CASE tx[q].seen = Null
        BY <4>1, <4>3, <4>4 DEF ReadIsCurrent
      <4>5. CASE tx[q].seen # Null
        <5>1. tx[q].id \in DOMAIN log /\ tx[q].id \in OpenIds(log)
          BY <4>1, <4>5 DEF SnapshotHolds, ReadIsCurrent, OpenIds
        <5>2. IsOpen(log'[tx[q].id])
          BY <4>3, <5>1 DEF OpenIds
        <5> QED
          BY <4>1, <4>3, <4>5, <5>1, <5>2 DEF ReadIsCurrent
      <4> QED
        BY <4>4, <4>5
    <3> QED
      BY <3>1, <3>2, <3>3, <3>4, <3>5, <3>6
  <2> QED
    BY <2>1, <2>2
<1> QED
  BY <1>5, <1>6, <1>8, <1>9, <1>10 DEF Inductive

\* findOpenStateEntry returns an open row, or 0 when there is none.
LEMMA OpenIdFound ==
  ASSUME NEW l \in Seq(Row)
  PROVE  /\ OpenIds(l) = {} => OpenId(l) = 0
         /\ OneOpen(l) => OpenId(l) \in OpenIds(l) /\ OpenIds(l) = {OpenId(l)}
<1>1. CASE OneOpen(l)
  <2>1. PICK i \in OpenIds(l) : OpenIds(l) = {i}
    BY <1>1 DEF OneOpen
  <2>2. l[i].start <= l[i].start
    <3>1. l[i] \in Row
      BY RowsOf DEF OpenIds
    <3>2. l[i].start \in Nat
      BY <3>1 DEF Row
    <3> QED
      BY <3>2
  <2>3. OpenId(l) \in OpenIds(l)
    BY <2>1, <2>2 DEF OpenId
  <2> QED
    BY <2>1, <2>3
<1>2. CASE ~OneOpen(l)
  BY <1>2 DEF OpenId
<1> QED
  BY <1>1, <1>2

\* A new transaction, whose snapshot is a row of the log or Null, keeps the
\* invariant.
LEMMA BeginSound ==
  ASSUME Inductive, NEW p \in Proc, NEW t \in Tx,
         UNCHANGED <<clock, lock, log, nextBlock, rejected>>,
         window' \in Window \cup {Null},
         IsIdle(p), tx' = [tx EXCEPT ![p] = t],
         SnapshotHolds(log, t),
         t.step = "wait" \/ t.op = "reason",
         t.op \in {"split", "reason"} => t.seen # Null /\ t.seen.state = "DOWN"
  PROVE  Inductive'
<1>1. tx \in [Proc -> Tx]
  BY DEF Inductive, TypeOK
<1>2. tx'[p] = t /\ \A q \in Proc \ {p} : tx'[q] = tx[q]
  BY <1>1
<1>3. TypeOK'
  BY <1>1 DEF Inductive, TypeOK
<1>4. RowsConsistent' /\ CurrentStateUnique' /\ OnlyStaleSplitsRejected'
  BY DEF Inductive, RowsConsistent, CurrentStateUnique, OnlyStaleSplitsRejected
<1>5. TransactionsSound'
  BY <1>2 DEF Inductive, TransactionsSound, HoldsLock
<1> QED
  BY <1>3, <1>4, <1>5 DEF Inductive

\* The record Begin stores: its snapshot holds, and is the row with that id.
LEMMA BeginRecord ==
  ASSUME Inductive, NEW op \in Ops, NEW step \in {"wait", "held"},
         NEW ts \in Nat, NEW hi \in Nat,
         NEW id, id = 0 \/ (id \in DOMAIN log /\ IsLive(log[id]))
  PROVE  LET t == [op |-> op, step |-> step, ts |-> ts, hi |-> hi,
                   id |-> id, seen |-> RowAt(log, id)]
         IN  t \in Tx /\ SnapshotHolds(log, t)
<1>1. log \in Seq(Row) /\ RowsConsistent
  BY DEF Inductive, TypeOK
<1>2. /\ DOMAIN log = 1 .. Len(log) /\ Len(log) \in Nat
      /\ \A i \in DOMAIN log : log[i] \in Row
  BY <1>1, RowsOf
<1>3. id \in Nat /\ RowAt(log, id) \in Row \cup {Null}
  BY <1>2 DEF RowAt
<1> QED
  BY <1>1, <1>2, <1>3 DEF Tx, RowAt, SnapshotHolds, RowsConsistent

\* The open row, if any, is live.
LEMMA OpenIdLive ==
  ASSUME Inductive
  PROVE  /\ OpenId(log) = 0 \/ (OpenId(log) \in DOMAIN log /\ IsOpen(log[OpenId(log)]))
         /\ OpenId(log) = 0 => OpenIds(log) = {}
<1>1. log \in Seq(Row) /\ (log # <<>> => OneOpen(log))
  BY DEF Inductive, TypeOK, CurrentStateUnique, OneOpen
<1>2. CASE log = <<>>
  <2>1. OpenIds(log) = {}
    BY <1>2 DEF OpenIds
  <2> QED
    BY <2>1, <1>1, OpenIdFound
<1>3. CASE log # <<>>
  <2>1. OpenId(log) \in OpenIds(log)
    BY <1>1, <1>3, OpenIdFound
  <2>2. OpenId(log) # 0
    BY <1>1, <2>1, RowsOf DEF OpenIds
  <2> QED
    BY <2>1, <2>2 DEF OpenIds
<1> QED
  BY <1>2, <1>3

\* The lock is granted: an operation that reads under it reads the open row.
LEMMA AcquireSound ==
  ASSUME Inductive, NEW p \in Proc, Acquire(p)
  PROVE  Inductive'
<1>1. tx \in [Proc -> Tx] /\ log \in Seq(Row)
  BY DEF Inductive, TypeOK
<1> DEFINE old == tx[p]
           new == tx'[p]
<1>2. /\ \A q \in Proc \ {p} : tx'[q] = tx[q]
      /\ new = [old EXCEPT !.step = "held",
                  !.id = IF ReadsUnderLock(old.op) THEN OpenId(log) ELSE @,
                  !.seen = IF ReadsUnderLock(old.op) THEN RowAt(log, OpenId(log)) ELSE @]
  BY <1>1 DEF Acquire
<1>3. /\ old \in Tx
      /\ new.op = old.op /\ new.step = "held" /\ new.ts = old.ts /\ new.hi = old.hi
      /\ new.id = IF ReadsUnderLock(old.op) THEN OpenId(log) ELSE old.id
      /\ new.seen = IF ReadsUnderLock(old.op) THEN RowAt(log, OpenId(log)) ELSE old.seen
  BY <1>1, <1>2 DEF Tx
<1>4. /\ DOMAIN log = 1 .. Len(log) /\ Len(log) \in Nat
      /\ \A i \in DOMAIN log : log[i] \in Row
  BY <1>1, RowsOf
<1>5. OpenId(log) \in Nat /\ RowAt(log, OpenId(log)) \in Row \cup {Null}
  BY <1>4, OpenIdLive DEF RowAt
<1>6. new \in Tx
  BY <1>2, <1>3, <1>5 DEF Tx
<1>7. TypeOK'
  <2>1. tx' \in [Proc -> Tx]
    BY <1>1, <1>6 DEF Acquire
  <2> QED
    BY <2>1 DEF Inductive, TypeOK, Acquire
<1>8. RowsConsistent' /\ CurrentStateUnique' /\ OnlyStaleSplitsRejected'
  BY DEF Inductive, RowsConsistent, CurrentStateUnique, OnlyStaleSplitsRejected, Acquire
<1>9. SnapshotHolds(log, new)
  <2>1. CASE ReadsUnderLock(old.op)
    <3>1. new.id = OpenId(log) /\ new.seen = RowAt(log, OpenId(log))
      BY <1>3, <2>1
    <3>2. CASE OpenId(log) = 0
      BY <3>1, <3>2 DEF SnapshotHolds, RowAt
    <3>3. CASE OpenId(log) # 0
      BY <3>1, <3>3, OpenIdLive DEF SnapshotHolds, RowAt, IsOpen, Inductive, RowsConsistent
    <3> QED
      BY <3>2, <3>3
  <2>2. CASE ~ReadsUnderLock(old.op)
    <3>1. new.id = old.id /\ new.seen = old.seen
      BY <1>3, <2>2
    <3> QED
      BY <3>1 DEF Inductive, TransactionsSound, SnapshotHolds
  <2> QED
    BY <2>1, <2>2
<1>10. ReadsUnderLock(new.op) => ReadIsCurrent(log, new)
  <2>1. SUFFICES ASSUME ReadsUnderLock(old.op) PROVE ReadIsCurrent(log, new)
    BY <1>3
  <2>2. new.id = OpenId(log) /\ new.seen = RowAt(log, OpenId(log))
    BY <1>3, <2>1
  <2>3. CASE OpenId(log) = 0
    BY <2>2, <2>3, OpenIdLive DEF ReadIsCurrent, RowAt
  <2>4. CASE OpenId(log) # 0
    <3>1. new.seen = log[new.id] /\ new.seen \in Row /\ IsOpen(log[new.id])
      BY <1>4, <2>2, <2>4, OpenIdLive DEF RowAt
    <3>2. new.seen # Null
      BY <2>2, <2>4, <3>1, RowAssumption DEF RowAt
    <3> QED
      BY <3>1, <3>2 DEF ReadIsCurrent
  <2> QED
    BY <2>3, <2>4
<1>11. TransactionsSound'
  <2> SUFFICES ASSUME NEW q \in Proc
      PROVE /\ SnapshotHolds(log', tx'[q])
            /\ HoldsLock(q)' => lock' = q
            /\ HoldsLock(q)' /\ ReadsUnderLock(tx'[q].op) => ReadIsCurrent(log', tx'[q])
            /\ tx'[q].op \in {"split", "reason"} =>
                 tx'[q].seen # Null /\ tx'[q].seen.state = "DOWN"
    BY DEF TransactionsSound
  <2>1. log' = log /\ lock' = p /\ lock = Null /\ Null \notin Proc
    BY NullAssumption DEF Acquire, LockIsFree
  <2>2. CASE q = p
    <3>1. old.op \in {"split", "reason"} => old.seen # Null /\ old.seen.state = "DOWN"
      BY DEF Inductive, TransactionsSound
    <3>2. new.op \in {"split", "reason"} => new.seen # Null /\ new.seen.state = "DOWN"
      BY <1>3, <3>1 DEF ReadsUnderLock
    <3> QED
      BY <1>9, <1>10, <2>1, <2>2, <3>2
  <2>3. CASE q # p
    BY <1>2, <2>1, <2>3 DEF Inductive, TransactionsSound, HoldsLock
  <2> QED
    BY <2>2, <2>3
<1> QED
  BY <1>7, <1>8, <1>11 DEF Inductive

\* Every commit keeps the invariant.
LEMMA CommitSound ==
  ASSUME Inductive, NEW p \in Proc, Commit(p)
  PROVE  Inductive'
<1> DEFINE t == tx[p]
<1>1. /\ GoodLog(log) /\ Evolves(log, log) /\ t \in Tx /\ nextBlock \in Nat
      /\ log # <<>> => OneOpen(log)
      /\ SnapshotHolds(log, t)
      /\ HoldsLock(p) /\ ReadsUnderLock(t.op) => ReadIsCurrent(log, t)
      /\ t.op \in {"split", "reason"} => t.seen # Null /\ t.seen.state = "DOWN"
  BY DEF Inductive, TypeOK, RowsConsistent, CurrentStateUnique, OneOpen,
         TransactionsSound, GoodLog, Evolves
<1>2. CASE CommitUp(p)
  <2>1. PICK slow \in BOOLEAN : End(p, CycleLog(log, t, nextBlock, slow))
    BY <1>2 DEF CommitUp
  <2> DEFINE m == CycleLog(log, t, nextBlock, slow)
  <2>2. GoodLog(m) /\ Evolves(log, m) /\ OneOpen(m)
    BY <1>1, CycleLogSound
  <2>3. t.op # "none" /\ HoldsLock(p)
    BY <1>2 DEF CommitUp, Ready, HoldsLock
  <2> QED
    BY <2>1, <2>2, <2>3, EndSound
<1>3. CASE CommitSlow(p)
  <2>1. t.op = "slow" /\ HoldsLock(p) /\ End(p, SlowLog(log, t, nextBlock))
    BY <1>3 DEF CommitSlow, Ready, HoldsLock
  <2> DEFINE m == SlowLog(log, t, nextBlock)
  <2>2. GoodLog(m) /\ Evolves(log, m) /\ (m # <<>> => OneOpen(m))
    BY <1>1, <2>1, SlowLogSound DEF ReadsUnderLock
  <2> QED
    BY <2>1, <2>2, EndSound
<1>4. CASE CommitDown(p)
  <2>1. t.op = "down" /\ HoldsLock(p) /\ End(p, DownLog(log, t, nextBlock))
    BY <1>4 DEF CommitDown, Ready, HoldsLock
  <2> DEFINE m == DownLog(log, t, nextBlock)
  <2>2. GoodLog(m) /\ Evolves(log, m) /\ (m # <<>> => OneOpen(m))
    BY <1>1, <2>1, DownLogSound DEF ReadsUnderLock
  <2> QED
    BY <2>1, <2>2, EndSound
<1>5. CASE CommitSplit(p)
  <2>1. t.op = "split" /\ HoldsLock(p)
    BY <1>5 DEF CommitSplit, Ready, HoldsLock
  <2>2. CASE SplitAllowed(t, clock)
    <3> DEFINE m == SplitLog(log, t)
    <3>1. End(p, m)
      BY <1>5, <2>2 DEF CommitSplit
    <3>2. OpenIds(log) # {}
      <4>1. log # <<>>
        BY <1>1, <2>1 DEF SnapshotHolds
      <4> QED
        BY <1>1, <4>1 DEF OneOpen
    <3>3. GoodLog(m) /\ Evolves(log, m) /\ OpenIds(m) # {}
      BY <1>1, <2>1, <3>2, SplitLogSound
    <3> QED
      BY <2>1, <3>1, <3>3, EndSound
  <2>3. CASE ~SplitAllowed(t, clock)
    BY <1>1, <1>5, <2>1, <2>3, EndSound DEF CommitSplit
  <2> QED
    BY <2>2, <2>3
<1>6. CASE CommitReason(p)
  <2>1. PICK scope \in Scopes, reason \in Reasons \cup {Null} :
          End(p, ReasonLog(log, t, scope, reason))
    BY <1>6 DEF CommitReason
  <2> DEFINE m == ReasonLog(log, t, scope, reason)
  <2>2. t.op = "reason"
    BY <1>6 DEF CommitReason, Ready
  <2>3. /\ GoodLog(m) /\ Evolves(log, m) /\ OpenIds(m) = OpenIds(log)
        /\ \A i \in DOMAIN log : m[i].state = log[i].state
    BY <1>1, <2>2, ReasonLogSound
  <2>4. m # <<>> => OneOpen(m)
    <3>1. log = <<>> => m = <<>>
      BY <1>1, <2>2 DEF SnapshotHolds
    <3> QED
      BY <1>1, <2>3, <3>1 DEF OneOpen
  <2> QED
    BY <2>1, <2>2, <2>3, <2>4, EndSound
<1>7. CASE CommitReconcile(p)
  <2>1. t.op = "reconcile" /\ HoldsLock(p) /\ End(p, ReconcileLog(log, t, nextBlock))
    BY <1>7 DEF CommitReconcile, Ready, HoldsLock
  <2> DEFINE m == ReconcileLog(log, t, nextBlock)
  <2>2. GoodLog(m) /\ Evolves(log, m) /\ OneOpen(m)
    BY <1>1, ReconcileLogSound
  <2> QED
    BY <2>1, <2>2, EndSound
<1> QED
  BY <1>2, <1>3, <1>4, <1>5, <1>6, <1>7 DEF Commit

\* A rollback keeps the invariant.
LEMMA FailSound ==
  ASSUME Inductive, NEW p \in Proc, Fail(p)
  PROVE  Inductive'
<1>1. /\ tx[p].op # "none" /\ End(p, log)
      /\ GoodLog(log) /\ Evolves(log, log) /\ (log # <<>> => OneOpen(log))
  BY DEF Fail, IsIdle, Inductive, TypeOK, RowsConsistent, CurrentStateUnique,
         OneOpen, GoodLog, Evolves
<1> QED
  BY <1>1, EndSound

\* The first step of every transaction keeps the invariant.
LEMMA BeginsSound ==
  ASSUME Inductive, NEW p \in Proc,
         \/ BeginCycle(p) \/ BeginOpenClose(p) \/ BeginTimer(p)
         \/ BeginSplit(p) \/ BeginReason(p) \/ BeginReconcile(p)
  PROVE  Inductive'
<1> DEFINE T(op, step, ts, hi, id) ==
      [op |-> op, step |-> step, ts |-> ts, hi |-> hi, id |-> id, seen |-> RowAt(log, id)]
<1>1. clock \in Nat /\ window \in Window \cup {Null} /\ MaxTime \in Nat
  BY BoundAssumption DEF Inductive, TypeOK
<1>2. ASSUME NEW op \in {"cycle", "openclose", "slow", "down", "reconcile"},
             NEW ts \in Nat, NEW hi \in Nat,
             NEW id, id = 0 \/ (id \in DOMAIN log /\ IsLive(log[id])),
             Begin(p, op, "wait", ts, hi, id), window' \in Window \cup {Null},
             UNCHANGED <<clock, lock, log, nextBlock, rejected>>
      PROVE  Inductive'
  <2> DEFINE t == T(op, "wait", ts, hi, id)
  <2>1. t \in Tx /\ SnapshotHolds(log, t)
    BY <1>2, BeginRecord DEF Ops
  <2>2. IsIdle(p) /\ tx' = [tx EXCEPT ![p] = t]
    BY <1>2 DEF Begin
  <2>3. t.step = "wait" /\ t.op \notin {"split", "reason"}
    OBVIOUS
  <2> HIDE DEF t
  <2> QED
    BY <1>2, <2>1, <2>2, <2>3, BeginSound
<1>3. ASSUME NEW op \in {"split", "reason"}, NEW step \in {"wait", "held"},
             op = "split" => step = "wait", NEW ts \in Nat,
             NEW id \in DOMAIN log, IsLive(log[id]), log[id].state = "DOWN",
             Begin(p, op, step, ts, 0, id), UNCHANGED <<clock, lock, log, nextBlock, window, rejected>>
      PROVE  Inductive'
  <2> DEFINE t == T(op, step, ts, 0, id)
  <2>1. t \in Tx /\ SnapshotHolds(log, t)
    BY <1>3, BeginRecord DEF Ops
  <2>2. IsIdle(p) /\ tx' = [tx EXCEPT ![p] = t]
    BY <1>3 DEF Begin
  <2>3. t.step = "wait" \/ t.op = "reason"
    BY <1>3
  <2>4. t.seen # Null /\ t.seen.state = "DOWN"
    <3>1. log[id] \in Row /\ id # 0
      BY <1>3, RowsOf DEF Inductive, TypeOK
    <3> QED
      BY <1>3, <3>1, RowAssumption DEF RowAt
  <2>5. window' \in Window \cup {Null}
    BY <1>1, <1>3
  <2> HIDE DEF t
  <2> QED
    BY <1>3, <2>1, <2>2, <2>3, <2>4, <2>5, BeginSound
<1>4. CASE BeginCycle(p)
  <2>1. PICK ts \in 0 .. MaxTime : Begin(p, "cycle", "wait", ts, 0, OpenId(log))
    BY <1>4 DEF BeginCycle
  <2>2. OpenId(log) = 0 \/ (OpenId(log) \in DOMAIN log /\ IsLive(log[OpenId(log)]))
    BY OpenIdLive DEF IsOpen
  <2>3. ts \in Nat /\ window' \in Window \cup {Null}
    BY <1>1, <1>4 DEF BeginCycle
  <2>4. UNCHANGED <<clock, lock, log, nextBlock, rejected>>
    BY <1>4 DEF BeginCycle
  <2> HIDE DEF T
  <2> QED
    BY <1>2, <2>1, <2>2, <2>3, <2>4
<1>5. CASE BeginOpenClose(p)
  <2>1. PICK ts \in 0 .. MaxTime : Begin(p, "openclose", "wait", ts, 0, 0)
    BY <1>5 DEF BeginOpenClose
  <2> QED
    BY <1>1, <1>2, <1>5, <2>1 DEF BeginOpenClose
<1>6. CASE BeginTimer(p)
  <2>1. PICK op \in {"slow", "down"} : Begin(p, op, "wait", clock, 0, 0)
    BY <1>6 DEF BeginTimer
  <2> QED
    BY <1>1, <1>2, <1>6, <2>1 DEF BeginTimer
<1>7. CASE BeginSplit(p)
  <2>1. PICK i \in DOMAIN log, ts \in 0 .. MaxTime :
          /\ IsLive(log[i]) /\ log[i].state = "DOWN"
          /\ Begin(p, "split", "wait", ts, 0, i)
    BY <1>7 DEF BeginSplit
  <2> QED
    BY <1>1, <1>3, <1>7, <2>1 DEF BeginSplit
<1>8. CASE BeginReason(p)
  <2>1. PICK i \in DOMAIN log :
          /\ IsLive(log[i]) /\ log[i].state = "DOWN"
          /\ Begin(p, "reason", "held", 0, 0, i)
    BY <1>8 DEF BeginReason
  <2> QED
    BY <1>3, <1>8, <2>1 DEF BeginReason
<1>9. CASE BeginReconcile(p)
  <2>1. window.min \in Nat /\ window.max \in Nat
    BY <1>1, <1>9 DEF BeginReconcile, Window
  <2> QED
    BY <1>2, <1>9, <2>1 DEF BeginReconcile
<1> QED
  BY <1>4, <1>5, <1>6, <1>7, <1>8, <1>9

\* Steps that touch no row and no transaction keep the invariant.
LEMMA QuietSound ==
  ASSUME Inductive, Tick \/ TrackReplayed \/ UNCHANGED vars
  PROVE  Inductive'
<1>1. UNCHANGED <<lock, log, nextBlock, tx, rejected>>
  BY DEF Tick, TrackReplayed, vars
<1>2. clock' \in Nat
  BY DEF Inductive, TypeOK, Tick, TrackReplayed, vars
<1>3. window' \in Window \cup {Null}
  <2>1. CASE TrackReplayed
    <3>1. PICK t \in 0 .. MaxTime :
            window' = IF window = Null THEN [min |-> t, max |-> t]
                      ELSE [min |-> IF t < window.min THEN t ELSE window.min,
                            max |-> IF t > window.max THEN t ELSE window.max]
      BY <2>1 DEF TrackReplayed
    <3>2. t \in Nat
      BY BoundAssumption
    <3> QED
      BY <3>1, <3>2 DEF Inductive, TypeOK, Window
  <2>2. CASE Tick \/ UNCHANGED vars
    BY <2>2 DEF Inductive, TypeOK, Tick, vars
  <2> QED
    BY <2>1, <2>2
<1>4. TypeOK'
  BY <1>1, <1>2, <1>3 DEF Inductive, TypeOK
<1>5. RowsConsistent' /\ CurrentStateUnique' /\ OnlyStaleSplitsRejected'
  BY <1>1 DEF Inductive, RowsConsistent, CurrentStateUnique, OnlyStaleSplitsRejected
<1>6. TransactionsSound'
  BY <1>1 DEF Inductive, TransactionsSound, HoldsLock
<1> QED
  BY <1>4, <1>5, <1>6 DEF Inductive

\* Every step keeps the invariant.
LEMMA NextSound ==
  ASSUME Inductive, [Next]_vars
  PROVE  Inductive'
<1>1. CASE Tick \/ TrackReplayed \/ UNCHANGED vars
  BY <1>1, QuietSound
<1>2. CASE \E p \in Proc : Acquire(p) \/ Commit(p) \/ Fail(p)
  BY <1>2, AcquireSound, CommitSound, FailSound
<1>3. CASE \E p \in Proc : \/ BeginCycle(p) \/ BeginOpenClose(p) \/ BeginTimer(p)
                          \/ BeginSplit(p) \/ BeginReason(p) \/ BeginReconcile(p)
  BY <1>3, BeginsSound
<1> QED
  BY <1>1, <1>2, <1>3 DEF Next, Proc

\* The inductive invariant holds in every reachable state.
THEOREM InductiveInvariant == Spec => []Inductive
<1>1. Init => Inductive
  BY InitSound
<1>2. Inductive /\ [Next]_vars => Inductive'
  BY NextSound
<1> QED
  BY <1>1, <1>2, PTL DEF Spec

\* Every variable keeps its type.
THEOREM TypeCorrect == Spec => []TypeOK
<1>1. Inductive => TypeOK
  BY DEF Inductive
<1> QED
  BY <1>1, InductiveInvariant, PTL

\* Whatever the number of processes, their interleaving and their crashes, a
\* station with a state log has exactly one live open row.
THEOREM CurrentStateIsUnique == Spec => []CurrentStateUnique
<1>1. Inductive => CurrentStateUnique
  BY DEF Inductive
<1> QED
  BY <1>1, InductiveInvariant, PTL

\* The one-open-row index never fails a cycle, a timer or a reconciliation.
THEOREM OnlyStaleSplitsAreRejected == Spec => []OnlyStaleSplitsRejected
<1>1. Inductive => OnlyStaleSplitsRejected
  BY DEF Inductive
<1> QED
  BY <1>1, InductiveInvariant, PTL

\* status refines state and reasons stay on DOWN rows.
THEOREM RowsAreConsistent == Spec => []RowsConsistent
<1>1. Inductive => RowsConsistent
  BY DEF Inductive
<1> QED
  BY <1>1, InductiveInvariant, PTL

\* Stale snapshots are never contradicted, and what the lock protects is current.
THEOREM TransactionsAreSound == Spec => []TransactionsSound
<1>1. Inductive => TransactionsSound
  BY DEF Inductive
<1> QED
  BY <1>1, InductiveInvariant, PTL

-----------------------------------------------------------------------------
(* Closed rows and blocks. *)

\* What a write leaves of all rows, and of those that are closed or deleted.
Frozen(l, m) ==
  \A i \in DOMAIN l :
    /\ i \in DOMAIN m
    /\ m[i].start = l[i].start
    /\ l[i].end # Null =>
         /\ m[i].state = l[i].state
         /\ m[i].status = l[i].status /\ m[i].block = l[i].block
         /\ m[i].end # Null
    /\ l[i].deleted => m[i].deleted

Alike(r, s) == r.block = s.block /\ r.state = s.state

\* Each row written by t is in the block and state of a row that was there or
\* of the row t has read, or in the new block b, all of them in one state.
Marked(l, m, t, b, state) ==
  \A i \in DOMAIN m :
    \/ i \in DOMAIN l /\ Alike(m[i], l[i])
    \/ t.seen # Null /\ Alike(m[i], t.seen)
    \/ m[i].block = b /\ m[i].state = state

\* An appended row disturbs neither.
LEMMA AppendEffect ==
  ASSUME NEW l \in Seq(Row), NEW m \in Seq(Row), NEW r \in Row, NEW t, NEW b, NEW state,
         Frozen(l, m), Marked(l, m, t, b, state),
         \/ t.seen # Null /\ Alike(r, t.seen)
         \/ r.block = b /\ r.state = state
  PROVE  Frozen(l, Append(m, r)) /\ Marked(l, Append(m, r), t, b, state)
<1>1. /\ DOMAIN m = 1 .. Len(m) /\ DOMAIN Append(m, r) = 1 .. Len(m) + 1 /\ Len(m) \in Nat
      /\ \A i \in DOMAIN m : i \in DOMAIN Append(m, r) /\ Append(m, r)[i] = m[i]
      /\ Append(m, r)[Len(m) + 1] = r
  BY AppendRow
<1>2. \A i \in DOMAIN Append(m, r) : i \in DOMAIN m \/ i = Len(m) + 1
  BY <1>1
<1>3. Frozen(l, Append(m, r))
  BY <1>1 DEF Frozen
<1>4. Marked(l, Append(m, r), t, b, state)
  BY <1>1, <1>2 DEF Marked
<1> QED
  BY <1>3, <1>4

\* A log that is written back as it is.
LEMMA SameEffect ==
  ASSUME NEW l \in Seq(Row), NEW t, NEW b, NEW state
  PROVE  Frozen(l, l) /\ Marked(l, l, t, b, state)
BY DEF Frozen, Marked, Alike

\* A completion closes open rows and adds one in the block read or a new one.
LEMMA CycleEffect ==
  ASSUME NEW l \in Seq(Row), NEW t \in Tx, NEW b \in Nat, NEW slow \in BOOLEAN
  PROVE  LET m == CycleLog(l, t, b, slow)
         IN  Frozen(l, m) /\ Marked(l, m, t, b, "UP")
<1> DEFINE c == CloseOpen(l, t.ts)
           r == NewRow(t.ts, "UP", IF slow THEN "SLOW" ELSE "UP", UpBlock(t, b))
<1>1. t.ts \in Nat /\ \A i \in DOMAIN l : l[i] \in Row
  BY RowsOf DEF Tx
<1>2. /\ c \in Seq(Row) /\ DOMAIN c = DOMAIN l
      /\ \A i \in DOMAIN l : c[i] = IF IsOpen(l[i]) THEN [l[i] EXCEPT !.end = t.ts] ELSE l[i]
  BY <1>1, CloseOpenLog, RowsOf
<1>3. Frozen(l, c)
  BY <1>1, <1>2 DEF Frozen, IsOpen, Row
<1>4. Marked(l, c, t, b, "UP")
  BY <1>1, <1>2 DEF Marked, Alike, Row
<1>5. r \in Row
  BY <1>1, UpBlockType, NewRowType
<1>6. (t.seen # Null /\ Alike(r, t.seen)) \/ (r.block = b /\ r.state = "UP")
  BY DEF NewRow, UpBlock, Alike
<1> QED
  BY <1>2, <1>3, <1>4, <1>5, <1>6, AppendEffect DEF CycleLog

\* The slow timer changes an open row only, and never its block or state.
LEMMA SlowEffect ==
  ASSUME NEW l \in Seq(Row), NEW t \in Tx, NEW b \in Nat,
         ReadIsCurrent(l, t), SnapshotHolds(l, t)
  PROVE  LET m == SlowLog(l, t, b)
         IN  Frozen(l, m) /\ Marked(l, m, t, b, "UP")
<1>1. t.ts \in Nat /\ \A i \in DOMAIN l : l[i] \in Row
  BY RowsOf DEF Tx
<1>2. CASE t.seen = Null
  <2> DEFINE r == NewRow(t.ts, "UP", "SLOW", b)
  <2>1. r \in Row /\ r.block = b /\ r.state = "UP"
    BY <1>1, NewRowType DEF NewRow
  <2> QED
    BY <1>2, <2>1, SameEffect, AppendEffect DEF SlowLog
<1>3. CASE t.seen # Null /\ (t.seen.state = "DOWN" \/ t.seen.status = "SLOW")
  BY <1>3, SameEffect DEF SlowLog
<1>4. CASE t.seen # Null /\ t.seen.state # "DOWN" /\ t.seen.status # "SLOW"
  <2> DEFINE m == [l EXCEPT ![t.id].status = "SLOW"]
  <2>1. t.id \in DOMAIN l /\ l[t.id].end = Null
    BY <1>4 DEF ReadIsCurrent, SnapshotHolds, IsOpen
  <2>2. /\ DOMAIN m = DOMAIN l
        /\ \A i \in DOMAIN l : m[i] = IF i = t.id THEN [l[i] EXCEPT !.status = "SLOW"] ELSE l[i]
    BY <2>1
  <2>3. ASSUME NEW i \in DOMAIN l
        PROVE  /\ Alike(m[i], l[i]) /\ m[i].deleted = l[i].deleted
               /\ m[i].start = l[i].start
               /\ l[i].end # Null => m[i] = l[i]
    <3>1. l[i] \in Row /\ m[i] = IF i = t.id THEN [l[i] EXCEPT !.status = "SLOW"] ELSE l[i]
      BY <1>1, <2>2
    <3> HIDE DEF m
    <3> QED
      BY <2>1, <3>1 DEF Alike, Row
  <2> HIDE DEF m
  <2>4. Frozen(l, m)
    BY <2>2, <2>3 DEF Frozen
  <2>5. Marked(l, m, t, b, "UP")
    BY <2>2, <2>3 DEF Marked
  <2> QED
    BY <1>4, <2>4, <2>5 DEF SlowLog, m
<1> QED
  BY <1>2, <1>3, <1>4

\* The down timer gives the open row a new block with its new state.
LEMMA DownEffect ==
  ASSUME NEW l \in Seq(Row), NEW t \in Tx, NEW b \in Nat,
         ReadIsCurrent(l, t), SnapshotHolds(l, t)
  PROVE  LET m == DownLog(l, t, b)
         IN  Frozen(l, m) /\ Marked(l, m, t, b, "DOWN")
<1>1. t.ts \in Nat /\ \A i \in DOMAIN l : l[i] \in Row
  BY RowsOf DEF Tx
<1>2. CASE t.seen = Null
  <2> DEFINE r == NewRow(t.ts, "DOWN", "DOWN", b)
  <2>1. r \in Row /\ r.block = b /\ r.state = "DOWN"
    BY <1>1, NewRowType DEF NewRow
  <2> QED
    BY <1>2, <2>1, SameEffect, AppendEffect DEF DownLog
<1>3. CASE t.seen # Null /\ t.seen.state = "DOWN"
  BY <1>3, SameEffect DEF DownLog
<1>4. CASE t.seen # Null /\ t.seen.state # "DOWN"
  <2> DEFINE m == Convert(l, t, b)
  <2>1. t.id \in DOMAIN l /\ l[t.id].end = Null
    BY <1>4 DEF ReadIsCurrent, SnapshotHolds, IsOpen
  <2>2. /\ DOMAIN m = DOMAIN l
        /\ \A i \in DOMAIN l : m[i] =
             IF i = t.id THEN [l[i] EXCEPT !.state = "DOWN", !.status = "DOWN", !.block = b]
             ELSE IF IsOpen(l[i]) THEN [l[i] EXCEPT !.end = t.ts] ELSE l[i]
    BY DEF Convert
  <2>3. \A i \in DOMAIN l :
          /\ l[i].end # Null => m[i] = l[i]
          /\ m[i].deleted = l[i].deleted /\ m[i].start = l[i].start
    <3> SUFFICES ASSUME NEW i \in DOMAIN l
                 PROVE  /\ l[i].end # Null => m[i] = l[i]
                        /\ m[i].deleted = l[i].deleted /\ m[i].start = l[i].start
      OBVIOUS
    <3>1. /\ l[i] \in Row
          /\ m[i] = IF i = t.id THEN [l[i] EXCEPT !.state = "DOWN", !.status = "DOWN", !.block = b]
                    ELSE IF IsOpen(l[i]) THEN [l[i] EXCEPT !.end = t.ts] ELSE l[i]
      BY <1>1, <2>2
    <3> HIDE DEF m
    <3>2. l[i].end # Null => m[i] = l[i]
      BY <2>1, <3>1 DEF IsOpen
    <3>3. CASE i = t.id
      <4>1. l[i] \in Row /\ m[i] = [l[i] EXCEPT !.state = "DOWN", !.status = "DOWN", !.block = b]
        BY <3>1, <3>3
      <4>2. m[i].deleted = l[i].deleted /\ m[i].start = l[i].start
        BY <4>1 DEF Row
      <4> QED
        BY <3>2, <4>2
    <3>4. CASE i # t.id
      <4>1. l[i] \in Row /\ (m[i] = l[i] \/ m[i] = [l[i] EXCEPT !.end = t.ts])
        BY <3>1, <3>4
      <4>2. m[i].deleted = l[i].deleted /\ m[i].start = l[i].start
        BY <4>1 DEF Row
      <4> QED
        BY <3>2, <4>2
    <3> QED
      BY <3>3, <3>4
  <2>4. \A i \in DOMAIN l : Alike(m[i], l[i]) \/ (m[i].block = b /\ m[i].state = "DOWN")
    <3>1. m[t.id].block = b /\ m[t.id].state = "DOWN"
      <4>1. l[t.id] \in Row
            /\ m[t.id] = [l[t.id] EXCEPT !.state = "DOWN", !.status = "DOWN", !.block = b]
        BY <1>1, <2>1, <2>2
      <4> HIDE DEF m
      <4> QED
        BY <4>1 DEF Row
    <3>2. ASSUME NEW i \in DOMAIN l, i # t.id PROVE Alike(m[i], l[i])
      <4>1. l[i] \in Row /\ (m[i] = l[i] \/ m[i] = [l[i] EXCEPT !.end = t.ts])
        BY <1>1, <2>2, <3>2
      <4> HIDE DEF m
      <4> QED
        BY <4>1 DEF Alike, Row
    <3> HIDE DEF m
    <3> QED
      BY <3>1, <3>2
  <2>5. Frozen(l, m)
    BY <2>2, <2>3 DEF Frozen
  <2>6. Marked(l, m, t, b, "DOWN")
    BY <2>2, <2>4 DEF Marked
  <2> HIDE DEF m
  <2> QED
    BY <1>4, <2>5, <2>6 DEF DownLog, m
<1> QED
  BY <1>2, <1>3, <1>4

\* Both halves of a split stay in the block of the entry.
LEMMA SplitEffect ==
  ASSUME NEW l \in Seq(Row), NEW t \in Tx, NEW b \in Nat, t.seen # Null, SnapshotHolds(l, t)
  PROVE  LET m == SplitLog(l, t)
         IN  Frozen(l, m) /\ Marked(l, m, t, b, "DOWN")
<1> DEFINE c == [l EXCEPT ![t.id].end = t.ts]
           r == [t.seen EXCEPT !.start = t.ts]
<1>1. /\ t.ts \in Nat /\ Null \notin Nat /\ t.seen \in Row /\ t.id \in DOMAIN l
      /\ \A i \in DOMAIN l : l[i] \in Row
  BY RowsOf, NullAssumption DEF Tx, SnapshotHolds
<1>2. r \in Row /\ Alike(r, t.seen)
  BY <1>1 DEF Row, Alike
<1>3. [l[t.id] EXCEPT !.end = t.ts] \in Row
  BY <1>1 DEF Row
<1>4. /\ c \in Seq(Row) /\ DOMAIN c = DOMAIN l
      /\ \A i \in DOMAIN l : c[i] = IF i = t.id THEN [l[i] EXCEPT !.end = t.ts] ELSE l[i]
  <2>1. c = [l EXCEPT ![t.id] = [l[t.id] EXCEPT !.end = t.ts]]
    OBVIOUS
  <2> QED
    BY <1>1, <1>3, <2>1, ExceptSeq, RowsOf
<1>5. ASSUME NEW i \in DOMAIN l
      PROVE  /\ Alike(c[i], l[i])
             /\ c[i].start = l[i].start /\ c[i].status = l[i].status
             /\ c[i].deleted = l[i].deleted
             /\ l[i].end # Null => c[i].end # Null
  <2>1. l[i] \in Row /\ c[i] = IF i = t.id THEN [l[i] EXCEPT !.end = t.ts] ELSE l[i]
    BY <1>1, <1>4
  <2> HIDE DEF c
  <2> QED
    BY <1>1, <2>1 DEF Alike, Row
<1> HIDE DEF c
<1>6. Frozen(l, c)
  BY <1>4, <1>5 DEF Frozen, Alike
<1>7. Marked(l, c, t, b, "DOWN")
  BY <1>4, <1>5 DEF Marked
<1> QED
  BY <1>1, <1>2, <1>4, <1>6, <1>7, AppendEffect DEF SplitLog, c

\* A reason changes nothing else of a row.
LEMMA ReasonEffect ==
  ASSUME NEW l \in Seq(Row), NEW t \in Tx, NEW b \in Nat, NEW scope, NEW reason \in Reasons \cup {Null}
  PROVE  LET m == ReasonLog(l, t, scope, reason)
         IN  Frozen(l, m) /\ Marked(l, m, t, b, "DOWN")
<1> DEFINE m == ReasonLog(l, t, scope, reason)
<1>1. \A i \in DOMAIN l : l[i] \in Row
  BY RowsOf
<1>2. /\ DOMAIN m = DOMAIN l
      /\ \A i \in DOMAIN l : m[i] = l[i] \/ m[i] = [l[i] EXCEPT !.reason = reason]
  BY DEF ReasonLog
<1> HIDE DEF m
<1>3. ASSUME NEW i \in DOMAIN l
      PROVE  /\ Alike(m[i], l[i]) /\ m[i].start = l[i].start /\ m[i].end = l[i].end
             /\ m[i].status = l[i].status /\ m[i].deleted = l[i].deleted
  BY <1>1, <1>2 DEF Alike, Row
<1>4. Frozen(l, m) /\ Marked(l, m, t, b, "DOWN")
  BY <1>2, <1>3 DEF Frozen, Marked, Alike
<1> QED
  BY <1>4 DEF m

\* A reconciliation deletes rows, and its own are in one new block.
LEMMA ReconcileEffect ==
  ASSUME NEW l \in Seq(Row), NEW t \in Tx, NEW b \in Nat
  PROVE  LET m == ReconcileLog(l, t, b)
         IN  Frozen(l, m) /\ Marked(l, m, t, b, "UP")
<1> DEFINE c == Purged(l, t)
           q == [NewRow(t.ts, "UP", "UP", b) EXCEPT !.end = t.hi]
           r == NewRow(t.hi, "UP", "UP", b)
           d == Append(c, q)
<1>1. t.ts \in Nat /\ t.hi \in Nat /\ \A i \in DOMAIN l : l[i] \in Row
  BY RowsOf DEF Tx
<1>2. /\ DOMAIN c = DOMAIN l
      /\ \A i \in DOMAIN l : c[i] = l[i] \/ c[i] = [l[i] EXCEPT !.deleted = TRUE]
  BY DEF Purged
<1>3. c \in Seq(Row)
  <2>1. \A i \in DOMAIN l : c[i] \in Row
    <3>1. \A i \in DOMAIN l : [l[i] EXCEPT !.deleted = TRUE] \in Row
      BY <1>1 DEF Row
    <3> QED
      BY <1>1, <1>2, <3>1
  <2>2. c = [i \in DOMAIN l |-> c[i]]
    BY DEF Purged
  <2> QED
    BY <2>1, <2>2, RowMap
<1>4. ASSUME NEW i \in DOMAIN l
      PROVE  /\ Alike(c[i], l[i])
             /\ c[i].start = l[i].start /\ c[i].status = l[i].status
             /\ c[i].end = l[i].end /\ (l[i].deleted => c[i].deleted)
  <2>1. l[i] \in Row /\ (c[i] = l[i] \/ c[i] = [l[i] EXCEPT !.deleted = TRUE])
    BY <1>1, <1>2
  <2> HIDE DEF c
  <2> QED
    BY <2>1 DEF Alike, Row
<1>5. Frozen(l, c) /\ Marked(l, c, t, b, "UP")
  <2> HIDE DEF c
  <2> QED
    BY <1>2, <1>4 DEF Frozen, Marked, Alike
<1>6. /\ q \in Row /\ q.block = b /\ q.state = "UP"
      /\ r \in Row /\ r.block = b /\ r.state = "UP"
  BY <1>1 DEF NewRow, Row
<1>7. d \in Seq(Row)
  BY <1>3, <1>6, AppendRow
<1>8. Frozen(l, d) /\ Marked(l, d, t, b, "UP")
  BY <1>3, <1>5, <1>6, AppendEffect
<1> HIDE DEF d
<1>9. Frozen(l, Append(d, r)) /\ Marked(l, Append(d, r), t, b, "UP")
  BY <1>6, <1>7, <1>8, AppendEffect
<1> QED
  BY <1>9 DEF ReconcileLog, d

\* What every commit, and every rollback, leaves of the log.
LEMMA CommitEffect ==
  ASSUME Inductive, NEW p \in Proc, Commit(p) \/ Fail(p)
  PROVE  \E l, state : End(p, l) /\ Frozen(log, l) /\ Marked(log, l, tx[p], nextBlock, state)
<1> DEFINE t == tx[p]
           Written(l, state) == End(p, l) /\ Frozen(log, l) /\ Marked(log, l, t, nextBlock, state)
<1>1. /\ log \in Seq(Row) /\ t \in Tx /\ nextBlock \in Nat
      /\ SnapshotHolds(log, t)
      /\ HoldsLock(p) /\ ReadsUnderLock(t.op) => ReadIsCurrent(log, t)
      /\ t.op \in {"split", "reason"} => t.seen # Null
  BY DEF Inductive, TypeOK, TransactionsSound
<1>2. CASE CommitUp(p)
  <2>1. PICK slow \in BOOLEAN : End(p, CycleLog(log, t, nextBlock, slow))
    BY <1>2 DEF CommitUp
  <2>2. Written(CycleLog(log, t, nextBlock, slow), "UP")
    BY <1>1, <2>1, CycleEffect
  <2> QED
    BY <2>2
<1>3. CASE CommitSlow(p)
  <2>1. Written(SlowLog(log, t, nextBlock), "UP")
    BY <1>1, <1>3, SlowEffect DEF CommitSlow, Ready, HoldsLock, ReadsUnderLock
  <2> QED
    BY <2>1
<1>4. CASE CommitDown(p)
  <2>1. Written(DownLog(log, t, nextBlock), "DOWN")
    BY <1>1, <1>4, DownEffect DEF CommitDown, Ready, HoldsLock, ReadsUnderLock
  <2> QED
    BY <2>1
<1>5. CASE CommitSplit(p)
  <2>1. CASE SplitAllowed(t, clock)
    <3>1. Written(SplitLog(log, t), "DOWN")
      BY <1>1, <1>5, <2>1, SplitEffect DEF CommitSplit, Ready
    <3> QED
      BY <3>1
  <2>2. CASE ~SplitAllowed(t, clock)
    <3>1. Written(log, "DOWN")
      BY <1>1, <1>5, <2>2, SameEffect DEF CommitSplit
    <3> QED
      BY <3>1
  <2> QED
    BY <2>1, <2>2
<1>6. CASE CommitReason(p)
  <2>1. PICK scope \in Scopes, reason \in Reasons \cup {Null} : End(p, ReasonLog(log, t, scope, reason))
    BY <1>6 DEF CommitReason
  <2>2. Written(ReasonLog(log, t, scope, reason), "DOWN")
    BY <1>1, <2>1, ReasonEffect
  <2> QED
    BY <2>2
<1>7. CASE CommitReconcile(p)
  <2>1. Written(ReconcileLog(log, t, nextBlock), "UP")
    BY <1>1, <1>7, ReconcileEffect DEF CommitReconcile
  <2> QED
    BY <2>1
<1>8. CASE Fail(p)
  <2>1. Written(log, "UP")
    BY <1>1, <1>8, SameEffect DEF Fail
  <2> QED
    BY <2>1
<1> QED
  BY <1>2, <1>3, <1>4, <1>5, <1>6, <1>7, <1>8 DEF Commit

\* The rows there are and those that transactions have read.
Recorded == {log[i] : i \in DOMAIN log} \cup ({tx[p].seen : p \in Proc} \ {Null})

\* A block is in one state, in the log and in what was read of it, and the next
\* blockId is in neither.
BlocksSound ==
  \A r, s \in Recorded : r.block < nextBlock /\ (r.block = s.block => r.state = s.state)

\* All of them are rows.
LEMMA RecordedRows == Inductive => Recorded \subseteq Row
<1> SUFFICES ASSUME Inductive PROVE Recorded \subseteq Row
  OBVIOUS
<1>1. \A i \in DOMAIN log : log[i] \in Row
  BY RowsOf DEF Inductive, TypeOK
<1>2. \A p \in Proc : tx[p].seen \in Row \cup {Null}
  BY DEF Inductive, TypeOK, Tx
<1> QED
  BY <1>1, <1>2 DEF Recorded

\* Rows of blocks that were there, and of one new block, keep blocks sound.
LEMMA BlocksKept ==
  ASSUME Inductive, BlocksSound, NEW state, nextBlock' \in Nat, nextBlock' >= nextBlock,
         \A r \in Recorded' : \/ \E s \in Recorded : Alike(r, s)
                              \/ r.block = nextBlock /\ r.state = state /\ nextBlock' = nextBlock + 1
  PROVE  BlocksSound'
<1>1. nextBlock \in Nat /\ \A s \in Recorded : s.block \in Nat
  BY RecordedRows DEF Inductive, TypeOK, Row
<1>2. SUFFICES ASSUME NEW r \in Recorded', NEW s \in Recorded'
               PROVE  r.block < nextBlock' /\ (r.block = s.block => r.state = s.state)
  BY DEF BlocksSound
<1>3. (\E q \in Recorded : Alike(r, q))
      \/ (r.block = nextBlock /\ r.state = state /\ nextBlock' = nextBlock + 1)
  OBVIOUS
<1>4. (\E q \in Recorded : Alike(s, q))
      \/ (s.block = nextBlock /\ s.state = state /\ nextBlock' = nextBlock + 1)
  OBVIOUS
<1>5. \A q \in Recorded : q.block < nextBlock /\ \A u \in Recorded : q.block = u.block => q.state = u.state
  BY DEF BlocksSound
<1> QED
  BY <1>1, <1>3, <1>4, <1>5 DEF Alike

\* Every step keeps blocks sound.
LEMMA BlocksStep ==
  ASSUME Inductive, BlocksSound, [Next]_vars
  PROVE  BlocksSound'
<1>1. tx \in [Proc -> Tx] /\ nextBlock \in Nat /\ log \in Seq(Row)
  BY DEF Inductive, TypeOK
<1>2. ASSUME UNCHANGED <<log, nextBlock>>,
             \A q \in Proc : tx'[q].seen \in Recorded \cup {Null}
      PROVE  BlocksSound'
  <2>1. Recorded' \subseteq Recorded
    BY <1>2 DEF Recorded
  <2>2. \A r \in Recorded' : \E s \in Recorded : Alike(r, s)
    BY <2>1 DEF Alike
  <2> QED
    BY <1>1, <1>2, <2>2, BlocksKept
<1>3. \A q \in Proc : tx[q].seen \in Recorded \cup {Null}
  BY DEF Recorded
<1>4. \A id : id = 0 \/ id \in DOMAIN log => RowAt(log, id) \in Recorded \cup {Null}
  BY DEF RowAt, Recorded
<1>5. CASE Tick \/ TrackReplayed \/ UNCHANGED vars
  <2>1. UNCHANGED <<log, nextBlock, tx>>
    BY <1>5 DEF Tick, TrackReplayed, vars
  <2> QED
    BY <1>2, <1>3, <2>1
<1>6. ASSUME NEW p \in Proc,
             \/ BeginCycle(p) \/ BeginOpenClose(p) \/ BeginTimer(p)
             \/ BeginSplit(p) \/ BeginReason(p) \/ BeginReconcile(p)
      PROVE  BlocksSound'
  <2>1. OpenId(log) = 0 \/ OpenId(log) \in DOMAIN log
    BY OpenIdLive
  <2>2. UNCHANGED <<log, nextBlock>> /\
        \E op, step, ts, hi, id : Begin(p, op, step, ts, hi, id) /\ (id = 0 \/ id \in DOMAIN log)
    BY <1>6, <2>1 DEF BeginCycle, BeginOpenClose, BeginTimer, BeginSplit, BeginReason, BeginReconcile
  <2>3. PICK id : /\ id = 0 \/ id \in DOMAIN log
                  /\ \A q \in Proc : tx'[q].seen = IF q = p THEN RowAt(log, id) ELSE tx[q].seen
    BY <1>1, <2>2 DEF Begin
  <2> QED
    BY <1>2, <1>3, <1>4, <2>2, <2>3
<1>7. ASSUME NEW p \in Proc, Acquire(p)
      PROVE  BlocksSound'
  <2>1. OpenId(log) = 0 \/ OpenId(log) \in DOMAIN log
    BY OpenIdLive
  <2>2. \A q \in Proc : tx'[q].seen \in {tx[q].seen, RowAt(log, OpenId(log))}
    BY <1>1, <1>7 DEF Acquire, Tx
  <2> QED
    BY <1>2, <1>3, <1>4, <1>7, <2>1, <2>2 DEF Acquire
<1>8. ASSUME NEW p \in Proc, Commit(p) \/ Fail(p)
      PROVE  BlocksSound'
  <2>1. PICK l, state : End(p, l) /\ Marked(log, l, tx[p], nextBlock, state)
    BY <1>8, CommitEffect
  <2>2. \A q \in Proc : tx'[q].seen \in {tx[q].seen, Null}
    BY <1>1, <2>1 DEF End, Idle
  <2>3. CASE UNCHANGED <<log, nextBlock>>
    BY <1>2, <1>3, <2>2, <2>3
  <2>4. CASE log' = l /\ nextBlock' = IF \E i \in DOMAIN l : l[i].block = nextBlock
                                      THEN nextBlock + 1 ELSE nextBlock
    <3>1. \A i \in DOMAIN l : \/ \E s \in Recorded : Alike(l[i], s)
                              \/ l[i].block = nextBlock /\ l[i].state = state /\ nextBlock' = nextBlock + 1
      BY <2>1, <2>4 DEF Marked, Recorded
    <3>2. \A r \in Recorded' : (\E i \in DOMAIN l : r = l[i]) \/ r \in Recorded
      BY <1>3, <2>2, <2>4 DEF Recorded
    <3>3. \A r \in Recorded' : \/ \E s \in Recorded : Alike(r, s)
                               \/ r.block = nextBlock /\ r.state = state /\ nextBlock' = nextBlock + 1
      BY <3>1, <3>2 DEF Alike
    <3>4. nextBlock' \in Nat /\ nextBlock' >= nextBlock
      BY <1>1, <2>4
    <3> QED
      BY <3>3, <3>4, BlocksKept
  <2> QED
    BY <2>1, <2>3, <2>4 DEF End
<1> QED
  BY <1>5, <1>6, <1>7, <1>8 DEF Next, Proc

\* Whatever stale rows cycles, timers and splits go by, a block never mixes UP
\* and DOWN rows: a reason given to a block reaches a downtime only.
THEOREM BlocksAreUniform == Spec => []BlockUniform
<1>1. Init => BlocksSound
  BY DEF Init, BlocksSound, Recorded, Idle
<1>2. Inductive /\ BlocksSound /\ [Next]_vars => BlocksSound'
  BY BlocksStep
<1>3. BlocksSound => BlockUniform
  BY DEF BlocksSound, BlockUniform, Recorded
<1> QED
  BY <1>1, <1>2, <1>3, InductiveInvariant, PTL DEF Spec

\* No operation rewrites a closed row's start, state, status or block, reopens it,
\* or brings a deleted row back.
THEOREM HistoryIsFrozen == Spec => ClosedRowsFrozen
<1> DEFINE Kept == log' = log \/ Frozen(log, log')
<1>1. ASSUME Inductive, [Next]_vars
      PROVE  Kept
  <2>1. CASE UNCHANGED log
    BY <2>1
  <2>2. ASSUME NEW p \in Proc, Commit(p) \/ Fail(p)
        PROVE  Kept
    <3>1. PICK l, state : End(p, l) /\ Frozen(log, l) /\ Marked(log, l, tx[p], nextBlock, state)
      BY <1>1, <2>2, CommitEffect
    <3>2. log' = l \/ log' = log
      BY <3>1 DEF End
    <3> QED
      BY <3>1, <3>2
  <2> QED
    BY <1>1, <2>1, <2>2
    DEF Next, vars, Tick, TrackReplayed, BeginCycle, BeginOpenClose, BeginTimer, BeginSplit,
        BeginReason, BeginReconcile, Acquire
<1>2. Kept => [\A i \in DOMAIN log :
       /\ log[i].end # Null =>
            /\ log'[i].start = log[i].start
            /\ log'[i].state = log[i].state
            /\ log'[i].status = log[i].status
            /\ log'[i].block = log[i].block
            /\ log'[i].end # Null
       /\ log[i].deleted => log'[i].deleted]_log
  BY DEF Frozen
<1> HIDE DEF Kept
<1> QED
  BY <1>1, <1>2, InductiveInvariant, PTL DEF Spec, ClosedRowsFrozen

-----------------------------------------------------------------------------
(* Overlaps. *)

\* At every instant of r, row s is live and covers it too; and: r and s have no
\* instant in common.
Within(r, s) ==
  \A t \in 0 .. MaxTime : IsLive(r) /\ Covers(r, t) => IsLive(s) /\ Covers(s, t)
Apart(r, s) ==
  \A t \in 0 .. MaxTime : ~(IsLive(r) /\ Covers(r, t) /\ IsLive(s) /\ Covers(s, t))

\* A row of m that is not in l starts before the open row of l.
Late(l, m) == \E i \in OpenIds(l), j \in DOMAIN m \ DOMAIN l : m[j].start < l[i].start

\* Rows that shrink, and new rows inside one that makes room for them, keep
\* the partition.
LEMMA RowsFit ==
  ASSUME NEW l, NEW m, Partition(l),
         \A i \in DOMAIN l : i \in DOMAIN m /\ Within(m[i], l[i]),
         NEW k \in DOMAIN l,
         \A j \in DOMAIN m \ DOMAIN l : Within(m[j], l[k]) /\ Apart(m[j], m[k]),
         \A i, j \in DOMAIN m \ DOMAIN l : i # j => Apart(m[i], m[j])
  PROVE  Partition(m)
<1> SUFFICES ASSUME NEW t \in 0 .. MaxTime, NEW i \in DOMAIN m, NEW j \in DOMAIN m,
                    IsLive(m[i]), IsLive(m[j]), Covers(m[i], t), Covers(m[j], t)
             PROVE  i = j
  BY DEF Partition
<1> DEFINE At(n) == IF n \in DOMAIN l THEN n ELSE k
<1>1. ASSUME NEW n \in {i, j}
      PROVE  At(n) \in DOMAIN l /\ IsLive(l[At(n)]) /\ Covers(l[At(n)], t)
  BY DEF Within
<1>2. At(i) = At(j)
  BY <1>1 DEF Partition
<1>3. CASE i \in DOMAIN l /\ j \in DOMAIN l
  BY <1>2, <1>3
<1>4. CASE i \in DOMAIN l /\ j \notin DOMAIN l
  <2>1. i = k
    BY <1>2, <1>4
  <2> QED
    BY <1>4, <2>1 DEF Apart
<1>5. CASE i \notin DOMAIN l /\ j \in DOMAIN l
  <2>1. j = k
    BY <1>2, <1>5
  <2> QED
    BY <1>5, <2>1 DEF Apart
<1>6. CASE i \notin DOMAIN l /\ j \notin DOMAIN l
  BY <1>6 DEF Apart
<1> QED
  BY <1>3, <1>4, <1>5, <1>6

\* Rows written into an empty log need only be apart from each other.
LEMMA FirstRowsFit ==
  ASSUME NEW l, NEW m, DOMAIN l = {},
         \A i, j \in DOMAIN m \ DOMAIN l : i # j => Apart(m[i], m[j])
  PROVE  Partition(m)
BY DEF Partition, Apart

\* A row that starts no earlier than an open one lies within it.
LEMMA LaterWithin ==
  ASSUME NEW r \in Row, NEW s \in Row, IsOpen(s), r.start >= s.start
  PROVE  Within(r, s)
<1> SUFFICES ASSUME NEW t \in 0 .. MaxTime, r.start <= t PROVE s.start <= t
  BY DEF Within, Covers, IsOpen
<1>1. r.start \in Nat /\ s.start \in Nat /\ t \in Nat
  BY DEF Row
<1> QED
  BY <1>1

\* A row lies within another whose start and end it has.
LEMMA SameTimes ==
  ASSUME NEW r, NEW s, r.start = s.start, r.end = s.end, IsLive(r) => IsLive(s)
  PROVE  Within(r, s)
BY DEF Within, Covers

\* A row that ends where another starts is apart from it.
LEMMA EndsApart ==
  ASSUME NEW r \in Row, NEW s \in Row, r.end \in Nat, s.start >= r.end
  PROVE  Apart(r, s) /\ Apart(s, r)
<1> SUFFICES ASSUME NEW t \in 0 .. MaxTime, r.end = Null \/ t < r.end, s.start <= t
             PROVE  FALSE
  BY DEF Apart, Covers
<1>1. r.end \in Nat /\ s.start \in Nat /\ t \in Nat /\ r.end # Null
  BY NullAssumption DEF Row
<1> QED
  BY <1>1

\* A row lies within one of the same start that ends no earlier.
LEMMA ShorterWithin ==
  ASSUME NEW r \in Row, NEW s \in Row, r.start = s.start, IsLive(r) => IsLive(s),
         r.end \in Nat, s.end # Null => r.end <= s.end
  PROVE  Within(r, s)
<1> SUFFICES ASSUME NEW t \in 0 .. MaxTime, r.end = Null \/ t < r.end, s.end # Null
             PROVE  t < s.end
  BY DEF Within, Covers
<1>1. r.end \in Nat /\ s.end \in Nat /\ t \in Nat /\ r.end # Null
  BY NullAssumption DEF Row
<1> QED
  BY <1>1

\* One row appended to a log m that is l but for what it shrinks.
LEMMA AppendFits ==
  ASSUME NEW l \in Seq(Row), NEW m \in Seq(Row), NEW r \in Row, Partition(l),
         DOMAIN m = DOMAIN l, \A i \in DOMAIN l : Within(m[i], l[i]),
         \/ l = <<>>
         \/ \E k \in DOMAIN l : Within(r, l[k]) /\ Apart(r, m[k])
  PROVE  Partition(Append(m, r))
<1> DEFINE n == Append(m, r)
<1>1. /\ \A i \in DOMAIN l : i \in DOMAIN n /\ n[i] = m[i]
      /\ \A j \in DOMAIN n \ DOMAIN l : j = Len(m) + 1 /\ n[j] = r
  BY AppendRow
<1> HIDE DEF n
<1>2. \A i, j \in DOMAIN n \ DOMAIN l : i # j => Apart(n[i], n[j])
  BY <1>1
<1>3. CASE l = <<>>
  BY <1>2, <1>3, FirstRowsFit DEF n
<1>4. CASE \E k \in DOMAIN l : Within(r, l[k]) /\ Apart(r, m[k])
  <2>1. PICK k \in DOMAIN l : Within(r, l[k]) /\ Apart(r, m[k])
    BY <1>4
  <2>2. \A i \in DOMAIN l : i \in DOMAIN n /\ Within(n[i], l[i])
    BY <1>1
  <2>3. \A j \in DOMAIN n \ DOMAIN l : Within(n[j], l[k]) /\ Apart(n[j], n[k])
    BY <1>1, <2>1
  <2> QED
    BY <1>2, <2>2, <2>3, RowsFit DEF n
<1> QED
  BY <1>3, <1>4

\* The first and only row of a log.
LEMMA FirstFits ==
  ASSUME NEW l \in Seq(Row), l # <<>> => OneOpen(l), OpenIds(l) = {}, NEW r \in Row
  PROVE  Partition(Append(l, r))
<1>1. l = <<>>
  BY DEF OneOpen
<1>2. Partition(l) /\ \A i \in DOMAIN l : Within(l[i], l[i])
  BY <1>1 DEF Partition
<1> QED
  BY <1>1, <1>2, AppendFits

\* A completion cuts the open row where its own begins.
LEMMA CycleFits ==
  ASSUME NEW l \in Seq(Row), l # <<>> => OneOpen(l), Partition(l),
         NEW t \in Tx, NEW b \in Nat, NEW slow \in BOOLEAN
  PROVE  LET m == CycleLog(l, t, b, slow) IN Late(l, m) \/ Partition(m)
<1> DEFINE c == CloseOpen(l, t.ts)
           r == NewRow(t.ts, "UP", IF slow THEN "SLOW" ELSE "UP", UpBlock(t, b))
           m == Append(c, r)
<1>1. t.ts \in Nat /\ \A i \in DOMAIN l : l[i] \in Row
  BY RowsOf DEF Tx
<1>2. /\ c \in Seq(Row) /\ DOMAIN c = DOMAIN l
      /\ \A i \in DOMAIN l : c[i] = IF IsOpen(l[i]) THEN [l[i] EXCEPT !.end = t.ts] ELSE l[i]
  BY <1>1, CloseOpenLog, RowsOf
<1>3. r \in Row /\ r.start = t.ts
  BY <1>1, UpBlockType, NewRowType DEF NewRow
<1> HIDE DEF c, r
<1>4. CASE OpenIds(l) = {}
  <2>1. l = <<>>
    BY <1>4 DEF OneOpen
  <2> QED
    BY <1>2, <1>3, <2>1, AppendFits DEF CycleLog, c, r
<1>5. ASSUME NEW k \in OpenIds(l), ~Late(l, m)
      PROVE  Partition(m)
  <2>1. k \in DOMAIN l /\ IsOpen(l[k]) /\ l[k] \in Row
    BY <1>1 DEF OpenIds
  <2>2. Len(c) + 1 \in DOMAIN m \ DOMAIN l /\ m[Len(c) + 1] = r
    BY <1>2, <1>3, AppendRow
  <2>3. t.ts >= l[k].start
    <3>1. ~(t.ts < l[k].start)
      BY <1>3, <1>5, <2>2 DEF Late
    <3>2. l[k].start \in Nat
      BY <2>1 DEF Row
    <3> QED
      BY <1>1, <3>1, <3>2
  <2>4. ASSUME NEW i \in DOMAIN l
        PROVE  Within(c[i], l[i])
    <3>1. l[i] \in Row /\ c[i] = IF IsOpen(l[i]) THEN [l[i] EXCEPT !.end = t.ts] ELSE l[i]
      BY <1>1, <1>2
    <3>2. CASE IsOpen(l[i])
      <4>1. l[i] \in Row /\ c[i] = [l[i] EXCEPT !.end = t.ts]
        BY <3>1, <3>2
      <4>2. /\ c[i].start = l[i].start /\ c[i].end = t.ts
            /\ c[i].deleted = l[i].deleted
        BY <4>1 DEF Row
      <4>3. c[i] \in Row
        BY <1>2, RowsOf
      <4> QED
        BY <1>1, <3>1, <3>2, <4>2, <4>3, ShorterWithin DEF IsLive, IsOpen
    <3>3. CASE ~IsOpen(l[i])
      <4>1. c[i] = l[i]
        BY <3>1, <3>3
      <4> QED
        BY <4>1, SameTimes
    <3> QED
      BY <3>2, <3>3
  <2>5. c[k] \in Row /\ c[k].end = t.ts
    <3>1. c[k] = [l[k] EXCEPT !.end = t.ts]
      BY <1>2, <2>1
    <3>2. c[k] \in Row
      BY <1>2, <2>1, RowsOf
    <3> QED
      BY <2>1, <3>1, <3>2 DEF Row
  <2>6. Apart(r, c[k])
    BY <1>1, <1>3, <2>5, EndsApart
  <2>7. Within(r, l[k])
    BY <1>3, <2>1, <2>3, LaterWithin
  <2> QED
    BY <1>2, <1>3, <2>1, <2>4, <2>6, <2>7, AppendFits
<1> QED
  BY <1>4, <1>5 DEF CycleLog, c, r

\* The slow timer moves no row in time.
LEMMA SlowFits ==
  ASSUME NEW l \in Seq(Row), l # <<>> => OneOpen(l), Partition(l),
         NEW t \in Tx, NEW b \in Nat, ReadIsCurrent(l, t), SnapshotHolds(l, t)
  PROVE  Partition(SlowLog(l, t, b))
<1>1. t.ts \in Nat /\ \A i \in DOMAIN l : l[i] \in Row
  BY RowsOf DEF Tx
<1>2. CASE t.seen = Null
  <2>1. NewRow(t.ts, "UP", "SLOW", b) \in Row
    BY <1>1, NewRowType
  <2> QED
    BY <1>2, <2>1, FirstFits DEF SlowLog, ReadIsCurrent
<1>3. CASE t.seen # Null /\ (t.seen.state = "DOWN" \/ t.seen.status = "SLOW")
  BY <1>3 DEF SlowLog
<1>4. CASE t.seen # Null /\ t.seen.state # "DOWN" /\ t.seen.status # "SLOW"
  <2> DEFINE m == [l EXCEPT ![t.id].status = "SLOW"]
  <2>1. ASSUME NEW i \in DOMAIN l
        PROVE  m[i].start = l[i].start /\ m[i].end = l[i].end /\ m[i].deleted = l[i].deleted
    <3>1. l[i] \in Row /\ (m[i] = l[i] \/ m[i] = [l[i] EXCEPT !.status = "SLOW"])
      BY <1>1
    <3> HIDE DEF m
    <3> QED
      BY <3>1 DEF Row
  <2>2. DOMAIN m = DOMAIN l
    OBVIOUS
  <2> HIDE DEF m
  <2>3. Partition(m)
    BY <2>1, <2>2 DEF Partition, Covers, IsLive
  <2> QED
    BY <1>4, <2>3 DEF SlowLog, m
<1> QED
  BY <1>2, <1>3, <1>4

\* Nor does the down timer: the row it converts keeps its start.
LEMMA DownFits ==
  ASSUME NEW l \in Seq(Row), l # <<>> => OneOpen(l), Partition(l),
         NEW t \in Tx, NEW b \in Nat, ReadIsCurrent(l, t), SnapshotHolds(l, t)
  PROVE  Partition(DownLog(l, t, b))
<1>1. t.ts \in Nat /\ \A i \in DOMAIN l : l[i] \in Row
  BY RowsOf DEF Tx
<1>2. CASE t.seen = Null
  <2>1. NewRow(t.ts, "DOWN", "DOWN", b) \in Row
    BY <1>1, NewRowType
  <2> QED
    BY <1>2, <2>1, FirstFits DEF DownLog, ReadIsCurrent
<1>3. CASE t.seen # Null /\ t.seen.state = "DOWN"
  BY <1>3 DEF DownLog
<1>4. CASE t.seen # Null /\ t.seen.state # "DOWN"
  <2> DEFINE m == Convert(l, t, b)
  <2>1. t.id \in OpenIds(l)
    BY <1>4 DEF ReadIsCurrent, SnapshotHolds, OpenIds
  <2>2. \A i \in DOMAIN l : IsOpen(l[i]) => i = t.id
    BY <2>1 DEF OneOpen, OpenIds
  <2>3. /\ DOMAIN m = DOMAIN l
        /\ \A i \in DOMAIN l :
             m[i] = l[i] \/ m[i] = [l[i] EXCEPT !.state = "DOWN", !.status = "DOWN", !.block = b]
    BY <2>2 DEF Convert
  <2> HIDE DEF m
  <2>4. ASSUME NEW i \in DOMAIN l
        PROVE  m[i].start = l[i].start /\ m[i].end = l[i].end /\ m[i].deleted = l[i].deleted
    BY <1>1, <2>3 DEF Row
  <2>5. Partition(m)
    BY <2>3, <2>4 DEF Partition, Covers, IsLive
  <2> QED
    BY <1>4, <2>5 DEF DownLog, m
<1> QED
  BY <1>2, <1>3, <1>4

\* A reason moves no row in time.
LEMMA ReasonFits ==
  ASSUME NEW l \in Seq(Row), Partition(l), NEW t, NEW scope, NEW reason
  PROVE  Partition(ReasonLog(l, t, scope, reason))
<1> DEFINE m == ReasonLog(l, t, scope, reason)
<1>1. /\ DOMAIN m = DOMAIN l
      /\ \A i \in DOMAIN l : m[i] = l[i] \/ m[i] = [l[i] EXCEPT !.reason = reason]
  BY DEF ReasonLog
<1> HIDE DEF m
<1>2. ASSUME NEW i \in DOMAIN l
      PROVE  m[i].start = l[i].start /\ m[i].end = l[i].end /\ m[i].deleted = l[i].deleted
  <2>1. l[i] \in Row
    BY RowsOf
  <2> QED
    BY <1>1, <2>1 DEF Row
<1>3. Partition(m)
  BY <1>1, <1>2 DEF Partition, Covers, IsLive
<1> QED
  BY <1>3 DEF m

\* A split of an entry that is as it was read leaves both halves within it.
LEMMA SplitFits ==
  ASSUME NEW l \in Seq(Row), Partition(l), NEW t \in Tx, NEW now \in Nat,
         t.seen # Null, t.id \in DOMAIN l, l[t.id].start = t.seen.start,
         IsLive(l[t.id]), l[t.id].end = t.seen.end, SplitAllowed(t, now)
  PROVE  Partition(SplitLog(l, t))
<1> DEFINE c == [l EXCEPT ![t.id].end = t.ts]
           r == [t.seen EXCEPT !.start = t.ts]
           s == l[t.id]
<1>1. /\ t.ts \in Nat /\ t.seen \in Row /\ s \in Row /\ Margin \in Nat /\ Null \notin Nat
      /\ \A i \in DOMAIN l : l[i] \in Row
  BY RowsOf, NullAssumption, BoundAssumption DEF Tx
<1>2. t.seen.start \in Nat /\ t.seen.end \in Nat \cup {Null}
  BY <1>1 DEF Row
<1>3. t.ts >= s.start /\ (s.end # Null => t.ts <= s.end)
  BY <1>1, <1>2 DEF SplitAllowed
<1>4. r \in Row /\ r.start = t.ts /\ r.end = s.end
  BY <1>1 DEF Row
<1>5. [s EXCEPT !.end = t.ts] \in Row
  BY <1>1 DEF Row
<1>6. /\ c \in Seq(Row) /\ DOMAIN c = DOMAIN l
      /\ \A i \in DOMAIN l : c[i] = IF i = t.id THEN [s EXCEPT !.end = t.ts] ELSE l[i]
  <2>1. c = [l EXCEPT ![t.id] = [s EXCEPT !.end = t.ts]]
    OBVIOUS
  <2> QED
    BY <1>5, <2>1, ExceptSeq, RowsOf
<1> HIDE DEF c, r
<1>7. /\ c[t.id] \in Row /\ c[t.id].start = s.start /\ c[t.id].end = t.ts
      /\ IsLive(c[t.id]) = IsLive(s)
  <2>1. c[t.id] = [s EXCEPT !.end = t.ts]
    BY <1>6
  <2> QED
    BY <1>1, <1>5, <2>1 DEF Row, IsLive
<1>8. ASSUME NEW i \in DOMAIN l
      PROVE  Within(c[i], l[i])
  <2>1. CASE i = t.id
    BY <1>1, <1>3, <1>7, <2>1, ShorterWithin
  <2>2. CASE i # t.id
    BY <1>6, <2>2, SameTimes
  <2> QED
    BY <2>1, <2>2
<1>9. Within(r, s)
  <2> SUFFICES ASSUME NEW u \in 0 .. MaxTime, r.start <= u PROVE s.start <= u
    BY <1>4 DEF Within, Covers
  <2>1. s.start \in Nat /\ u \in Nat
    BY <1>1 DEF Row
  <2> QED
    BY <1>1, <1>3, <1>4, <2>1
<1>10. Apart(r, c[t.id])
  BY <1>1, <1>4, <1>7, EndsApart
<1> QED
  BY <1>4, <1>6, <1>8, <1>9, <1>10, AppendFits DEF SplitLog, c, r

\* What a reconciliation leaves lies before the open row it replaces.
LEMMA ReconcileFits ==
  ASSUME NEW l \in Seq(Row), l # <<>> => OneOpen(l), Partition(l),
         NEW t \in Tx, NEW b \in Nat
  PROVE  LET m == ReconcileLog(l, t, b) IN Late(l, m) \/ Partition(m)
<1> DEFINE c == Purged(l, t)
           q == [NewRow(t.ts, "UP", "UP", b) EXCEPT !.end = t.hi]
           r == NewRow(t.hi, "UP", "UP", b)
           m == Append(Append(c, q), r)
<1>1. t.ts \in Nat /\ t.hi \in Nat /\ \A i \in DOMAIN l : l[i] \in Row
  BY RowsOf DEF Tx
<1>2. /\ DOMAIN c = DOMAIN l
      /\ \A i \in DOMAIN l : c[i] = IF IsLive(l[i]) /\ InWindow(l[i], t)
                                    THEN [l[i] EXCEPT !.deleted = TRUE] ELSE l[i]
  BY DEF Purged
<1>3. c \in Seq(Row)
  <2>1. \A i \in DOMAIN l : c[i] \in Row
    <3>1. \A i \in DOMAIN l : [l[i] EXCEPT !.deleted = TRUE] \in Row
      BY <1>1 DEF Row
    <3> HIDE DEF c
    <3> QED
      BY <1>1, <1>2, <3>1
  <2>2. c = [i \in DOMAIN l |-> c[i]]
    BY DEF Purged
  <2> QED
    BY <2>1, <2>2, RowMap
<1>4. /\ q \in Row /\ q.start = t.ts /\ q.end = t.hi
      /\ r \in Row /\ r.start = t.hi
  BY <1>1 DEF NewRow, Row
<1> HIDE DEF c, q, r
<1>5. Append(c, q) \in Seq(Row)
  BY <1>3, <1>4, AppendRow
<1>6. Apart(q, r) /\ Apart(r, q)
  BY <1>1, <1>4, EndsApart
<1>7. ASSUME NEW i \in DOMAIN l
      PROVE  /\ Within(c[i], l[i])
             /\ IsOpen(l[i]) => ~IsLive(c[i])
  <2>1. l[i] \in Row /\ c[i] = IF IsLive(l[i]) /\ InWindow(l[i], t)
                               THEN [l[i] EXCEPT !.deleted = TRUE] ELSE l[i]
    BY <1>1, <1>2
  <2>2. CASE IsLive(l[i]) /\ InWindow(l[i], t)
    <3>1. ~IsLive(c[i])
      BY <2>1, <2>2 DEF IsLive, Row
    <3> QED
      BY <3>1 DEF Within
  <2>3. CASE ~(IsLive(l[i]) /\ InWindow(l[i], t))
    BY <2>1, <2>3, SameTimes DEF IsOpen, InWindow
  <2> QED
    BY <2>2, <2>3
<1> DEFINE n == Len(c) + 1
<1>8. /\ n \in DOMAIN m \ DOMAIN l /\ n + 1 \in DOMAIN m \ DOMAIN l
      /\ m[n] = q /\ m[n + 1] = r
      /\ \A i \in DOMAIN l : i \in DOMAIN m /\ m[i] = c[i]
      /\ \A j \in DOMAIN m \ DOMAIN l : j = n \/ j = n + 1
  <2> DEFINE d == Append(c, q)
  <2>1. /\ Len(c) \in Nat /\ Len(d) = n /\ DOMAIN c = 1 .. Len(c)
        /\ \A i \in DOMAIN c : d[i] = c[i]
        /\ d[n] = q
    BY <1>3, <1>4, AppendRow
  <2>2. /\ DOMAIN m = 1 .. n + 1 /\ DOMAIN d = 1 .. n
        /\ \A i \in DOMAIN d : m[i] = d[i]
        /\ m[n + 1] = r
    BY <1>4, <1>5, <2>1, AppendRow
  <2> HIDE DEF d, m
  <2> QED
    BY <1>2, <2>1, <2>2
<1> HIDE DEF m, n
<1>9. \A i, j \in DOMAIN m \ DOMAIN l : i # j => Apart(m[i], m[j])
  BY <1>6, <1>8
<1>10. CASE OpenIds(l) = {}
  <2>1. l = <<>>
    BY <1>10 DEF OneOpen
  <2>2. Partition(m)
    BY <1>9, <2>1, FirstRowsFit
  <2> QED
    BY <2>2 DEF ReconcileLog, m, c, q, r
<1>11. ASSUME NEW k \in OpenIds(l), ~Late(l, m)
       PROVE  Partition(m)
  <2>1. k \in DOMAIN l /\ IsOpen(l[k]) /\ l[k] \in Row
    BY <1>1 DEF OpenIds
  <2>2. t.ts >= l[k].start /\ t.hi >= l[k].start
    <3>1. ~(t.ts < l[k].start) /\ ~(t.hi < l[k].start)
      BY <1>4, <1>8, <1>11 DEF Late
    <3>2. l[k].start \in Nat
      BY <2>1 DEF Row
    <3> QED
      BY <1>1, <3>1, <3>2
  <2>3. Within(q, l[k]) /\ Within(r, l[k])
    BY <1>4, <2>1, <2>2, LaterWithin
  <2>4. \A j \in DOMAIN m \ DOMAIN l : Within(m[j], l[k]) /\ Apart(m[j], m[k])
    <3>1. m[k] = c[k] /\ ~IsLive(c[k])
      BY <1>7, <1>8, <2>1
    <3> QED
      BY <1>8, <2>3, <3>1 DEF Apart
  <2>5. \A i \in DOMAIN l : i \in DOMAIN m /\ Within(m[i], l[i])
    BY <1>7, <1>8
  <2> QED
    BY <1>9, <2>1, <2>4, <2>5, RowsFit
<1> QED
  BY <1>10, <1>11 DEF ReconcileLog, m, c, q, r

\* A row never starts at another time than when it was read.
StartsHold == \A p \in Proc : tx[p].seen # Null => log[tx[p].id].start = tx[p].seen.start

LEMMA StartsStep ==
  ASSUME Inductive, StartsHold, [Next]_vars
  PROVE  StartsHold'
<1>1. tx \in [Proc -> Tx]
  BY DEF Inductive, TypeOK
<1>2. \A id : RowAt(log, id) # Null => log[id].start = RowAt(log, id).start
  BY DEF RowAt
<1>3. CASE Tick \/ TrackReplayed \/ UNCHANGED vars
  <2>1. UNCHANGED <<log, tx>>
    BY <1>3 DEF Tick, TrackReplayed, vars
  <2> QED
    BY <2>1 DEF StartsHold
<1>4. ASSUME NEW p \in Proc,
             \/ BeginCycle(p) \/ BeginOpenClose(p) \/ BeginTimer(p)
             \/ BeginSplit(p) \/ BeginReason(p) \/ BeginReconcile(p)
      PROVE  StartsHold'
  <2>1. log' = log /\ \E op, step, ts, hi, id : Begin(p, op, step, ts, hi, id)
    BY <1>4 DEF BeginCycle, BeginOpenClose, BeginTimer, BeginSplit, BeginReason, BeginReconcile
  <2>2. PICK id : \A q \in Proc :
          IF q = p THEN tx'[q].id = id /\ tx'[q].seen = RowAt(log, id) ELSE tx'[q] = tx[q]
    BY <1>1, <2>1 DEF Begin
  <2> QED
    BY <1>2, <2>1, <2>2 DEF StartsHold
<1>5. ASSUME NEW p \in Proc, Acquire(p)
      PROVE  StartsHold'
  <2>1. log' = log
    BY <1>5 DEF Acquire
  <2>2. \A q \in Proc :
          \/ tx'[q].id = tx[q].id /\ tx'[q].seen = tx[q].seen
          \/ tx'[q].id = OpenId(log) /\ tx'[q].seen = RowAt(log, OpenId(log))
    BY <1>1, <1>5 DEF Acquire, Tx
  <2> QED
    BY <1>2, <2>1, <2>2 DEF StartsHold
<1>6. ASSUME NEW p \in Proc, Commit(p) \/ Fail(p)
      PROVE  StartsHold'
  <2>1. PICK l, state : End(p, l) /\ Frozen(log, l) /\ Marked(log, l, tx[p], nextBlock, state)
    BY <1>6, CommitEffect
  <2>2. log' = l \/ log' = log
    BY <2>1 DEF End
  <2>3. \A i \in DOMAIN log : log'[i].start = log[i].start
    BY <2>1, <2>2 DEF Frozen
  <2>4. \A q \in Proc : tx'[q] = tx[q] \/ tx'[q].seen = Null
    BY <1>1, <2>1 DEF End, Idle
  <2>5. \A q \in Proc : tx[q].seen # Null => tx[q].id \in DOMAIN log
    BY DEF Inductive, TransactionsSound, SnapshotHolds
  <2> QED
    BY <2>3, <2>4, <2>5 DEF StartsHold
<1> QED
  BY <1>3, <1>4, <1>5, <1>6 DEF Next, Proc

\* A split that finds its entry as it was read.
LEMMA CommitSplitFits ==
  ASSUME Inductive, StartsHold, Partition(log), NEW p \in Proc, CommitSplit(p),
         ~EntryMoved(tx[p])
  PROVE  Partition(log')
<1>1. /\ log \in Seq(Row) /\ tx[p] \in Tx /\ clock \in Nat
      /\ tx[p].seen # Null /\ tx[p].id \in DOMAIN log
  BY DEF CommitSplit, Ready, Inductive, TypeOK, TransactionsSound, SnapshotHolds
<1>2. IsLive(log[tx[p].id]) /\ log[tx[p].id].end = tx[p].seen.end
  BY DEF EntryMoved
<1>3. log[tx[p].id].start = tx[p].seen.start
  BY <1>1 DEF StartsHold
<1>4. log' = log \/ (SplitAllowed(tx[p], clock) /\ log' = SplitLog(log, tx[p]))
  BY DEF CommitSplit, End
<1> QED
  BY <1>1, <1>2, <1>3, <1>4, SplitFits

\* A commit that breaks the partition is late or splits an entry that has moved.
LEMMA CommitFits ==
  ASSUME Inductive, StartsHold, Partition(log), NEW p \in Proc, Commit(p) \/ Fail(p),
         ~(CommitSplit(p) /\ EntryMoved(tx[p]))
  PROVE  Late(log, log') \/ Partition(log')
<1> DEFINE t == tx[p]
<1>1. /\ log \in Seq(Row) /\ t \in Tx /\ nextBlock \in Nat
      /\ log # <<>> => OneOpen(log)
      /\ SnapshotHolds(log, t)
      /\ HoldsLock(p) /\ ReadsUnderLock(t.op) => ReadIsCurrent(log, t)
  BY DEF Inductive, TypeOK, TransactionsSound, CurrentStateUnique, OneOpen
<1>2. CASE CommitUp(p)
  <2>1. PICK slow \in BOOLEAN : End(p, CycleLog(log, t, nextBlock, slow))
    BY <1>2 DEF CommitUp
  <2>2. log' = log \/ log' = CycleLog(log, t, nextBlock, slow)
    BY <2>1 DEF End
  <2> QED
    BY <1>1, <2>2, CycleFits
<1>3. CASE CommitSlow(p)
  <2>1. ReadIsCurrent(log, t)
    BY <1>1, <1>3 DEF CommitSlow, Ready, HoldsLock, ReadsUnderLock
  <2>2. log' = log \/ log' = SlowLog(log, t, nextBlock)
    BY <1>3 DEF CommitSlow, End
  <2> QED
    BY <1>1, <2>1, <2>2, SlowFits
<1>4. CASE CommitDown(p)
  <2>1. ReadIsCurrent(log, t)
    BY <1>1, <1>4 DEF CommitDown, Ready, HoldsLock, ReadsUnderLock
  <2>2. log' = log \/ log' = DownLog(log, t, nextBlock)
    BY <1>4 DEF CommitDown, End
  <2> QED
    BY <1>1, <2>1, <2>2, DownFits
<1>5. CASE CommitSplit(p)
  BY <1>5, CommitSplitFits
<1>6. CASE CommitReason(p)
  <2>1. PICK scope, reason : End(p, ReasonLog(log, t, scope, reason))
    BY <1>6 DEF CommitReason
  <2>2. log' = log \/ log' = ReasonLog(log, t, scope, reason)
    BY <2>1 DEF End
  <2> QED
    BY <1>1, <2>2, ReasonFits
<1>7. CASE CommitReconcile(p)
  <2>1. log' = log \/ log' = ReconcileLog(log, t, nextBlock)
    BY <1>7 DEF CommitReconcile, End
  <2> QED
    BY <1>1, <2>1, ReconcileFits
<1>8. CASE Fail(p)
  <2>1. log' = log
    BY <1>8 DEF Fail, End
  <2> QED
    BY <2>1
<1> QED
  BY <1>2, <1>3, <1>4, <1>5, <1>6, <1>7, <1>8 DEF Commit

\* As long as rows are written in the order of their timestamps, and splits find
\* their entries as they read them, no instant comes to be in two live rows:
\* not by completions, timers, reasons or reconciliations, however they race.
THEOREM OverlapsAreLateOrStale == Spec => OnlyLateOrStaleOverlap
<1> DEFINE Moved == \E p \in Proc : CommitSplit(p) /\ EntryMoved(tx[p])
           Explained == Partition(log) /\ ~Partition(log') => Late(log, log') \/ Moved
<1>1. Init => StartsHold
  BY DEF Init, StartsHold, Idle
<1>2. Inductive /\ StartsHold /\ [Next]_vars => StartsHold'
  BY StartsStep
<1>3. ASSUME Inductive, StartsHold, [Next]_vars
      PROVE  Explained
  <2>1. CASE UNCHANGED log
    BY <2>1
  <2>2. ASSUME NEW p \in Proc, Commit(p) \/ Fail(p)
        PROVE  Explained
    BY <1>3, <2>2, CommitFits
  <2> QED
    BY <1>3, <2>1, <2>2
    DEF Next, vars, Tick, TrackReplayed, BeginCycle, BeginOpenClose, BeginTimer, BeginSplit,
        BeginReason, BeginReconcile, Acquire
<1>4. Explained =>
        [Partition(log) /\ ~Partition(log')
           => LateRow \/ \E p \in Proc : CommitSplit(p) /\ EntryMoved(tx[p])]_log
  BY DEF Late, LateRow
<1> HIDE DEF Explained
<1> QED
  BY <1>1, <1>2, <1>3, <1>4, InductiveInvariant, PTL DEF Spec, OnlyLateOrStaleOverlap

\* Then no instant is ever in two live rows, and the durations add up.
THEOREM OrderedWritesNeverOverlap == Spec /\ WrittenInOrder => []NoOverlap
<1> DEFINE InOrder ==
             \A p \in Proc :
               IF CommitSplit(p) THEN ~EntryMoved(tx[p]) ELSE Commit(p) => ~LateRow
<1>1. Init => StartsHold /\ NoOverlap
  BY DEF Init, StartsHold, Idle, NoOverlap, Partition
<1>2. Inductive /\ StartsHold /\ [Next]_vars => StartsHold'
  BY StartsStep
<1>3. ASSUME Inductive, StartsHold, NoOverlap, [Next]_vars, [InOrder]_log
      PROVE  NoOverlap'
  <2>1. CASE UNCHANGED log
    BY <1>3, <2>1 DEF NoOverlap, Partition
  <2>2. ASSUME NEW p \in Proc, Commit(p) \/ Fail(p), log' # log
        PROVE  NoOverlap'
    <3>1. InOrder
      BY <1>3, <2>2
    <3>2. Partition(log)
      BY <1>3 DEF NoOverlap
    <3>3. CASE CommitSplit(p)
      <4>1. ~EntryMoved(tx[p])
        BY <3>1, <3>3
      <4> QED
        BY <1>3, <3>2, <3>3, <4>1, CommitSplitFits DEF NoOverlap
    <3>4. CASE ~CommitSplit(p)
      <4>1. Commit(p)
        BY <2>2 DEF Fail, End
      <4>2. ~Late(log, log')
        BY <3>1, <3>4, <4>1 DEF Late, LateRow
      <4> QED
        BY <1>3, <3>2, <3>4, <4>1, <4>2, CommitFits DEF NoOverlap
    <3> QED
      BY <3>3, <3>4
  <2> QED
    BY <1>3, <2>1, <2>2
    DEF Next, vars, Tick, TrackReplayed, BeginCycle, BeginOpenClose, BeginTimer, BeginSplit,
        BeginReason, BeginReconcile, Acquire
<1>4. WrittenInOrder <=> [][InOrder]_log
  BY PTL DEF WrittenInOrder
<1> HIDE DEF InOrder
<1> QED
  BY <1>1, <1>2, <1>3, <1>4, InductiveInvariant, PTL DEF Spec

-----------------------------------------------------------------------------
(* The refinement of CurrentState. *)

\* What the log shows as the current status, and since when.
StatusOf(l) == IF OpenId(l) = 0 THEN "NONE" ELSE l[OpenId(l)].status
SinceOf(l) == IF OpenId(l) = 0 THEN 0 ELSE l[OpenId(l)].start

Shows(l, status, since) == StatusOf(l) = status /\ SinceOf(l) = since
ShowsSame(l, m) == StatusOf(m) = StatusOf(l) /\ SinceOf(m) = SinceOf(l)

\* The log shows the open row when there is one.
LEMMA ShowsOpen ==
  ASSUME NEW l \in Seq(Row), NEW i \in OpenIds(l), OpenIds(l) = {i}
  PROVE  OpenId(l) = i /\ Shows(l, l[i].status, l[i].start)
<1>1. OpenId(l) = i
  BY OpenIdFound DEF OneOpen
<1>2. i # 0
  BY RowsOf DEF OpenIds
<1> QED
  BY <1>1, <1>2 DEF Shows, StatusOf, SinceOf

\* The log shows nothing when there is none.
LEMMA ShowsNothing ==
  ASSUME NEW l \in Seq(Row), OpenIds(l) = {}
  PROVE  Shows(l, "NONE", 0)
BY OpenIdFound DEF Shows, StatusOf, SinceOf

\* It shows an open row appended where none was open.
LEMMA ShowsAppended ==
  ASSUME NEW l \in Seq(Row), NEW r \in Row, IsOpen(r), OpenIds(l) = {}
  PROVE  Shows(Append(l, r), r.status, r.start)
<1> DEFINE m == Append(l, r)
           n == Len(l) + 1
<1>1. /\ m \in Seq(Row) /\ DOMAIN m = 1 .. n /\ m[n] = r /\ DOMAIN l = 1 .. Len(l) /\ Len(l) \in Nat
      /\ \A i \in DOMAIN l : m[i] = l[i]
  BY AppendRow
<1>2. n \in OpenIds(m)
  BY <1>1 DEF OpenIds
<1>3. \A i \in OpenIds(m) : i = n
  BY <1>1 DEF OpenIds
<1>4. OpenIds(m) = {n}
  BY <1>2, <1>3
<1> QED
  BY <1>1, <1>2, <1>4, ShowsOpen

\* The open row stays where it is, as it is.
LEMMA ShowsKept ==
  ASSUME NEW l \in Seq(Row), NEW m \in Seq(Row), l # <<>> => OneOpen(l),
         OpenIds(m) = OpenIds(l),
         \A i \in OpenIds(l) : m[i].status = l[i].status /\ m[i].start = l[i].start
  PROVE  ShowsSame(l, m)
<1>1. CASE OpenIds(l) = {}
  BY <1>1, ShowsNothing DEF Shows, ShowsSame
<1>2. CASE OpenIds(l) # {}
  <2>1. l # <<>>
    BY <1>2 DEF OpenIds
  <2>2. PICK i \in OpenIds(l) : OpenIds(l) = {i}
    BY <2>1 DEF OneOpen
  <2> QED
    BY <2>2, ShowsOpen DEF Shows, ShowsSame
<1> QED
  BY <1>1, <1>2

\* closeOpenStateEntries leaves no row open.
LEMMA CloseOpenNone ==
  ASSUME NEW l \in Seq(Row), NEW t \in Nat
  PROVE  OpenIds(CloseOpen(l, t)) = {}
<1>1. \A i \in DOMAIN l : l[i] \in Row
  BY RowsOf
<1>2. /\ DOMAIN CloseOpen(l, t) = DOMAIN l
      /\ \A i \in DOMAIN l : CloseOpen(l, t)[i] = IF IsOpen(l[i]) THEN [l[i] EXCEPT !.end = t] ELSE l[i]
  BY DEF CloseOpen
<1>3. \A i \in DOMAIN l : ~IsOpen(CloseOpen(l, t)[i])
  BY <1>1, <1>2, NullAssumption DEF IsOpen, IsLive, Row
<1> QED
  BY <1>2, <1>3 DEF OpenIds

\* After a completion the log shows its row.
LEMMA CycleShows ==
  ASSUME NEW l \in Seq(Row), NEW t \in Tx, NEW b \in Nat, NEW slow \in BOOLEAN
  PROVE  Shows(CycleLog(l, t, b, slow), IF slow THEN "SLOW" ELSE "UP", t.ts)
<1> DEFINE c == CloseOpen(l, t.ts)
           r == NewRow(t.ts, "UP", IF slow THEN "SLOW" ELSE "UP", UpBlock(t, b))
<1>1. t.ts \in Nat
  BY DEF Tx
<1>2. c \in Seq(Row) /\ OpenIds(c) = {}
  BY <1>1, CloseOpenLog, CloseOpenNone
<1>3. r \in Row
  BY <1>1, UpBlockType, NewRowType
<1>4. IsOpen(r) /\ r.status = (IF slow THEN "SLOW" ELSE "UP") /\ r.start = t.ts
  BY DEF NewRow, IsOpen, IsLive
<1> HIDE DEF r, c
<1>5. Shows(Append(c, r), IF slow THEN "SLOW" ELSE "UP", t.ts)
  BY <1>2, <1>3, <1>4, ShowsAppended
<1> QED
  BY <1>5 DEF CycleLog, r, c

\* The first row of a station.
LEMMA FirstShows ==
  ASSUME NEW l \in Seq(Row), OpenIds(l) = {}, NEW ts \in Nat, NEW b \in Nat,
         NEW state \in {"UP", "DOWN"}, NEW status \in {"UP", "SLOW", "DOWN"}
  PROVE  Shows(Append(l, NewRow(ts, state, status, b)), status, ts)
<1> DEFINE r == NewRow(ts, state, status, b)
<1>1. r \in Row /\ IsOpen(r) /\ r.status = status /\ r.start = ts
  BY NewRowType DEF NewRow, IsOpen, IsLive
<1> HIDE DEF r
<1>2. Shows(Append(l, r), status, ts)
  BY <1>1, ShowsAppended
<1> QED
  BY <1>2 DEF r

\* The slow timer makes an UP period SLOW from its start, or does nothing.
LEMMA SlowShows ==
  ASSUME NEW l, GoodLog(l), NEW t \in Tx, NEW b \in Nat,
         l # <<>> => OneOpen(l), ReadIsCurrent(l, t), SnapshotHolds(l, t)
  PROVE  LET m == SlowLog(l, t, b)
         IN  \/ ShowsSame(l, m)
             \/ StatusOf(l) = "NONE" /\ Shows(m, "SLOW", t.ts)
             \/ StatusOf(l) \in {"UP", "SLOW"} /\ Shows(m, "SLOW", SinceOf(l))
<1>1. /\ l \in Seq(Row) /\ t.ts \in Nat /\ \A i \in DOMAIN l : l[i] \in Row /\ RowConsistent(l[i])
  BY RowsOf DEF GoodLog, Tx
<1>2. CASE t.seen = Null
  <2>1. OpenIds(l) = {}
    BY <1>2 DEF ReadIsCurrent
  <2> QED
    BY <1>1, <1>2, <2>1, FirstShows, ShowsNothing DEF SlowLog, Shows
<1>3. CASE t.seen # Null /\ (t.seen.state = "DOWN" \/ t.seen.status = "SLOW")
  BY <1>3 DEF SlowLog, ShowsSame
<1>4. CASE t.seen # Null /\ t.seen.state # "DOWN" /\ t.seen.status # "SLOW"
  <2> DEFINE m == [l EXCEPT ![t.id].status = "SLOW"]
  <2>a. t.id \in DOMAIN l /\ IsOpen(l[t.id]) /\ l[t.id].state = t.seen.state
    BY <1>4 DEF ReadIsCurrent, SnapshotHolds
  <2>1. /\ t.id \in DOMAIN l /\ t.id \in OpenIds(l) /\ l # <<>>
        /\ l[t.id].status \in {"UP", "SLOW"}
    <3>1. t.id \in OpenIds(l) /\ l # <<>>
      BY <2>a DEF OpenIds
    <3>2. l[t.id].status # "DOWN"
      BY <1>1, <1>4, <2>a DEF RowConsistent
    <3>3. l[t.id].status \in {"UP", "SLOW", "DOWN"}
      BY <1>1, <2>a DEF Row
    <3> QED
      BY <2>a, <3>1, <3>2, <3>3
  <2>2. OpenIds(l) = {t.id}
    BY <2>1 DEF OneOpen
  <2>3. Shows(l, l[t.id].status, l[t.id].start)
    BY <1>1, <2>1, <2>2, ShowsOpen
  <2>4. [l[t.id] EXCEPT !.status = "SLOW"] \in Row
    <3>1. l[t.id] \in Row
      BY <1>1, <2>1
    <3> QED
      BY <3>1 DEF Row
  <2>5. /\ m \in Seq(Row) /\ DOMAIN m = DOMAIN l
        /\ \A i \in DOMAIN l : m[i] = IF i = t.id THEN [l[i] EXCEPT !.status = "SLOW"] ELSE l[i]
    <3>1. m = [l EXCEPT ![t.id] = [l[t.id] EXCEPT !.status = "SLOW"]]
      OBVIOUS
    <3> QED
      BY <1>1, <2>1, <2>4, <3>1, ExceptSeq, RowsOf
  <2>6. OpenIds(m) = {t.id} /\ m[t.id].status = "SLOW" /\ m[t.id].start = l[t.id].start
    <3> HIDE DEF m
    <3>1. \A i \in DOMAIN l : m[i].end = l[i].end /\ m[i].deleted = l[i].deleted
      BY <1>1, <2>5 DEF Row
    <3>2. OpenIds(m) = OpenIds(l)
      BY <2>5, <3>1 DEF OpenIds, IsOpen, IsLive
    <3>3. l[t.id] \in Row /\ m[t.id] = [l[t.id] EXCEPT !.status = "SLOW"]
      BY <1>1, <2>1, <2>5
    <3>4. m[t.id].status = "SLOW" /\ m[t.id].start = l[t.id].start
      BY <3>3 DEF Row
    <3> QED
      BY <2>2, <3>2, <3>4
  <2> HIDE DEF m
  <2>7. Shows(m, "SLOW", l[t.id].start)
    BY <2>5, <2>6, ShowsOpen
  <2> QED
    BY <1>4, <2>1, <2>3, <2>7 DEF SlowLog, Shows, m
<1> QED
  BY <1>2, <1>3, <1>4

\* The down timer makes an UP or SLOW period DOWN from its start, or does nothing.
LEMMA DownShows ==
  ASSUME NEW l, GoodLog(l), NEW t \in Tx, NEW b \in Nat,
         l # <<>> => OneOpen(l), ReadIsCurrent(l, t), SnapshotHolds(l, t)
  PROVE  LET m == DownLog(l, t, b)
         IN  \/ ShowsSame(l, m)
             \/ StatusOf(l) = "NONE" /\ Shows(m, "DOWN", t.ts)
             \/ StatusOf(l) \in {"UP", "SLOW"} /\ Shows(m, "DOWN", SinceOf(l))
<1>1. /\ l \in Seq(Row) /\ t.ts \in Nat /\ \A i \in DOMAIN l : l[i] \in Row /\ RowConsistent(l[i])
  BY RowsOf DEF GoodLog, Tx
<1>2. CASE t.seen = Null
  <2>1. OpenIds(l) = {}
    BY <1>2 DEF ReadIsCurrent
  <2> QED
    BY <1>1, <1>2, <2>1, FirstShows, ShowsNothing DEF DownLog, Shows
<1>3. CASE t.seen # Null /\ t.seen.state = "DOWN"
  BY <1>3 DEF DownLog, ShowsSame
<1>4. CASE t.seen # Null /\ t.seen.state # "DOWN"
  <2> DEFINE m == Convert(l, t, b)
  <2>a. t.id \in DOMAIN l /\ IsOpen(l[t.id]) /\ l[t.id].state = t.seen.state
    BY <1>4 DEF ReadIsCurrent, SnapshotHolds
  <2>1. /\ t.id \in DOMAIN l /\ t.id \in OpenIds(l) /\ l # <<>> /\ IsOpen(l[t.id])
        /\ l[t.id].status \in {"UP", "SLOW"}
    <3>1. t.id \in OpenIds(l) /\ l # <<>>
      BY <2>a DEF OpenIds
    <3>2. l[t.id].status # "DOWN"
      BY <1>1, <1>4, <2>a DEF RowConsistent
    <3>3. l[t.id].status \in {"UP", "SLOW", "DOWN"}
      BY <1>1, <2>a DEF Row
    <3> QED
      BY <2>a, <3>1, <3>2, <3>3
  <2>2. OpenIds(l) = {t.id}
    BY <2>1 DEF OneOpen
  <2>3. Shows(l, l[t.id].status, l[t.id].start)
    BY <1>1, <2>1, <2>2, ShowsOpen
  <2>4. m \in Seq(Row) /\ OneOpen(m)
    BY <2>1, ConvertSound DEF GoodLog
  <2>5. m[t.id].status = "DOWN" /\ m[t.id].start = l[t.id].start /\ t.id \in OpenIds(m)
    <3>1. l[t.id] \in Row
      BY <1>1, <2>1
    <3>2. /\ t.id \in DOMAIN m
          /\ m[t.id] = [l[t.id] EXCEPT !.state = "DOWN", !.status = "DOWN", !.block = b]
      BY <2>1 DEF Convert
    <3>3. /\ m[t.id].status = "DOWN" /\ m[t.id].start = l[t.id].start
          /\ m[t.id].end = l[t.id].end /\ m[t.id].deleted = l[t.id].deleted
      BY <3>1, <3>2 DEF Row
    <3> QED
      BY <2>1, <3>2, <3>3 DEF OpenIds, IsOpen, IsLive
  <2>6. OpenIds(m) = {t.id}
    BY <2>4, <2>5 DEF OneOpen
  <2> HIDE DEF m
  <2>7. Shows(m, "DOWN", l[t.id].start)
    BY <2>4, <2>5, <2>6, ShowsOpen
  <2> QED
    BY <1>4, <2>1, <2>3, <2>7 DEF DownLog, Shows, m
<1> QED
  BY <1>2, <1>3, <1>4

\* A split that the index lets pass cuts the open row or leaves it alone.
LEMMA SplitShows ==
  ASSUME NEW l, GoodLog(l), NEW t \in Tx, OneOpen(l), t.seen # Null, t.seen.state = "DOWN",
         SnapshotHolds(l, t), ~Conflict(SplitLog(l, t))
  PROVE  LET m == SplitLog(l, t)
         IN  \/ ShowsSame(l, m)
             \/ StatusOf(l) = "DOWN" /\ Shows(m, "DOWN", t.ts)
<1> DEFINE c == [l EXCEPT ![t.id].end = t.ts]
           r == [t.seen EXCEPT !.start = t.ts]
           m == Append(c, r)
<1>1. /\ l \in Seq(Row) /\ t.ts \in Nat /\ Null \notin Nat /\ t.seen \in Row /\ t.id \in DOMAIN l
      /\ \A i \in DOMAIN l : l[i] \in Row /\ RowConsistent(l[i])
  BY RowsOf, NullAssumption DEF GoodLog, Tx, SnapshotHolds
<1>2. /\ r \in Row /\ r.start = t.ts /\ r.status = "DOWN" /\ r.end = t.seen.end /\ IsLive(r)
  BY <1>1 DEF Row, SnapshotHolds, RowConsistent, IsLive
<1>3. [l[t.id] EXCEPT !.end = t.ts] \in Row
  BY <1>1 DEF Row
<1>4. /\ c \in Seq(Row) /\ DOMAIN c = DOMAIN l /\ Len(c) = Len(l)
      /\ \A i \in DOMAIN l : c[i] = IF i = t.id THEN [l[i] EXCEPT !.end = t.ts] ELSE l[i]
  <2>1. c = [l EXCEPT ![t.id] = [l[t.id] EXCEPT !.end = t.ts]]
    OBVIOUS
  <2> QED
    BY <1>1, <1>3, <2>1, ExceptSeq, RowsOf
<1>5. OpenIds(c) = OpenIds(l) \ {t.id}
  <2>1. ASSUME NEW i \in DOMAIN l PROVE IsOpen(c[i]) <=> IsOpen(l[i]) /\ i # t.id
    <3>1. l[i] \in Row /\ c[i] = IF i = t.id THEN [l[i] EXCEPT !.end = t.ts] ELSE l[i]
      BY <1>1, <1>4
    <3> HIDE DEF c
    <3> QED
      BY <1>1, <3>1 DEF IsOpen, IsLive, Row
  <2> HIDE DEF c
  <2> QED
    BY <1>4, <2>1 DEF OpenIds
<1>6. PICK i \in OpenIds(l) : OpenIds(l) = {i}
  BY DEF OneOpen
<1>7. Shows(l, l[i].status, l[i].start)
  BY <1>1, <1>6, ShowsOpen
<1>8. /\ m \in Seq(Row) /\ DOMAIN m = 1 .. Len(c) + 1 /\ m[Len(c) + 1] = r
      /\ \A j \in DOMAIN c : j \in DOMAIN m /\ m[j] = c[j]
      /\ DOMAIN c = 1 .. Len(c) /\ Len(c) \in Nat
  BY <1>2, <1>4, AppendRow
<1>9. \A j, k \in OpenIds(m) : j = k
  BY DEF Conflict, SplitLog
<1> HIDE DEF m, c, r
<1>10. CASE r.end = Null
  <2>1. Len(c) + 1 \in OpenIds(m) /\ IsOpen(r)
    BY <1>2, <1>8, <1>10 DEF OpenIds, IsOpen
  <2>2. \A j \in OpenIds(c) : j \in OpenIds(m) /\ j # Len(c) + 1
    BY <1>8 DEF OpenIds
  <2>3. OpenIds(c) = {}
    BY <1>9, <2>1, <2>2
  <2>4. i = t.id
    BY <1>5, <1>6, <2>3
  <2>5. l[i].state = "DOWN"
    BY <2>4 DEF SnapshotHolds
  <2>6. l[i].status = "DOWN"
    BY <1>1, <2>4, <2>5 DEF RowConsistent
  <2>7. Shows(m, "DOWN", t.ts)
    BY <1>2, <1>4, <2>1, <2>3, ShowsAppended DEF m
  <2> QED
    BY <1>7, <2>6, <2>7 DEF Shows, SplitLog, m, c, r
<1>11. CASE r.end # Null
  <2>1. l[t.id].end # Null
    BY <1>2, <1>11 DEF SnapshotHolds
  <2>2. i # t.id /\ i \in DOMAIN c /\ c[i] = l[i]
    BY <1>4, <1>6, <2>1 DEF OpenIds, IsOpen
  <2>3. i \in OpenIds(m) /\ m[i] = l[i]
    BY <1>6, <1>8, <2>2 DEF OpenIds
  <2>4. OpenIds(m) = {i}
    BY <1>9, <2>3
  <2>5. Shows(m, l[i].status, l[i].start)
    BY <1>8, <2>3, <2>4, ShowsOpen
  <2> QED
    BY <1>7, <2>5 DEF Shows, ShowsSame, SplitLog, m, c, r
<1> QED
  BY <1>10, <1>11

\* A reason changes nothing of what the log shows.
LEMMA ReasonShows ==
  ASSUME NEW l, GoodLog(l), NEW t \in Tx, NEW scope, NEW reason \in Reasons \cup {Null},
         l # <<>> => OneOpen(l), t.seen # Null, t.seen.state = "DOWN", SnapshotHolds(l, t)
  PROVE  ShowsSame(l, ReasonLog(l, t, scope, reason))
<1> DEFINE m == ReasonLog(l, t, scope, reason)
<1>1. l \in Seq(Row) /\ m \in Seq(Row) /\ OpenIds(m) = OpenIds(l)
  BY ReasonLogSound DEF GoodLog
<1>2. \A i \in DOMAIN l : l[i] \in Row
  BY <1>1, RowsOf
<1>3. \A i \in DOMAIN l : m[i].status = l[i].status /\ m[i].start = l[i].start
  BY <1>2 DEF ReasonLog, Row
<1>4. \A i \in OpenIds(l) : m[i].status = l[i].status /\ m[i].start = l[i].start
  BY <1>3 DEF OpenIds
<1> HIDE DEF m
<1> QED
  BY <1>1, <1>4, ShowsKept DEF m

\* After a reconciliation the station is UP since the end of the window.
LEMMA ReconcileShows ==
  ASSUME NEW l, GoodLog(l), NEW t \in Tx, NEW b \in Nat
  PROVE  Shows(ReconcileLog(l, t, b), "UP", t.hi)
<1> DEFINE d == Append(Purged(l, t), [NewRow(t.ts, "UP", "UP", b) EXCEPT !.end = t.hi])
           r == NewRow(t.hi, "UP", "UP", b)
           m == ReconcileLog(l, t, b)
<1>1. m \in Seq(Row) /\ OneOpen(m) /\ t.hi \in Nat /\ t.ts \in Nat
  BY ReconcileLogSound DEF GoodLog, Tx
<1>2. m = Append(d, r)
  BY DEF ReconcileLog
<1>3. d \in Seq(Row)
  <2>1. Purged(l, t) \in Seq(Row)
    <3>a. \A i \in DOMAIN l : l[i] \in Row
      BY RowsOf DEF GoodLog
    <3>1. \A i \in DOMAIN l : [l[i] EXCEPT !.deleted = TRUE] \in Row
      BY <3>a DEF Row
    <3>2. \A i \in DOMAIN l : Purged(l, t)[i] \in Row
      BY <3>a, <3>1 DEF Purged
    <3>3. Purged(l, t) = [i \in DOMAIN l |-> Purged(l, t)[i]] /\ l \in Seq(Row)
      BY DEF Purged, GoodLog
    <3> QED
      BY <3>2, <3>3, RowMap
  <2>2. [NewRow(t.ts, "UP", "UP", b) EXCEPT !.end = t.hi] \in Row
    BY <1>1 DEF NewRow, Row
  <2> QED
    BY <2>1, <2>2, AppendRow
<1>4. r \in Row /\ IsOpen(r) /\ r.status = "UP" /\ r.start = t.hi
  BY <1>1, NewRowType DEF NewRow, IsOpen, IsLive
<1> HIDE DEF d, r, m
<1>5. Len(d) + 1 \in OpenIds(m) /\ m[Len(d) + 1] = r
  BY <1>2, <1>3, <1>4, AppendRow DEF OpenIds
<1>6. OpenIds(m) = {Len(d) + 1}
  BY <1>1, <1>5 DEF OneOpen
<1>7. Shows(m, "UP", t.hi)
  BY <1>1, <1>4, <1>5, <1>6, ShowsOpen
<1> QED
  BY <1>7 DEF m

\* Every timestamp a transaction carries is one the clock can show.
InTime ==
  /\ clock \in 0 .. MaxTime
  /\ window # Null => window.min \in 0 .. MaxTime /\ window.max \in 0 .. MaxTime
  /\ \A p \in Proc : tx[p].ts \in 0 .. MaxTime /\ tx[p].hi \in 0 .. MaxTime

\* Every step keeps the timestamps within the clock.
LEMMA InTimeStep ==
  ASSUME Inductive, InTime, [Next]_vars
  PROVE  InTime'
<1>1. tx \in [Proc -> Tx] /\ 0 \in 0 .. MaxTime /\ MaxTime \in Nat
  BY BoundAssumption DEF Inductive, TypeOK
<1>2. CASE Tick \/ UNCHANGED vars
  BY <1>1, <1>2 DEF InTime, Tick, vars
<1>3. CASE TrackReplayed
  <2>1. PICK t \in 0 .. MaxTime :
          window' = IF window = Null THEN [min |-> t, max |-> t]
                    ELSE [min |-> IF t < window.min THEN t ELSE window.min,
                          max |-> IF t > window.max THEN t ELSE window.max]
    BY <1>3 DEF TrackReplayed
  <2>2. window'.min \in 0 .. MaxTime /\ window'.max \in 0 .. MaxTime
    BY <2>1 DEF InTime
  <2> QED
    BY <1>3, <2>2 DEF InTime, TrackReplayed
<1>4. ASSUME NEW p \in Proc,
             \/ BeginCycle(p) \/ BeginOpenClose(p) \/ BeginTimer(p)
             \/ BeginSplit(p) \/ BeginReason(p) \/ BeginReconcile(p)
      PROVE  InTime'
  <2>1. ASSUME NEW op, NEW step, NEW id, NEW ts \in 0 .. MaxTime, NEW hi \in 0 .. MaxTime,
               Begin(p, op, step, ts, hi, id)
        PROVE  InTime'
    <3>1. \A q \in Proc : /\ tx'[q].ts = IF q = p THEN ts ELSE tx[q].ts
                          /\ tx'[q].hi = IF q = p THEN hi ELSE tx[q].hi
      BY <1>1, <2>1 DEF Begin
    <3>2. UNCHANGED clock /\ (window' = window \/ window' = Null)
      BY <1>4 DEF BeginCycle, BeginOpenClose, BeginTimer, BeginSplit, BeginReason, BeginReconcile
    <3> QED
      BY <3>1, <3>2 DEF InTime
  <2>2. CASE BeginCycle(p)
    BY <1>1, <2>1, <2>2 DEF BeginCycle
  <2>3. CASE BeginOpenClose(p)
    BY <1>1, <2>1, <2>3 DEF BeginOpenClose
  <2>4. CASE BeginTimer(p)
    BY <1>1, <2>1, <2>4 DEF BeginTimer, InTime
  <2>5. CASE BeginSplit(p)
    BY <1>1, <2>1, <2>5 DEF BeginSplit
  <2>6. CASE BeginReason(p)
    BY <1>1, <2>1, <2>6 DEF BeginReason
  <2>7. CASE BeginReconcile(p)
    BY <2>1, <2>7 DEF BeginReconcile, InTime
  <2> QED
    BY <1>4, <2>2, <2>3, <2>4, <2>5, <2>6, <2>7
<1>5. ASSUME NEW p \in Proc, Acquire(p)
      PROVE  InTime'
  <2>1. \A q \in Proc : tx'[q].ts = tx[q].ts /\ tx'[q].hi = tx[q].hi
    BY <1>1, <1>5 DEF Acquire, Tx
  <2> QED
    BY <1>5, <2>1 DEF InTime, Acquire
<1>6. ASSUME NEW p \in Proc, Commit(p) \/ Fail(p)
      PROVE  InTime'
  <2>1. PICK l : End(p, l)
    BY <1>6, CommitEffect
  <2>2. \A q \in Proc : tx'[q] = tx[q] \/ tx'[q] = Idle
    BY <1>1, <2>1 DEF End
  <2> QED
    BY <1>1, <2>1, <2>2 DEF InTime, End, Idle
<1> QED
  BY <1>2, <1>3, <1>4, <1>5, <1>6 DEF Next, Proc

\* What CurrentState allows, said of what the log shows before and after.
LEMMA ShownSteps ==
  ASSUME NEW t \in 0 .. MaxTime,
         \/ ShowsSame(log, log')
         \/ \E slow \in BOOLEAN : Shows(log', IF slow THEN "SLOW" ELSE "UP", t)
         \/ StatusOf(log) = "NONE" /\ (Shows(log', "SLOW", t) \/ Shows(log', "DOWN", t))
         \/ StatusOf(log) \in {"UP", "SLOW"} /\ Shows(log', "SLOW", SinceOf(log))
         \/ StatusOf(log) \in {"UP", "SLOW"} /\ Shows(log', "DOWN", SinceOf(log))
         \/ StatusOf(log) = "DOWN" /\ Shows(log', "DOWN", t)
  PROVE  Station!Next \/ ShowsSame(log, log')
<1> USE DEF Station!Next, Shows, ShowsSame, StatusOf, SinceOf
<1>1. CASE ShowsSame(log, log')
  BY <1>1
<1>2. CASE \E slow \in BOOLEAN : Shows(log', IF slow THEN "SLOW" ELSE "UP", t)
  <2>1. PICK slow \in BOOLEAN : Shows(log', IF slow THEN "SLOW" ELSE "UP", t)
    BY <1>2
  <2>2. Station!Produce(t, slow)
    BY <2>1 DEF Station!Produce
  <2> QED
    BY <2>2
<1>3. CASE StatusOf(log) = "NONE" /\ Shows(log', "SLOW", t)
  <2>1. Station!GoSlow(t)
    BY <1>3 DEF Station!GoSlow
  <2> QED
    BY <2>1
<1>4. CASE StatusOf(log) = "NONE" /\ Shows(log', "DOWN", t)
  <2>1. Station!GoDown(t)
    BY <1>4 DEF Station!GoDown
  <2> QED
    BY <2>1
<1>5. CASE StatusOf(log) \in {"UP", "SLOW"} /\ Shows(log', "SLOW", SinceOf(log))
  <2>1. Station!GoSlow(t)
    BY <1>5 DEF Station!GoSlow
  <2> QED
    BY <2>1
<1>6. CASE StatusOf(log) \in {"UP", "SLOW"} /\ Shows(log', "DOWN", SinceOf(log))
  <2>1. Station!GoDown(t)
    BY <1>6 DEF Station!GoDown
  <2> QED
    BY <2>1
<1>7. CASE StatusOf(log) = "DOWN" /\ Shows(log', "DOWN", t)
  <2>1. Station!Cut(t)
    BY <1>7 DEF Station!Cut
  <2> QED
    BY <2>1
<1> QED
  BY <1>1, <1>2, <1>3, <1>4, <1>5, <1>6, <1>7

\* A commit, and a rollback, is one step of the current state, or none.
LEMMA CommitRefines ==
  ASSUME Inductive, InTime, NEW p \in Proc, Commit(p) \/ Fail(p)
  PROVE  Station!Next \/ ShowsSame(log, log')
<1> DEFINE t == tx[p]
           Refines == Station!Next \/ ShowsSame(log, log')
<1>1. /\ GoodLog(log) /\ log \in Seq(Row) /\ t \in Tx /\ nextBlock \in Nat
      /\ log # <<>> => OneOpen(log)
      /\ SnapshotHolds(log, t)
      /\ HoldsLock(p) /\ ReadsUnderLock(t.op) => ReadIsCurrent(log, t)
      /\ t.op \in {"split", "reason"} => t.seen # Null /\ t.seen.state = "DOWN"
      /\ t.ts \in 0 .. MaxTime /\ t.hi \in 0 .. MaxTime
  BY DEF Inductive, TypeOK, RowsConsistent, CurrentStateUnique, OneOpen,
         TransactionsSound, GoodLog, InTime
<1>2. CASE log' = log
  BY <1>2 DEF ShowsSame
<1>3. \A l : End(p, l) /\ log' # log => log' = l /\ ~Conflict(l)
  BY DEF End
<1>4. CASE CommitUp(p) /\ log' # log
  <2>1. PICK slow \in BOOLEAN : End(p, CycleLog(log, t, nextBlock, slow))
    BY <1>4 DEF CommitUp
  <2>2. Shows(log', IF slow THEN "SLOW" ELSE "UP", t.ts)
    BY <1>1, <1>3, <1>4, <2>1, CycleShows
  <2> QED
    BY <1>1, <2>2, ShownSteps
<1>5. CASE CommitSlow(p) /\ log' # log
  <2>1. ReadIsCurrent(log, t) /\ End(p, SlowLog(log, t, nextBlock))
    BY <1>1, <1>5 DEF CommitSlow, Ready, HoldsLock, ReadsUnderLock
  <2>2. log' = SlowLog(log, t, nextBlock)
    BY <1>3, <1>5, <2>1
  <2>3. \/ ShowsSame(log, log')
        \/ StatusOf(log) = "NONE" /\ Shows(log', "SLOW", t.ts)
        \/ StatusOf(log) \in {"UP", "SLOW"} /\ Shows(log', "SLOW", SinceOf(log))
    BY <1>1, <2>1, <2>2, SlowShows
  <2> QED
    BY <1>1, <2>3, ShownSteps
<1>6. CASE CommitDown(p) /\ log' # log
  <2>1. ReadIsCurrent(log, t) /\ End(p, DownLog(log, t, nextBlock))
    BY <1>1, <1>6 DEF CommitDown, Ready, HoldsLock, ReadsUnderLock
  <2>2. log' = DownLog(log, t, nextBlock)
    BY <1>3, <1>6, <2>1
  <2>3. \/ ShowsSame(log, log')
        \/ StatusOf(log) = "NONE" /\ Shows(log', "DOWN", t.ts)
        \/ StatusOf(log) \in {"UP", "SLOW"} /\ Shows(log', "DOWN", SinceOf(log))
    BY <1>1, <2>1, <2>2, DownShows
  <2> QED
    BY <1>1, <2>3, ShownSteps
<1>7. CASE CommitSplit(p) /\ log' # log
  <2>1. t.seen # Null /\ t.seen.state = "DOWN" /\ OneOpen(log)
    BY <1>1, <1>7 DEF CommitSplit, Ready, SnapshotHolds
  <2>2. SplitAllowed(t, clock) /\ End(p, SplitLog(log, t))
    BY <1>3, <1>7 DEF CommitSplit
  <2>3. log' = SplitLog(log, t) /\ ~Conflict(SplitLog(log, t))
    BY <1>3, <1>7, <2>2
  <2>4. ShowsSame(log, log') \/ (StatusOf(log) = "DOWN" /\ Shows(log', "DOWN", t.ts))
    BY <1>1, <2>1, <2>3, SplitShows
  <2> QED
    BY <1>1, <2>4, ShownSteps
<1>8. CASE CommitReason(p) /\ log' # log
  <2>1. PICK scope \in Scopes, reason \in Reasons \cup {Null} : End(p, ReasonLog(log, t, scope, reason))
    BY <1>8 DEF CommitReason
  <2>2. t.seen # Null /\ t.seen.state = "DOWN" /\ log' = ReasonLog(log, t, scope, reason)
    BY <1>1, <1>3, <1>8, <2>1 DEF CommitReason, Ready
  <2> QED
    BY <1>1, <2>2, ReasonShows
<1>9. CASE CommitReconcile(p) /\ log' # log
  <2>1. log' = ReconcileLog(log, t, nextBlock)
    BY <1>3, <1>9 DEF CommitReconcile
  <2>2. Shows(log', "UP", t.hi)
    BY <1>1, <2>1, ReconcileShows
  <2>3. \E slow \in BOOLEAN : Shows(log', IF slow THEN "SLOW" ELSE "UP", t.hi)
    BY <2>2
  <2> QED
    BY <1>1, <2>3, ShownSteps
<1>10. CASE Fail(p) /\ log' # log
  BY <1>3, <1>10 DEF Fail
<1> QED
  BY <1>2, <1>4, <1>5, <1>6, <1>7, <1>8, <1>9, <1>10 DEF Commit

\* Towards those who read the current status, snapshots, waits and rollbacks
\* do not exist: the log is one status that cycles, timers, splits and replays
\* change atomically, and none of them by a stale read.
THEOREM LogRefinesCurrentState == Spec => ImplementsCurrentState
<1>1. Init => Station!Init
  BY DEF Init, Station!Init, OpenId, OpenIds
<1>2. Init => InTime
  BY BoundAssumption DEF Init, InTime, Idle
<1>3. Inductive /\ InTime /\ [Next]_vars => InTime'
  BY InTimeStep
<1>4. ASSUME Inductive, InTime, [Next]_vars
      PROVE  [Station!Next]_<<IF OpenId(log) = 0 THEN "NONE" ELSE log[OpenId(log)].status,
                              IF OpenId(log) = 0 THEN 0 ELSE log[OpenId(log)].start>>
  <2>1. CASE UNCHANGED log
    BY <2>1
  <2>2. ASSUME NEW p \in Proc, Commit(p) \/ Fail(p)
        PROVE  Station!Next \/ ShowsSame(log, log')
    BY <1>4, <2>2, CommitRefines
  <2>3. UNCHANGED log \/ Station!Next \/ ShowsSame(log, log')
    BY <1>4, <2>2
    DEF Next, vars, Tick, TrackReplayed, BeginCycle, BeginOpenClose, BeginTimer, BeginSplit,
        BeginReason, BeginReconcile, Acquire
  <2> QED
    BY <2>1, <2>3 DEF ShowsSame, StatusOf, SinceOf
<1> QED
  BY <1>1, <1>2, <1>3, <1>4, InductiveInvariant, PTL DEF Spec, ImplementsCurrentState, Station!Spec

-----------------------------------------------------------------------------
(* The reconciliations of replayed cycles: ReplayReconcile, whose job is the  *)
(* reconciler of the log, for any trackers and any bounds.                    *)

CONSTANTS
  Trackers, MaxCycles, MaxFaults  \* of ReplayReconcile

VARIABLES
  up, cycles, track, job, work, reconciled, faults,  \* of ReplayReconcile
  covered  \* the cycles that the replay window covers

Replay == INSTANCE ReplayReconcile WITH window <- covered

\* What ReplayReconcile assumes of its bounds.
ReplayBounds == {MaxCycles, MaxFaults} \subseteq Nat

\* What a tracker is about to put into the window is a cycle, and the worker
\* holds cycles only between taking the window and the end of the job; at the
\* end they are reconciled.
HandsSound ==
  /\ \A p \in Trackers : track[p].step = "window" => track[p].cycle \in Replay!Cycles
  /\ work.step \in {"idle", "take"} => work.taken = {}
  /\ work.step = "done" => work.taken \subseteq reconciled

ReplayInductive == Replay!TypeOK /\ HandsSound /\ Replay!NoReplayForgotten

\* The operations of the queue keep a job a job.
LEMMA JobOperations ==
  /\ Replay!NoJob \in Replay!Job
  /\ \A j \in Replay!Job :
       {Replay!Removed(j), Replay!Added(j, 0), Replay!Started(j), Replay!Restarted(j),
        Replay!Completed(j), Replay!KeptAsFailed(j)} \subseteq Replay!Job
BY DEF Replay!Job, Replay!NoJob, Replay!Removed, Replay!Added, Replay!Started,
       Replay!Restarted, Replay!Completed, Replay!KeptAsFailed

LEMMA ReplayInit ==
  ASSUME ReplayBounds, Replay!Init
  PROVE  ReplayInductive
BY JobOperations
   DEF ReplayBounds, Replay!Init, ReplayInductive, Replay!TypeOK, HandsSound,
       Replay!NoReplayForgotten, Replay!BeingTracked, Replay!Cycles, Replay!Quiet, Replay!Resting

\* A replayed cycle is handed from its tracker to the window.
LEMMA TrackSound ==
  ASSUME ReplayBounds, ReplayInductive, NEW p \in Trackers, Replay!Commit(p) \/ Replay!Track(p)
  PROVE  ReplayInductive'
<1> USE DEF ReplayBounds, ReplayInductive, Replay!TypeOK, HandsSound, Replay!NoReplayForgotten,
            Replay!BeingTracked, Replay!Cycles
<1>1. CASE Replay!Commit(p)
  <2>1. cycles' \in 0 .. MaxCycles /\ cycles' \in Replay!Cycles /\ cycles' = cycles + 1
    BY <1>1 DEF Replay!Commit
  <2>2. track' = [track EXCEPT ![p] = [step |-> "window", cycle |-> cycles']]
    BY <1>1, <2>1 DEF Replay!Commit
  <2>3. UNCHANGED <<up, covered, job, work, reconciled, faults>>
    BY <1>1 DEF Replay!Commit
  <2>4. Replay!TypeOK' /\ HandsSound'
    BY <2>1, <2>2, <2>3
  <2>5. Replay!BeingTracked \cup {cycles'} \subseteq Replay!BeingTracked'
    BY <1>1, <2>2 DEF Replay!Commit, Replay!Quiet
  <2>6. 1 .. cycles' = (1 .. cycles) \cup {cycles'}
    BY <2>1
  <2> QED
    BY <2>3, <2>4, <2>5, <2>6
<1>2. CASE Replay!WidenWindow(p)
  <2>1. Replay!TypeOK' /\ HandsSound'
    BY <1>2 DEF Replay!WidenWindow
  <2>2. Replay!BeingTracked \cup covered \subseteq Replay!BeingTracked' \cup covered'
    BY <1>2 DEF Replay!WidenWindow
  <2> QED
    BY <1>2, <2>1, <2>2 DEF Replay!WidenWindow
<1>3. CASE Replay!RemoveJob(p)
  <2>1. Replay!TypeOK' /\ HandsSound'
    BY <1>3, JobOperations DEF Replay!RemoveJob
  <2>2. Replay!BeingTracked \subseteq Replay!BeingTracked'
    BY <1>3 DEF Replay!RemoveJob
  <2> QED
    BY <1>3, <2>1, <2>2 DEF Replay!RemoveJob
<1>4. CASE Replay!AddJob(p)
  <2>1. Replay!TypeOK' /\ HandsSound'
    BY <1>4, JobOperations DEF Replay!AddJob, Replay!Quiet
  <2>2. Replay!BeingTracked \subseteq Replay!BeingTracked'
    BY <1>4 DEF Replay!AddJob
  <2> QED
    BY <1>4, <2>1, <2>2 DEF Replay!AddJob
<1> QED
  BY <1>1, <1>2, <1>3, <1>4 DEF Replay!Track

\* The worker takes the window, and gives up what it took only when it is reconciled.
LEMMA WorkSound ==
  ASSUME ReplayBounds, ReplayInductive, Replay!Work
  PROVE  ReplayInductive'
<1> USE DEF ReplayBounds, ReplayInductive, Replay!TypeOK, HandsSound, Replay!NoReplayForgotten,
            Replay!BeingTracked, Replay!Cycles
<1>1. CASE Replay!Fire
  BY <1>1, JobOperations DEF Replay!Fire
<1>2. CASE Replay!TakeWindow
  BY <1>2 DEF Replay!TakeWindow
<1>3. CASE Replay!Rebuild
  BY <1>3 DEF Replay!Rebuild
<1>4. CASE Replay!Finish
  BY <1>4, JobOperations DEF Replay!Finish, Replay!Resting
<1> QED
  BY <1>1, <1>2, <1>3, <1>4 DEF Replay!Work

\* After a failure nothing is promised; a restart takes nothing away.
LEMMA FaultSound ==
  ASSUME ReplayBounds, ReplayInductive,
         \/ Replay!Throw \/ Replay!Crash \/ Replay!Expire \/ Replay!Start \/ Replay!Recover
         \/ \E p \in Trackers : Replay!Drop(p)
  PROVE  ReplayInductive'
<1> USE DEF ReplayBounds, ReplayInductive, Replay!TypeOK, HandsSound, Replay!NoReplayForgotten,
            Replay!BeingTracked, Replay!Cycles
<1>1. CASE Replay!Throw
  BY <1>1, JobOperations DEF Replay!Throw, Replay!Fault, Replay!Resting
<1>2. CASE Replay!Crash
  <2>1. faults' = faults + 1 /\ faults < MaxFaults /\ up' = FALSE
    BY <1>2 DEF Replay!Crash, Replay!Fault
  <2>2. UNCHANGED <<cycles, track, covered, job, reconciled>> /\ work' = Replay!Resting
    BY <1>2 DEF Replay!Crash
  <2>3. up' \in BOOLEAN
    BY <2>1, Zenon
  <2>4. work' \in [step: {"idle", "take", "rebuild", "done"}, taken: SUBSET Replay!Cycles]
        /\ work'.step = "idle" /\ work'.taken = {}
    BY <2>2 DEF Replay!Resting
  <2>5. Replay!TypeOK' /\ HandsSound'
    BY <2>1, <2>2, <2>3, <2>4
  <2> QED
    BY <2>1, <2>5
<1>3. CASE Replay!Expire
  BY <1>3 DEF Replay!Expire, Replay!Fault
<1>4. CASE Replay!Start
  BY <1>4, JobOperations DEF Replay!Start
<1>5. CASE Replay!Recover
  BY <1>5, JobOperations DEF Replay!Recover
<1>6. ASSUME NEW p \in Trackers, Replay!Drop(p) PROVE ReplayInductive'
  <2>1. /\ Replay!Quiet \in [step: {"idle", "window", "remove", "add"}, cycle: 0 .. MaxCycles]
        /\ Replay!Quiet.step = "idle"
    BY DEF Replay!Quiet
  <2>2. track' = [track EXCEPT ![p] = Replay!Quiet] /\ faults' = faults + 1 /\ faults < MaxFaults
    BY <1>6 DEF Replay!Drop, Replay!Fault
  <2>3. UNCHANGED <<up, cycles, covered, job, work, reconciled>>
    BY <1>6 DEF Replay!Drop
  <2>4. Replay!TypeOK' /\ HandsSound'
    BY <2>1, <2>2, <2>3
  <2> QED
    BY <2>2, <2>4
<1> QED
  BY <1>1, <1>2, <1>3, <1>4, <1>5, <1>6

\* The invariant holds in every state that the code can reach.
THEOREM ReplayInvariant ==
  ASSUME ReplayBounds
  PROVE  Replay!Spec => []ReplayInductive
<1>1. ReplayInductive /\ UNCHANGED Replay!vars => ReplayInductive'
  BY DEF Replay!vars, ReplayInductive, Replay!TypeOK, HandsSound, Replay!NoReplayForgotten,
         Replay!BeingTracked
<1>2. ReplayInductive /\ [Replay!Next]_(Replay!vars) => ReplayInductive'
  BY <1>1, TrackSound, WorkSound, FaultSound DEF Replay!Next
<1> QED
  BY <1>2, ReplayInit, PTL DEF Replay!Spec

\* The trackers, the window, the job and its worker stay in their types.
THEOREM ReplayTypes ==
  ASSUME ReplayBounds
  PROVE  Replay!Spec => []Replay!TypeOK
<1>1. ReplayInductive => Replay!TypeOK
  BY DEF ReplayInductive
<1> QED
  BY <1>1, ReplayInvariant, PTL

\* Until something fails every replayed cycle is on its way or reconciled,
\* however many trackers debounce the job while its worker runs.
THEOREM NothingForgotten ==
  ASSUME ReplayBounds
  PROVE  Replay!Spec => []Replay!NoReplayForgotten
<1>1. ReplayInductive => Replay!NoReplayForgotten
  BY DEF ReplayInductive
<1> QED
  BY <1>1, ReplayInvariant, PTL

=============================================================================
