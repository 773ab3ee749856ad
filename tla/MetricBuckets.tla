---------------------------- MODULE MetricBuckets ----------------------------
(***************************************************************************)
(* The metric buckets of a station and of its site.  A completion counts   *)
(* itself into the hour's bucket, the tick sums hours into shifts and      *)
(* stations into parents, the ensure pass creates the rows, a rebuild      *)
(* (after a job change or a replay) replaces an hour's count by what the   *)
(* Cycle rows say and rolls it up again, an update of the durations (after *)
(* a state change or a new reason) drops a live row that shadows an        *)
(* archived one, and the archive moves rows that are a day old to a second *)
(* table, from which a replay takes them back.  Only single statements are *)
(* atomic; no lock is held between them.                                   *)
(*                                                                         *)
(* Source: metrics/bucket.ts, cascade.ts, batcher.ts, recalc.ts, rollup.ts *)
(* and archive.ts, unarchiveAffectedBuckets of cycle/replay.ts.  Of a      *)
(* bucket's columns the cycle count is kept, of the parents the hours of   *)
(* the site; days are summed like shifts and left out.                     *)
(***************************************************************************)
EXTENDS Naturals, Sequences, FiniteSetsExt

CONSTANTS
  MaxHour,        \* the clock stops here
  HoursPerShift,
  Day,            \* the 24 hours of the archive's and the parents' window
  Rebuilt,        \* hours that get replayed cycles, a job change or a new reason
  Rebuilders,     \* recalculations that may run at once
  Updaters,       \* updates of durations that may run at once
  Archiver,
  Null,
  MaxOpen,        \* open cycles that a completion may find
  MaxCycles,      \* nothing is completed once so much was made
  MaxPasses,      \* rebuilds, updates and archive passes that are ever begun
  MaxFaults       \* those of them that die

Hours == 1..MaxHour
ShiftOf(h) == h - ((h - 1) % HoursPerShift)
Keys == ({"STATION", "SITE"} \X {"HOUR"} \X Hours)
        \cup ({"STATION"} \X {"SHIFT"} \X {ShiftOf(h) : h \in Hours})
Procs == Rebuilders \cup Updaters \cup {Archiver}

ASSUME BucketAssumption ==
  /\ MaxHour \in Nat \ {0} /\ HoursPerShift \in Nat \ {0} /\ Day \in Nat
  /\ HoursPerShift <= Day /\ Rebuilt \subseteq Hours
  /\ MaxOpen \in Nat /\ MaxCycles \in Nat /\ MaxPasses \in Nat /\ MaxFaults \in Nat
  /\ Archiver \notin Rebuilders \cup Updaters /\ Rebuilders \cap Updaters = {}
  /\ Null \notin Nat \cup Keys

VARIABLES
  now,       \* the current hour
  produced,  \* Cycle rows that ended in each hour
  empty,     \* completions of each hour that ended no Cycle row
  live,      \* MetricBucket: the count of each row there is
  log,       \* MetricBucketLog
  proc,      \* rebuilds, updates and the archive pass
  tick,      \* phase of the combined tick and the hour it began in
  passes,    \* begun so far
  faults     \* died so far

vars == <<now, produced, empty, live, log, proc, tick, passes, faults>>

Count == Nat \cup {Null}
NoRows == [k \in Keys |-> Null]

\* hour: what is rebuilt or updated, and covers: whether the recalculated range
\* has a bucket at all.  moving: rows on their way between the tables, or found
\* in both, and rows: their counts as read.  todo: rows still to roll up, value
\* and place: what the next one is to become and where it was found.  had: the
\* hour had a row that the rebuild can reach.  raced: somebody else wrote since.
Idle == [pc |-> "idle", hour |-> Null, covers |-> TRUE, moving |-> {}, rows |-> NoRows,
         todo |-> <<>>, value |-> Null, place |-> Null, had |-> FALSE, raced |-> FALSE]

Length(k) == IF k[2] = "HOUR" THEN 1 ELSE HoursPerShift

\* The rows that the archive moves: a day old and over.
Aged(k) == k[3] + Day <= now /\ k[3] + Length(k) <= now

\* An hour at which nothing was made yet, with rows of earlier hours in the archive.
Init ==
  /\ now \in Hours
  /\ produced = [h \in Hours |-> 0] /\ empty = [h \in Hours |-> 0]
  /\ live = NoRows
  /\ \E archived \in SUBSET {k \in Keys : Aged(k)} :
       log = [k \in Keys |-> IF k \in archived THEN 0 ELSE Null]
  /\ proc = [p \in Procs |-> Idle]
  /\ tick = [pc |-> "idle", at |-> 1]
  /\ passes = 0 /\ faults = 0

-----------------------------------------------------------------------------
(* Rows *)

HoursOf(s) == {h \in Hours : ShiftOf(h) = s}
HourKeys(s) == {<<"STATION", "HOUR", h>> : h \in HoursOf(s)}
Present(t, ks) == {k \in ks : t[k] # Null}

\* What a reader of both tables sees: a live row hides its archived copy.
Either(k) == IF live[k] # Null THEN live[k] ELSE log[k]
SumOf(t, ks) == MapThenSumSet(LAMBDA k : t[k], Present(t, ks))

\* A write of p invalidates what the other processes have read.
Step(p, next) ==
  proc' = [q \in Procs |-> IF q = p THEN next
                           ELSE IF proc[q].pc = "idle" THEN proc[q]
                           ELSE [proc[q] EXCEPT !.raced = TRUE]]
Disturb(h) ==
  proc' = [q \in Procs |-> IF proc[q].hour = h THEN [proc[q] EXCEPT !.raced = TRUE] ELSE proc[q]]

-----------------------------------------------------------------------------
(* Completions, the clock and new rows *)

\* Mutant: the end of a bucket counts as inside it.
HitClosed(k, h) == k[1] = "STATION" /\ k[2] = "HOUR" /\ k[3] <= h /\ k[3] + 1 >= h

\* The bucket that a completion of hour h increments, if it is there.
Hit(k, h) == k[1] = "STATION" /\ k[2] = "HOUR" /\ k[3] <= h /\ k[3] + 1 > h

Made == SumOf(produced, Hours) + SumOf(empty, Hours)

\* A completion is one transaction: it ends its cycle, or whatever is open, or
\* nothing when another one has been faster, and counts itself as one all the same.
Complete ==
  /\ Made < MaxCycles
  /\ \E ended \in 0..MaxOpen \cup {1} :
       /\ produced' = [produced EXCEPT ![now] = @ + ended]
       /\ empty' = [empty EXCEPT ![now] = @ + IF ended = 0 THEN 1 ELSE 0]
  /\ live' = [k \in Keys |-> IF Hit(k, now) /\ live[k] # Null THEN live[k] + 1 ELSE live[k]]
  /\ Disturb(now)
  /\ UNCHANGED <<now, log, tick, passes, faults>>

\* A replayed cycle of an earlier hour waits for a rebuild.
Replay ==
  /\ Made < MaxCycles
  /\ \E h \in Rebuilt \cap 1..now :
       /\ produced' = [produced EXCEPT ![h] = @ + 1]
       /\ Disturb(h)
  /\ UNCHANGED <<now, empty, live, log, tick, passes, faults>>

NextHour ==
  /\ now < MaxHour
  /\ now' = now + 1
  /\ UNCHANGED <<produced, empty, live, log, proc, tick, passes, faults>>

Wanted(e, h) == {k \in Keys : k[1] = e /\ ShiftOf(k[3]) = ShiftOf(h)}

\* ensureBuckets: the rows of the current shift that are not there yet; those
\* of a site once it has any.
Ensure ==
  \E e \in {"STATION", "SITE"} :
    LET wanted == Wanted(e, now)
    IN  /\ e = "SITE" => \E k \in Present(live, Keys) : k[1] = "SITE"
        /\ Present(live, wanted) # wanted
        /\ live' = [k \in Keys |-> IF k \in wanted /\ live[k] = Null THEN 0 ELSE live[k]]
        /\ UNCHANGED <<now, produced, empty, log, proc, tick, passes, faults>>

-----------------------------------------------------------------------------
(* The combined tick: two statements per pass *)

StartTick ==
  /\ tick.pc = "idle"
  /\ tick' = [pc |-> "shift", at |-> now]
  /\ UNCHANGED <<now, produced, empty, live, log, proc, passes, faults>>

\* cascadeStationShiftDay: the live hours of the shift that the tick began in.
CascadeShift ==
  LET s == ShiftOf(tick.at)
      k == <<"STATION", "SHIFT", s>>
  IN  /\ tick.pc = "shift"
      /\ live' = IF live[k] # Null /\ Present(live, HourKeys(s)) # {}
                 THEN [live EXCEPT ![k] = SumOf(live, HourKeys(s))] ELSE live
      /\ tick' = [tick EXCEPT !.pc = "parents"]
      /\ UNCHANGED <<now, produced, empty, log, proc, passes, faults>>

Station(k) == <<"STATION", k[2], k[3]>>

\* Mutant: only the hour that the tick began in is brought to the parents.
InDayNow(k) == k[3] = tick.at

\* The rows that are brought to the parents.
InDay(k) == k[3] + Day >= tick.at

\* cascadeParentRollup
CascadeParents ==
  /\ tick.pc = "parents"
  /\ live' = [k \in Keys |->
       IF k[1] = "SITE" /\ live[k] # Null /\ live[Station(k)] # Null /\ InDay(k)
       THEN live[Station(k)] ELSE live[k]]
  /\ tick' = [pc |-> "idle", at |-> 1]
  /\ UNCHANGED <<now, produced, empty, log, proc, passes, faults>>

-----------------------------------------------------------------------------
(* Rolling up, as part of a rebuild, an update or the archive pass *)

Targets(h) == <<<<"STATION", "SHIFT", ShiftOf(h)>>, <<"SITE", "HOUR", h>>>>

\* The sum that a row is to become, from both tables.
Rolled(k) ==
  IF k[1] = "STATION"
  THEN SumOf([j \in Keys |-> Either(j)], HourKeys(k[3]))
  ELSE IF Either(Station(k)) = Null THEN 0 ELSE Either(Station(k))

\* The sum is read, and whether the row is archived.
Look(p) ==
  LET k == Head(proc[p].todo)
  IN  /\ proc[p].pc = "roll" /\ proc[p].todo # <<>>
      /\ proc' = [proc EXCEPT ![p] = [@ EXCEPT !.pc = "put", !.value = Rolled(k),
           !.place = IF live[k] = Null /\ log[k] # Null THEN "log" ELSE "live"]]
      /\ UNCHANGED <<now, produced, empty, live, log, tick, passes, faults>>

\* A row that was found archived is updated there if it still is; any other is
\* updated or created among the live ones.
Put(p) ==
  LET k == Head(proc[p].todo)
      v == proc[p].value
  IN  /\ proc[p].pc = "put"
      /\ IF proc[p].place = "log"
         THEN /\ log' = [log EXCEPT ![k] = IF @ = Null THEN Null ELSE v]
              /\ UNCHANGED live
         ELSE /\ live' = [live EXCEPT ![k] = v]
              /\ UNCHANGED log
      /\ Step(p, [proc[p] EXCEPT !.pc = "roll", !.todo = Tail(@), !.value = Null, !.place = Null])
      /\ UNCHANGED <<now, produced, empty, tick, passes, faults>>

-----------------------------------------------------------------------------
(* A rebuild of one hour *)

\* Mutant: a bucket that began before the window is not restored.
AffectedAfter(k, h) == k[3] > h

\* The rows whose time overlaps the rebuilt hour.
Affected(k, h) == k[3] <= h /\ k[3] + Length(k) > h

\* A job change recalculates what is live, a replay unarchives first.  The range
\* of a replay goes from its first cycle to its last: it is empty when there is
\* but one.
BeginRebuild(r) ==
  /\ proc[r].pc = "idle" /\ passes < MaxPasses
  /\ \E h \in Rebuilt \cap 1..now, pc \in {"unarchive", "compute"}, covers \in BOOLEAN :
       LET k == <<"STATION", "HOUR", h>>
       IN  /\ pc = "compute" => covers
           /\ Step(r, [Idle EXCEPT !.pc = pc, !.hour = h, !.covers = covers,
                                   !.had = live[k] # Null \/ (pc = "unarchive" /\ log[k] # Null)])
  /\ passes' = passes + 1
  /\ UNCHANGED <<now, produced, empty, live, log, tick, faults>>

\* What follows the unarchive: over an empty range nothing is recalculated.
Recalculation(r) == IF proc[r].covers THEN "compute" ELSE "roll"

\* unarchiveAffectedBuckets: read, insert unless there is one, delete.
ReadLog(r) ==
  LET found == {k \in Present(log, Keys) : Affected(k, proc[r].hour)}
  IN  /\ proc[r].pc = "unarchive"
      /\ proc' = [proc EXCEPT ![r] = [@ EXCEPT
           !.pc = IF found = {} THEN Recalculation(r) ELSE "restore", !.moving = found,
           !.rows = [k \in Keys |-> IF k \in found THEN log[k] ELSE Null]]]
      /\ UNCHANGED <<now, produced, empty, live, log, tick, passes, faults>>

Restore(r) ==
  /\ proc[r].pc = "restore"
  /\ live' = [k \in Keys |-> IF k \in proc[r].moving /\ live[k] = Null
                             THEN proc[r].rows[k] ELSE live[k]]
  /\ Step(r, [proc[r] EXCEPT !.pc = "forget", !.rows = NoRows])
  /\ UNCHANGED <<now, produced, empty, log, tick, passes, faults>>

Forget(r) ==
  /\ proc[r].pc = "forget"
  /\ log' = [k \in Keys |-> IF k \in proc[r].moving THEN Null ELSE log[k]]
  /\ Step(r, [proc[r] EXCEPT !.pc = Recalculation(r), !.moving = {}])
  /\ UNCHANGED <<now, produced, empty, live, tick, passes, faults>>

\* computeBucketFromEvents
Compute(r) ==
  /\ proc[r].pc = "compute"
  /\ proc' = [proc EXCEPT ![r] = [@ EXCEPT !.pc = "replace", !.value = produced[proc[r].hour]]]
  /\ UNCHANGED <<now, produced, empty, live, log, tick, passes, faults>>

\* recalcAll updates the live row only, if there is one.
Replace(r) ==
  LET k == <<"STATION", "HOUR", proc[r].hour>>
  IN  /\ proc[r].pc = "replace"
      /\ live' = [live EXCEPT ![k] = IF @ = Null THEN Null ELSE proc[r].value]
      /\ Step(r, [proc[r] EXCEPT !.pc = "roll", !.value = Null, !.todo = Targets(proc[r].hour)])
      /\ UNCHANGED <<now, produced, empty, log, tick, passes, faults>>

EndRebuild(r) ==
  /\ proc[r].pc = "roll" /\ proc[r].todo = <<>>
  /\ proc' = [proc EXCEPT ![r] = Idle]
  /\ UNCHANGED <<now, produced, empty, live, log, tick, passes, faults>>

-----------------------------------------------------------------------------
(* updateTimeBased: the durations of one hour, counts untouched *)

\* Nothing is created if the hour or a later one is archived already.
BeginUpdate(u) ==
  /\ proc[u].pc = "idle" /\ passes < MaxPasses
  /\ \E h \in Rebuilt \cap 1..now :
       LET archived == \E j \in Hours : j >= h /\ log[<<"STATION", "HOUR", j>>] # Null
       IN  proc' = [proc EXCEPT ![u] =
             [Idle EXCEPT !.pc = IF archived THEN "find" ELSE "create", !.hour = h]]
  /\ passes' = passes + 1
  /\ UNCHANGED <<now, produced, empty, live, log, tick, faults>>

\* The rows of the hour's own shift, which may have been archived since, or in
\* part.
Create(u) ==
  LET wanted == Wanted("STATION", proc[u].hour)
  IN  /\ proc[u].pc = "create"
      /\ live' = [k \in Keys |-> IF k \in wanted /\ live[k] = Null THEN 0 ELSE live[k]]
      /\ Step(u, [proc[u] EXCEPT !.pc = "find"])
      /\ UNCHANGED <<now, produced, empty, log, tick, passes, faults>>

\* The archived row is read first.
FindArchived(u) ==
  LET k == <<"STATION", "HOUR", proc[u].hour>>
  IN  /\ proc[u].pc = "find"
      /\ proc' = [proc EXCEPT ![u] = [@ EXCEPT !.pc = "match", !.raced = FALSE,
           !.moving = IF log[k] # Null THEN {k} ELSE {}]]
      /\ UNCHANGED <<now, produced, empty, live, log, tick, passes, faults>>

\* Then the live one.  Unless nothing has changed, the durations are written to
\* the archived row, or else to the live one; a live row beside an archived one
\* is a phantom.
FindLive(u) ==
  LET k == <<"STATION", "HOUR", proc[u].hour>>
      archived == k \in proc[u].moving
      roll == [proc[u] EXCEPT !.pc = "roll", !.moving = {}, !.todo = Targets(proc[u].hour)]
  IN  /\ proc[u].pc = "match"
      /\ \E next \in IF archived /\ live[k] # Null
                       THEN {Idle, [proc[u] EXCEPT !.pc = "drop"]}
                     ELSE IF archived \/ live[k] # Null THEN {Idle, roll} ELSE {Idle} :
           proc' = [proc EXCEPT ![u] = next]
      /\ UNCHANGED <<now, produced, empty, live, log, tick, passes, faults>>

\* The phantom is deleted, so that it cannot shadow the archived row.
DropPhantom(u) ==
  LET k == <<"STATION", "HOUR", proc[u].hour>>
  IN  /\ proc[u].pc = "drop"
      /\ live' = [live EXCEPT ![k] = Null]
      /\ Step(u, [proc[u] EXCEPT !.pc = "roll", !.moving = {}, !.todo = Targets(proc[u].hour)])
      /\ UNCHANGED <<now, produced, empty, log, tick, passes, faults>>

EndUpdate(u) ==
  /\ proc[u].pc = "roll" /\ proc[u].todo = <<>>
  /\ proc' = [proc EXCEPT ![u] = Idle]
  /\ UNCHANGED <<now, produced, empty, live, log, tick, passes, faults>>

-----------------------------------------------------------------------------
(* The archive pass *)

Old == {k \in Present(live, Keys) : Aged(k)}

\* The candidates are read by id.  Those of the station are frozen, which does
\* not change counts, and rolled up hour by hour.
BeginArchive ==
  LET hours == {h \in Hours : <<"STATION", "HOUR", h>> \in Old}
  IN  /\ proc[Archiver].pc = "idle" /\ passes < MaxPasses /\ Old # {}
      /\ \E todo \in IF hours = {} THEN {<<>>} ELSE {Targets(h) : h \in hours} :
           Step(Archiver, [Idle EXCEPT !.pc = "roll", !.moving = Old, !.todo = todo])
      /\ passes' = passes + 1
      /\ UNCHANGED <<now, produced, empty, live, log, tick, faults>>

Reread ==
  /\ proc[Archiver].pc = "roll" /\ proc[Archiver].todo = <<>>
  /\ proc' = [proc EXCEPT ![Archiver] = [@ EXCEPT !.pc = "insert",
       !.rows = [k \in Keys |-> IF k \in proc[Archiver].moving THEN live[k] ELSE Null]]]
  /\ UNCHANGED <<now, produced, empty, live, log, tick, passes, faults>>

\* A row that is archived already stays as it is.
Insert ==
  /\ proc[Archiver].pc = "insert"
  /\ log' = [k \in Keys |-> IF log[k] = Null THEN proc[Archiver].rows[k] ELSE log[k]]
  /\ Step(Archiver, [proc[Archiver] EXCEPT !.pc = "delete", !.rows = NoRows])
  /\ UNCHANGED <<now, produced, empty, live, tick, passes, faults>>

\* Mutant: whatever is old by now is deleted.
DeletedOld == Old

\* The rows that were copied.
Deleted == proc[Archiver].moving

Delete ==
  /\ proc[Archiver].pc = "delete"
  /\ live' = [k \in Keys |-> IF k \in Deleted THEN Null ELSE live[k]]
  /\ Step(Archiver, Idle)
  /\ UNCHANGED <<now, produced, empty, log, tick, passes, faults>>

\* The process dies, or a statement fails, between two statements.
Fail(p) ==
  /\ proc[p].pc # "idle" /\ faults < MaxFaults
  /\ proc' = [proc EXCEPT ![p] = Idle]
  /\ faults' = faults + 1
  /\ UNCHANGED <<now, produced, empty, live, log, tick, passes>>

-----------------------------------------------------------------------------

Tick == StartTick \/ CascadeShift \/ CascadeParents

Rebuild(r) ==
  \/ BeginRebuild(r) \/ ReadLog(r) \/ Restore(r) \/ Forget(r)
  \/ Compute(r) \/ Replace(r) \/ EndRebuild(r)

Update(u) ==
  \/ BeginUpdate(u) \/ Create(u) \/ FindArchived(u) \/ FindLive(u)
  \/ DropPhantom(u) \/ EndUpdate(u)

Archive == BeginArchive \/ Reread \/ Insert \/ Delete

Next ==
  \/ Complete \/ Replay \/ NextHour \/ Ensure
  \/ Tick
  \/ \E r \in Rebuilders : Rebuild(r)
  \/ \E u \in Updaters : Update(u)
  \/ Archive
  \/ \E p \in Procs : Look(p) \/ Put(p) \/ Fail(p)

Spec == Init /\ [][Next]_vars

\* The interval of the tick: a failed or skipped pass is followed by another.
FairSpec == Spec /\ WF_vars(Tick)

-----------------------------------------------------------------------------
(* Properties *)

\* Counts, processes and the tick stay in their types.
TypeOK ==
  /\ now \in Hours
  /\ produced \in [Hours -> Nat] /\ empty \in [Hours -> Nat]
  /\ live \in [Keys -> Count] /\ log \in [Keys -> Count]
  /\ proc \in [Procs ->
       [pc: {"idle", "unarchive", "restore", "forget", "compute", "replace", "roll", "put",
             "create", "find", "match", "drop", "insert", "delete"},
        hour: Hours \cup {Null}, covers: BOOLEAN, moving: SUBSET Keys, rows: [Keys -> Count],
        todo: {<<>>} \cup {Targets(h) : h \in Hours} \cup {Tail(Targets(h)) : h \in Hours},
        value: Count, place: {"live", "log", Null}, had: BOOLEAN, raced: BOOLEAN]]
  /\ \A p \in Procs : proc[p].pc \in {"replace", "put"} => proc[p].value \in Nat
  /\ tick \in [pc: {"idle", "shift", "parents"}, at: Hours]
  /\ passes \in 0..MaxPasses /\ faults \in 0..MaxFaults

\* Increments, ticks, rebuilds, updates and moves between the tables race, and no
\* hour ever shows a cycle that was not made in it, or one twice: all that it can
\* show beyond its Cycle rows are completions that ended none.
NeverOvercounted ==
  \A h \in Hours, e \in {"STATION", "SITE"} :
    \A t \in {live, log} :
      t[<<e, "HOUR", h>>] # Null => t[<<e, "HOUR", h>>] <= produced[h] + empty[h]

\* A bucket stays in one table or the other through crashes and whatever else
\* happens.  Two things can lose one: a move between the tables, or the deletion
\* of a row that an update found in both, that another process wrote across.
OnlyCrossingsLoseBuckets ==
  [][\A k \in Keys : Either(k) # Null /\ Either(k)' = Null
       => \E p \in Procs : k \in proc[p].moving /\ proc[p].raced]_vars

\* A rebuild that nobody crossed and whose range is not empty leaves its hour,
\* archived before or not, among the live rows with exactly the Cycle rows that
\* ended in it.
QuietRebuildsAreExact ==
  [][\A r \in Rebuilders :
       LET k == <<"STATION", "HOUR", proc[r].hour>>
       IN  EndRebuild(r) /\ proc[r].covers /\ proc[r].had /\ ~proc[r].raced
             => live[k] = produced[proc[r].hour]]_vars

\* The current shift's count is the sum of its hours, and a parent's row its
\* station's for a day.
Settled ==
  LET s == ShiftOf(now)
      shift == <<"STATION", "SHIFT", s>>
  IN  /\ live[shift] # Null /\ Present(live, HourKeys(s)) # {}
           => live[shift] = SumOf(live, HourKeys(s))
      /\ \A k \in Keys : k[1] = "SITE" /\ k[3] + Day >= now /\ live[k] # Null /\ live[Station(k)] # Null
           => live[k] = live[Station(k)]

\* Once rebuilds and the archive rest the tick brings the sums into line, whatever a
\* rebuild has written over them with what it read before.
SumsSettle == <>[](\A p \in Procs : proc[p].pc = "idle") => <>[]Settled

-----------------------------------------------------------------------------
(* What the code does not guarantee: TLC refutes each of these. *)

\* An hour shows no more than its Cycle rows.
NoMoreThanRows ==
  \A h \in Hours :
    LET k == <<"STATION", "HOUR", h>> IN live[k] # Null => live[k] <= produced[h]

\* Every rebuild that nobody crossed is exact.
AllQuietRebuildsAreExact ==
  [][\A r \in Rebuilders :
       LET k == <<"STATION", "HOUR", proc[r].hour>>
       IN  EndRebuild(r) /\ proc[r].had /\ ~proc[r].raced
             => live[k] = produced[proc[r].hour]]_vars

\* Only moves between the tables lose a bucket.
OnlyMovesLoseBuckets ==
  [][\A k \in Keys : Either(k) # Null /\ Either(k)' = Null
       => \E p \in Rebuilders \cup {Archiver} : k \in proc[p].moving]_vars

\* The count of an hour comes to be the number of its Cycle rows.
CountsComplete == \A h \in Hours :
  LET k == <<"STATION", "HOUR", h>> IN <>[](live[k] # Null => live[k] = produced[h])

\* A shift that is over shows the sum of its hours.
FinishedShiftsAddUp ==
  <>[](\A h \in Hours :
         LET k == <<"STATION", "SHIFT", ShiftOf(h)>>
         IN  live[k] # Null /\ \A j \in HourKeys(ShiftOf(h)) : live[j] # Null
               => live[k] = SumOf(live, HourKeys(ShiftOf(h))))

\* No bucket gets lost.
BucketsStay == [][\A k \in Keys : Either(k) # Null => Either(k)' # Null]_vars

=============================================================================
