----------------------------- MODULE HourBuckets -----------------------------
(***************************************************************************)
(* The hours that metric buckets are cut into.  With a shift schedule the  *)
(* hours tick from an anchor, the start of the first shift of the business *)
(* day, and the first and the last hour of a shift may be cut short.       *)
(* Without one they tick from the site's midnight, which is computed with  *)
(* the zone's offset at the timestamp itself.                              *)
(*                                                                         *)
(* Source: metrics/shift.ts.  Times are milliseconds; the offset that the  *)
(* zone database has at a timestamp is a parameter.                        *)
(***************************************************************************)
EXTENDS Integers

MsPerHour == 3600000
MsPerDay == 86400000

Bucket(start, end) == [start |-> start, end |-> end]

\* The last tick of the anchor's hours at or before t.
GridLine(anchor, t) == anchor + ((t - anchor) \div MsPerHour) * MsPerHour

\* The first tick within the shift.
FirstLine(anchor, start) ==
  IF GridLine(anchor, start) < start THEN GridLine(anchor, start) + MsPerHour
  ELSE GridLine(anchor, start)

FullHours(first, end) == (end - first) \div MsPerHour

\* getHourBucketsForShift: what is left of an hour, full hours, what an hour
\* has begun; or all of a shift that ends before the next tick.
HourBuckets(start, end, anchor) ==
  LET first == FirstLine(anchor, start)
      last == first + FullHours(first, end) * MsPerHour
  IN  IF first > end THEN {Bucket(start, end)}
      ELSE {b \in {Bucket(start, first), Bucket(last, end)} : b.start < b.end} \cup
           {Bucket(first + k * MsPerHour, first + (k + 1) * MsPerHour) :
              k \in 0 .. (FullHours(first, end) - 1)}

\* getLocalMidnightUTC, with the offset at the timestamp.
LocalMidnight(t, offset) == ((t + offset) \div MsPerDay) * MsPerDay - offset

\* getClockHourBucketsForDay: 24 hours, however long the day is.
ClockHours(t, offset) ==
  {Bucket(LocalMidnight(t, offset) + k * MsPerHour,
          LocalMidnight(t, offset) + (k + 1) * MsPerHour) : k \in 0 .. 23}

\* resolveClockHourBucket
ClockHour(t, offset) ==
  LET midnight == LocalMidnight(t, offset)
      hour == (t - midnight) \div MsPerHour
  IN  Bucket(midnight + hour * MsPerHour, midnight + (hour + 1) * MsPerHour)

Covers(b, t) == b.start <= t /\ t < b.end

=============================================================================
