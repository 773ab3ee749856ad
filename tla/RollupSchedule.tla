--------------------------- MODULE RollupSchedule ---------------------------
(***************************************************************************)
(* What keeps the rollups process going: the metric-bucket-ensure tick,    *)
(* which re-adds itself and plans the next shift boundary of every scope,  *)
(* and the shift-change job of each scope, which asks for a tick when its  *)
(* boundary is reached.  All of them are delayed jobs with fixed ids.      *)
(*                                                                         *)
(* Source: queues/background-workers.ts and queues/shift-change.ts.  Time  *)
(* is left out: a delayed job comes due sooner or later, and every scope   *)
(* always has a next boundary.                                             *)
(***************************************************************************)
EXTENDS Naturals, DelayedJobs

CONSTANTS
  Scopes,    \* sites and work centers that have a shift schedule
  Null,      \* no job
  MaxFaults  \* bound on the handlers that throw and the process's crashes

Ensure == "ensure-metric-buckets-next"
JobIds == Scopes \cup {Ensure}

ASSUME ScheduleAssumption ==
  /\ Ensure \notin Scopes
  /\ Null \notin JobIds
  /\ MaxFaults \in Nat

VARIABLES
  up,    \* the rollups process runs
  job,   \* the jobs in Redis, by id
  run,   \* what the worker of each queue is doing
  faults

vars == <<up, job, run, faults>>

Queues == {"ensure", "change"}
JobsOf(q) == IF q = "ensure" THEN {Ensure} ELSE Scopes

\* job: the job a worker runs.  todo: the ids it still has to replace; open:
\* the one it has removed and not added yet.  final: the tick's finally block.
Free == [job |-> Null, todo |-> {}, open |-> Null, final |-> FALSE, threw |-> FALSE]

Init ==
  /\ up = FALSE
  /\ job = [id \in JobIds |-> NoJob]
  /\ run = [q \in Queues |-> Free]
  /\ faults = 0

\* startMetricBucketEnsure: the first tick is added under the fixed id.
Start ==
  /\ ~up
  /\ up' = TRUE
  /\ job' = [job EXCEPT ![Ensure] = Added(@, 0)]
  /\ UNCHANGED <<run, faults>>

\* Mutant: the shift-change handler does not ask for a tick.
TakeSilent(q) ==
  /\ up /\ run[q].job = Null
  /\ \E id \in JobsOf(q) :
       /\ IsDue(job[id], 0)
       /\ job' = [job EXCEPT ![id] = Started(@)]
       /\ run' = [run EXCEPT ![q] =
            [Free EXCEPT !.job = id, !.todo = IF q = "ensure" THEN Scopes ELSE {}]]
  /\ UNCHANGED <<up, faults>>

\* A worker takes a due job.  The tick replaces the boundary job of every
\* scope, the shift-change handler the tick.
Take(q) ==
  /\ up /\ run[q].job = Null
  /\ \E id \in JobsOf(q) :
       /\ IsDue(job[id], 0)
       /\ job' = [job EXCEPT ![id] = Started(@)]
       /\ run' = [run EXCEPT ![q] =
            [Free EXCEPT !.job = id, !.todo = IF q = "ensure" THEN Scopes ELSE {Ensure}]]
  /\ UNCHANGED <<up, faults>>

\* Mutant: the job is added without removing the previous one.
RemoveSkipped(q) ==
  /\ run[q].open = Null
  /\ \E id \in run[q].todo : run' = [run EXCEPT ![q].open = id]
  /\ UNCHANGED <<up, job, faults>>

\* scheduleShiftChanges and scheduleNextEnsureTick: remove the id ...
Remove(q) ==
  /\ run[q].open = Null
  /\ \E id \in run[q].todo :
       /\ job' = [job EXCEPT ![id] = Removed(@)]
       /\ run' = [run EXCEPT ![q].open = id]
  /\ UNCHANGED <<up, faults>>

\* ... and add it.
Add(q) ==
  LET id == run[q].open
  IN  /\ id # Null
      /\ job' = [job EXCEPT ![id] = Added(@, 0)]
      /\ run' = [run EXCEPT ![q].open = Null, ![q].todo = @ \ {id}]
      /\ UNCHANGED <<up, faults>>

\* The body of the tick is over or has thrown: the finally block asks for the
\* next tick, while this one is still active.
Finally ==
  /\ run["ensure"].job = Ensure /\ ~run["ensure"].final
  /\ run["ensure"].todo = {} \/ run["ensure"].threw
  /\ run' = [run EXCEPT !["ensure"].final = TRUE, !["ensure"].todo = {Ensure},
                        !["ensure"].open = Null]
  /\ UNCHANGED <<up, job, faults>>

\* Something the handler calls fails.  The tick catches what happens while it
\* materializes shifts; elsewhere the handler throws.
Throw(q) ==
  /\ run[q].job # Null /\ ~run[q].threw
  /\ faults < MaxFaults
  /\ faults' = faults + 1
  /\ \E caught \in BOOLEAN :
       /\ caught => q = "ensure" /\ ~run[q].final
       /\ run' = [run EXCEPT ![q].threw = ~caught, ![q].todo = {}, ![q].open = Null]
  /\ UNCHANGED <<up, job>>

\* The handler is over: the job is removed, or kept as failed.
Finish(q) ==
  /\ run[q].job # Null /\ run[q].todo = {}
  /\ q = "ensure" => run[q].final
  /\ job' = [job EXCEPT ![run[q].job] =
       IF run[q].threw THEN KeptAsFailed(@) ELSE Completed(@)]
  /\ run' = [run EXCEPT ![q] = Free]
  /\ UNCHANGED <<up, faults>>

\* The process dies; what its workers ran stays active in Redis.
Crash ==
  /\ up /\ faults < MaxFaults
  /\ up' = FALSE
  /\ faults' = faults + 1
  /\ run' = [q \in Queues |-> Free]
  /\ UNCHANGED job

\* The restarted process finds an active job that nobody runs: it runs again.
\* One that stalls a second time fails, which is what Throw does to it.
Recover(id) ==
  /\ up /\ job[id].state = "active"
  /\ \A q \in Queues : run[q].job # id
  /\ job' = [job EXCEPT ![id] = Restarted(@)]
  /\ UNCHANGED <<up, run, faults>>

Work(q) == Take(q) \/ Remove(q) \/ Add(q) \/ Finish(q)

Next ==
  \/ Start \/ Crash \/ Finally
  \/ \E q \in Queues : Work(q) \/ Throw(q)
  \/ \E id \in JobIds : Recover(id)

Spec == Init /\ [][Next]_vars

\* The platform restarts the process, and a live worker goes on.  A shift
\* change that is due is taken, whichever scope it is of.
FairSpec ==
  /\ Spec
  /\ WF_vars(Start) /\ WF_vars(Finally)
  /\ \A q \in Queues : WF_vars(Work(q))
  /\ \A id \in JobIds : WF_vars(Recover(id))

-----------------------------------------------------------------------------
(* Properties *)

\* The jobs and what the two workers run stay in their types.
TypeOK ==
  /\ up \in BOOLEAN
  /\ job \in [JobIds -> Job]
  /\ run \in [Queues -> [job: JobIds \cup {Null}, todo: SUBSET JobIds,
                         open: JobIds \cup {Null}, final: BOOLEAN, threw: BOOLEAN]]
  /\ faults \in 0 .. MaxFaults

TickRuns == run["ensure"].job = Ensure

\* A shift boundary that is planned brings a tick, in whatever state the last
\* tick and its job were left, unless something else fails meanwhile.
BoundaryBringsTick ==
  \A s \in Scopes, n \in 0 .. MaxFaults :
    (job[s].state = "delayed" /\ faults = n) ~> (TickRuns \/ faults > n)

\* The next tick is there, or a shift change is about to ask for it.
TickToCome == job[Ensure].state # "none" \/ Ensure \in run["change"].todo

\* Every scope has its next shift boundary planned, unless a tick that plans it
\* is to come.
BoundariesPlanned ==
  up => TickToCome \/ \A s \in Scopes : job[s].state # "none"

\* Nothing has failed, and no tick runs while a shift change does.
Apart == faults = 0 /\ (run["ensure"].job = Null \/ run["change"].job = Null)

\* What ticks and shift changes that keep apart promise, although a tick's own
\* re-add finds the active job and does nothing: the chain goes on, over the
\* shift boundaries the tick has planned.
ApartPlansStay == []Apart => []BoundariesPlanned

-----------------------------------------------------------------------------
(* What the code does not guarantee: TLC refutes each of these. *)

\* The tick chains itself: as long as the process stays up it runs again and
\* again.
TickChains == <>[]up => []<>TickRuns

\* The rollups process always has something planned to wake it up.
AlwaysPlanned ==
  up /\ (\A q \in Queues : run[q].job = Null)
    => \E id \in JobIds : job[id].state # "none"

\* A started process has its first tick before it.
StartSeedsTick == [][~up /\ up' => job'[Ensure].state # "failed"]_vars

=============================================================================
