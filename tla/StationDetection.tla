-------------------------- MODULE StationDetection --------------------------
(***************************************************************************)
(* The slow and down timers of one station: every live cycle completion    *)
(* commits, and then, outside its transaction, cancels the station's two   *)
(* delayed jobs and schedules those that have a threshold, if any;         *)
(* detection workers run the jobs that come due.  The station itself is    *)
(* CurrentState, which StationLog implements: a transition is one atomic   *)
(* step of it.                                                             *)
(*                                                                         *)
(* Source: queues/station-detection.ts, facility/station/state-detection.ts*)
(* and the post-commit part of cycle/cycle.ts.                             *)
(***************************************************************************)
EXTENDS Naturals, Sequences, Functions, DelayedJobs

CONSTANTS
  Completers,  \* processes that complete cycles
  SlowAfter,   \* the slow threshold, standardCycle * (1 + slowDetect)
  DownAfter,   \* standardCycle + downtimeDetect
  MaxTime,     \* bound on the clock
  MaxCycles,   \* bound on the completed cycles
  MaxStalls,   \* bound on the workers that die while they run a job
  MaxLosses    \* bound on the completers that die before they have scheduled,
               \* and on the transitions that fail

ASSUME DelayAssumption == SlowAfter \in Nat \ {0} /\ DownAfter \in Nat \ {0}
ASSUME DetectionBounds ==
  {MaxTime, MaxCycles, MaxStalls, MaxLosses} \subseteq Nat

VARIABLES
  clock,
  status, since,  \* the station, as in CurrentState
  lastCycle,      \* when the last cycle was committed
  planned,        \* the timers its detection plan asks for
  jobs,           \* the jobs slow-S and down-S
  work,           \* what the worker of each queue is doing
  todo,           \* what is left of each completer's scheduleDetection
  cycles, stalls, losses

vars == <<clock, status, since, lastCycle, planned, jobs, work, todo, cycles, stalls,
          losses>>
station == <<status, since, lastCycle, planned>>
counts == <<cycles, stalls, losses>>

Kinds == {"slow", "down"}

\* The timers a detection plan schedules, in the order they are added.  A job or
\* a station that has no threshold for a timer has none of its kind; without a
\* standard cycle, or a station blob, both are only cancelled.
Plans == {<<>>, <<"slow">>, <<"down">>, <<"slow", "down">>}
Has(k, plan) == k \in Range(plan)

DelayOf(k) == IF k = "slow" THEN SlowAfter ELSE DownAfter

Station == INSTANCE CurrentState WITH Instants <- 0 .. MaxTime

Resting == [step |-> "idle", at |-> 0]
NothingLeft == [remove |-> {}, add |-> <<>>, at |-> 0]
Left(t) == IF t.remove = {} /\ t.add = <<>> THEN NothingLeft ELSE t
RemovedOne(t, k) == Left([t EXCEPT !.remove = @ \ {k}])
AddedFirst(t) == Left([t EXCEPT !.add = Tail(@)])

Init ==
  /\ clock = 0
  /\ Station!Init /\ lastCycle = 0 /\ planned = <<>>
  /\ jobs = [k \in Kinds |-> NoJob]
  /\ work = [k \in Kinds |-> Resting]
  /\ todo = [p \in Completers |-> NothingLeft]
  /\ cycles = 0 /\ stalls = 0 /\ losses = 0

-----------------------------------------------------------------------------
(* Cycle completions *)

\* The cycle was longer than the slow threshold.
WasSlow == status # "NONE" /\ clock - lastCycle > SlowAfter

\* A cycle commits, with the detection plan computed in its transaction.  It is
\* no slow one where no slow threshold was set when the completion began.  The
\* last one leaves the clock room for its timers.
Complete(p) ==
  /\ todo[p] = NothingLeft
  /\ cycles < MaxCycles
  /\ clock + DownAfter <= MaxTime
  /\ \E slow \in {WasSlow, FALSE} : Station!Produce(clock, slow)
  /\ lastCycle' = clock
  /\ cycles' = cycles + 1
  /\ planned' \in Plans
  /\ todo' = [todo EXCEPT ![p] = [remove |-> Kinds, add |-> planned', at |-> clock]]
  /\ UNCHANGED <<clock, jobs, work, stalls, losses>>

\* Mutant: only the slow job is removed.
RemoveSlowOnly(p, k) ==
  /\ k \in todo[p].remove
  /\ jobs' = [jobs EXCEPT ![k] = IF k = "slow" THEN Removed(@) ELSE @]
  /\ todo' = [todo EXCEPT ![p] = RemovedOne(@, k)]
  /\ UNCHANGED <<clock, station, work, counts>>

\* scheduleDetection, or the cancel that is all a plan without a standard cycle
\* comes to, removes both jobs, in either order ...
Remove(p, k) ==
  /\ k \in todo[p].remove
  /\ jobs' = [jobs EXCEPT ![k] = Removed(@)]
  /\ todo' = [todo EXCEPT ![p] = RemovedOne(@, k)]
  /\ UNCHANGED <<clock, station, work, counts>>

\* Mutant: the jobs are added without awaiting the removals.
AddUnordered(p, k) ==
  LET due == todo[p].at + DelayOf(k)
  IN  /\ todo[p].add # <<>> /\ k = Head(todo[p].add)
      /\ jobs' = [jobs EXCEPT ![k] = Added(@, IF due < clock THEN clock ELSE due)]
      /\ todo' = [todo EXCEPT ![p] = AddedFirst(@)]
      /\ UNCHANGED <<clock, station, work, counts>>

\* ... and then the schedule adds the slow job, and then the down job, those the
\* plan has, for the planned time or at once when it has passed.
Add(p, k) ==
  LET due == todo[p].at + DelayOf(k)
  IN  /\ todo[p].remove = {}
      /\ todo[p].add # <<>> /\ k = Head(todo[p].add)
      /\ jobs' = [jobs EXCEPT ![k] = Added(@, IF due < clock THEN clock ELSE due)]
      /\ todo' = [todo EXCEPT ![p] = AddedFirst(@)]
      /\ UNCHANGED <<clock, station, work, counts>>

\* The process dies after the commit: its timers are never scheduled.
Lose(p) ==
  /\ todo[p] # NothingLeft
  /\ losses < MaxLosses
  /\ losses' = losses + 1
  /\ todo' = [todo EXCEPT ![p] = NothingLeft]
  /\ UNCHANGED <<clock, station, jobs, work, cycles, stalls>>

-----------------------------------------------------------------------------
(* Detection workers *)

\* A job comes due; its handler takes the time.
Fire(k) ==
  /\ IsDue(jobs[k], clock)
  /\ jobs' = [jobs EXCEPT ![k] = Started(@)]
  /\ work' = [work EXCEPT ![k] = [step |-> "fired", at |-> clock]]
  /\ UNCHANGED <<clock, station, todo, counts>>

\* transitionToSlow or transitionToDown: nothing ties the job to the cycle
\* that scheduled it.
Transition(k) ==
  /\ work[k].step = "fired"
  /\ IF k = "slow" THEN Station!GoSlow(work[k].at) ELSE Station!GoDown(work[k].at)
  /\ work' = [work EXCEPT ![k].step = "done"]
  /\ UNCHANGED <<clock, lastCycle, planned, jobs, todo, counts>>

\* The handler returns, and BullMQ removes the job.
Finish(k) ==
  /\ work[k].step = "done"
  /\ jobs' = [jobs EXCEPT ![k] = Completed(@)]
  /\ work' = [work EXCEPT ![k] = Resting]
  /\ UNCHANGED <<clock, station, todo, counts>>

\* The worker dies before or after the transition, and the job runs again.
Stall(k) ==
  /\ work[k].step # "idle"
  /\ stalls < MaxStalls
  /\ stalls' = stalls + 1
  /\ jobs' = [jobs EXCEPT ![k] = Restarted(@)]
  /\ work' = [work EXCEPT ![k] = Resting]
  /\ UNCHANGED <<clock, station, todo, cycles, losses>>

\* The transition fails; nothing retries it (removeOnFail).
Throw(k) ==
  /\ work[k].step = "fired"
  /\ losses < MaxLosses
  /\ losses' = losses + 1
  /\ jobs' = [jobs EXCEPT ![k] = Completed(@)]
  /\ work' = [work EXCEPT ![k] = Resting]
  /\ UNCHANGED <<clock, station, todo, cycles, stalls>>

Tick ==
  /\ clock < MaxTime
  /\ clock' = clock + 1
  /\ UNCHANGED <<station, jobs, work, todo, counts>>

Schedule(p) == \E k \in Kinds : Remove(p, k) \/ Add(p, k)
Work(k) == Fire(k) \/ Transition(k) \/ Finish(k)

Next ==
  \/ Tick
  \/ \E p \in Completers : Complete(p) \/ Schedule(p) \/ Lose(p)
  \/ \E k \in Kinds : Work(k) \/ Stall(k) \/ Throw(k)

Spec == Init /\ [][Next]_vars

\* Time passes, a live process goes on with its promise chain, and a live
\* worker takes and finishes what is due.  Cycles and deaths may never come.
FairSpec ==
  /\ Spec
  /\ WF_vars(Tick)
  /\ \A p \in Completers : WF_vars(Schedule(p))
  /\ \A k \in Kinds : WF_vars(Work(k))

-----------------------------------------------------------------------------
(* Properties *)

\* The station, its two jobs, their workers and what the completers have left to
\* schedule stay in their types.
TypeOK ==
  /\ clock \in 0 .. MaxTime /\ since \in 0 .. MaxTime /\ lastCycle \in 0 .. MaxTime
  /\ status \in {"NONE", "UP", "SLOW", "DOWN"}
  /\ planned \in Plans
  /\ jobs \in [Kinds -> Job]
  /\ work \in [Kinds -> [step: {"idle", "fired", "done"}, at: 0 .. MaxTime]]
  /\ todo \in [Completers -> [remove: SUBSET Kinds, add: Plans, at: 0 .. MaxTime]]
  /\ cycles \in 0 .. MaxCycles /\ stalls \in 0 .. MaxStalls /\ losses \in 0 .. MaxLosses

\* A completion that planned no down timer has still to cancel the one there is.
Cancels(p) == "down" \in todo[p].remove /\ ~Has("down", todo[p].add)

\* A down timer that is waiting, and that no completion without one has still to
\* cancel, takes the station DOWN unless another cycle comes, a completer dies or
\* a transition fails, whatever workers die and whatever older completions still
\* remove and add.
TimerActs ==
  \A n \in 1 .. MaxCycles, m \in 0 .. MaxLosses :
    (/\ jobs["down"].state = "delayed" /\ cycles = n /\ losses = m
     /\ \A p \in Completers : ~Cancels(p))
      ~> (status = "DOWN" \/ cycles > n \/ losses > m)

\* The station is DOWN: no cycle came for the configured threshold.
DownOnlyAfterThreshold == status = "DOWN" => clock >= lastCycle + DownAfter

\* The station produces, and its last completion planned a down timer.
NeedsTimer == status \in {"UP", "SLOW"} /\ Has("down", planned)

\* Once the completions have scheduled their timers, a station that needs a down
\* timer has one.
NoTimerLost ==
  NeedsTimer /\ (\A p \in Completers : todo[p] = NothingLeft)
    => jobs["down"].state # "none"

\* No process dies before it has scheduled its timers, no transition fails, and
\* completions schedule one at a time and while no down job runs.
Undisturbed ==
  /\ losses = 0
  /\ \A p \in Completers : todo[p] # NothingLeft =>
       /\ jobs["down"].state # "active"
       /\ \A q \in Completers : q # p => todo[q] = NothingLeft

\* What detection that nothing disturbs promises, although removing and adding
\* jobs is no transaction and workers may die: no station is left without the
\* timer its last completion planned, and none is DOWN early.
QuietTimersAreExact == []Undisturbed => [](NoTimerLost /\ DownOnlyAfterThreshold)

-----------------------------------------------------------------------------
(* What the code does not guarantee: TLC refutes DownOnlyAfterThreshold and    *)
(* NoTimerLost as invariants, and TimerActs without its premise on cancels.  A *)
(* timer that is there is lost in three ways only.                             *)

\* The down timer is there, or a completion is about to add it.
Guarded ==
  jobs["down"].state # "none" \/ \E p \in Completers : Has("down", todo[p].add)

\* The timer the last completion planned is lost with a completer or a transition
\* that fails, with a running job that the cycle could neither remove nor
\* replace, or to an older completion that planned none and cancels late.
OnlyOverlapsLoseTimers ==
  [][NeedsTimer /\ Guarded /\ NeedsTimer' /\ ~Guarded' =>
       \/ losses' > losses
       \/ jobs["down"].state = "active" /\ work["down"].step = "done"
       \/ \E p \in Completers : Cancels(p) /\ ~Cancels(p)']_vars

=============================================================================
