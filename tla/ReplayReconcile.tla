--------------------------- MODULE ReplayReconcile ---------------------------
(***************************************************************************)
(* How replayed cycles of one station get reconciled: each of them, once   *)
(* committed, is put into the station's replay window in Redis and puts    *)
(* the station's one reconciliation job off; the job takes the window out  *)
(* of Redis and rebuilds what the cycles left undone.                      *)
(*                                                                         *)
(* Cycles are completed in the processor-consumer process, the job runs in *)
(* the api process.                                                        *)
(*                                                                         *)
(* Source: cycle/replay.ts, queues/replay-reconcile.ts and the replayed    *)
(* branch of cycle/cycle.ts.  A window is here the set of cycles it covers *)
(* since it was started, and the debounce delay is left out: a delayed job *)
(* comes due sooner or later.  What a reconciliation writes to the state   *)
(* log is in StationLog.                                                   *)
(***************************************************************************)
EXTENDS Naturals, DelayedJobs

CONSTANTS
  Trackers,   \* replayed completions that may be under way at once
  MaxCycles,  \* bound on the replayed cycles
  MaxFaults   \* bound on failures, crashes and expired windows

ASSUME ReplayBounds == {MaxCycles, MaxFaults} \subseteq Nat

VARIABLES
  up,          \* the api process, which runs the job, is up
  cycles,      \* how many replayed cycles were committed
  track,       \* what each tracker has left to do, and for which cycle
  window,      \* the cycles in the window; {}: no key
  job,         \* replay-S
  work,        \* the reconciliation worker, with the window it has taken
  reconciled,  \* cycles a finished reconciliation covered
  faults

vars == <<up, cycles, track, window, job, work, reconciled, faults>>

Cycles == 1 .. MaxCycles
Quiet == [step |-> "idle", cycle |-> 0]
Resting == [step |-> "idle", taken |-> {}]

Init ==
  /\ up = TRUE
  /\ cycles = 0
  /\ track = [p \in Trackers |-> Quiet]
  /\ window = {}
  /\ job = NoJob
  /\ work = Resting
  /\ reconciled = {}
  /\ faults = 0

-----------------------------------------------------------------------------
(* trackReplayedCycle *)

\* A replayed cycle commits; its tracking is started and not awaited.
Commit(p) ==
  /\ track[p] = Quiet /\ cycles < MaxCycles
  /\ cycles' = cycles + 1
  /\ track' = [track EXCEPT ![p] = [step |-> "window", cycle |-> cycles + 1]]
  /\ UNCHANGED <<up, window, job, work, reconciled, faults>>

\* Mutant: the window is overwritten instead of widened.
OverwriteWindow(p) ==
  /\ track[p].step = "window"
  /\ window' = {track[p].cycle}
  /\ track' = [track EXCEPT ![p].step = "remove"]
  /\ UNCHANGED <<up, cycles, job, work, reconciled, faults>>

\* The Lua script widens the window, or starts one.
WidenWindow(p) ==
  /\ track[p].step = "window"
  /\ window' = window \cup {track[p].cycle}
  /\ track' = [track EXCEPT ![p].step = "remove"]
  /\ UNCHANGED <<up, cycles, job, work, reconciled, faults>>

\* The debounce: the job is removed ...
RemoveJob(p) ==
  /\ track[p].step = "remove"
  /\ job' = Removed(job)
  /\ track' = [track EXCEPT ![p].step = "add"]
  /\ UNCHANGED <<up, cycles, window, work, reconciled, faults>>

\* ... and added again.
AddJob(p) ==
  /\ track[p].step = "add"
  /\ job' = Added(job, 0)
  /\ track' = [track EXCEPT ![p] = Quiet]
  /\ UNCHANGED <<up, cycles, window, work, reconciled, faults>>

-----------------------------------------------------------------------------
(* reconcileReplay *)

Fire ==
  /\ up /\ work.step = "idle" /\ IsDue(job, 0)
  /\ job' = Started(job)
  /\ work' = [step |-> "take", taken |-> {}]
  /\ UNCHANGED <<up, cycles, track, window, reconciled, faults>>

\* GETDEL of the window; without one there is nothing to do.
TakeWindow ==
  /\ work.step = "take"
  /\ work' = [step |-> IF window = {} THEN "done" ELSE "rebuild", taken |-> window]
  /\ window' = {}
  /\ UNCHANGED <<up, cycles, track, job, reconciled, faults>>

\* The state log, the detection timers, the archived buckets and the metrics
\* are rebuilt, one after the other: the cycles count once all are.
Rebuild ==
  /\ work.step = "rebuild"
  /\ reconciled' = reconciled \cup work.taken
  /\ work' = [work EXCEPT !.step = "done"]
  /\ UNCHANGED <<up, cycles, track, window, job, faults>>

Finish ==
  /\ work.step = "done"
  /\ job' = Completed(job)
  /\ work' = Resting
  /\ UNCHANGED <<up, cycles, track, window, reconciled, faults>>

-----------------------------------------------------------------------------
(* Faults *)

Fault == faults < MaxFaults /\ faults' = faults + 1

\* Redis or the database fails a reconciliation: the job is kept as failed.
Throw ==
  /\ Fault
  /\ work.step \in {"take", "rebuild"}
  /\ job' = KeptAsFailed(job)
  /\ work' = Resting
  /\ UNCHANGED <<up, cycles, track, window, reconciled>>

\* The process that completes cycles dies, or Redis fails the tracking: it is
\* given up where it stands.
Drop(p) ==
  /\ Fault
  /\ track[p] # Quiet /\ track' = [track EXCEPT ![p] = Quiet]
  /\ UNCHANGED <<up, cycles, window, job, work, reconciled>>

\* The api process dies; the job its worker ran stays active in Redis.
Crash ==
  /\ Fault
  /\ up /\ up' = FALSE
  /\ work' = Resting
  /\ UNCHANGED <<cycles, track, window, job, reconciled>>

\* The window reaches its time to live: nothing took it for an hour.
Expire ==
  /\ Fault
  /\ window # {} /\ window' = {}
  /\ ~up \/ job.state \in {"none", "failed"}
  /\ UNCHANGED <<up, cycles, track, job, work, reconciled>>

\* Mutant: the process starts without looking for windows.
StartBlind ==
  /\ ~up /\ up' = TRUE
  /\ UNCHANGED <<cycles, track, window, job, work, reconciled, faults>>

\* recoverReplayWindows: a window without a job gets one.
Start ==
  /\ ~up /\ up' = TRUE
  /\ job' = IF window = {} THEN job ELSE Added(job, 0)
  /\ UNCHANGED <<cycles, track, window, work, reconciled, faults>>

\* An active job that nobody runs is run again.
Recover ==
  /\ up /\ work.step = "idle" /\ job.state = "active"
  /\ job' = Restarted(job)
  /\ UNCHANGED <<up, cycles, track, window, work, reconciled, faults>>

Track(p) == WidenWindow(p) \/ RemoveJob(p) \/ AddJob(p)
Work == Fire \/ TakeWindow \/ Rebuild \/ Finish

Next ==
  \/ \E p \in Trackers : Commit(p) \/ Track(p) \/ Drop(p)
  \/ Work
  \/ Throw \/ Crash \/ Expire \/ Start \/ Recover

Spec == Init /\ [][Next]_vars

\* A live process goes on with its promises and its job, and the platform
\* restarts a dead api process.  Cycles and faults may never come.
FairSpec ==
  /\ Spec
  /\ \A p \in Trackers : WF_vars(Track(p))
  /\ WF_vars(Work) /\ WF_vars(Start) /\ WF_vars(Recover)

-----------------------------------------------------------------------------
(* Properties *)

\* The trackers, the window, the job and its worker stay in their types.
TypeOK ==
  /\ up \in BOOLEAN
  /\ cycles \in 0 .. MaxCycles
  /\ track \in [Trackers -> [step: {"idle", "window", "remove", "add"},
                             cycle: 0 .. MaxCycles]]
  /\ window \subseteq Cycles
  /\ job \in Job
  /\ work \in [step: {"idle", "take", "rebuild", "done"}, taken: SUBSET Cycles]
  /\ reconciled \subseteq Cycles
  /\ faults \in 0 .. MaxFaults

BeingTracked == {track[p].cycle : p \in {q \in Trackers : track[q].step = "window"}}

\* Until something fails no replayed cycle is forgotten: its tracking is under
\* way, or it is in the window, in the hands of the worker, or reconciled.
NoReplayForgotten ==
  faults = 0 => 1 .. cycles \subseteq BeingTracked \cup window \cup work.taken \cup reconciled

\* A window that a crash left in Redis is reconciled after the restart, unless
\* its job had failed or something fails again.
RestartHeals ==
  \A c \in Cycles, n \in 0 .. MaxFaults :
    (~up /\ c \in window /\ job.state # "failed" /\ faults = n)
      ~> (c \in reconciled \/ faults > n)

-----------------------------------------------------------------------------
(* What the code does not guarantee: TLC refutes each of these. *)

\* When the api process dies, the window its worker had taken is still there to
\* be recovered at the restart, unless its reconciliation was over.
WindowOutlivesCrash ==
  [][up /\ ~up' =>
       work.taken \subseteq window' \cup reconciled']_vars

\* A cycle in the window is reconciled in the end.
WindowReconciled == \A c \in Cycles : (c \in window) ~> (c \in reconciled)

=============================================================================
