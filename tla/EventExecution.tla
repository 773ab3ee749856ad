--------------------------- MODULE EventExecution ---------------------------
(***************************************************************************)
(* The execution of a triggered station event.  The API creates a row      *)
(* RUNNING, then a BullMQ job that carries the row's id; a worker performs *)
(* the event's actions in order and settles the row.  The API dies between *)
(* the two, the reply of Redis gets lost, a worker dies or loses its lock  *)
(* and another one runs the job again beside it, and a statement on the    *)
(* row itself fails, which ends the job: it has one attempt.               *)
(*                                                                         *)
(* An action that changes the station's job does so in a transaction under *)
(* the station's advisory lock, as does a user; the ensure pass adds a row *)
(* that is missing from the job log, without the lock.                     *)
(*                                                                         *)
(* Source: facility/station/execution.ts, events.ts (trigger), jobs.ts,    *)
(* actions/jobchange.ts and queues/background-workers.ts.  Other actions   *)
(* just succeed or fail; what is published afterwards is left out.         *)
(***************************************************************************)
EXTENDS Naturals

CONSTANTS
  Executions,
  Length,       \* actions of the event
  JobActions,   \* which of them are job.change
  SoftActions,  \* and which continue on error
  Users,        \* change the job by hand
  Jobs,
  Null,
  Tolerated,    \* stalls after which BullMQ still runs a job again
  MaxStalls,    \* stalls of one job
  MaxLogs       \* rows of the job log

Attempts == Executions \X (1..Tolerated + 1)
Changers == Attempts \cup Users

ASSUME ExecutionAssumption ==
  /\ {Length, Tolerated, MaxStalls, MaxLogs} \subseteq Nat
  /\ JobActions \subseteq 1..Length /\ SoftActions \subseteq 1..Length
  /\ Users \cap Attempts = {} /\ Null \notin Jobs \cup Changers

VARIABLES
  row,        \* status of each StationEventExecution
  api,        \* the request that triggers it
  job,        \* its BullMQ job
  stalls,     \* times the job was found stalled
  attempt,    \* runs of the job
  performed,  \* actions that took effect
  current,    \* the station's job
  made,       \* rows of the job log so far
  open,       \* those without an end
  change,     \* transactions that change the job
  holder,     \* of the station's lock
  missing     \* job of the row that the ensure pass found missing

runVars == <<row, api, job, stalls, attempt, performed>>
logVars == <<current, made, open, change, holder, missing>>
vars == <<runVars, logVars>>

NoAttempt == [pc |-> "none", at |-> 1, soft |-> FALSE]
NoChange == [pc |-> "none", to |-> Null, closing |-> {}]

\* A station may have a job and no row in the log: what the ensure pass is for.
Init ==
  /\ row = [x \in Executions |-> "none"] /\ api = row /\ job = row
  /\ stalls = [x \in Executions |-> 0]
  /\ attempt = [a \in Attempts |-> NoAttempt]
  /\ performed = [x \in Executions |-> {}]
  /\ current \in Jobs \cup {Null}
  /\ made = 0 /\ open = {}
  /\ change = [c \in Changers |-> NoChange]
  /\ holder = Null /\ missing = Null

-----------------------------------------------------------------------------
(* Triggering *)

Request(x, status) == api' = [api EXCEPT ![x] = status]

\* trigger: the row is created with the count of the event's runs.
Trigger(x) ==
  /\ row[x] = "none"
  /\ row' = [row EXCEPT ![x] = "RUNNING"] /\ Request(x, "enqueue")
  /\ UNCHANGED <<job, stalls, attempt, performed, logVars>>

\* enqueueStationEventExecution: the job is added; that it was may get lost.
Enqueue(x) ==
  /\ api[x] = "enqueue"
  /\ job' = [job EXCEPT ![x] = "waiting"]
  /\ \E status \in {"done", "failed"} : Request(x, status)
  /\ UNCHANGED <<row, stalls, attempt, performed, logVars>>

RefuseEnqueue(x) ==
  /\ api[x] = "enqueue"
  /\ Request(x, "failed")
  /\ UNCHANGED <<row, job, stalls, attempt, performed, logVars>>

\* Mutant: the row of a job that could not be added is left as it is.
FailedKept(x) == row

\* markExecutionFailed
Failed(x) == [row EXCEPT ![x] = IF @ = "RUNNING" THEN "FAILED" ELSE @]

MarkUnqueued(x) ==
  /\ api[x] = "failed"
  /\ row' = Failed(x) /\ Request(x, "done")
  /\ UNCHANGED <<job, stalls, attempt, performed, logVars>>

\* The API dies with the row created and the job perhaps not, or the statement
\* that should mark the row fails.
CrashApi(x) ==
  /\ api[x] \in {"enqueue", "failed"}
  /\ Request(x, "dead")
  /\ UNCHANGED <<row, job, stalls, attempt, performed, logVars>>

-----------------------------------------------------------------------------
(* The worker *)

Move(a, pc) == attempt' = [attempt EXCEPT ![a].pc = pc]

Take(x) ==
  /\ job[x] = "waiting"
  /\ job' = [job EXCEPT ![x] = "active"]
  /\ Move(<<x, stalls[x] + 1>>, "load")
  /\ UNCHANGED <<row, api, stalls, performed, logVars>>

\* runStationEventExecution skips what is not RUNNING.
Load(a) ==
  /\ attempt[a].pc = "load"
  /\ Move(a, IF row[a[1]] = "RUNNING" THEN "act" ELSE "settled")
  /\ UNCHANGED <<row, api, job, stalls, performed, logVars>>

Acting(a) == attempt[a].pc = "act" /\ attempt[a].at <= Length

\* The action in turn takes effect and the next one follows.
Performed(a) ==
  /\ performed' = [performed EXCEPT ![a[1]] = @ \cup {attempt[a].at}]
  /\ attempt' = [attempt EXCEPT ![a].pc = "act", ![a].at = @ + 1]

\* Mutant: a failure that does not end the execution is forgotten.
AfterErrorForgotten(t) ==
  IF t.at \in SoftActions THEN [t EXCEPT !.pc = "act", !.at = @ + 1] ELSE [t EXCEPT !.pc = "failing"]

AfterError(t) ==
  IF t.at \in SoftActions THEN [t EXCEPT !.pc = "act", !.at = @ + 1, !.soft = TRUE]
  ELSE [t EXCEPT !.pc = "failing"]

Throws(a) == attempt' = [attempt EXCEPT ![a] = AfterError(@)] /\ UNCHANGED performed

Perform(a) ==
  /\ Acting(a) /\ attempt[a].at \notin JobActions
  /\ Performed(a)
  /\ UNCHANGED <<row, api, job, stalls, logVars>>

\* An action that is unknown or has no valid input ends the run, soft or not.
Reject(a) ==
  /\ Acting(a)
  /\ Move(a, "failing")
  /\ UNCHANGED <<row, api, job, stalls, performed, logVars>>

\* An action that fails.
Throw(a) ==
  /\ Acting(a)
  /\ Throws(a)
  /\ UNCHANGED <<row, api, job, stalls, logVars>>

Finishing(a) == attempt[a].pc = "act" /\ attempt[a].at = Length + 1

\* The row is updated whatever it is by now; a failing run leaves it if settled.
Finish(a) ==
  /\ Finishing(a)
  /\ row' = [row EXCEPT ![a[1]] = IF attempt[a].soft THEN "FAILED" ELSE "SUCCEEDED"]
  /\ Move(a, "settled")
  /\ UNCHANGED <<api, job, stalls, performed, logVars>>

MarkFailed(a) ==
  /\ attempt[a].pc = "failing"
  /\ row' = Failed(a[1]) /\ Move(a, "settled")
  /\ UNCHANGED <<api, job, stalls, performed, logVars>>

\* The statement that loads the row, marks it or settles it fails.
Break(a) ==
  /\ attempt[a].pc \in {"load", "failing"} \/ Finishing(a)
  /\ Move(a, "broken")
  /\ UNCHANGED <<row, api, job, stalls, performed, logVars>>

\* The job completes or fails, unless this run has lost it; it is not retried.
Complete(a) ==
  /\ attempt[a].pc \in {"settled", "broken"}
  /\ job' = [job EXCEPT ![a[1]] = IF a[2] = stalls[a[1]] + 1 THEN "gone" ELSE @]
  /\ Move(a, IF attempt[a].pc = "broken" THEN "failed" ELSE "done")
  /\ UNCHANGED <<row, api, stalls, performed, logVars>>

\* Mutant: a stalled job is not run again.
StalledGone(x) == "gone"

\* A job that was found stalled is run again, but not too often.
Stalled(x) == IF stalls[x] < Tolerated THEN "waiting" ELSE "gone"

\* The lock of an active job was not renewed; its run may go on.
Stall(x) ==
  /\ job[x] = "active" /\ stalls[x] < MaxStalls
  /\ job' = [job EXCEPT ![x] = Stalled(x)]
  /\ stalls' = [stalls EXCEPT ![x] = @ + 1]
  /\ UNCHANGED <<row, api, attempt, performed, logVars>>

-----------------------------------------------------------------------------
(* Changing the station's job: changeJob and the action job.change *)

Unchanged == <<current, made, open, missing>>

\* A row of the job log, written by a change of the job or by the ensure pass.
Log(to, by) == [nth |-> made + 1, job |-> to, by |-> by]

Begin(c, to) == change' = [change EXCEPT ![c] = [NoChange EXCEPT !.pc = "begun", !.to = to]]

BeginAction(a) ==
  /\ Acting(a) /\ attempt[a].at \in JobActions
  /\ Move(a, "change")
  /\ \E to \in Jobs \cup {Null} : Begin(a, to)
  /\ UNCHANGED <<row, api, job, stalls, performed, holder, Unchanged>>

BeginUser(u) ==
  /\ change[u].pc = "none"
  /\ \E to \in Jobs \cup {Null} : Begin(u, to)
  /\ UNCHANGED <<runVars, holder, Unchanged>>

\* Mutant: nobody waits.
LockIgnored == TRUE

LockFree == holder = Null

Lock(c) ==
  /\ change[c].pc = "begun" /\ LockFree
  /\ change' = [change EXCEPT ![c].pc = "locked"]
  /\ holder' = c
  /\ UNCHANGED <<runVars, Unchanged>>

\* All rows that are open by now are closed.
CloseLogs(c) ==
  /\ change[c].pc = "locked"
  /\ change' = [change EXCEPT ![c] = [pc |-> "closed", to |-> change[c].to, closing |-> open]]
  /\ UNCHANGED <<runVars, holder, Unchanged>>

Release(c) ==
  /\ change' = [change EXCEPT ![c] = NoChange]
  /\ holder' = IF holder = c THEN Null ELSE holder

\* The new row and the station's job follow, and all of it is visible at once.
Commit(c) ==
  LET to == change[c].to
      left == open \ change[c].closing
  IN  /\ change[c].pc = "closed"
      /\ to # Null => made < MaxLogs
      /\ current' = to
      /\ open' = IF to = Null THEN left ELSE left \cup {Log(to, "change")}
      /\ made' = IF to = Null THEN made ELSE made + 1
      /\ Release(c)
      /\ IF c \in Attempts THEN Performed(c) ELSE UNCHANGED <<attempt, performed>>
      /\ UNCHANGED <<row, api, job, stalls, missing>>

Rollback(c) ==
  /\ change[c].pc # "none"
  /\ Release(c)
  /\ IF c \in Attempts THEN Throws(c) ELSE UNCHANGED <<attempt, performed>>
  /\ UNCHANGED <<row, api, job, stalls, Unchanged>>

\* The worker's process dies; what it had not committed is undone.
Die(a) ==
  /\ attempt[a].pc \in {"load", "act", "change", "failing", "broken", "settled"}
  /\ a[2] = stalls[a[1]] + 1 /\ stalls[a[1]] < MaxStalls
  /\ Move(a, "dead") /\ Release(a)
  /\ UNCHANGED <<row, api, job, stalls, performed, Unchanged>>

\* The ensure pass looks for stations with a job and no open row.
FindMissing ==
  /\ missing = Null /\ current # Null /\ open = {}
  /\ missing' = current
  /\ UNCHANGED <<runVars, current, made, open, change, holder>>

InsertMissing ==
  /\ missing # Null /\ made < MaxLogs
  /\ made' = made + 1
  /\ open' = open \cup {Log(missing, "ensure")}
  /\ missing' = Null
  /\ UNCHANGED <<runVars, current, change, holder>>

-----------------------------------------------------------------------------

Run(a) ==
  \/ Load(a) \/ Perform(a) \/ Reject(a) \/ Throw(a) \/ BeginAction(a)
  \/ Finish(a) \/ MarkFailed(a) \/ Complete(a)

Next ==
  \/ \E x \in Executions :
       \/ Trigger(x) \/ Enqueue(x) \/ RefuseEnqueue(x) \/ MarkUnqueued(x) \/ CrashApi(x)
       \/ Take(x) \/ Stall(x)
  \/ \E a \in Attempts : Run(a) \/ Break(a) \/ Die(a)
  \/ \E u \in Users : BeginUser(u)
  \/ \E c \in Changers : Lock(c) \/ CloseLogs(c) \/ Commit(c) \/ Rollback(c)
  \/ FindMissing \/ InsertMissing

Spec == Init /\ [][Next]_vars

\* Workers run, a stalled job is found by its timer, PostgreSQL grants the lock
\* in the order it was asked for, and a transaction ends or times out.
Fairness ==
  /\ \A x \in Executions :
       WF_vars(Take(x)) /\ WF_vars(Stall(x) /\ \E n \in 1..Tolerated + 1 : attempt[<<x, n>>].pc = "dead")
  /\ \A a \in Attempts : WF_vars(Run(a))
  /\ \A c \in Changers : WF_vars(Rollback(c))

FairSpec == Spec /\ Fairness

-----------------------------------------------------------------------------
(* Properties *)

LogRow == [nth: 1..MaxLogs, job: Jobs, by: {"change", "ensure"}]

\* Rows, jobs, runs and the job log stay in their types.
TypeOK ==
  /\ row \in [Executions -> {"none", "RUNNING", "SUCCEEDED", "FAILED"}]
  /\ api \in [Executions -> {"none", "enqueue", "failed", "done", "dead"}]
  /\ job \in [Executions -> {"none", "waiting", "active", "gone"}]
  /\ stalls \in [Executions -> 0..MaxStalls]
  /\ attempt \in [Attempts ->
       [pc: {"none", "load", "act", "change", "failing", "broken", "settled", "done", "failed",
             "dead"},
        at: 1..Length + 1, soft: BOOLEAN]]
  /\ performed \in [Executions -> SUBSET (1..Length)]
  /\ current \in Jobs \cup {Null} /\ missing \in Jobs \cup {Null}
  /\ made \in 0..MaxLogs
  /\ open \subseteq LogRow
  /\ change \in [Changers -> [pc: {"none", "begun", "locked", "closed"}, to: Jobs \cup {Null},
                              closing: SUBSET LogRow]]
  /\ holder \in Changers \cup {Null}

\* However changes by users, executions and their repetitions interleave, at
\* most one row that a change wrote is open, and it names the station's job.
JobLogAgrees ==
  \A r, s \in open : r.by = "change" /\ s.by = "change" => r = s /\ r.job = current

\* An execution that has succeeded has performed all its actions, in whichever
\* of its runs.
SuccessMeansDone ==
  \A x \in Executions : row[x] = "SUCCEEDED" => performed[x] = 1..Length

\* BullMQ has given the job up.
GivenUp(x) == stalls[x] > Tolerated

\* The latest run of the job has failed by a statement on the row: the job is
\* among the failed ones and is not run again.
Broken(x) == \E a \in Attempts : a = <<x, stalls[x] + 1>> /\ attempt[a].pc = "failed"

\* A row is left RUNNING with nobody to settle it only if the API died or could
\* not mark it, the job was found stalled too often, or a statement on the row
\* failed in the latest run: never because an action failed or a run was lost.
OnlyFailuresOrphan ==
  \A x \in Executions : row[x] = "RUNNING" =>
    \/ api[x] \in {"enqueue", "failed", "dead"} \/ job[x] \in {"waiting", "active"}
    \/ GivenUp(x) \/ Broken(x)

\* An execution whose job was added is settled, through deaths, stalls and what
\* fails in a run that is not the latest.
ExecutionEnds ==
  \A x \in Executions :
    row[x] = "RUNNING" /\ job[x] # "none" ~> row[x] # "RUNNING" \/ GivenUp(x) \/ Broken(x)

\* Each execution has at most one run: no job stalls, and one whose addition is
\* reported to have failed was not added.
RunsAlone ==
  \A x \in Executions : stalls[x] = 0 /\ (api[x] = "failed" => job[x] = "none")

-----------------------------------------------------------------------------
(* What the code does not guarantee: TLC refutes each of these. *)

\* A settled execution stays as it is; it does where RunsAlone.
SettledStays ==
  [][\A x \in Executions : row[x] \in {"SUCCEEDED", "FAILED"} => row'[x] = row[x]]_vars

\* A station has at most one open row in the job log.
OneOpenRow == \A r, s \in open : r = s

\* Every row that is RUNNING has somebody who will settle it.
NoOrphans ==
  \A x \in Executions :
    row[x] = "RUNNING" => api[x] \in {"enqueue", "failed"} \/ job[x] \in {"waiting", "active"}

\* Only a crash of the API, or too many stalls, leave such a row behind.
OnlyCrashesOrphan ==
  \A x \in Executions : row[x] = "RUNNING" =>
    \/ api[x] \in {"enqueue", "failed", "dead"} \/ job[x] \in {"waiting", "active"}
    \/ GivenUp(x)

=============================================================================
