------------------------ MODULE EventExecutionProofs ------------------------
(* Theorems about EventExecution, for any executions, users and bounds. *)
EXTENDS EventExecution, TLAPS

\* Whoever is past its lock holds it, and has closed what changes had written.
Locked ==
  \A c \in Changers :
    /\ change[c].pc \in {"locked", "closed"} => holder = c
    /\ change[c].pc = "closed" => \A r \in open : r.by = "change" => r \in change[c].closing

\* A run that has had no error has performed the actions before its next one;
\* one that changes the job is in the middle of an action.
RunsSound ==
  \A a \in Attempts :
    /\ attempt[a].pc \in {"act", "change"} /\ ~attempt[a].soft
         => \A n \in 1..Length : n < attempt[a].at => n \in performed[a[1]]
    /\ attempt[a].pc = "change" => attempt[a].at <= Length
    /\ change[a].pc # "none" => attempt[a].pc = "change"
    /\ attempt[a].pc \in {"none", "load"} => attempt[a].at = 1

\* A run exists for a row and for a stall of its job, and is settled when its
\* row is.
RowsSound ==
  /\ \A a \in Attempts :
       /\ attempt[a].pc # "none" => row[a[1]] # "none"
       /\ attempt[a].pc # "none" => a[2] <= stalls[a[1]] + 1
       /\ attempt[a].pc # "none" /\ job[a[1]] \in {"none", "waiting"} => a[2] <= stalls[a[1]]
       /\ attempt[a].pc = "settled" => row[a[1]] \in {"SUCCEEDED", "FAILED"}
  /\ \A x \in Executions :
       /\ api[x] # "none" \/ job[x] # "none" => row[x] # "none"
       /\ api[x] = "enqueue" => job[x] = "none"

Inductive ==
  TypeOK /\ Locked /\ JobLogAgrees /\ RunsSound /\ SuccessMeansDone /\ RowsSound /\ OnlyFailuresOrphan

-----------------------------------------------------------------------------
(* How the helpers move one run or one change. *)

\* The fields of a run and of a change.
RunPhases ==
  {"none", "load", "act", "change", "failing", "broken", "settled", "done", "failed", "dead"}
RunType ==
  [pc: RunPhases,
   at: 1..Length + 1, soft: BOOLEAN]
ChangeType ==
  [pc: {"none", "begun", "locked", "closed"}, to: Jobs \cup {Null}, closing: SUBSET LogRow]

\* An attempt names its execution and which run it is.
LEMMA AttemptPair ==
  ASSUME NEW a \in Attempts
  PROVE  a[1] \in Executions /\ a[2] \in 1..Tolerated + 1 /\ a = <<a[1], a[2]>>
BY DEF Attempts

\* A run that moves on changes its place and nothing else.
LEMMA MoveOne ==
  ASSUME attempt \in [Attempts -> RunType], NEW a, NEW pc, Move(a, pc),
         pc \in RunPhases
  PROVE  /\ attempt' \in [Attempts -> RunType]
         /\ \A b \in Attempts : attempt'[b] = IF b = a THEN [attempt[b] EXCEPT !.pc = pc] ELSE attempt[b]
         /\ \A b \in Attempts : attempt'[b].pc = IF b = a THEN pc ELSE attempt[b].pc
BY DEF Move, RunType, RunPhases

\* After an error a run goes on, with the error remembered, or starts to fail.
LEMMA ErrorTyped ==
  ASSUME NEW t \in RunType, t.at <= Length
  PROVE  /\ AfterError(t) \in RunType
         /\ AfterError(t).pc \in {"act", "failing"}
         /\ AfterError(t).pc = "act" => AfterError(t).soft
<1>1. t.at + 1 \in 1..Length + 1
  BY ExecutionAssumption DEF RunType
<1>2. CASE t.at \in SoftActions
  <2>1. AfterError(t) = [pc |-> "act", at |-> t.at + 1, soft |-> TRUE]
    BY <1>2 DEF AfterError, RunType
  <2> QED
    BY <1>1, <2>1 DEF RunType, RunPhases
<1>3. CASE t.at \notin SoftActions
  BY <1>3 DEF AfterError, RunType, RunPhases
<1> QED
  BY <1>2, <1>3

\* A run that throws is the only one to change.
LEMMA ThrowOne ==
  ASSUME attempt \in [Attempts -> RunType], NEW a \in Attempts, Throws(a), attempt[a].at <= Length
  PROVE  /\ attempt' \in [Attempts -> RunType]
         /\ attempt'[a] = AfterError(attempt[a])
         /\ \A b \in Attempts : b # a => attempt'[b] = attempt[b]
         /\ performed' = performed
<1>1. AfterError(attempt[a]) \in RunType
  BY ErrorTyped
<1> QED
  BY <1>1 DEF Throws

\* A run whose action took effect has it among those performed.
LEMMA PerformOne ==
  ASSUME attempt \in [Attempts -> RunType], performed \in [Executions -> SUBSET (1..Length)],
         NEW a \in Attempts, Performed(a), attempt[a].at <= Length
  PROVE  /\ attempt' \in [Attempts -> RunType]
         /\ attempt'[a] = [attempt[a] EXCEPT !.pc = "act", !.at = attempt[a].at + 1]
         /\ \A b \in Attempts : b # a => attempt'[b] = attempt[b]
         /\ performed' \in [Executions -> SUBSET (1..Length)]
         /\ \A x \in Executions : performed[x] \subseteq performed'[x]
         /\ performed'[a[1]] = performed[a[1]] \cup {attempt[a].at}
<1>1. a[1] \in Executions
  BY AttemptPair
<1>2. attempt[a] \in RunType /\ attempt[a].at \in 1..Length
  BY ExecutionAssumption DEF RunType
<1> QED
  BY <1>1, <1>2, ExecutionAssumption DEF Performed, RunType

\* A change that starts has no row closed yet.
LEMMA BeginOne ==
  ASSUME change \in [Changers -> ChangeType], NEW c \in Changers, NEW to \in Jobs \cup {Null},
         Begin(c, to)
  PROVE  /\ change' \in [Changers -> ChangeType]
         /\ change'[c].pc = "begun"
         /\ \A d \in Changers : d # c => change'[d] = change[d]
BY DEF Begin, ChangeType, NoChange

\* A change that ends leaves the lock, if it has it, and no other change.
LEMMA ReleaseOne ==
  ASSUME change \in [Changers -> ChangeType], holder \in Changers \cup {Null},
         NEW c \in Changers, Release(c)
  PROVE  /\ change' \in [Changers -> ChangeType]
         /\ change'[c] = NoChange
         /\ \A d \in Changers : d # c => change'[d] = change[d]
         /\ holder' \in Changers \cup {Null}
         /\ \A d \in Changers : d # c /\ holder = d => holder' = d
BY DEF Release, ChangeType, NoChange

\* Settling a failed execution touches its row only while that is RUNNING.
LEMMA FailedOne ==
  ASSUME TypeOK, NEW x \in Executions
  PROVE  /\ Failed(x) \in [Executions -> {"none", "RUNNING", "SUCCEEDED", "FAILED"}]
         /\ \A y \in Executions : Failed(x)[y] = row[y] \/ (y = x /\ row[y] = "RUNNING" /\ Failed(x)[y] = "FAILED")
         /\ Failed(x)[x] # "RUNNING"
BY DEF Failed, TypeOK

-----------------------------------------------------------------------------
(* What the steps of the request, the queue and the workers keep. *)

\* The types of the two halves of the state.
RunTypes ==
  /\ row \in [Executions -> {"none", "RUNNING", "SUCCEEDED", "FAILED"}]
  /\ api \in [Executions -> {"none", "enqueue", "failed", "done", "dead"}]
  /\ job \in [Executions -> {"none", "waiting", "active", "gone"}]
  /\ stalls \in [Executions -> 0..MaxStalls]
  /\ attempt \in [Attempts -> RunType]
  /\ performed \in [Executions -> SUBSET (1..Length)]
LogTypes ==
  /\ current \in Jobs \cup {Null} /\ missing \in Jobs \cup {Null}
  /\ made \in 0..MaxLogs
  /\ open \subseteq LogRow
  /\ change \in [Changers -> ChangeType]
  /\ holder \in Changers \cup {Null}

\* The type invariant is about both halves.
LEMMA Types ==
  /\ TypeOK <=> RunTypes /\ LogTypes
  /\ TypeOK' <=> RunTypes' /\ LogTypes'
BY DEF TypeOK, RunTypes, LogTypes, RunType, RunPhases, ChangeType

\* The part of the invariant that is about runs and their rows.
RunPart == RunTypes /\ RunsSound /\ SuccessMeansDone /\ RowsSound /\ OnlyFailuresOrphan

\* The part that is about the station's job and its log.
LogPart == LogTypes /\ Locked /\ JobLogAgrees

\* The invariant is the two parts.
LEMMA Parts ==
  /\ Inductive <=> RunPart /\ LogPart
  /\ Inductive' <=> RunPart' /\ LogPart'
BY Types DEF Inductive, RunPart, LogPart

\* A step that leaves the job log alone keeps what is said about it.
LEMMA LogIdle ==
  ASSUME LogPart, UNCHANGED logVars
  PROVE  LogPart'
BY DEF LogPart, LogTypes, Locked, JobLogAgrees, logVars, LogRow, ChangeType

\* A step that leaves the runs and who is changing the job alone keeps the rest.
LEMMA RunIdle ==
  ASSUME RunPart, UNCHANGED runVars,
         \A a \in Attempts : change'[a].pc # "none" => change[a].pc # "none"
  PROVE  RunPart'
BY DEF RunPart, RunTypes, RunsSound, SuccessMeansDone, RowsSound, OnlyFailuresOrphan, GivenUp, Broken,
       runVars, RunType

\* No row is orphaned by a step that leaves requests, stalls and runs that have
\* failed as they are, and takes no job of a RUNNING row from the queue.
LEMMA OrphansKept ==
  ASSUME OnlyFailuresOrphan, UNCHANGED <<api, stalls>>,
         \A x \in Executions : row'[x] = "RUNNING" => row[x] = "RUNNING",
         \A b \in Attempts : attempt[b].pc = "failed" => attempt'[b].pc = "failed",
         \A x \in Executions :
           row'[x] = "RUNNING" /\ job[x] \in {"waiting", "active"} => job'[x] \in {"waiting", "active"}
  PROVE  OnlyFailuresOrphan'
<1>1. ASSUME NEW x \in Executions, Broken(x) PROVE Broken(x)'
  BY <1>1 DEF Broken
<1>2. ASSUME NEW x \in Executions, GivenUp(x) PROVE GivenUp(x)'
  BY <1>2 DEF GivenUp
<1> QED
  BY <1>1, <1>2 DEF OnlyFailuresOrphan

\* A run that moves on from where no run has failed orphans no row, if neither
\* the job nor the rows of others change.
LEMMA MoveKeepsOrphans ==
  ASSUME RunPart, NEW a \in Attempts, NEW pc \in RunPhases, Move(a, pc), attempt[a].pc # "failed",
         UNCHANGED <<api, job, stalls>>,
         \A x \in Executions : row'[x] = "RUNNING" => row[x] = "RUNNING"
  PROVE  OnlyFailuresOrphan'
<1>1. \A b \in Attempts : attempt[b].pc = "failed" => attempt'[b].pc = "failed"
  BY MoveOne DEF RunPart, RunTypes
<1> QED
  BY <1>1, OrphansKept DEF RunPart

\* Triggering and enqueueing keep the invariant.
LEMMA RequestStep ==
  ASSUME Inductive, NEW x \in Executions,
         Trigger(x) \/ Enqueue(x) \/ RefuseEnqueue(x) \/ MarkUnqueued(x) \/ CrashApi(x)
  PROVE  Inductive'
<1> USE Parts, LogIdle
<1>0. RunPart /\ LogPart /\ TypeOK
  BY DEF Inductive
<1>1. CASE Trigger(x)
  <2>1. RunTypes'
    BY <1>0, <1>1 DEF Trigger, Request, RunPart, RunTypes
  <2>2. RunsSound'
    BY <1>0, <1>1 DEF Trigger, RunPart, RunsSound, logVars
  <2>3. SuccessMeansDone' /\ RowsSound' /\ OnlyFailuresOrphan'
    BY <1>0, <1>1, AttemptPair
    DEF Trigger, Request, RunPart, RunTypes, SuccessMeansDone, RowsSound, OnlyFailuresOrphan, GivenUp, Broken
  <2> QED
    BY <1>0, <1>1, <2>1, <2>2, <2>3 DEF Trigger, RunPart
<1>2. CASE Enqueue(x)
  <2>1. RunTypes' /\ RunsSound'
    BY <1>0, <1>2 DEF Enqueue, Request, RunPart, RunTypes, RunsSound, logVars
  <2>2. SuccessMeansDone' /\ RowsSound' /\ OnlyFailuresOrphan'
    BY <1>0, <1>2, AttemptPair
    DEF Enqueue, Request, RunPart, RunTypes, SuccessMeansDone, RowsSound, OnlyFailuresOrphan, GivenUp, Broken
  <2> QED
    BY <1>0, <1>2, <2>1, <2>2 DEF Enqueue, RunPart
<1>3. CASE RefuseEnqueue(x)
  BY <1>0, <1>3 DEF RefuseEnqueue, Request, RunPart, RunTypes, RunsSound, SuccessMeansDone, RowsSound,
       OnlyFailuresOrphan, GivenUp, Broken, logVars
<1>4. CASE MarkUnqueued(x)
  <2>1. RunTypes' /\ RunsSound'
    BY <1>0, <1>4, FailedOne DEF MarkUnqueued, Request, RunPart, RunTypes, RunsSound, logVars
  <2>2. SuccessMeansDone' /\ RowsSound' /\ OnlyFailuresOrphan'
    BY <1>0, <1>4, AttemptPair, FailedOne
    DEF MarkUnqueued, Request, RunPart, RunTypes, SuccessMeansDone, RowsSound, OnlyFailuresOrphan, GivenUp, Broken
  <2> QED
    BY <1>0, <1>4, <2>1, <2>2 DEF MarkUnqueued, RunPart
<1>5. CASE CrashApi(x)
  BY <1>0, <1>5 DEF CrashApi, Request, RunPart, RunTypes, RunsSound, SuccessMeansDone, RowsSound,
       OnlyFailuresOrphan, GivenUp, Broken, logVars
<1> QED
  BY <1>1, <1>2, <1>3, <1>4, <1>5

\* An action of a run that takes effect keeps the part about runs.
LEMMA PerformedStep ==
  ASSUME RunPart, NEW a \in Attempts, Performed(a),
         attempt[a].pc \in {"act", "change"}, attempt[a].at <= Length,
         change'[a].pc = "none" \/ (change'[a] = change[a] /\ attempt[a].pc = "act"),
         \A b \in Attempts : b # a => change'[b] = change[b],
         UNCHANGED <<row, api, job, stalls>>
  PROVE  RunTypes' /\ RunsSound' /\ SuccessMeansDone' /\ RowsSound' /\ OnlyFailuresOrphan'
<1>0. /\ attempt \in [Attempts -> RunType] /\ performed \in [Executions -> SUBSET (1..Length)]
      /\ a[1] \in Executions /\ attempt[a] \in RunType
  BY AttemptPair DEF RunPart, RunTypes
<1>1. RunTypes'
  BY <1>0, PerformOne DEF RunPart, RunTypes
<1>2. RunsSound'
  <2>1. attempt'[a].pc = "act" /\ attempt'[a].at = attempt[a].at + 1 /\ attempt'[a].soft = attempt[a].soft
    <3>1. attempt'[a] = [attempt[a] EXCEPT !.pc = "act", !.at = attempt[a].at + 1]
      BY <1>0, PerformOne
    <3> QED
      BY <1>0, <3>1 DEF RunType
  <2>2. ASSUME ~attempt[a].soft, NEW n \in 1..Length, n < attempt[a].at + 1
        PROVE  n \in performed'[a[1]]
    <3>1. n < attempt[a].at \/ n = attempt[a].at
      BY <1>0, <2>2, ExecutionAssumption DEF RunType
    <3>2. performed'[a[1]] = performed[a[1]] \cup {attempt[a].at}
      BY <1>0, PerformOne
    <3> QED
      BY <1>0, <2>2, <3>1, <3>2 DEF RunPart, RunsSound
  <2>3. \A b \in Attempts : b # a => attempt'[b] = attempt[b] /\ performed[b[1]] \subseteq performed'[b[1]]
    BY <1>0, PerformOne, AttemptPair
  <2> QED
    BY <2>1, <2>2, <2>3 DEF RunPart, RunsSound
<1>3. SuccessMeansDone'
  BY <1>0, <1>1, PerformOne DEF RunPart, RunTypes, SuccessMeansDone
<1>4. RowsSound'
  <2>1. attempt'[a].pc = "act" /\ attempt[a].pc # "none"
    <3>1. attempt'[a] = [attempt[a] EXCEPT !.pc = "act", !.at = attempt[a].at + 1]
      BY <1>0, PerformOne
    <3> QED
      BY <1>0, <3>1 DEF RunType
  <2>2. \A b \in Attempts : b # a => attempt'[b] = attempt[b]
    BY <1>0, PerformOne
  <2> QED
    BY <1>0, <2>1, <2>2 DEF RunPart, RowsSound
<1>5. OnlyFailuresOrphan'
  <2>1. \A b \in Attempts : b # a => attempt'[b] = attempt[b]
    BY <1>0, PerformOne
  <2> QED
    BY <2>1, OrphansKept DEF RunPart
<1> QED
  BY <1>1, <1>2, <1>3, <1>4, <1>5

\* An action of a run that fails keeps the part about runs.
LEMMA ThrownStep ==
  ASSUME RunPart, NEW a \in Attempts, Throws(a),
         attempt[a].pc \in {"act", "change"}, attempt[a].at <= Length,
         change'[a].pc = "none" \/ (change'[a] = change[a] /\ attempt[a].pc = "act"),
         \A b \in Attempts : b # a => change'[b] = change[b],
         UNCHANGED <<row, api, job, stalls>>
  PROVE  RunTypes' /\ RunsSound' /\ SuccessMeansDone' /\ RowsSound' /\ OnlyFailuresOrphan'
<1>0. attempt \in [Attempts -> RunType] /\ attempt[a] \in RunType
  BY DEF RunPart, RunTypes
<1>1. RunTypes'
  BY <1>0, ThrowOne DEF RunPart, RunTypes
<1>2. RunsSound'
  BY <1>0, ThrowOne, ErrorTyped DEF RunPart, RunTypes, RunsSound
<1>3. SuccessMeansDone'
  BY <1>0, ThrowOne DEF RunPart, SuccessMeansDone
<1>4. RowsSound'
  BY <1>0, ThrowOne, ErrorTyped DEF RunPart, RunTypes, RowsSound
<1>5. OnlyFailuresOrphan'
  <2>1. \A b \in Attempts : b # a => attempt'[b] = attempt[b]
    BY <1>0, ThrowOne
  <2> QED
    BY <2>1, OrphansKept DEF RunPart
<1> QED
  BY <1>1, <1>2, <1>3, <1>4, <1>5

\* Taking a job, and finding it stalled, keep the invariant.
LEMMA QueueStep ==
  ASSUME Inductive, NEW x \in Executions, Take(x) \/ Stall(x)
  PROVE  Inductive'
<1>0. RunPart /\ LogPart /\ RunTypes
  BY Parts DEF RunPart
<1>1. CASE Take(x)
  <2> DEFINE a == <<x, stalls[x] + 1>>
  <2>1. \A b \in Attempts : b = a => b[1] = x /\ b[2] = stalls[x] + 1 /\ attempt[b].pc = "none"
    BY <1>0, <1>1 DEF Take, RunPart, RowsSound, RunTypes
  <2>2. /\ attempt' \in [Attempts -> RunType]
        /\ \A b \in Attempts : attempt'[b] = IF b = a THEN [attempt[b] EXCEPT !.pc = "load"] ELSE attempt[b]
    BY <1>0, <1>1, MoveOne DEF Take, RunTypes, RunPhases
  <2>3. RunTypes'
    BY <1>0, <1>1, <2>2 DEF Take, RunTypes
  <2>4. RunsSound'
    BY <1>0, <1>1, <2>1, <2>2 DEF Take, RunPart, RunTypes, RunsSound, logVars, RunType
  <2>5. RowsSound'
    BY <1>0, <1>1, <2>1, <2>2, AttemptPair DEF Take, RunPart, RunTypes, RowsSound, RunType
  <2>6. SuccessMeansDone'
    BY <1>0, <1>1 DEF Take, RunPart, RunTypes, SuccessMeansDone
  <2>7. OnlyFailuresOrphan'
    <3>1. \A b \in Attempts : attempt[b].pc = "failed" => attempt'[b].pc = "failed"
      BY <2>1, <2>2
    <3>2. \A y \in Executions : job[y] \in {"waiting", "active"} => job'[y] \in {"waiting", "active"}
      BY <1>0, <1>1 DEF Take, RunTypes
    <3> QED
      BY <1>0, <1>1, <3>1, <3>2, OrphansKept DEF Take, RunPart
  <2> QED
    BY <1>0, <1>1, <2>3, <2>4, <2>5, <2>6, <2>7, LogIdle, Parts DEF Take, RunPart
<1>2. CASE Stall(x)
  <2>1. Stalled(x) \in {"waiting", "gone"} /\ (Stalled(x) = "gone" => stalls[x] >= Tolerated)
    BY <1>0, ExecutionAssumption DEF Stalled, RunTypes
  <2>2. RunTypes'
    BY <1>0, <1>2, <2>1, ExecutionAssumption DEF Stall, RunTypes
  <2>3. RunsSound' /\ SuccessMeansDone'
    BY <1>0, <1>2 DEF Stall, RunPart, RunsSound, SuccessMeansDone, logVars
  <2>4. RowsSound'
    BY <1>0, <1>2, <2>1, AttemptPair, ExecutionAssumption DEF Stall, RunPart, RunTypes, RowsSound
  <2>5. OnlyFailuresOrphan'
    BY <1>0, <1>2, <2>1, ExecutionAssumption DEF Stall, RunPart, RunTypes, OnlyFailuresOrphan, GivenUp, Broken
  <2> QED
    BY <1>0, <1>2, <2>2, <2>3, <2>4, <2>5, LogIdle, Parts DEF Stall, RunPart
<1> QED
  BY <1>1, <1>2

\* Every step of a run that changes no job keeps the invariant.
LEMMA WorkerStep ==
  ASSUME Inductive, NEW a \in Attempts,
         \/ Load(a) \/ Perform(a) \/ Reject(a) \/ Throw(a) \/ Finish(a) \/ MarkFailed(a)
         \/ Break(a) \/ Complete(a)
  PROVE  Inductive'
<1>0. RunPart /\ LogPart /\ RunTypes /\ TypeOK
  BY Parts DEF RunPart, Inductive
<1>a. a[1] \in Executions /\ attempt[a] \in RunType
  BY <1>0, AttemptPair DEF RunTypes
<1>b. LogPart'
  BY <1>0, LogIdle DEF Load, Perform, Reject, Throw, Finish, MarkFailed, Break, Complete
<1>1. CASE Load(a)
  <2> DEFINE pc == IF row[a[1]] = "RUNNING" THEN "act" ELSE "settled"
  <2>1. /\ attempt' \in [Attempts -> RunType]
        /\ \A b \in Attempts : attempt'[b] = IF b = a THEN [attempt[b] EXCEPT !.pc = pc] ELSE attempt[b]
    BY <1>0, <1>1, MoveOne DEF Load, RunTypes, RunPhases
  <2>2. RunTypes'
    BY <1>0, <1>1, <2>1 DEF Load, RunTypes
  <2>3. RunsSound'
    BY <1>0, <1>1, <2>1 DEF Load, RunPart, RunTypes, RunsSound, logVars, RunType, NoAttempt
  <2>4. RowsSound' /\ SuccessMeansDone'
    BY <1>0, <1>1, <1>a, <2>1, AttemptPair
    DEF Load, RunPart, RunTypes, RowsSound, SuccessMeansDone, RunType
  <2>5. OnlyFailuresOrphan'
    BY <1>0, <1>1, MoveKeepsOrphans DEF Load, RunPhases
  <2> QED
    BY <1>b, <2>2, <2>3, <2>4, <2>5, Parts DEF RunPart
<1>2. CASE Perform(a)
  <2>1. attempt[a].at <= Length /\ attempt[a].pc = "act" /\ Performed(a)
    BY <1>2 DEF Perform, Acting
  <2>2. RunTypes' /\ RunsSound' /\ SuccessMeansDone' /\ RowsSound' /\ OnlyFailuresOrphan'
    BY <1>0, <1>2, <2>1, PerformedStep DEF Perform, logVars
  <2> QED
    BY <1>b, <2>2, Parts DEF RunPart
<1>3. CASE Throw(a)
  <2>1. attempt[a].at <= Length /\ attempt[a].pc = "act" /\ Throws(a)
    BY <1>3 DEF Throw, Acting
  <2>2. RunTypes' /\ RunsSound' /\ SuccessMeansDone' /\ RowsSound' /\ OnlyFailuresOrphan'
    BY <1>0, <1>3, <2>1, ThrownStep DEF Throw, logVars
  <2> QED
    BY <1>b, <2>2, Parts DEF RunPart
<1>4. CASE Finish(a)
  <2>1. /\ attempt' \in [Attempts -> RunType]
        /\ \A b \in Attempts : attempt'[b] = IF b = a THEN [attempt[b] EXCEPT !.pc = "settled"] ELSE attempt[b]
    BY <1>0, <1>4, MoveOne DEF Finish, Finishing, RunTypes, RunPhases
  <2>2. RunTypes'
    BY <1>0, <1>4, <2>1 DEF Finish, Finishing, RunTypes
  <2>3. RunsSound'
    BY <1>0, <1>4, <2>1 DEF Finish, Finishing, RunPart, RunTypes, RunsSound, logVars, RunType
  <2>4. RowsSound'
    BY <1>0, <1>4, <1>a, <2>1, AttemptPair
    DEF Finish, Finishing, RunPart, RunTypes, RowsSound, RunType
  <2>7. OnlyFailuresOrphan'
    <3>1. \A x \in Executions : row'[x] = "RUNNING" => row[x] = "RUNNING"
      BY <1>0, <1>4, <1>a DEF Finish, RunTypes
    <3> QED
      BY <1>0, <1>4, <3>1, MoveKeepsOrphans DEF Finish, Finishing, RunPhases
  <2>5. ASSUME ~attempt[a].soft PROVE performed[a[1]] = 1..Length
    <3>1. \A n \in 1..Length : n < Length + 1
      BY ExecutionAssumption
    <3>2. 1..Length \subseteq performed[a[1]]
      BY <1>0, <1>4, <2>5, <3>1 DEF Finish, Finishing, RunPart, RunsSound
    <3> QED
      BY <1>0, <1>a, <3>2 DEF RunTypes
  <2>6. SuccessMeansDone'
    BY <1>0, <1>4, <1>a, <2>5 DEF Finish, Finishing, RunPart, RunTypes, SuccessMeansDone
  <2> QED
    BY <1>b, <2>2, <2>3, <2>4, <2>6, <2>7, Parts DEF RunPart
<1>5. CASE MarkFailed(a)
  <2>1. /\ attempt' \in [Attempts -> RunType]
        /\ \A b \in Attempts : attempt'[b] = IF b = a THEN [attempt[b] EXCEPT !.pc = "settled"] ELSE attempt[b]
    BY <1>0, <1>5, MoveOne DEF MarkFailed, RunTypes, RunPhases
  <2>2. RunTypes'
    BY <1>0, <1>5, <1>a, <2>1, FailedOne DEF MarkFailed, RunTypes
  <2>3. RunsSound'
    BY <1>0, <1>5, <2>1 DEF MarkFailed, RunPart, RunTypes, RunsSound, logVars, RunType
  <2>a. row'[a[1]] \in {"SUCCEEDED", "FAILED"}
    <3>1. row[a[1]] # "none" /\ row' = Failed(a[1])
      BY <1>0, <1>5 DEF MarkFailed, RunPart, RowsSound
    <3> QED
      BY <1>0, <1>a, <3>1 DEF Failed, RunTypes
  <2>b. \A x \in Executions : row'[x] = row[x] \/ (row'[x] = "FAILED" /\ row[x] # "none")
    BY <1>0, <1>5, <1>a, FailedOne DEF MarkFailed
  <2>c. \A b \in Attempts : attempt'[b].pc = IF b = a THEN "settled" ELSE attempt[b].pc
    BY <1>0, <2>1 DEF RunTypes, RunType
  <2>d. RowsSound'
    BY <1>0, <1>5, <2>a, <2>b, <2>c, AttemptPair DEF MarkFailed, RunPart, RowsSound
  <2>4. SuccessMeansDone'
    BY <1>0, <1>5, <2>b DEF MarkFailed, RunPart, SuccessMeansDone
  <2>5. OnlyFailuresOrphan'
    BY <1>0, <1>5, <2>b, MoveKeepsOrphans DEF MarkFailed, RunPhases
  <2> QED
    BY <1>b, <2>2, <2>3, <2>4, <2>5, <2>d, Parts DEF RunPart
<1>6. CASE Complete(a)
  <2> DEFINE pc == IF attempt[a].pc = "broken" THEN "failed" ELSE "done"
  <2>1. /\ attempt' \in [Attempts -> RunType]
        /\ \A b \in Attempts : attempt'[b] = IF b = a THEN [attempt[b] EXCEPT !.pc = pc] ELSE attempt[b]
    BY <1>0, <1>6, MoveOne DEF Complete, RunTypes, RunPhases
  <2>2. RunTypes'
    BY <1>0, <1>6, <1>a, <2>1 DEF Complete, RunTypes
  <2>3. RunsSound'
    BY <1>0, <1>6, <2>1 DEF Complete, RunPart, RunTypes, RunsSound, logVars, RunType
  <2>a. \A x \in Executions : job'[x] = job[x] \/ (x = a[1] /\ job'[x] = "gone")
    BY <1>0, <1>6 DEF Complete, RunTypes
  <2>b. row[a[1]] # "none" /\ (attempt[a].pc = "settled" => row[a[1]] \in {"SUCCEEDED", "FAILED"})
    BY <1>0, <1>6 DEF Complete, RunPart, RowsSound
  <2>c. \A b \in Attempts : attempt'[b].pc = IF b = a THEN pc ELSE attempt[b].pc
    BY <1>0, <2>1 DEF RunTypes, RunType
  <2>d. api[a[1]] = "enqueue" => job'[a[1]] = job[a[1]]
    <3>1. ASSUME api[a[1]] = "enqueue" PROVE a[2] # stalls[a[1]] + 1
      <4>1. a[2] <= stalls[a[1]]
        BY <1>0, <1>6, <1>a, <3>1 DEF Complete, RunPart, RowsSound
      <4> QED
        BY <1>0, <1>a, <4>1, AttemptPair DEF RunTypes
    <3> QED
      BY <1>0, <1>6, <1>a, <3>1 DEF Complete, RunTypes
  <2>e. RowsSound'
    BY <1>0, <1>6, <2>a, <2>b, <2>c, <2>d, AttemptPair DEF Complete, RunPart, RowsSound
  <2>4. SuccessMeansDone'
    BY <1>0, <1>6 DEF Complete, RunPart, SuccessMeansDone
  <2>5. ASSUME NEW x \in Executions, row'[x] = "RUNNING"
        PROVE  \/ api'[x] \in {"enqueue", "failed", "dead"} \/ job'[x] \in {"waiting", "active"}
               \/ GivenUp(x)' \/ Broken(x)'
    <3>1. UNCHANGED <<row, api, stalls>>
      BY <1>6 DEF Complete
    <3>2. \/ api[x] \in {"enqueue", "failed", "dead"} \/ job[x] \in {"waiting", "active"}
          \/ GivenUp(x) \/ Broken(x)
      BY <1>0, <2>5, <3>1 DEF RunPart, OnlyFailuresOrphan
    <3>3. Broken(x) => Broken(x)'
      BY <1>6, <2>c, <3>1 DEF Complete, Broken
    <3>4. CASE x = a[1] /\ a[2] = stalls[x] + 1
      <4>1. attempt[a].pc = "broken"
        BY <1>6, <2>5, <2>b, <3>1, <3>4 DEF Complete
      <4>2. a = <<x, stalls'[x] + 1>> /\ attempt'[a].pc = "failed"
        BY <2>c, <3>1, <3>4, <4>1, AttemptPair
      <4> QED
        BY <4>2 DEF Broken
    <3>5. CASE ~(x = a[1] /\ a[2] = stalls[x] + 1)
      <4>1. job'[x] = job[x]
        BY <1>0, <1>6, <1>a, <3>5 DEF Complete, RunTypes
      <4> QED
        BY <3>1, <3>2, <3>3, <4>1 DEF GivenUp
    <3> QED
      BY <3>4, <3>5
  <2>6. OnlyFailuresOrphan'
    BY <2>5 DEF OnlyFailuresOrphan
  <2> QED
    BY <1>b, <2>2, <2>3, <2>4, <2>6, <2>e, Parts DEF RunPart
<1>7. CASE Reject(a) \/ Break(a)
  <2>1. PICK pc \in {"failing", "broken"} : Move(a, pc)
    BY <1>7 DEF Reject, Break
  <2>2. /\ UNCHANGED <<row, api, job, stalls, performed, logVars>>
        /\ attempt[a].pc \in {"load", "act", "failing"}
    BY <1>7 DEF Reject, Break, Acting, Finishing
  <2>3. /\ attempt' \in [Attempts -> RunType]
        /\ \A b \in Attempts : attempt'[b] = IF b = a THEN [attempt[b] EXCEPT !.pc = pc] ELSE attempt[b]
    BY <1>0, <2>1, MoveOne DEF RunTypes, RunPhases
  <2>4. RunTypes'
    BY <1>0, <2>2, <2>3 DEF RunTypes
  <2>5. RunsSound'
    BY <1>0, <2>2, <2>3 DEF RunPart, RunTypes, RunsSound, logVars, RunType
  <2>a. \A b \in Attempts : attempt'[b].pc = IF b = a THEN pc ELSE attempt[b].pc
    BY <1>0, <2>1, MoveOne DEF RunTypes, RunPhases
  <2>6. RowsSound' /\ SuccessMeansDone'
    BY <1>0, <1>a, <2>2, <2>a DEF RunPart, RowsSound, SuccessMeansDone
  <2>7. OnlyFailuresOrphan'
    BY <1>0, <2>1, <2>2, MoveKeepsOrphans DEF RunPhases
  <2> QED
    BY <1>b, <2>4, <2>5, <2>6, <2>7, Parts DEF RunPart
<1> QED
  BY <1>1, <1>2, <1>3, <1>4, <1>5, <1>6, <1>7

-----------------------------------------------------------------------------
(* What the steps of a change of the job keep. *)

\* A change that ends without effect, and the lock with it, keeps the job log.
LEMMA LogReleased ==
  ASSUME LogPart, NEW c \in Changers, Release(c), UNCHANGED Unchanged
  PROVE  LogPart'
<1>0. change \in [Changers -> ChangeType] /\ holder \in Changers \cup {Null}
  BY DEF LogPart, LogTypes
<1>1. LogTypes'
  BY <1>0, ReleaseOne DEF LogPart, LogTypes, Unchanged, LogRow, ChangeType
<1>2. Locked'
  BY <1>0, ReleaseOne DEF LogPart, Locked, Unchanged, NoChange
<1>3. JobLogAgrees'
  BY DEF LogPart, JobLogAgrees, Unchanged
<1> QED
  BY <1>1, <1>2, <1>3 DEF LogPart

\* A change begins without the lock, for a user or for a run in an action.
LEMMA BeginStep ==
  ASSUME Inductive, NEW c \in Changers,
         (c \in Attempts /\ BeginAction(c)) \/ (c \in Users /\ BeginUser(c))
  PROVE  Inductive'
<1>0. RunPart /\ LogPart /\ RunTypes /\ LogTypes
  BY Parts DEF RunPart, LogPart
<1>1. PICK to \in Jobs \cup {Null} : Begin(c, to)
  BY DEF BeginAction, BeginUser
<1>2. LogPart'
  <2>1. LogTypes'
    BY <1>0, <1>1, BeginOne DEF LogTypes, BeginAction, BeginUser, Unchanged, LogRow, ChangeType
  <2>2. Locked'
    BY <1>0, <1>1, BeginOne DEF LogPart, LogTypes, Locked, BeginAction, BeginUser, Unchanged
  <2>3. JobLogAgrees'
    BY <1>0 DEF LogPart, JobLogAgrees, BeginAction, BeginUser, Unchanged
  <2> QED
    BY <2>1, <2>2, <2>3 DEF LogPart
<1>3. \A d \in Changers : d # c => change'[d] = change[d]
  BY <1>0, <1>1, BeginOne DEF LogTypes
<1>4. CASE c \in Users /\ BeginUser(c)
  <2>1. \A a \in Attempts : change'[a] = change[a]
    BY <1>3, <1>4, ExecutionAssumption DEF Changers
  <2> QED
    BY <1>0, <1>2, <1>4, <2>1, RunIdle, Parts DEF BeginUser
<1>5. CASE c \in Attempts /\ BeginAction(c)
  <2>1. /\ attempt' \in [Attempts -> RunType]
        /\ \A b \in Attempts : attempt'[b] = IF b = c THEN [attempt[b] EXCEPT !.pc = "change"] ELSE attempt[b]
    BY <1>0, <1>5, MoveOne DEF BeginAction, RunTypes, RunPhases
  <2>2. attempt[c] \in RunType /\ attempt[c].pc = "act" /\ attempt[c].at <= Length
    BY <1>0, <1>5 DEF BeginAction, Acting, RunTypes
  <2>3. RunTypes'
    BY <1>0, <1>5, <2>1 DEF BeginAction, RunTypes
  <2>4. RunsSound'
    <3>1. /\ performed' = performed /\ RunsSound /\ c \in Attempts
          /\ \A b \in Attempts : b \in Changers /\ (b # c => change'[b] = change[b])
      BY <1>0, <1>3, <1>5 DEF BeginAction, RunPart, Changers
    <3>2. ASSUME NEW b \in Attempts, b # c
          PROVE  attempt'[b] = attempt[b] /\ change'[b] = change[b]
      BY <2>1, <3>1, <3>2
    <3>3. /\ attempt'[c].pc = "change" /\ attempt'[c].at = attempt[c].at
          /\ attempt'[c].soft = attempt[c].soft
      <4>1. attempt'[c] = [attempt[c] EXCEPT !.pc = "change"]
        BY <2>1, <3>1
      <4> QED
        BY <2>2, <4>1 DEF RunType
    <3> QED
      BY <2>2, <3>1, <3>2, <3>3 DEF RunsSound
  <2>5. UNCHANGED <<row, api, job, stalls, performed>>
        /\ RowsSound /\ SuccessMeansDone /\ OnlyFailuresOrphan
    BY <1>0, <1>5 DEF BeginAction, RunPart
  <2>6. SuccessMeansDone' /\ OnlyFailuresOrphan'
    <3>1. OnlyFailuresOrphan'
      BY <1>0, <1>5, <2>2, <2>5, MoveKeepsOrphans DEF BeginAction, RunPhases
    <3> QED
      BY <2>5, <3>1 DEF SuccessMeansDone
  <2>7. RowsSound'
    <3>1. attempt'[c].pc = "change"
      <4>1. attempt'[c] = [attempt[c] EXCEPT !.pc = "change"]
        BY <1>5, <2>1
      <4> QED
        BY <2>2, <4>1 DEF RunType
    <3>2. \A b \in Attempts : b # c => attempt'[b] = attempt[b]
      BY <2>1
    <3> QED
      BY <2>2, <2>5, <3>1, <3>2 DEF RowsSound
  <2> QED
    BY <1>2, <2>3, <2>4, <2>6, <2>7, Parts DEF RunPart
<1> QED
  BY <1>4, <1>5

\* Only the holder of the lock is past it, and what it closes is all there is.
LEMMA LockStep ==
  ASSUME Inductive, NEW c \in Changers, Lock(c) \/ CloseLogs(c)
  PROVE  Inductive'
<1>0. RunPart /\ LogPart /\ LogTypes
  BY Parts DEF LogPart
<1>1. CASE Lock(c)
  <2>1. \A d \in Changers : change'[d] = IF d = c THEN [change[d] EXCEPT !.pc = "locked"] ELSE change[d]
    BY <1>0, <1>1 DEF Lock, LogTypes
  <2>2. LogTypes'
    <3>1. change' \in [Changers -> ChangeType]
      BY <1>0, <1>1 DEF Lock, LogTypes, ChangeType
    <3> QED
      BY <1>0, <1>1, <3>1 DEF Lock, LogTypes, Unchanged, LogRow, ChangeType
  <2>3. Locked'
    BY <1>0, <1>1, <2>1, ExecutionAssumption
    DEF Lock, LockFree, LogPart, LogTypes, Locked, Unchanged, ChangeType
  <2>4. JobLogAgrees'
    BY <1>0, <1>1 DEF Lock, LogPart, JobLogAgrees, Unchanged
  <2>5. \A a \in Attempts : change'[a].pc # "none" => change[a].pc # "none"
    BY <1>0, <1>1, <2>1 DEF Lock, Changers, LogTypes, ChangeType
  <2> QED
    BY <1>0, <1>1, <2>2, <2>3, <2>4, <2>5, RunIdle, Parts DEF Lock, LogPart
<1>2. CASE CloseLogs(c)
  <2>1. change' = [change EXCEPT ![c] = [pc |-> "closed", to |-> change[c].to, closing |-> open]]
    BY <1>2 DEF CloseLogs
  <2>2. LogTypes'
    <3>1. change[c].to \in Jobs \cup {Null} /\ open \subseteq LogRow
      BY <1>0 DEF LogTypes, ChangeType
    <3>2. [pc |-> "closed", to |-> change[c].to, closing |-> open] \in ChangeType
      BY <3>1 DEF ChangeType
    <3>3. change' \in [Changers -> ChangeType]
      BY <1>0, <2>1, <3>2 DEF LogTypes
    <3> QED
      BY <1>0, <1>2, <3>3 DEF CloseLogs, LogTypes, Unchanged, LogRow, ChangeType
  <2>3. Locked'
    BY <1>0, <1>2, <2>1 DEF CloseLogs, LogPart, LogTypes, Locked, Unchanged
  <2>4. JobLogAgrees'
    BY <1>0, <1>2 DEF CloseLogs, LogPart, JobLogAgrees, Unchanged
  <2>5. \A a \in Attempts : change'[a].pc # "none" => change[a].pc # "none"
    BY <1>0, <1>2, <2>1 DEF CloseLogs, Changers, LogTypes
  <2> QED
    BY <1>0, <1>2, <2>2, <2>3, <2>4, <2>5, RunIdle, Parts DEF CloseLogs, LogPart
<1> QED
  BY <1>1, <1>2

\* A commit leaves one row that a change wrote, for the job that it set.
LEMMA CommitLog ==
  ASSUME LogPart, NEW c \in Changers, Commit(c)
  PROVE  LogPart'
<1>0. /\ change \in [Changers -> ChangeType] /\ holder \in Changers \cup {Null}
      /\ Release(c) /\ change[c].pc = "closed"
  BY DEF LogPart, LogTypes, Commit
<1> DEFINE to == change[c].to
           left == open \ change[c].closing
<1>1. to \in Jobs \cup {Null} /\ left \subseteq LogRow
  BY <1>0 DEF LogPart, LogTypes, ChangeType
<1>2. \A r \in left : r.by # "change"
  BY <1>0 DEF LogPart, Locked
<1>3. to # Null => Log(to, "change") \in LogRow /\ made + 1 \in 0..MaxLogs
  BY <1>1, ExecutionAssumption DEF Commit, LogPart, LogTypes, Log, LogRow
<1>4. open' \subseteq left \cup {Log(to, "change")} /\ (to = Null => open' = left) /\ current' = to
  BY DEF Commit
<1>5. LogTypes'
  <2>1. current' \in Jobs \cup {Null} /\ missing' \in Jobs \cup {Null} /\ made' \in 0..MaxLogs
    BY <1>1, <1>3 DEF Commit, LogPart, LogTypes
  <2>2. open' \subseteq LogRow
    BY <1>1, <1>3, <1>4
  <2>3. change' \in [Changers -> ChangeType] /\ holder' \in Changers \cup {Null}
    BY <1>0, ReleaseOne
  <2> QED
    BY <2>1, <2>2, <2>3 DEF LogTypes, ChangeType, LogRow
<1>6. Locked'
  <2>1. \A d \in Changers : d # c => change[d].pc \notin {"locked", "closed"}
    BY <1>0 DEF LogPart, Locked
  <2>2. change'[c].pc = "none" /\ \A d \in Changers : d # c => change'[d] = change[d]
    BY <1>0, ReleaseOne DEF NoChange
  <2> QED
    BY <2>1, <2>2 DEF Locked
<1>7. JobLogAgrees'
  <2>1. \A r \in open' : r.by = "change" => r = Log(to, "change") /\ to # Null
    BY <1>2, <1>4
  <2>2. Log(to, "change").job = to
    BY DEF Log
  <2> QED
    BY <1>4, <2>1, <2>2 DEF JobLogAgrees
<1> QED
  BY <1>5, <1>6, <1>7 DEF LogPart

\* A change ends with its effect, or without it and with an error of its run.
LEMMA EndStep ==
  ASSUME Inductive, NEW c \in Changers, Commit(c) \/ Rollback(c)
  PROVE  Inductive'
<1>0. RunPart /\ LogPart /\ RunTypes /\ LogTypes
  BY Parts DEF RunPart, LogPart
<1>1. /\ Release(c) /\ change[c].pc # "none" /\ UNCHANGED <<row, api, job, stalls>>
      /\ IF c \in Attempts THEN Performed(c) \/ Throws(c) ELSE UNCHANGED <<attempt, performed>>
  BY DEF Commit, Rollback
<1>2. LogPart'
  BY <1>0, CommitLog, LogReleased DEF Rollback
<1>3. change'[c].pc = "none" /\ \A d \in Changers : d # c => change'[d] = change[d]
  BY <1>0, <1>1, ReleaseOne DEF LogTypes, NoChange
<1>4. CASE c \in Attempts
  <2>1. attempt[c].pc = "change" /\ attempt[c].at <= Length
    BY <1>0, <1>1, <1>4 DEF RunPart, RunsSound
  <2>2. RunTypes' /\ RunsSound' /\ SuccessMeansDone' /\ RowsSound' /\ OnlyFailuresOrphan'
    BY <1>0, <1>1, <1>3, <1>4, <2>1, PerformedStep, ThrownStep DEF Changers
  <2> QED
    BY <1>2, <2>2, Parts DEF RunPart
<1>5. CASE c \notin Attempts
  BY <1>0, <1>1, <1>2, <1>3, <1>5, RunIdle, Parts DEF runVars, Changers
<1> QED
  BY <1>4, <1>5

\* A dead run is nobody's run any more, and its change is undone.
LEMMA DieStep ==
  ASSUME Inductive, NEW a \in Attempts, Die(a)
  PROVE  Inductive'
<1>0. RunPart /\ LogPart /\ RunTypes /\ LogTypes /\ a \in Changers
  BY Parts DEF RunPart, LogPart, Changers
<1>1. LogPart'
  BY <1>0, LogReleased DEF Die
<1>2. change'[a].pc = "none" /\ \A d \in Changers : d # a => change'[d] = change[d]
  BY <1>0, ReleaseOne DEF Die, LogTypes, NoChange
<1>3. /\ attempt' \in [Attempts -> RunType]
      /\ \A b \in Attempts : attempt'[b] = IF b = a THEN [attempt[b] EXCEPT !.pc = "dead"] ELSE attempt[b]
  BY <1>0, MoveOne DEF Die, RunTypes, RunPhases
<1>4. RunTypes'
  BY <1>0, <1>3 DEF Die, RunTypes
<1>5. RunsSound'
  BY <1>0, <1>2, <1>3 DEF Die, RunPart, RunTypes, RunsSound, RunType, Changers
<1>a. \A b \in Attempts : attempt'[b].pc = IF b = a THEN "dead" ELSE attempt[b].pc
  BY <1>0, MoveOne DEF Die, RunTypes, RunPhases
<1>6. RowsSound' /\ SuccessMeansDone'
  BY <1>0, <1>a DEF Die, RunPart, RowsSound, SuccessMeansDone
<1>7. OnlyFailuresOrphan'
  BY <1>0, MoveKeepsOrphans DEF Die, RunPhases
<1> QED
  BY <1>1, <1>4, <1>5, <1>6, <1>7, Parts DEF RunPart

\* The ensure pass adds rows that no change has written.
LEMMA EnsureStep ==
  ASSUME Inductive, FindMissing \/ InsertMissing
  PROVE  Inductive'
<1>0. RunPart /\ LogPart /\ LogTypes
  BY Parts DEF LogPart
<1>1. RunPart'
  BY <1>0, RunIdle DEF FindMissing, InsertMissing
<1>2. CASE FindMissing
  BY <1>0, <1>1, <1>2, Parts
  DEF FindMissing, LogPart, LogTypes, Locked, JobLogAgrees, LogRow, ChangeType
<1>3. CASE InsertMissing
  <2>1. Log(missing, "ensure") \in LogRow /\ made + 1 \in 0..MaxLogs /\ Log(missing, "ensure").by = "ensure"
    BY <1>0, <1>3, ExecutionAssumption DEF InsertMissing, LogTypes, Log, LogRow
  <2>2. LogTypes'
    BY <1>0, <1>3, <2>1 DEF InsertMissing, LogTypes, LogRow, ChangeType
  <2>3. Locked' /\ JobLogAgrees'
    BY <1>0, <1>3, <2>1 DEF InsertMissing, LogPart, Locked, JobLogAgrees
  <2> QED
    BY <1>1, <2>2, <2>3, Parts DEF LogPart
<1> QED
  BY <1>2, <1>3

-----------------------------------------------------------------------------
(* The theorems. *)

\* Nothing has been triggered and no change has begun.
LEMMA InitInductive == Init => Inductive
<1> SUFFICES ASSUME Init PROVE Inductive
  OBVIOUS
<1>1. NoAttempt \in RunType /\ NoChange \in ChangeType /\ NoAttempt.pc = "none" /\ NoChange.pc = "none"
      /\ NoAttempt.at = 1
  BY ExecutionAssumption DEF NoAttempt, NoChange, RunType, RunPhases, ChangeType
<1>2. RunTypes /\ LogTypes
  BY <1>1, ExecutionAssumption DEF Init, RunTypes, LogTypes
<1>3. RunsSound /\ RowsSound
  BY <1>1 DEF Init, RunsSound, RowsSound, Changers
<1>4. Locked /\ JobLogAgrees /\ SuccessMeansDone /\ OnlyFailuresOrphan
  BY <1>1 DEF Init, Locked, JobLogAgrees, SuccessMeansDone, OnlyFailuresOrphan
<1> QED
  BY <1>2, <1>3, <1>4, Types DEF Inductive

\* Every step keeps the invariant.
LEMMA NextInductive == Inductive /\ [Next]_vars => Inductive'
<1> SUFFICES ASSUME Inductive, [Next]_vars PROVE Inductive'
  OBVIOUS
<1>1. ASSUME NEW x \in Executions,
             Trigger(x) \/ Enqueue(x) \/ RefuseEnqueue(x) \/ MarkUnqueued(x) \/ CrashApi(x)
             \/ Take(x) \/ Stall(x)
      PROVE  Inductive'
  BY <1>1, RequestStep, QueueStep
<1>2. ASSUME NEW a \in Attempts, Run(a) \/ Break(a) \/ Die(a)
      PROVE  Inductive'
  BY <1>2, WorkerStep, BeginStep, DieStep DEF Run, Changers
<1>3. ASSUME NEW u \in Users, BeginUser(u)
      PROVE  Inductive'
  BY <1>3, BeginStep DEF Changers
<1>4. ASSUME NEW c \in Changers, Lock(c) \/ CloseLogs(c) \/ Commit(c) \/ Rollback(c)
      PROVE  Inductive'
  BY <1>4, LockStep, EndStep
<1>5. CASE FindMissing \/ InsertMissing
  BY <1>5, EnsureStep
<1>6. CASE UNCHANGED vars
  <2>1. UNCHANGED runVars /\ UNCHANGED logVars
    BY <1>6 DEF vars
  <2>2. UNCHANGED change
    BY <2>1 DEF logVars
  <2> QED
    BY <2>1, <2>2, LogIdle, RunIdle, Parts
<1> QED
  BY <1>1, <1>2, <1>3, <1>4, <1>5, <1>6 DEF Next

\* The invariant holds in every state that the code can reach.
THEOREM InductiveInvariant == Spec => []Inductive
BY InitInductive, NextInductive, PTL DEF Spec

\* Every variable keeps its type, for any number of executions and users.
THEOREM TypeCorrect == Spec => []TypeOK
<1>1. Inductive => TypeOK
  BY DEF Inductive
<1> QED
  BY <1>1, InductiveInvariant, PTL

\* The job log names the station's job, whoever changes it at once.
THEOREM JobLogAlwaysAgrees == Spec => []JobLogAgrees
<1>1. Inductive => JobLogAgrees
  BY DEF Inductive
<1> QED
  BY <1>1, InductiveInvariant, PTL

\* An execution that succeeded has performed every action, in whichever run.
THEOREM SuccessIsComplete == Spec => []SuccessMeansDone
<1>1. Inductive => SuccessMeansDone
  BY DEF Inductive
<1> QED
  BY <1>1, InductiveInvariant, PTL

\* Only a crash of the API, too many stalls, or a statement on the row that fails
\* in the latest run leave it RUNNING with nobody to settle it: a run that is
\* lost, or an action that fails, never does.
THEOREM OnlyFailuresLeaveOrphans == Spec => []OnlyFailuresOrphan
<1>1. Inductive => OnlyFailuresOrphan
  BY DEF Inductive
<1> QED
  BY <1>1, InductiveInvariant, PTL

-----------------------------------------------------------------------------
(* When an execution has one run. *)

\* A run that has begun and not ended is that of a row still RUNNING.
BusyIsRunning ==
  \A a \in Attempts : attempt[a].pc \in {"act", "change", "failing"} => row[a[1]] = "RUNNING"

\* Where nothing stalls, two runs of one execution are the same run.
LEMMA OneRun ==
  ASSUME Inductive, RunsAlone,
         NEW a \in Attempts, NEW b \in Attempts, a[1] = b[1],
         attempt[a].pc # "none", attempt[b].pc # "none"
  PROVE  a = b
<1>1. /\ a[1] \in Executions /\ a[2] \in 1..Tolerated + 1 /\ a = <<a[1], a[2]>>
      /\ b[2] \in 1..Tolerated + 1 /\ b = <<b[1], b[2]>>
  BY AttemptPair
<1>2. a[2] <= 0 + 1 /\ b[2] <= 0 + 1
  BY <1>1 DEF Inductive, RowsSound, RunsAlone
<1>3. a[2] = b[2]
  BY <1>1, <1>2, ExecutionAssumption
<1> QED
  BY <1>1, <1>3

\* A row whose job could not be added has no run.
LEMMA UnqueuedHasNoRun ==
  ASSUME Inductive, RunsAlone, NEW x \in Executions, api[x] = "failed",
         NEW a \in Attempts, a[1] = x
  PROVE  attempt[a].pc = "none"
<1>1. job[x] = "none" /\ stalls[x] = 0 /\ a[2] \in 1..Tolerated + 1
  BY AttemptPair DEF RunsAlone
<1>2. attempt[a].pc # "none" => a[2] <= 0
  BY <1>1 DEF Inductive, RowsSound
<1> QED
  BY <1>1, <1>2, ExecutionAssumption

\* A step that leaves the rows alone keeps it, if no run begins.
LEMMA BusyKept ==
  ASSUME BusyIsRunning, UNCHANGED row,
         \A a \in Attempts : attempt'[a].pc \in {"act", "change", "failing"} =>
           attempt[a].pc \in {"act", "change", "failing"} \/ row[a[1]] = "RUNNING"
  PROVE  BusyIsRunning'
BY DEF BusyIsRunning

\* A run that moves on is busy afterwards only if it was, or its row RUNNING.
LEMMA BusyMoves ==
  ASSUME Inductive, NEW a \in Attempts, NEW pc, Move(a, pc), UNCHANGED row, BusyIsRunning,
         pc \in RunPhases,
         pc \in {"act", "change", "failing"} => row[a[1]] = "RUNNING"
  PROVE  BusyIsRunning'
<1>1. attempt \in [Attempts -> RunType]
  BY Parts DEF RunPart, RunTypes
<1>a. \A b \in Attempts : attempt'[b] = IF b = a THEN [attempt[b] EXCEPT !.pc = pc] ELSE attempt[b]
  BY <1>1, MoveOne DEF RunPhases
<1>b. \A b \in Attempts : [attempt[b] EXCEPT !.pc = pc].pc = pc
  BY <1>1 DEF RunType
<1>2. \A b \in Attempts : attempt'[b].pc = IF b = a THEN pc ELSE attempt[b].pc
  BY <1>a, <1>b
<1> QED
  BY <1>2 DEF BusyIsRunning

\* An action that takes effect or fails leaves the run as busy as it was.
LEMMA BusyActs ==
  ASSUME Inductive, NEW a \in Attempts, Performed(a) \/ Throws(a), UNCHANGED row, BusyIsRunning,
         attempt[a].pc \in {"act", "change"}, attempt[a].at <= Length
  PROVE  BusyIsRunning'
<1>1. attempt \in [Attempts -> RunType] /\ performed \in [Executions -> SUBSET (1..Length)]
  BY Parts DEF RunPart, RunTypes
<1>2. \A b \in Attempts : b # a => attempt'[b] = attempt[b]
  BY <1>1, PerformOne, ThrowOne
<1> QED
  BY <1>2 DEF BusyIsRunning

\* Settling the row of the only run leaves no busy run of it.
LEMMA BusySettles ==
  ASSUME Inductive, RunsAlone, NEW a \in Attempts, attempt[a].pc # "none", BusyIsRunning,
         Move(a, "settled"), \A x \in Executions : x # a[1] => row'[x] = row[x]
  PROVE  BusyIsRunning'
<1>1. attempt \in [Attempts -> RunType]
  BY Parts DEF RunPart, RunTypes
<1>a. \A b \in Attempts : attempt'[b] = IF b = a THEN [attempt[b] EXCEPT !.pc = "settled"] ELSE attempt[b]
  BY <1>1, MoveOne DEF RunPhases
<1>b. \A b \in Attempts : [attempt[b] EXCEPT !.pc = "settled"].pc = "settled"
  BY <1>1 DEF RunType
<1>2. \A b \in Attempts : attempt'[b].pc = IF b = a THEN "settled" ELSE attempt[b].pc
  BY <1>a, <1>b
<1>3. ASSUME NEW b \in Attempts, attempt'[b].pc \in {"act", "change", "failing"}
      PROVE  row'[b[1]] = "RUNNING"
  <2>1. b # a /\ attempt[b].pc \in {"act", "change", "failing"}
    BY <1>2, <1>3
  <2>2. b[1] # a[1]
    BY <2>1, OneRun
  <2>3. row'[b[1]] = row[b[1]]
    BY <2>2, AttemptPair
  <2> QED
    BY <2>1, <2>3 DEF BusyIsRunning
<1> QED
  BY <1>3 DEF BusyIsRunning

\* What requests and the queue do leaves the rows of busy runs RUNNING.
LEMMA BusyQueued ==
  ASSUME Inductive, RunsAlone, BusyIsRunning, NEW x \in Executions,
         Trigger(x) \/ Enqueue(x) \/ RefuseEnqueue(x) \/ MarkUnqueued(x) \/ CrashApi(x)
         \/ Take(x) \/ Stall(x)
  PROVE  BusyIsRunning'
<1>0. attempt \in [Attempts -> RunType] /\ row \in [Executions -> {"none", "RUNNING", "SUCCEEDED", "FAILED"}]
      /\ TypeOK
  BY Parts DEF RunPart, RunTypes, Inductive
<1>1. CASE Trigger(x)
  BY <1>0, <1>1, AttemptPair DEF Trigger, BusyIsRunning
<1>2. CASE MarkUnqueued(x)
  <2>1. \A a \in Attempts : a[1] = x => attempt[a].pc = "none"
    BY <1>2, UnqueuedHasNoRun DEF MarkUnqueued
  <2>2. \A y \in Executions : y # x => row'[y] = row[y]
    BY <1>0, <1>2, FailedOne DEF MarkUnqueued
  <2> QED
    BY <1>2, <2>1, <2>2, AttemptPair DEF MarkUnqueued, BusyIsRunning
<1>3. CASE Take(x)
  <2>1. \A b \in Attempts :
          attempt'[b] = IF b = <<x, stalls[x] + 1>> THEN [attempt[b] EXCEPT !.pc = "load"] ELSE attempt[b]
    BY <1>0, <1>3, MoveOne DEF Take, RunPhases
  <2>2. \A b \in Attempts : attempt'[b].pc \in {"load", attempt[b].pc}
    BY <1>0, <2>1 DEF RunType
  <2> QED
    BY <1>3, <2>2, BusyKept DEF Take
<1>4. CASE Enqueue(x) \/ RefuseEnqueue(x) \/ CrashApi(x) \/ Stall(x)
  BY <1>4 DEF Enqueue, RefuseEnqueue, CrashApi, Stall, BusyIsRunning
<1> QED
  BY <1>1, <1>2, <1>3, <1>4

\* A run starts on a RUNNING row, and settles the row as it stops.
LEMMA BusyRuns ==
  ASSUME Inductive, RunsAlone, BusyIsRunning, NEW a \in Attempts, Run(a) \/ Break(a) \/ Die(a)
  PROVE  BusyIsRunning'
<1>0. TypeOK /\ a[1] \in Executions /\ row \in [Executions -> {"none", "RUNNING", "SUCCEEDED", "FAILED"}]
  BY AttemptPair DEF Inductive, TypeOK
<1>1. CASE Load(a)
  <2> DEFINE pc == IF row[a[1]] = "RUNNING" THEN "act" ELSE "settled"
  <2>1. Move(a, pc) /\ UNCHANGED row
    BY <1>1 DEF Load
  <2>2. pc \in {"act", "settled"} /\ (pc = "act" => row[a[1]] = "RUNNING")
    OBVIOUS
  <2> HIDE DEF pc
  <2> QED
    BY <2>1, <2>2, BusyMoves DEF RunPhases
<1>2. CASE Perform(a) \/ Throw(a)
  BY <1>2, BusyActs DEF Perform, Throw, Acting
<1>3. CASE BeginAction(a)
  <2>1. Move(a, "change") /\ UNCHANGED row /\ row[a[1]] = "RUNNING"
    BY <1>3 DEF BeginAction, Acting, BusyIsRunning
  <2> QED
    BY <2>1, BusyMoves DEF RunPhases
<1>4. CASE Finish(a)
  <2>1. Move(a, "settled") /\ attempt[a].pc # "none" /\ \A x \in Executions : x # a[1] => row'[x] = row[x]
    BY <1>0, <1>4 DEF Finish, Finishing
  <2> QED
    BY <2>1, BusySettles
<1>5. CASE MarkFailed(a)
  <2>1. Move(a, "settled") /\ attempt[a].pc # "none" /\ \A x \in Executions : x # a[1] => row'[x] = row[x]
    BY <1>0, <1>5, FailedOne DEF MarkFailed
  <2> QED
    BY <2>1, BusySettles
<1>6. CASE Complete(a)
  <2> DEFINE pc == IF attempt[a].pc = "broken" THEN "failed" ELSE "done"
  <2>1. Move(a, pc) /\ UNCHANGED row
    BY <1>6 DEF Complete
  <2>2. pc \in {"failed", "done"}
    OBVIOUS
  <2> HIDE DEF pc
  <2> QED
    BY <2>1, <2>2, BusyMoves DEF RunPhases
<1>7. CASE Die(a)
  BY <1>7, BusyMoves DEF Die, RunPhases
<1>8. CASE Reject(a)
  <2>1. Move(a, "failing") /\ UNCHANGED row /\ row[a[1]] = "RUNNING"
    BY <1>8 DEF Reject, Acting, BusyIsRunning
  <2> QED
    BY <2>1, BusyMoves DEF RunPhases
<1>9. CASE Break(a)
  BY <1>9, BusyMoves DEF Break, RunPhases
<1> QED
  BY <1>1, <1>2, <1>3, <1>4, <1>5, <1>6, <1>7, <1>8, <1>9 DEF Run

\* Every step keeps it where each execution has one run.
LEMMA BusyStep == Inductive /\ RunsAlone /\ BusyIsRunning /\ [Next]_vars => BusyIsRunning'
<1> SUFFICES ASSUME Inductive, RunsAlone, BusyIsRunning, [Next]_vars PROVE BusyIsRunning'
  OBVIOUS
<1>1. ASSUME NEW c \in Changers, Lock(c) \/ CloseLogs(c) \/ Commit(c) \/ Rollback(c)
      PROVE  BusyIsRunning'
  <2>1. CASE Lock(c) \/ CloseLogs(c)
    BY <2>1 DEF Lock, CloseLogs, runVars, BusyIsRunning
  <2>2. CASE (Commit(c) \/ Rollback(c)) /\ c \in Attempts
    <3>1. /\ UNCHANGED row /\ change[c].pc # "none"
          /\ Performed(c) \/ Throws(c)
      BY <2>2 DEF Commit, Rollback
    <3>2. attempt[c].pc = "change" /\ attempt[c].at <= Length
      BY <2>2, <3>1 DEF Inductive, RunsSound
    <3> QED
      BY <2>2, <3>1, <3>2, BusyActs
  <2>3. CASE (Commit(c) \/ Rollback(c)) /\ c \notin Attempts
    BY <2>3 DEF Commit, Rollback, BusyIsRunning
  <2> QED
    BY <1>1, <2>1, <2>2, <2>3
<1>2. CASE (\E u \in Users : BeginUser(u)) \/ FindMissing \/ InsertMissing \/ UNCHANGED vars
  BY <1>2 DEF BeginUser, FindMissing, InsertMissing, vars, runVars, BusyIsRunning
<1> QED
  BY <1>1, <1>2, BusyQueued, BusyRuns DEF Next

\* Only the end of a run overwrites a row, and then the row is RUNNING.
LEMMA SettledStep ==
  Inductive /\ BusyIsRunning /\ [Next]_vars =>
    [\A x \in Executions : row[x] \in {"SUCCEEDED", "FAILED"} => row'[x] = row[x]]_vars
<1> SUFFICES ASSUME Inductive, BusyIsRunning, Next, NEW x \in Executions,
                    row[x] \in {"SUCCEEDED", "FAILED"}
             PROVE  row'[x] = row[x]
  OBVIOUS
<1>0. TypeOK /\ row \in [Executions -> {"none", "RUNNING", "SUCCEEDED", "FAILED"}]
  BY DEF Inductive, TypeOK
<1>1. ASSUME NEW y \in Executions,
             Trigger(y) \/ Enqueue(y) \/ RefuseEnqueue(y) \/ MarkUnqueued(y) \/ CrashApi(y)
             \/ Take(y) \/ Stall(y)
      PROVE  row'[x] = row[x]
  BY <1>0, <1>1, FailedOne DEF Trigger, Enqueue, RefuseEnqueue, MarkUnqueued, CrashApi, Take, Stall
<1>2. ASSUME NEW a \in Attempts, Run(a) \/ Break(a) \/ Die(a)
      PROVE  row'[x] = row[x]
  <2>1. CASE Finish(a)
    BY <1>0, <2>1, AttemptPair DEF Finish, Finishing, BusyIsRunning
  <2>2. CASE MarkFailed(a)
    BY <1>0, <2>2, AttemptPair, FailedOne DEF MarkFailed
  <2>3. CASE \/ Load(a) \/ Perform(a) \/ Reject(a) \/ Throw(a) \/ BeginAction(a) \/ Break(a)
             \/ Complete(a) \/ Die(a)
    BY <2>3 DEF Load, Perform, Reject, Throw, BeginAction, Break, Complete, Die
  <2> QED
    BY <1>2, <2>1, <2>2, <2>3 DEF Run
<1>3. ASSUME NEW c \in Changers, Lock(c) \/ CloseLogs(c) \/ Commit(c) \/ Rollback(c)
      PROVE  row'[x] = row[x]
  BY <1>3 DEF Lock, CloseLogs, Commit, Rollback, runVars
<1>4. CASE (\E u \in Users : BeginUser(u)) \/ FindMissing \/ InsertMissing
  BY <1>4 DEF BeginUser, FindMissing, InsertMissing, runVars
<1> QED
  BY <1>1, <1>2, <1>3, <1>4 DEF Next

\* Where no job stalls, and none is added that the API believes was not, the
\* outcome of an execution is final: the unconditional update at the end of a
\* run never overwrites another outcome.
THEOREM LoneRunsSettleOnce == Spec /\ []RunsAlone => SettledStays
<1>1. Init => BusyIsRunning
  BY DEF Init, BusyIsRunning, NoAttempt
<1>2. Spec /\ []RunsAlone => []BusyIsRunning
  BY <1>1, BusyStep, InductiveInvariant, PTL DEF Spec
<1> QED
  BY <1>2, SettledStep, InductiveInvariant, PTL DEF Spec, SettledStays

-----------------------------------------------------------------------------
(* When the ensure pass finds nothing. *)

\* Without that pass all open rows were written by changes.
LEMMA ChangesOnly ==
  (\A r \in open : r.by = "change") /\ missing = Null /\ [Next]_vars =>
    (\A r \in open' : r.by = "change")
<1> SUFFICES ASSUME \A r \in open : r.by = "change", missing = Null, [Next]_vars
             PROVE  \A r \in open' : r.by = "change"
  OBVIOUS
<1>1. ASSUME NEW c \in Changers, Commit(c)
      PROVE  \A r \in open' : r.by = "change"
  <2>1. \A r \in open' : r \in open \/ r = Log(change[c].to, "change")
    BY <1>1 DEF Commit
  <2> QED
    BY <2>1 DEF Log
<1>2. CASE UNCHANGED open
  BY <1>2
<1>3. (\E c \in Changers : Commit(c)) \/ UNCHANGED open
  BY DEF Next, Trigger, Enqueue, RefuseEnqueue, MarkUnqueued, CrashApi, Take, Stall, Run, Load,
     Perform, Reject, Throw, BeginAction, Finish, MarkFailed, Break, Complete, Die, BeginUser, Lock, CloseLogs,
     Rollback, FindMissing, InsertMissing, vars, logVars, Unchanged
<1> QED
  BY <1>1, <1>2, <1>3

\* While the pass inserts no row, a station has one open row at most: changes
\* alone, however many users and runs make them, never leave two.
THEOREM ChangesLeaveOneOpen == Spec /\ [](missing = Null) => []OneOpenRow
<1> DEFINE Written == \A r \in open : r.by = "change"
<1>1. Init => Written
  BY DEF Init
<1>2. Written /\ missing = Null /\ [Next]_vars => Written'
  BY ChangesOnly
<1>3. JobLogAgrees /\ Written => OneOpenRow
  BY DEF JobLogAgrees, OneOpenRow
<1> HIDE DEF Written
<1> QED
  BY <1>1, <1>2, <1>3, JobLogAlwaysAgrees, PTL DEF Spec

=============================================================================
