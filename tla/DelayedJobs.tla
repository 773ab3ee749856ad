---------------------------- MODULE DelayedJobs ----------------------------
(***************************************************************************)
(* A BullMQ job with a deterministic id, as the queues of this system use  *)
(* it.  The library is external: these operators state the behaviour the   *)
(* code depends on.  A job is looked up by its id, so a queue holds at     *)
(* most one of them, and it stays there while a worker runs it.            *)
(***************************************************************************)
EXTENDS Naturals

NoJob == [state |-> "none", due |-> 0]

Job == [state: {"none", "delayed", "active", "failed"}, due: Nat]

\* queue.remove(id): an active job is locked by its worker and is not removed.
Removed(j) == IF j.state = "active" THEN j ELSE NoJob

\* queue.add(name, data, {jobId, delay}): an id that exists is left as it is.
Added(j, due) == IF j.state = "none" THEN [state |-> "delayed", due |-> due] ELSE j

\* A worker takes the job once its delay is over.
IsDue(j, now) == j.state = "delayed" /\ j.due <= now

Started(j) == [j EXCEPT !.state = "active"]

\* The worker died: the stalled job is run again.
Restarted(j) == [j EXCEPT !.state = "delayed"]

\* The handler is over and the job removed (removeOnComplete, removeOnFail), or
\* it threw and the failed job is kept (removeOnFail: false, or a count).
Completed(j) == NoJob
KeptAsFailed(j) == [j EXCEPT !.state = "failed"]

=============================================================================
