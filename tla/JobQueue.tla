------------------------------- MODULE JobQueue -------------------------------
(***************************************************************************)
(* The job queue between the HTTP processes and the workers: arq on Redis, *)
(* as app/workers/jobs.py configures it and app/workers/queue.py uses it.  *)
(*                                                                         *)
(* A job is enqueued under a fresh id and stays in the queue until a       *)
(* worker acknowledges it.  A job whose worker is killed, or cancelled by  *)
(* a shutdown, is run again, up to a number of tries; a job that raises is *)
(* not: it is finished, with a failure for its result.  What a job does is *)
(* up to the modules that extend this one.                                 *)
(***************************************************************************)
EXTENDS Naturals

CONSTANTS
  Jobs,       \* job ids
  MaxTries,   \* max_tries of the worker; arq's default is 5
  MaxKills    \* bound: workers killed while they run a job

QueueAssumption == MaxTries \in Nat \ {0} /\ MaxKills \in Nat

VARIABLES
  jobs,    \* where each job is, and how often it was started
  kills    \* how many workers were killed

queue == <<jobs, kills>>

Job == [state : {"absent", "queued", "running", "done", "failed"},
        tries : 0..(MaxTries + 1)]

QueueTypeOK == jobs \in [Jobs -> Job] /\ kills \in 0..MaxKills

QueueInit ==
  /\ jobs = [j \in Jobs |-> [state |-> "absent", tries |-> 0]]
  /\ kills = 0

(* queue.enqueue_job *)
EnqueueJob(j) ==
  /\ jobs[j].state = "absent"
  /\ jobs' = [jobs EXCEPT ![j].state = "queued"]
  /\ UNCHANGED kills

(* The job has had its tries, and is failed instead of run.                *)
Exhausted(j) == jobs[j].tries >= MaxTries

(* A worker takes a job. *)
StartJob(j) ==
  /\ jobs[j].state = "queued"
  /\ jobs' = [jobs EXCEPT ![j] = [state |-> IF Exhausted(j) THEN "failed" ELSE "running",
                                  tries |-> @.tries + 1]]
  /\ UNCHANGED kills

(* The coroutine of the job has returned. *)
FinishJob(j) ==
  /\ jobs[j].state = "running"
  /\ jobs' = [jobs EXCEPT ![j].state = "done"]
  /\ UNCHANGED kills

(* It has raised, or has run into the job timeout. *)
FailJob(j) ==
  /\ jobs[j].state = "running"
  /\ jobs' = [jobs EXCEPT ![j].state = "failed"]
  /\ UNCHANGED kills

(* The worker is killed, or force_exit cancels the job after the drain     *)
(* time: the job is still in the queue.                                    *)
KillJob(j) ==
  /\ jobs[j].state = "running"
  /\ kills < MaxKills
  /\ kills' = kills + 1
  /\ jobs' = [jobs EXCEPT ![j].state = "queued"]

=============================================================================
