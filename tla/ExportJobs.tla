------------------------------ MODULE ExportJobs ------------------------------
(***************************************************************************)
(* Data exports: app/api/rest/exports.py inserts an export_job row and     *)
(* puts a job on the queue; app/workers/export.py dumps the tables,        *)
(* uploads the file and records how far it is in the row.                  *)
(*                                                                         *)
(* Every UPDATE of the row is a transaction of its own, and finds no row   *)
(* when the request has not committed, or never does.                      *)
(***************************************************************************)
EXTENDS JobQueue

CONSTANTS
  Exports,     \* export_job ids; each has one request and one job
  JobOf        \* the job of each export

ExportAssumption ==
  /\ QueueAssumption
  /\ JobOf \in [Exports -> Jobs]
  /\ \A x, y \in Exports : JobOf[x] = JobOf[y] => x = y

VARIABLES
  exports,   \* status and object_key of the committed rows
  objects,   \* files in the object store, by export
  pc,        \* the next statement of each request
  step       \* the next statement of each running job

vars == <<jobs, kills, exports, objects, pc, step>>

Row == [status : {"queued", "running", "completed", "failed"}, object_key : BOOLEAN]

TypeOK ==
  /\ QueueTypeOK
  /\ DOMAIN exports \subseteq Exports
  /\ \A x \in DOMAIN exports : exports[x] \in Row
  /\ objects \subseteq Exports
  /\ pc \in [Exports -> {"new", "enqueue", "done", "failed", "ended"}]
  /\ step \in [Exports -> {"idle", "run", "dump", "fail", "upload", "complete", "ack"}]
  /\ \A x \in Exports : jobs[JobOf[x]].state = "running" <=> step[x] # "idle"

-----------------------------------------------------------------------------
(* The request *)

Goto(x, next) == pc' = [pc EXCEPT ![x] = next] /\ UNCHANGED <<objects, step>>

(* POST .../export: the row is inserted, not yet committed. *)
Request(x) == pc[x] = "new" /\ Goto(x, "enqueue") /\ UNCHANGED <<queue, exports>>

Enqueue(x) == pc[x] = "enqueue" /\ EnqueueJob(JobOf[x]) /\ Goto(x, "done") /\ UNCHANGED exports

EnqueueFails(x) == pc[x] = "enqueue" /\ Goto(x, "failed") /\ UNCHANGED <<queue, exports>>

Queued == [status |-> "queued", object_key |-> FALSE]

Commit(x) ==
  /\ pc[x] = "done"
  /\ exports' = [y \in DOMAIN exports \cup {x} |-> IF y = x THEN Queued ELSE exports[y]]
  /\ Goto(x, "ended")
  /\ UNCHANGED queue

Rollback(x) == pc[x] = "failed" /\ Goto(x, "ended") /\ UNCHANGED <<queue, exports>>

Crash(x) == pc[x] \notin {"new", "ended"} /\ Goto(x, "ended") /\ UNCHANGED <<queue, exports>>

-----------------------------------------------------------------------------
(* The job *)

JobGoto(x, next) == step' = [step EXCEPT ![x] = next] /\ UNCHANGED pc

(* UPDATE export_job SET status WHERE id, committed at once: without a row *)
(* it changes nothing.                                                     *)
SetStatus(x, status) ==
  exports' = [y \in DOMAIN exports |->
                IF y = x THEN [exports[y] EXCEPT !.status = status] ELSE exports[y]]

(* A worker takes the job, perhaps before the request has committed. *)
Take(x) ==
  /\ StartJob(JobOf[x])
  /\ JobGoto(x, IF Exhausted(JobOf[x]) THEN "idle" ELSE "run")
  /\ UNCHANGED <<exports, objects>>

Run(x) ==
  /\ step[x] = "run"
  /\ SetStatus(x, "running")
  /\ JobGoto(x, "dump")
  /\ UNCHANGED <<queue, objects>>

(* The dump reads and compresses all tables; it may raise. *)
Dump(x) ==
  /\ step[x] = "dump"
  /\ \E next \in {"upload", "fail"} : JobGoto(x, next)
  /\ UNCHANGED <<queue, exports, objects>>

\* Fault: the failure of an upload is not told from its success.
AfterUpload_Same(stored) == "complete"

AfterUpload(stored) == IF stored THEN "complete" ELSE "fail"

(* put_object, under a key that a second run of the job overwrites.        *)
Upload(x) ==
  /\ step[x] = "upload"
  /\ \E stored \in BOOLEAN :
       /\ objects' = IF stored THEN objects \cup {x} ELSE objects
       /\ JobGoto(x, AfterUpload(stored))
  /\ UNCHANGED <<queue, exports>>

FailedStatus(x) == "failed"

Fail(x) ==
  /\ step[x] = "fail"
  /\ SetStatus(x, FailedStatus(x))
  /\ JobGoto(x, "ack")
  /\ UNCHANGED <<queue, objects>>

CompletedRow(row) == [row EXCEPT !.status = "completed", !.object_key = TRUE]

Complete(x) ==
  /\ step[x] = "complete"
  /\ exports' = [y \in DOMAIN exports |-> IF y = x THEN CompletedRow(exports[y]) ELSE exports[y]]
  /\ JobGoto(x, "ack")
  /\ UNCHANGED <<queue, objects>>

Acknowledge(x) ==
  /\ step[x] = "ack"
  /\ FinishJob(JobOf[x])
  /\ JobGoto(x, "idle")
  /\ UNCHANGED <<exports, objects>>

(* The job timeout, or an UPDATE the database does not answer: the         *)
(* exception leaves the job, and the row as it is.                         *)
Raise(x) ==
  /\ FailJob(JobOf[x])
  /\ JobGoto(x, "idle")
  /\ UNCHANGED <<exports, objects>>

Kill(x) == KillJob(JobOf[x]) /\ JobGoto(x, "idle") /\ UNCHANGED <<exports, objects>>

-----------------------------------------------------------------------------

Init ==
  /\ QueueInit
  /\ exports = << >>
  /\ objects = {}
  /\ pc   = [x \in Exports |-> "new"]
  /\ step = [x \in Exports |-> "idle"]

Serve(x) == Enqueue(x) \/ EnqueueFails(x) \/ Commit(x) \/ Rollback(x)

Work(x) ==
  \/ Take(x) \/ Run(x) \/ Dump(x) \/ Upload(x) \/ Fail(x) \/ Complete(x) \/ Acknowledge(x)

Quiet ==
  /\ \A x \in Exports : pc[x] = "ended" /\ jobs[JobOf[x]].state \in {"absent", "done", "failed"}
  /\ UNCHANGED vars

Next ==
  \/ \E x \in Exports : Request(x) \/ Serve(x) \/ Crash(x) \/ Work(x) \/ Raise(x) \/ Kill(x)
  \/ Quiet

Spec == Init /\ [][Next]_vars

(* Requests that have begun run on, and workers keep taking jobs. *)
Fairness == \A x \in Exports : WF_vars(Serve(x)) /\ WF_vars(Work(x))

FairSpec == Spec /\ Fairness

-----------------------------------------------------------------------------
(* Properties *)

(* A row that says completed names a file that was uploaded, whatever      *)
(* failed and however often the job ran.                                   *)
CompletedHasObject ==
  \A x \in DOMAIN exports :
    exports[x].status = "completed" => exports[x].object_key /\ x \in objects

Waiting(x) == x \in DOMAIN exports /\ jobs[JobOf[x]].state = "queued"

Settled(x) ==
  \/ jobs[JobOf[x]].state = "failed"
  \/ x \in DOMAIN exports /\ exports[x].status \in {"completed", "failed"}

(* Whoever polls an export sees it completed or failed in the end, if its  *)
(* row was committed while the job was in the queue and the job does not   *)
(* fail: neither a failed dump or upload nor killed workers lose it.       *)
ExportsEnd == \A x \in Exports : Waiting(x) ~> Settled(x)

=============================================================================
