--------------------------- MODULE EpisodeIngestion ---------------------------
(***************************************************************************)
(* How an episode gets its facts: a request inserts the episode and puts   *)
(* an extraction job on the queue, a worker runs process_episode.          *)
(*                                                                         *)
(* The request and the job are two transactions with Redis between them,   *)
(* and the job is put on the queue before the request commits.  A job has  *)
(* one transaction for all it does, so the status "processing" is never    *)
(* committed; the facts of a run are counted, EdgeStore has their writing. *)
(***************************************************************************)
EXTENDS JobQueue

CONSTANTS
  Contents,    \* content hashes
  Episodes,    \* episode ids
  NoEpisode,
  Requests,
  Calls,       \* what clients ask for
  NoCall

(* kind is the entry point: POST /episodes, the add_episode tool, or       *)
(* POST /episodes/{id}/reprocess.                                          *)
Call == [kind : {"rest", "mcp", "reprocess"}, content : Contents, extract : BOOLEAN]

Episode == [content : Contents, status : {"pending", "completed", "failed"}]

IngestionAssumption ==
  /\ QueueAssumption
  /\ Calls \subseteq Call
  /\ NoCall \notin Calls
  /\ NoEpisode \notin Episodes

VARIABLES
  episodes,    \* committed episode rows
  facts,       \* committed extraction runs that wrote facts of an episode
  pc,          \* the next statement of each request
  call,        \* its call
  target,      \* the episode it inserted or found
  fresh,       \* whether it inserted it
  arg,         \* the episode each job is about
  step,        \* the next statement of each running job
  outcome      \* what its uncommitted transaction does

requests == <<pc, call, target, fresh>>
work     == <<arg, step, outcome>>
vars     == <<jobs, kills, episodes, facts, pc, call, target, fresh, arg, step, outcome>>

(* What a run of process_episode can come to: its facts, none although it  *)
(* had no errors or made an entity or closed a fact, only proposals next   *)
(* to errors, only errors, or no answer from the model.                    *)
Outcomes == {"facts", "no_facts", "proposals", "errors", "llm_error"}

TypeOK ==
  /\ QueueTypeOK
  /\ DOMAIN episodes \subseteq Episodes
  /\ \A e \in DOMAIN episodes : episodes[e] \in Episode
  /\ facts \in [Episodes -> Nat]
  /\ pc \in [Requests -> {"new", "insert", "find", "enqueue", "done", "failed", "ended"}]
  /\ call \in [Requests -> Calls \cup {NoCall}]
  /\ target \in [Requests -> Episodes \cup {NoEpisode}]
  /\ fresh \in [Requests -> BOOLEAN]
  /\ arg \in [Jobs -> Episodes \cup {NoEpisode}]
  /\ step \in [Jobs -> {"idle", "load", "mark", "extract", "commit", "ack"}]
  /\ outcome \in [Jobs -> Outcomes \cup {"none"}]
  /\ \A j \in Jobs : jobs[j].state = "running" <=> step[j] # "idle"

Goto(t, next) == pc' = [pc EXCEPT ![t] = next]

-----------------------------------------------------------------------------
(* The request *)

Receive(t) ==
  \E c \in Calls :
    /\ pc[t] = "new"
    /\ call' = [call EXCEPT ![t] = c]
    /\ Goto(t, IF c.kind = "reprocess" THEN "find" ELSE "insert")
    /\ UNCHANGED <<queue, episodes, facts, target, fresh, work>>

\* Fault: every request inserts a row of its own.
Existing_None(content) == {}

(* The committed episodes with this content. *)
Existing(content) == {e \in DOMAIN episodes : episodes[e].content = content}

Inserting(content) == {u \in Requests : fresh[u] /\ call[u].content = content}

(* INSERT ... ON CONFLICT DO NOTHING: it waits for an uncommitted row with *)
(* the same hash, and finds the one that is there.                         *)
Insert(t) ==
  LET c == call[t].content
      Unused == Episodes \ (DOMAIN episodes \cup {target[u] : u \in Requests}
                                            \cup {arg[j] : j \in Jobs})
  IN /\ pc[t] = "insert"
     /\ Inserting(c) = {}
     /\ IF Existing(c) # {}
          THEN \E e \in Existing(c) : target' = [target EXCEPT ![t] = e] /\ UNCHANGED fresh
          ELSE \E e \in Unused : /\ target' = [target EXCEPT ![t] = e]
                                 /\ fresh' = [fresh EXCEPT ![t] = TRUE]
     /\ Goto(t, "enqueue")
     /\ UNCHANGED <<queue, episodes, facts, call, work>>

(* reprocess: the episode has to exist, in whatever status.                *)
Find(t) ==
  /\ pc[t] = "find"
  /\ \/ /\ Existing(call[t].content) = {}
        /\ Goto(t, "failed")
        /\ UNCHANGED target
     \/ \E e \in Existing(call[t].content) :
          /\ target' = [target EXCEPT ![t] = e]
          /\ Goto(t, "enqueue")
  /\ UNCHANGED <<queue, episodes, facts, call, fresh, work>>

(* Whether a call asks for extraction of the episode it got. *)
Enqueues(c, isFresh) ==
  \/ c.kind = "reprocess"
  \/ c.kind = "rest" /\ c.extract
  \/ c.kind = "mcp" /\ c.extract /\ isFresh

(* enqueue_extraction, before the commit. *)
Enqueue(t) ==
  /\ pc[t] = "enqueue"
  /\ IF Enqueues(call[t], fresh[t])
       THEN \E j \in Jobs : EnqueueJob(j) /\ arg' = [arg EXCEPT ![j] = target[t]]
       ELSE UNCHANGED <<queue, arg>>
  /\ Goto(t, "done")
  /\ UNCHANGED <<episodes, facts, call, target, fresh, step, outcome>>

(* Redis does not answer: the request fails. *)
EnqueueFails(t) ==
  /\ pc[t] = "enqueue"
  /\ Enqueues(call[t], fresh[t])
  /\ Goto(t, "failed")
  /\ UNCHANGED <<queue, episodes, facts, call, target, fresh, work>>

End(t) ==
  /\ call'   = [call EXCEPT ![t] = NoCall]
  /\ target' = [target EXCEPT ![t] = NoEpisode]
  /\ fresh'  = [fresh EXCEPT ![t] = FALSE]
  /\ Goto(t, "ended")
  /\ UNCHANGED <<queue, facts, work>>

Commit(t) ==
  /\ pc[t] = "done"
  /\ episodes' = IF fresh[t]
       THEN [e \in DOMAIN episodes \cup {target[t]} |->
               IF e = target[t] THEN [content |-> call[t].content, status |-> "pending"]
               ELSE episodes[e]]
       ELSE episodes
  /\ End(t)

Rollback(t) == pc[t] = "failed" /\ End(t) /\ UNCHANGED episodes

(* The process dies or the connection is lost, perhaps after the job was   *)
(* put on the queue.                                                       *)
Crash(t) == pc[t] \notin {"new", "ended"} /\ End(t) /\ UNCHANGED episodes

-----------------------------------------------------------------------------
(* The job *)

JobGoto(j, next) == step' = [step EXCEPT ![j] = next]

(* A worker takes the job, perhaps before the request has committed.       *)
Take(j) ==
  /\ StartJob(j)
  /\ JobGoto(j, IF Exhausted(j) THEN "idle" ELSE "load")
  /\ UNCHANGED <<episodes, facts, requests, arg, outcome>>

\* Fault: the worker goes on without a row.
Loaded_Anyway(e) == TRUE

Loaded(e) == e \in DOMAIN episodes

(* An episode that is not there is not an error: the job returns.          *)
Load(j) ==
  /\ step[j] = "load"
  /\ JobGoto(j, IF Loaded(arg[j]) THEN "mark" ELSE "ack")
  /\ UNCHANGED <<queue, episodes, facts, requests, arg, outcome>>

(* UPDATE episode SET processing_status = 'processing': the row lock keeps *)
(* another job of the episode out until the commit.                        *)
Mark(j) ==
  /\ step[j] = "mark"
  /\ \A i \in Jobs : step[i] \in {"extract", "commit"} => arg[i] # arg[j]
  /\ JobGoto(j, "extract")
  /\ UNCHANGED <<queue, episodes, facts, requests, arg, outcome>>

Extract(j) ==
  /\ step[j] = "extract"
  /\ \E o \in Outcomes : outcome' = [outcome EXCEPT ![j] = o]
  /\ JobGoto(j, "commit")
  /\ UNCHANGED <<queue, episodes, facts, requests, arg>>

\* Fault: a run that comes to nothing leaves the status it set at its start.
Verdict_Unset(o) ==
  CASE o \in {"facts", "no_facts"} -> "completed" [] o = "llm_error" -> "failed" [] OTHER -> "processing"

\* Fault: an episode the model gave no answer for is left for another run.
Verdict_Later(o) ==
  CASE o \in {"facts", "no_facts"} -> "completed" [] o = "llm_error" -> "pending" [] OTHER -> "failed"

(* Facts, entities and closed facts count as success, whatever else went   *)
(* wrong; proposals do not.                                                *)
Verdict(o) == IF o \in {"facts", "no_facts"} THEN "completed" ELSE "failed"

(* Status and facts are committed together. *)
CommitJob(j) ==
  /\ step[j] = "commit"
  /\ episodes' = [e \in DOMAIN episodes |->
       IF e = arg[j] THEN [episodes[e] EXCEPT !.status = Verdict(outcome[j])] ELSE episodes[e]]
  /\ facts' = IF outcome[j] = "facts" THEN [facts EXCEPT ![arg[j]] = @ + 1] ELSE facts
  /\ outcome' = [outcome EXCEPT ![j] = "none"]
  /\ JobGoto(j, "ack")
  /\ UNCHANGED <<queue, requests, arg>>

(* The worker tells the queue, in a step of its own. *)
Acknowledge(j) ==
  /\ step[j] = "ack"
  /\ FinishJob(j)
  /\ JobGoto(j, "idle")
  /\ UNCHANGED <<episodes, facts, requests, arg, outcome>>

(* A database error, or the job timeout: the transaction is rolled back,   *)
(* with the status.                                                        *)
Raise(j) ==
  /\ step[j] \in {"load", "mark", "extract", "commit"}
  /\ FailJob(j)
  /\ outcome' = [outcome EXCEPT ![j] = "none"]
  /\ JobGoto(j, "idle")
  /\ UNCHANGED <<episodes, facts, requests, arg>>

Kill(j) ==
  /\ KillJob(j)
  /\ outcome' = [outcome EXCEPT ![j] = "none"]
  /\ JobGoto(j, "idle")
  /\ UNCHANGED <<episodes, facts, requests, arg>>

-----------------------------------------------------------------------------

Init ==
  /\ QueueInit
  /\ episodes = << >>
  /\ facts   = [e \in Episodes |-> 0]
  /\ pc      = [t \in Requests |-> "new"]
  /\ call    = [t \in Requests |-> NoCall]
  /\ target  = [t \in Requests |-> NoEpisode]
  /\ fresh   = [t \in Requests |-> FALSE]
  /\ arg     = [j \in Jobs |-> NoEpisode]
  /\ step    = [j \in Jobs |-> "idle"]
  /\ outcome = [j \in Jobs |-> "none"]

Serve(t) == Insert(t) \/ Find(t) \/ Enqueue(t) \/ EnqueueFails(t) \/ Commit(t) \/ Rollback(t)

Work(j) ==
  Take(j) \/ Load(j) \/ Mark(j) \/ Extract(j) \/ CommitJob(j) \/ Acknowledge(j)

Quiet ==
  /\ \A t \in Requests : pc[t] = "ended"
  /\ \A j \in Jobs : jobs[j].state \in {"absent", "done", "failed"}
  /\ UNCHANGED vars

Next ==
  \/ \E t \in Requests : Receive(t) \/ Serve(t) \/ Crash(t)
  \/ \E j \in Jobs : Work(j) \/ Raise(j) \/ Kill(j)
  \/ Quiet

Spec == Init /\ [][Next]_vars

(* Requests that have begun run on, and workers keep taking jobs; nothing  *)
(* makes a client call, a job raise or a worker die.                       *)
Fairness ==
  (\A t \in Requests : WF_vars(Serve(t))) /\ (\A j \in Jobs : WF_vars(Work(j)))

FairSpec == Spec /\ Fairness

-----------------------------------------------------------------------------
(* Properties *)

(* Posting a text twice, also at once, makes one episode of it.            *)
OneEpisodePerContent ==
  \A d, e \in DOMAIN episodes : episodes[d].content = episodes[e].content => d = e

Processed(e) == e \in DOMAIN episodes /\ episodes[e].status # "pending"

(* Facts belong to an episode that exists and says it was worked on: a job *)
(* whose request crashed, or ran ahead of it, leaves nothing behind.       *)
FactsHaveProcessedSource ==
  \A e \in Episodes :
    facts[e] > 0 => Processed(e)

Waiting(j) == jobs[j].state = "queued" /\ arg[j] \in DOMAIN episodes
Settled(j) == jobs[j].state = "failed" \/ Processed(arg[j])

(* An episode that is committed while its job is in the queue is worked    *)
(* on, or the queue says that the job failed: killed workers, and other    *)
(* jobs of the episode, do not lose it.                                    *)
EpisodesProcessed == \A j \in Jobs : Waiting(j) ~> Settled(j)

=============================================================================
