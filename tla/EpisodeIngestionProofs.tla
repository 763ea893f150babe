------------------------- MODULE EpisodeIngestionProofs -------------------------
(***************************************************************************)
(* Proofs about the ingestion of episodes, for any number of requests,     *)
(* jobs, tries and kills: one text makes one episode, and facts are of     *)
(* episodes that are there and say that they were worked on.               *)
(***************************************************************************)
EXTENDS EpisodeIngestion, TLAPS

-----------------------------------------------------------------------------
(* The invariants *)

(* A job that may still be started has tries left, but for the last one.   *)
TriesBounded ==
  \A j \in Jobs : jobs[j].state \in {"absent", "queued", "running"} => jobs[j].tries <= MaxTries

(* A request that has inserted an episode has a call, and is the only one  *)
(* that knows of it: no row has its id, and none its content.              *)
InsertedAlone ==
  \A t \in Requests : fresh[t] =>
    /\ pc[t] \in {"enqueue", "done", "failed"} /\ call[t] \in Calls
    /\ target[t] \in Episodes \ DOMAIN episodes
    /\ \A e \in DOMAIN episodes : episodes[e].content # call[t].content
    /\ \A u \in Requests : fresh[u] /\ u # t =>
         target[u] # target[t] /\ call[u].content # call[t].content

CallKept == \A t \in Requests : pc[t] = "insert" => call[t] \in Calls

TypeInvariant == TypeOK /\ TriesBounded /\ InsertedAlone /\ CallKept

(* A job that has loaded its episode works on one that is there.           *)
JobsLoaded == \A j \in Jobs : step[j] \in {"mark", "extract", "commit"} => arg[j] \in DOMAIN episodes

(* The inductive invariant behind FactsHaveProcessedSource.                *)
SourceInvariant == JobsLoaded /\ FactsHaveProcessedSource

-----------------------------------------------------------------------------
(* The queue *)

QueueInv == QueueTypeOK /\ TriesBounded

(* What the operations of the queue do to one job, and what they keep.     *)
LEMMA QueueSteps ==
  ASSUME QueueAssumption, QueueInv, NEW j \in Jobs
  PROVE  /\ EnqueueJob(j) => /\ QueueInv' /\ jobs[j].state = "absent"
                             /\ jobs'[j].state = "queued"
         /\ StartJob(j) => /\ QueueInv' /\ jobs[j].state = "queued"
                           /\ jobs'[j].state = IF Exhausted(j) THEN "failed" ELSE "running"
         /\ FinishJob(j) => /\ QueueInv' /\ jobs[j].state = "running" /\ jobs'[j].state = "done"
         /\ FailJob(j) => /\ QueueInv' /\ jobs[j].state = "running" /\ jobs'[j].state = "failed"
         /\ KillJob(j) => /\ QueueInv' /\ jobs[j].state = "running" /\ jobs'[j].state = "queued"
         /\ EnqueueJob(j) \/ StartJob(j) \/ FinishJob(j) \/ FailJob(j) \/ KillJob(j) =>
              \A i \in Jobs \ {j} : jobs'[i] = jobs[i]
  <1>. /\ jobs \in [Jobs -> Job] /\ kills \in 0..MaxKills /\ MaxTries \in Nat /\ MaxKills \in Nat
       /\ jobs[j].tries \in 0..(MaxTries + 1)
    BY DEF QueueAssumption, QueueInv, QueueTypeOK, Job
  <1>1. ASSUME EnqueueJob(j)
        PROVE  QueueInv' /\ jobs[j].state = "absent" /\ jobs'[j].state = "queued"
    BY <1>1 DEF EnqueueJob, QueueInv, QueueTypeOK, TriesBounded, Job
  <1>2. ASSUME StartJob(j)
        PROVE  /\ QueueInv' /\ jobs[j].state = "queued"
               /\ jobs'[j].state = IF Exhausted(j) THEN "failed" ELSE "running"
    <2>1. jobs[j].state = "queued" /\ jobs[j].tries <= MaxTries
      BY <1>2 DEF StartJob, QueueInv, TriesBounded
    <2> DEFINE next == [state |-> IF Exhausted(j) THEN "failed" ELSE "running",
                        tries |-> jobs[j].tries + 1]
    <2>2. next \in Job /\ (next.state = "running" => next.tries <= MaxTries)
      BY <2>1 DEF Job, Exhausted
    <2>3. jobs' = [jobs EXCEPT ![j] = next] /\ kills' = kills
      BY <1>2 DEF StartJob
    <2>4. next.state = IF Exhausted(j) THEN "failed" ELSE "running"
      OBVIOUS
    <2> HIDE DEF next
    <2> QED BY <2>1, <2>2, <2>3, <2>4 DEF QueueInv, QueueTypeOK, TriesBounded
  <1>3. ASSUME FinishJob(j)
        PROVE  QueueInv' /\ jobs[j].state = "running" /\ jobs'[j].state = "done"
    BY <1>3 DEF FinishJob, QueueInv, QueueTypeOK, TriesBounded, Job
  <1>4. ASSUME FailJob(j)
        PROVE  QueueInv' /\ jobs[j].state = "running" /\ jobs'[j].state = "failed"
    BY <1>4 DEF FailJob, QueueInv, QueueTypeOK, TriesBounded, Job
  <1>5. ASSUME KillJob(j)
        PROVE  QueueInv' /\ jobs[j].state = "running" /\ jobs'[j].state = "queued"
    BY <1>5 DEF KillJob, QueueInv, QueueTypeOK, TriesBounded, Job
  <1>6. ASSUME EnqueueJob(j) \/ StartJob(j) \/ FinishJob(j) \/ FailJob(j) \/ KillJob(j)
        PROVE  \A i \in Jobs \ {j} : jobs'[i] = jobs[i]
    BY <1>6 DEF EnqueueJob, StartJob, FinishJob, FailJob, KillJob
  <1> QED BY <1>1, <1>2, <1>3, <1>4, <1>5, <1>6

-----------------------------------------------------------------------------
(* Types *)

LEMMA TypeInit == IngestionAssumption /\ Init => TypeInvariant
  BY DEF IngestionAssumption, QueueAssumption, Init, QueueInit, TypeInvariant, TypeOK, QueueTypeOK,
         TriesBounded, InsertedAlone, CallKept, Job

(* What is inserted and not committed stays so, as long as no row appears  *)
(* with its id or its content.                                             *)
LEMMA InsertedKept ==
  ASSUME InsertedAlone,
         \A t \in Requests : fresh'[t] =>
           /\ fresh[t] /\ call'[t] = call[t] /\ target'[t] = target[t]
           /\ pc'[t] \in {"enqueue", "done", "failed"},
         \A e \in DOMAIN episodes' :
            \/ e \in DOMAIN episodes /\ episodes'[e].content = episodes[e].content
            \/ \A t \in Requests :
                  fresh'[t] => e # target[t] /\ episodes'[e].content # call[t].content
  PROVE  InsertedAlone'
  BY DEF InsertedAlone

(* Steps of a request. *)
LEMMA TypeReceive ==
  ASSUME IngestionAssumption, TypeInvariant, NEW t \in Requests, Receive(t)
  PROVE  TypeInvariant'
  <1>1. PICK c \in Calls :
          /\ pc[t] = "new"
          /\ call' = [call EXCEPT ![t] = c]
          /\ pc' = [pc EXCEPT ![t] = IF c.kind = "reprocess" THEN "find" ELSE "insert"]
          /\ UNCHANGED <<queue, episodes, facts, target, fresh, work>>
    BY DEF Receive, Goto
  <1>2. TypeOK'
    BY <1>1 DEF TypeInvariant, TypeOK, QueueTypeOK, queue, work
  <1>3. CallKept'
    BY <1>1 DEF TypeInvariant, TypeOK, CallKept
  <1>4. InsertedAlone'
    BY <1>1, InsertedKept DEF TypeInvariant, TypeOK, InsertedAlone
  <1> QED BY <1>1, <1>2, <1>3, <1>4 DEF TypeInvariant, TriesBounded, queue

LEMMA TypeInsert ==
  ASSUME IngestionAssumption, TypeInvariant, NEW t \in Requests, Insert(t)
  PROVE  TypeInvariant'
  <1> DEFINE c == call[t].content
  <1>1. /\ pc[t] = "insert" /\ pc' = [pc EXCEPT ![t] = "enqueue"] /\ Inserting(c) = {}
        /\ UNCHANGED <<queue, episodes, facts, call, work>>
    BY DEF Insert, Goto
  <1>2. call[t] \in Calls /\ ~fresh[t]
    BY <1>1 DEF TypeInvariant, CallKept, InsertedAlone
  <1>3. CASE Existing(c) # {}
    <2>1. PICK e \in Existing(c) : target' = [target EXCEPT ![t] = e] /\ fresh' = fresh
      BY <1>3 DEF Insert
    <2>2. e \in Episodes
      BY DEF Existing, TypeInvariant, TypeOK
    <2>3. TypeOK'
      BY <1>1, <2>1, <2>2 DEF TypeInvariant, TypeOK, QueueTypeOK, queue, work
    <2>4. InsertedAlone'
      BY <1>1, <1>2, <2>1, InsertedKept DEF TypeInvariant, TypeOK, InsertedAlone
    <2> QED BY <1>1, <2>3, <2>4 DEF TypeInvariant, TypeOK, TriesBounded, CallKept, queue
  <1>4. CASE Existing(c) = {}
    <2>1. PICK e \in Episodes \ (DOMAIN episodes \cup {target[u] : u \in Requests}
                                               \cup {arg[j] : j \in Jobs}) :
            target' = [target EXCEPT ![t] = e] /\ fresh' = [fresh EXCEPT ![t] = TRUE]
      BY <1>4 DEF Insert
    <2>2. TypeOK'
      BY <1>1, <2>1 DEF TypeInvariant, TypeOK, QueueTypeOK, queue, work
    <2>3. InsertedAlone'
      <3>1. /\ target'[t] = e /\ fresh'[t] /\ episodes' = episodes /\ call' = call
            /\ \A u \in Requests \ {t} : target'[u] = target[u] /\ fresh'[u] = fresh[u]
        BY <1>1, <2>1 DEF TypeInvariant, TypeOK
      <3>2. \A u \in Requests : fresh[u] => call[u].content # c
        BY <1>1 DEF Inserting
      <3>3. \A u \in Requests \ {t} : fresh[u] => target[u] # e
        BY <2>1
      <3>4. /\ e \in Episodes \ DOMAIN episodes
            /\ \A x \in DOMAIN episodes : episodes[x].content # c
        BY <1>4, <2>1 DEF Existing
      <3>5. ASSUME NEW u \in Requests, fresh'[u]
            PROVE  /\ pc'[u] \in {"enqueue", "done", "failed"} /\ call'[u] \in Calls
                   /\ target'[u] \in Episodes \ DOMAIN episodes'
                   /\ \A x \in DOMAIN episodes' : episodes'[x].content # call'[u].content
        <4>1. CASE u = t
          BY <1>1, <1>2, <3>1, <3>4, <4>1 DEF TypeInvariant, TypeOK
        <4>2. CASE u # t
          <5>1. pc'[u] = pc[u] /\ fresh[u]
            BY <1>1, <3>1, <3>5, <4>2
          <5> QED BY <3>1, <4>2, <5>1 DEF TypeInvariant, InsertedAlone
        <4> QED BY <4>1, <4>2
      <3>6. ASSUME NEW u \in Requests, NEW v \in Requests, fresh'[u], fresh'[v], u # v
            PROVE  target'[v] # target'[u] /\ call'[v].content # call'[u].content
        <4>1. CASE u = t \/ v = t
          BY <3>1, <3>2, <3>3, <3>6, <4>1
        <4>2. CASE u # t /\ v # t
          BY <3>1, <3>6, <4>2 DEF TypeInvariant, InsertedAlone
        <4> QED BY <4>1, <4>2
      <3> QED BY <3>5, <3>6 DEF InsertedAlone
    <2> QED BY <1>1, <2>2, <2>3 DEF TypeInvariant, TypeOK, TriesBounded, CallKept, queue
  <1> QED BY <1>3, <1>4

LEMMA TypeFind ==
  ASSUME IngestionAssumption, TypeInvariant, NEW t \in Requests, Find(t)
  PROVE  TypeInvariant'
  <1>1. /\ pc[t] = "find" /\ UNCHANGED <<queue, episodes, facts, call, fresh, work>>
    BY DEF Find
  <1>2. ~fresh[t]
    BY <1>1 DEF TypeInvariant, InsertedAlone
  <1>3. PICK next \in {"failed", "enqueue"}, e \in Episodes \cup {NoEpisode} :
          pc' = [pc EXCEPT ![t] = next] /\ target' = [target EXCEPT ![t] = e]
    <2>1. CASE Goto(t, "failed") /\ target' = target
      BY <2>1 DEF Goto, TypeInvariant, TypeOK
    <2>2. CASE \E e \in Existing(call[t].content) :
                 target' = [target EXCEPT ![t] = e] /\ Goto(t, "enqueue")
      BY <2>2 DEF Goto, Existing, TypeInvariant, TypeOK
    <2> QED BY <2>1, <2>2 DEF Find
  <1>4. TypeOK'
    BY <1>1, <1>3 DEF TypeInvariant, TypeOK, QueueTypeOK, queue, work
  <1>5. InsertedAlone'
    BY <1>1, <1>2, <1>3, InsertedKept DEF TypeInvariant, TypeOK, InsertedAlone
  <1>6. CallKept'
    BY <1>1, <1>3 DEF TypeInvariant, TypeOK, CallKept
  <1> QED BY <1>1, <1>4, <1>5, <1>6 DEF TypeInvariant, TriesBounded, queue

LEMMA TypeEnqueue ==
  ASSUME IngestionAssumption, TypeInvariant, NEW t \in Requests, Enqueue(t) \/ EnqueueFails(t)
  PROVE  TypeInvariant'
  <1>1. /\ pc[t] = "enqueue"
        /\ UNCHANGED <<episodes, facts, call, target, fresh, step, outcome>>
    BY DEF Enqueue, EnqueueFails, work
  <1>2. PICK next \in {"failed", "done"} : pc' = [pc EXCEPT ![t] = next]
    BY DEF Enqueue, EnqueueFails, Goto
  <1>3. InsertedAlone' /\ CallKept'
    BY <1>1, <1>2, InsertedKept DEF TypeInvariant, TypeOK, InsertedAlone, CallKept
  <1>4. CASE UNCHANGED <<jobs, kills, arg>>
    BY <1>1, <1>2, <1>3, <1>4 DEF TypeInvariant, TypeOK, QueueTypeOK, TriesBounded
  <1>5. CASE \E j \in Jobs : EnqueueJob(j) /\ arg' = [arg EXCEPT ![j] = target[t]]
    <2>1. PICK j \in Jobs : EnqueueJob(j) /\ arg' = [arg EXCEPT ![j] = target[t]]
      BY <1>5
    <2>2. /\ QueueInv' /\ jobs[j].state = "absent" /\ jobs'[j].state = "queued"
          /\ \A i \in Jobs \ {j} : jobs'[i] = jobs[i]
      BY <2>1, QueueSteps DEF IngestionAssumption, QueueInv, TypeInvariant, TypeOK
    <2>3. \A i \in Jobs : jobs'[i].state = "running" <=> step'[i] # "idle"
      BY <1>1, <2>2 DEF TypeInvariant, TypeOK
    <2>4. arg' \in [Jobs -> Episodes \cup {NoEpisode}]
      BY <2>1 DEF TypeInvariant, TypeOK
    <2>5. TypeOK'
      BY <1>1, <1>2, <2>2, <2>3, <2>4 DEF TypeInvariant, TypeOK, QueueInv
    <2> QED BY <1>3, <2>2, <2>5 DEF TypeInvariant, QueueInv
  <1> QED BY <1>4, <1>5 DEF Enqueue, EnqueueFails, queue, work

(* The request ends; a commit adds the row it has inserted, if it has.     *)
LEMMA CommitRows ==
  ASSUME TypeInvariant, NEW t \in Requests, Commit(t)
  PROVE  /\ \A e \in DOMAIN episodes : e \in DOMAIN episodes' /\ episodes'[e] = episodes[e]
         /\ DOMAIN episodes' \subseteq Episodes
         /\ \A e \in DOMAIN episodes' \ DOMAIN episodes :
              /\ fresh[t] /\ e = target[t]
              /\ episodes'[e] = [content |-> call[t].content, status |-> "pending"]
  <1>1. CASE fresh[t]
    <2>1. episodes' = [e \in DOMAIN episodes \cup {target[t]} |->
                         IF e = target[t] THEN [content |-> call[t].content, status |-> "pending"]
                         ELSE episodes[e]]
      BY <1>1 DEF Commit
    <2>2. target[t] \in Episodes \ DOMAIN episodes
      BY <1>1 DEF TypeInvariant, InsertedAlone
    <2> QED BY <1>1, <2>1, <2>2 DEF TypeInvariant, TypeOK
  <1>2. CASE ~fresh[t]
    BY <1>2 DEF Commit, TypeInvariant, TypeOK
  <1> QED BY <1>1, <1>2

LEMMA TypeEnd ==
  ASSUME IngestionAssumption, TypeInvariant, NEW t \in Requests, Commit(t) \/ Rollback(t) \/ Crash(t)
  PROVE  TypeInvariant'
  <1>1. /\ call' = [call EXCEPT ![t] = NoCall] /\ target' = [target EXCEPT ![t] = NoEpisode]
        /\ fresh' = [fresh EXCEPT ![t] = FALSE] /\ pc' = [pc EXCEPT ![t] = "ended"]
        /\ UNCHANGED <<queue, facts, work>>
    BY DEF Commit, Rollback, Crash, End, Goto
  <1>2. /\ DOMAIN episodes' \subseteq Episodes
        /\ \A e \in DOMAIN episodes' :
             \/ e \in DOMAIN episodes /\ episodes'[e] = episodes[e]
             \/ /\ fresh[t] /\ e = target[t]
                /\ episodes'[e] = [content |-> call[t].content, status |-> "pending"]
    <2>1. CASE Commit(t)
      BY <2>1, CommitRows
    <2>2. CASE Rollback(t) \/ Crash(t)
      BY <2>2 DEF Rollback, Crash, TypeInvariant, TypeOK
    <2> QED BY <2>1, <2>2
  <1>3. \A e \in DOMAIN episodes' : episodes'[e] \in Episode
    <2>1. fresh[t] => [content |-> call[t].content, status |-> "pending"] \in Episode
      BY DEF TypeInvariant, InsertedAlone, IngestionAssumption, Call, Episode
    <2> QED BY <1>2, <2>1 DEF TypeInvariant, TypeOK
  <1>4. InsertedAlone'
    <2>1. ASSUME NEW u \in Requests, fresh'[u]
          PROVE  /\ u # t /\ fresh[u] /\ call'[u] = call[u] /\ target'[u] = target[u]
                 /\ pc'[u] \in {"enqueue", "done", "failed"}
                 /\ fresh[t] => target[t] # target[u] /\ call[t].content # call[u].content
      <3>1. u # t /\ fresh[u]
        BY <1>1, <2>1 DEF TypeInvariant, TypeOK
      <3> QED BY <1>1, <3>1 DEF TypeInvariant, InsertedAlone
    <2>2. ASSUME NEW e \in DOMAIN episodes'
          PROVE  \/ e \in DOMAIN episodes /\ episodes'[e].content = episodes[e].content
                 \/ \A u \in Requests :
                       fresh'[u] => e # target[u] /\ episodes'[e].content # call[u].content
      BY <1>2, <2>1, <2>2
    <2> QED BY <2>1, <2>2, InsertedKept DEF TypeInvariant
  <1>5. CallKept'
    BY <1>1 DEF TypeInvariant, TypeOK, CallKept
  <1>6. TypeOK'
    BY <1>1, <1>2, <1>3 DEF TypeInvariant, TypeOK, QueueTypeOK, queue, work
  <1> QED BY <1>1, <1>4, <1>5, <1>6 DEF TypeInvariant, TriesBounded, queue

(* Steps of a job: the queue as it says, the row of its episode as it was, *)
(* but for the status.                                                     *)
LEMMA JobMoves ==
  ASSUME IngestionAssumption, TypeInvariant, NEW j \in Jobs, Work(j) \/ Raise(j) \/ Kill(j)
  PROVE  /\ QueueInv' /\ \A i \in Jobs \ {j} : jobs'[i] = jobs[i]
         /\ jobs'[j].state = "running" <=> step'[j] # "idle"
         /\ \E next \in {"idle", "load", "mark", "extract", "commit", "ack"} :
              step' = [step EXCEPT ![j] = next]
         /\ \E o \in Outcomes \cup {"none"} : outcome' = [outcome EXCEPT ![j] = o]
         /\ UNCHANGED <<requests, arg>>
  <1>. TypeOK /\ QueueInv /\ QueueAssumption
    BY DEF TypeInvariant, QueueInv, TypeOK, IngestionAssumption
  <1>1. CASE Take(j)
    <2>1. /\ QueueInv' /\ \A i \in Jobs \ {j} : jobs'[i] = jobs[i]
          /\ jobs'[j].state = IF Exhausted(j) THEN "failed" ELSE "running"
      BY <1>1, QueueSteps DEF Take
    <2>2. step' = [step EXCEPT ![j] = IF Exhausted(j) THEN "idle" ELSE "load"]
      BY <1>1 DEF Take, JobGoto
    <2>3. UNCHANGED <<requests, arg, outcome>>
      BY <1>1 DEF Take
    <2>4. outcome' = [outcome EXCEPT ![j] = outcome[j]] /\ outcome[j] \in Outcomes \cup {"none"}
      BY <2>3 DEF TypeOK
    <2> QED BY <2>1, <2>2, <2>3, <2>4 DEF TypeOK
  <1>2. CASE Load(j) \/ Mark(j) \/ Extract(j) \/ CommitJob(j)
    <2>1. UNCHANGED <<queue, requests, arg>> /\ step[j] # "idle"
      BY <1>2 DEF Load, Mark, Extract, CommitJob
    <2>2. \E next \in {"mark", "extract", "commit", "ack"} : step' = [step EXCEPT ![j] = next]
      BY <1>2 DEF Load, Mark, Extract, CommitJob, JobGoto
    <2>3. QueueInv' /\ jobs' = jobs
      BY <2>1 DEF queue, QueueInv, QueueTypeOK, TriesBounded
    <2>4. \E o \in Outcomes \cup {"none"} : outcome' = [outcome EXCEPT ![j] = o]
      <3>1. CASE UNCHANGED outcome
        BY <3>1 DEF TypeOK
      <3> QED BY <1>2, <3>1 DEF Load, Mark, Extract, CommitJob
    <2>5. jobs'[j].state = "running" /\ step'[j] # "idle"
      BY <2>1, <2>2, <2>3 DEF TypeOK
    <2> QED BY <2>1, <2>2, <2>3, <2>4, <2>5
  <1>3. CASE Acknowledge(j) \/ Raise(j) \/ Kill(j)
    <2>1. FinishJob(j) \/ FailJob(j) \/ KillJob(j)
      BY <1>3 DEF Acknowledge, Raise, Kill
    <2>2. /\ QueueInv' /\ \A i \in Jobs \ {j} : jobs'[i] = jobs[i]
          /\ jobs'[j].state # "running"
      BY <2>1, QueueSteps
    <2>3. step' = [step EXCEPT ![j] = "idle"] /\ UNCHANGED <<requests, arg>>
      BY <1>3 DEF Acknowledge, Raise, Kill, JobGoto
    <2>4. \E o \in Outcomes \cup {"none"} : outcome' = [outcome EXCEPT ![j] = o]
      <3>1. CASE UNCHANGED outcome
        BY <3>1 DEF TypeOK
      <3> QED BY <1>3, <3>1 DEF Acknowledge, Raise, Kill
    <2>5. step'[j] = "idle"
      BY <2>3 DEF TypeOK
    <2> QED BY <2>2, <2>3, <2>4, <2>5
  <1> QED BY <1>1, <1>2, <1>3 DEF Work

(* The rows and the counts a step of a job leaves. *)
LEMMA JobRows ==
  ASSUME TypeInvariant, NEW j \in Jobs, Work(j) \/ Raise(j) \/ Kill(j)
  PROVE  /\ DOMAIN episodes' = DOMAIN episodes
         /\ \A e \in DOMAIN episodes :
              \/ episodes'[e] = episodes[e]
              \/ /\ episodes'[e] = [episodes[e] EXCEPT !.status = Verdict(outcome[j])]
                 /\ e = arg[j] /\ step[j] = "commit"
         /\ facts' \in [Episodes -> Nat]
         /\ \A e \in Episodes :
              \/ facts'[e] = facts[e]
              \/ e = arg[j] /\ step[j] = "commit"
         /\ step[j] = "commit" /\ arg[j] \in DOMAIN episodes /\ CommitJob(j) =>
              episodes'[arg[j]] = [episodes[arg[j]] EXCEPT !.status = Verdict(outcome[j])]
  <1>1. CASE CommitJob(j)
    <2>1. /\ step[j] = "commit"
          /\ episodes' = [e \in DOMAIN episodes |->
               IF e = arg[j] THEN [episodes[e] EXCEPT !.status = Verdict(outcome[j])] ELSE episodes[e]]
      BY <1>1 DEF CommitJob
    <2>2. facts' = facts \/ facts' = [facts EXCEPT ![arg[j]] = facts[arg[j]] + 1]
      BY <1>1 DEF CommitJob
    <2>3. facts' \in [Episodes -> Nat] /\ \A e \in Episodes : facts'[e] = facts[e] \/ e = arg[j]
      <3>. facts \in [Episodes -> Nat]
        BY DEF TypeInvariant, TypeOK
      <3>1. CASE arg[j] \in Episodes
        BY <2>2, <3>1
      <3>2. CASE arg[j] \notin Episodes
        <4>1. facts' = facts
          BY <2>2, <3>2
        <4> QED BY <4>1
      <3> QED BY <3>1, <3>2
    <2> QED BY <2>1, <2>3
  <1>2. CASE ~CommitJob(j)
    <2>1. UNCHANGED <<episodes, facts>>
      BY <1>2 DEF Work, Take, Load, Mark, Extract, Acknowledge, Raise, Kill
    <2> QED BY <1>2, <2>1 DEF TypeInvariant, TypeOK
  <1> QED BY <1>1, <1>2

LEMMA TypeJob ==
  ASSUME IngestionAssumption, TypeInvariant, NEW j \in Jobs, Work(j) \/ Raise(j) \/ Kill(j)
  PROVE  TypeInvariant'
  <1>1. /\ QueueInv' /\ \A i \in Jobs \ {j} : jobs'[i] = jobs[i]
        /\ jobs'[j].state = "running" <=> step'[j] # "idle"
        /\ UNCHANGED <<requests, arg>>
    BY JobMoves
  <1>2. PICK next \in {"idle", "load", "mark", "extract", "commit", "ack"} :
          step' = [step EXCEPT ![j] = next]
    BY JobMoves
  <1>3. PICK o \in Outcomes \cup {"none"} : outcome' = [outcome EXCEPT ![j] = o]
    BY JobMoves
  <1>4. /\ DOMAIN episodes' = DOMAIN episodes /\ facts' \in [Episodes -> Nat]
        /\ \A e \in DOMAIN episodes :
             \/ episodes'[e] = episodes[e]
             \/ episodes'[e] = [episodes[e] EXCEPT !.status = Verdict(outcome[j])]
    BY JobRows
  <1>5. \A e \in DOMAIN episodes' :
          episodes'[e] \in Episode /\ episodes'[e].content = episodes[e].content
    <2>1. Verdict(outcome[j]) \in {"completed", "failed"}
      BY DEF Verdict
    <2> QED BY <1>4, <2>1 DEF TypeInvariant, TypeOK, Episode
  <1>6. \A i \in Jobs : jobs'[i].state = "running" <=> step'[i] # "idle"
    BY <1>1, <1>2 DEF TypeInvariant, TypeOK
  <1>7. TypeOK'
    BY <1>1, <1>2, <1>3, <1>4, <1>5, <1>6 DEF TypeInvariant, TypeOK, QueueInv, requests
  <1>8. InsertedAlone'
    BY <1>1, <1>4, <1>5, InsertedKept DEF TypeInvariant, InsertedAlone, requests
  <1> QED BY <1>1, <1>7, <1>8 DEF TypeInvariant, QueueInv, CallKept, requests

LEMMA TypeStep ==
  ASSUME IngestionAssumption, TypeInvariant, [Next]_vars
  PROVE  TypeInvariant'
  <1>1. CASE UNCHANGED vars
    BY <1>1 DEF vars, TypeInvariant, TypeOK, QueueTypeOK, TriesBounded, InsertedAlone, CallKept
  <1> QED BY <1>1, TypeReceive, TypeInsert, TypeFind, TypeEnqueue, TypeEnd, TypeJob DEF Next, Serve, Quiet

(* What requests and jobs keep is what TypeOK says, a job that may start   *)
(* has not had more than its tries, and a request that has inserted an     *)
(* episode is the only one that knows of it.                               *)
THEOREM IngestionTypes == IngestionAssumption => (Spec => []TypeInvariant)
  <1> SUFFICES ASSUME IngestionAssumption
               PROVE  Spec => []TypeInvariant
    OBVIOUS
  <1> QED BY TypeInit, TypeStep, PTL DEF Spec

-----------------------------------------------------------------------------
(* One episode for one text *)

(* What a step does to the rows: none goes, contents stay, and only the    *)
(* commit of a request adds one, with the status "pending".                *)
LEMMA RowsStep ==
  ASSUME TypeInvariant, [Next]_vars
  PROVE  /\ \A e \in DOMAIN episodes :
              /\ e \in DOMAIN episodes' /\ episodes'[e].content = episodes[e].content
              /\ episodes[e].status # "pending" => episodes'[e].status # "pending"
         /\ \A d, e \in DOMAIN episodes' \ DOMAIN episodes : d = e
         /\ \A e \in DOMAIN episodes' \ DOMAIN episodes :
              \A d \in DOMAIN episodes : episodes[d].content # episodes'[e].content
  <1>1. ASSUME NEW t \in Requests, Commit(t)
        PROVE  /\ \A e \in DOMAIN episodes : e \in DOMAIN episodes' /\ episodes'[e] = episodes[e]
               /\ \A d, e \in DOMAIN episodes' \ DOMAIN episodes : d = e
               /\ \A e \in DOMAIN episodes' \ DOMAIN episodes :
                    \A d \in DOMAIN episodes : episodes[d].content # episodes'[e].content
    BY <1>1, CommitRows DEF TypeInvariant, InsertedAlone
  <1>2. ASSUME NEW j \in Jobs, Work(j) \/ Raise(j) \/ Kill(j)
        PROVE  /\ DOMAIN episodes' = DOMAIN episodes
               /\ \A e \in DOMAIN episodes :
                    /\ episodes'[e].content = episodes[e].content
                    /\ episodes[e].status # "pending" => episodes'[e].status # "pending"
    <2>1. Verdict(outcome[j]) # "pending"
      BY DEF Verdict
    <2>2. \A e \in DOMAIN episodes : episodes[e] \in Episode
      BY DEF TypeInvariant, TypeOK
    <2>3. /\ DOMAIN episodes' = DOMAIN episodes
          /\ \A e \in DOMAIN episodes :
               \/ episodes'[e] = episodes[e]
               \/ episodes'[e] = [episodes[e] EXCEPT !.status = Verdict(outcome[j])]
      BY <1>2, JobRows
    <2> QED BY <2>1, <2>2, <2>3 DEF Episode
  <1>3. CASE episodes' = episodes
    BY <1>3
  <1> QED BY <1>1, <1>2, <1>3
          DEF Next, Serve, Receive, Insert, Find, Enqueue, EnqueueFails, Rollback, Crash, Quiet, vars

(* One text makes one episode, for any number of requests and jobs:        *)
(* posting it twice, also at once or after a crash, adds no second row.    *)
THEOREM OneEpisodeAlways == IngestionAssumption => (Spec => []OneEpisodePerContent)
  <1> SUFFICES ASSUME IngestionAssumption
               PROVE  Spec => []OneEpisodePerContent
    OBVIOUS
  <1>1. Init => OneEpisodePerContent
    BY DEF Init, OneEpisodePerContent
  <1>2. TypeInvariant /\ OneEpisodePerContent /\ [Next]_vars => OneEpisodePerContent'
    <2> SUFFICES ASSUME TypeInvariant, OneEpisodePerContent, [Next]_vars
                 PROVE  OneEpisodePerContent'
      OBVIOUS
    <2>1. \A d, e \in DOMAIN episodes' : episodes'[d].content = episodes'[e].content => d = e
      BY RowsStep DEF OneEpisodePerContent
    <2> QED BY <2>1 DEF OneEpisodePerContent
  <1>3. Spec => []TypeInvariant
    BY IngestionTypes
  <1> QED BY <1>1, <1>2, <1>3, PTL DEF Spec

-----------------------------------------------------------------------------
(* Facts have a source *)

LEMMA SourceStep ==
  ASSUME IngestionAssumption, TypeInvariant, SourceInvariant, [Next]_vars
  PROVE  SourceInvariant'
  <1>1. \A e \in DOMAIN episodes :
          /\ e \in DOMAIN episodes'
          /\ episodes[e].status # "pending" => episodes'[e].status # "pending"
    BY RowsStep
  <1>2. ASSUME UNCHANGED <<facts, arg, step>>
        PROVE  SourceInvariant'
    BY <1>1, <1>2 DEF SourceInvariant, JobsLoaded, FactsHaveProcessedSource, Processed
  <1>3. ASSUME NEW t \in Requests, Enqueue(t)
        PROVE  SourceInvariant'
    <2>1. UNCHANGED <<facts, step>>
      BY <1>3 DEF Enqueue
    <2>2. \A j \in Jobs : step[j] # "idle" => arg'[j] = arg[j]
      <3>1. CASE UNCHANGED arg
        BY <3>1
      <3>2. CASE \E j \in Jobs : EnqueueJob(j) /\ arg' = [arg EXCEPT ![j] = target[t]]
        <4>1. PICK j \in Jobs : jobs[j].state = "absent" /\ arg' = [arg EXCEPT ![j] = target[t]]
          BY <3>2 DEF EnqueueJob
        <4>2. step[j] = "idle"
          BY <4>1 DEF TypeInvariant, TypeOK
        <4> QED BY <4>1, <4>2
      <3> QED BY <1>3, <3>1, <3>2 DEF Enqueue
    <2> QED BY <1>1, <2>1, <2>2 DEF SourceInvariant, JobsLoaded, FactsHaveProcessedSource, Processed
  <1>4. ASSUME NEW j \in Jobs, Work(j) \/ Raise(j) \/ Kill(j)
        PROVE  SourceInvariant'
    <2>1. UNCHANGED arg
      BY <1>4, JobMoves
    <2>2. PICK next : step' = [step EXCEPT ![j] = next]
      BY <1>4, JobMoves
    <2>3. step'[j] \in {"mark", "extract", "commit"} => arg[j] \in DOMAIN episodes
      <3>1. CASE Load(j)
        BY <3>1 DEF Load, Loaded, JobGoto, TypeInvariant, TypeOK
      <3>2. CASE Mark(j) \/ Extract(j)
        BY <3>2 DEF Mark, Extract, SourceInvariant, JobsLoaded
      <3>3. CASE Take(j) \/ CommitJob(j) \/ Acknowledge(j) \/ Raise(j) \/ Kill(j)
        BY <3>3 DEF Take, CommitJob, Acknowledge, Raise, Kill, JobGoto, TypeInvariant, TypeOK
      <3> QED BY <1>4, <3>1, <3>2, <3>3 DEF Work
    <2>4. JobsLoaded'
      BY <1>1, <2>1, <2>2, <2>3 DEF SourceInvariant, JobsLoaded, TypeInvariant, TypeOK
    <2>5. ASSUME NEW e \in Episodes, facts'[e] > 0
          PROVE  e \in DOMAIN episodes' /\ episodes'[e].status # "pending"
      <3>1. CASE facts'[e] = facts[e]
        BY <1>1, <2>5, <3>1 DEF SourceInvariant, FactsHaveProcessedSource, Processed
      <3>2. CASE e = arg[j] /\ step[j] = "commit" /\ facts'[e] # facts[e]
        <4>1. CommitJob(j)
          BY <1>4, <3>2 DEF Work, Take, Load, Mark, Extract, Acknowledge, Raise, Kill
        <4>2. e \in DOMAIN episodes /\ episodes[e] \in Episode
          BY <3>2 DEF SourceInvariant, JobsLoaded, TypeInvariant, TypeOK
        <4>3. episodes'[e] = [episodes[e] EXCEPT !.status = Verdict(outcome[j])]
          BY <1>4, <3>2, <4>1, <4>2, JobRows
        <4>4. Verdict(outcome[j]) # "pending"
          BY DEF Verdict
        <4> QED BY <1>1, <4>2, <4>3, <4>4 DEF Episode
      <3> QED BY <1>4, <3>1, <3>2, JobRows
    <2> QED BY <2>4, <2>5 DEF SourceInvariant, FactsHaveProcessedSource, Processed
  <1> QED BY <1>2, <1>3, <1>4
          DEF Next, Serve, Receive, Insert, Find, EnqueueFails, Commit, Rollback, Crash, End, Quiet,
              vars, work

(* Facts belong to an episode that is there and says that it was worked    *)
(* on, whatever crashed, raised, was killed or ran ahead of its request.   *)
THEOREM FactsAlwaysSourced == IngestionAssumption => (Spec => []FactsHaveProcessedSource)
  <1> SUFFICES ASSUME IngestionAssumption
               PROVE  Spec => []FactsHaveProcessedSource
    OBVIOUS
  <1>1. Init => SourceInvariant
    BY DEF Init, SourceInvariant, JobsLoaded, FactsHaveProcessedSource
  <1>2. TypeInvariant /\ SourceInvariant /\ [Next]_vars => SourceInvariant'
    BY SourceStep
  <1>3. SourceInvariant => FactsHaveProcessedSource
    BY DEF SourceInvariant
  <1>4. Spec => []TypeInvariant
    BY IngestionTypes
  <1> QED BY <1>1, <1>2, <1>3, <1>4, PTL DEF Spec

=============================================================================
