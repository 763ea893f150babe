------------------------------ MODULE ReviewQueue ------------------------------
(***************************************************************************)
(* The review queue of app/domain/proposals.py: reviewers approve and      *)
(* reject pending facts, one at a time or in bulk, while other reviewers   *)
(* do the same.                                                            *)
(*                                                                         *)
(* A request is one transaction.  It reads a proposal's status without a   *)
(* lock, lands the fact with add_fact, and marks the proposal with an      *)
(* UPDATE by id that does not ask for the status again.  add_fact is one   *)
(* step here, from the advisory lock to its last write: the lock is held   *)
(* to the end of the transaction and every writer in this module takes it. *)
(* EdgeStore has its statements, and both modules are shown to implement   *)
(* FactLedger.  Relations here are not mirrored by the inverse trigger.    *)
(***************************************************************************)
EXTENDS EdgeRows, FiniteSets, Sequences

CONSTANTS
  Proposals,      \* pending_fact ids
  ProposedFact,   \* the fact each proposal carries
  Source,         \* the episode each proposal was extracted from, if any
  Episodes,
  NoEpisode,
  Entities,
  Predicates,
  HighStakes,     \* predicates the contradictor looks at
  EdgeIds,
  NoEdge,
  Requests,       \* review requests (REST or MCP)
  NoRequest,
  Bodies,         \* what reviewers ask for
  MaxActive,      \* bound: requests in progress at once
  StartTime

Fact == [subject : Entities, predicate : Predicates, object : Entities,
         valid_from : Instant, valid_to : Endpoint]

Body == [verb : {"approve", "reject"}, ids : Seq(Proposals), bulk : BOOLEAN]

Row == [subject : Entities, predicate : Predicates, object : Entities,
        valid_from : Instant, valid_to : Endpoint,
        sys_from : Instant, sys_to : Endpoint,
        invalidated_by : EdgeIds \cup {NoEdge}]

Review == [status : {"pending", "approved", "rejected"}, edge : EdgeIds \cup {NoEdge}]

(* An audit_log row of a decision. *)
Decision == [request : Requests, verb : {"approve", "reject"},
             proposal : Proposals, edge : EdgeIds \cup {NoEdge}]

Keys == Entities \X Predicates

ASSUME QueueAssumption ==
  /\ ProposedFact \in [Proposals -> Fact]
  /\ Source \in [Proposals -> Episodes \cup {NoEpisode}]
  /\ NoEpisode \notin Episodes
  /\ NoEdge \notin EdgeIds
  /\ NoRequest \notin Requests
  /\ Bodies \subseteq Body
  /\ \A b \in Bodies : b.ids # << >> /\ (~b.bulk => Len(b.ids) = 1)
  /\ MaxActive \in Nat /\ StartTime \in Nat

VARIABLES
  edges,     \* committed edge rows
  reviews,   \* status and approved_edge_id of every pending_fact row
  audit,     \* committed decisions
  deleted,   \* soft-deleted episodes
  locks,     \* advisory locks of add_fact
  now,       \* the clock
  pc,        \* where each request is
  body,      \* what it was asked for
  todo,      \* the proposals it has not handled yet
  landed,    \* the edge the proposal at hand became
  writes,    \* its uncommitted edge rows
  marks,     \* its uncommitted pending_fact rows
  log        \* its uncommitted decisions

vars == <<edges, reviews, audit, deleted, locks, now, pc, body, todo, landed, writes, marks, log>>

NoBody == [none |-> TRUE]

TypeOK ==
  /\ DOMAIN edges \subseteq EdgeIds
  /\ \A e \in DOMAIN edges : edges[e] \in Row
  /\ reviews \in [Proposals -> Review]
  /\ audit \subseteq Decision
  /\ deleted \subseteq Episodes
  /\ locks \in [Keys -> Requests \cup {NoRequest}]
  /\ now \in Nat
  /\ pc \in [Requests -> {"new", "read", "source", "land", "mark", "done", "failed", "ended"}]
  /\ body \in [Requests -> Bodies \cup {NoBody}]
  /\ \A t \in Requests : todo[t] \in Seq(Proposals)
  /\ landed \in [Requests -> EdgeIds \cup {NoEdge}]
  /\ \A t \in Requests : /\ DOMAIN writes[t] \subseteq EdgeIds
                         /\ \A e \in DOMAIN writes[t] : writes[t][e] \in Row
                         /\ DOMAIN marks[t] \subseteq Proposals
                         /\ \A p \in DOMAIN marks[t] : marks[t][p] \in Review
  /\ log \in [Requests -> SUBSET Decision]

-----------------------------------------------------------------------------
(* What a statement of t sees at READ COMMITTED. *)

View(t)    == Overlay(edges, writes[t])
Reviews(t) == Overlay(reviews, marks[t])

Item(t) == Head(todo[t])

UsedIds == DOMAIN edges \cup UNION {DOMAIN writes[u] : u \in Requests}

Active == {t \in Requests : pc[t] \notin {"new", "ended"}}

Goto(t, next) == pc' = [pc EXCEPT ![t] = next]

(* The request is done with a proposal and turns to the next one. *)
NextItem(t) ==
  /\ todo'   = [todo EXCEPT ![t] = Tail(@)]
  /\ landed' = [landed EXCEPT ![t] = NoEdge]
  /\ Goto(t, IF Tail(todo[t]) = << >> THEN "done" ELSE "read")

(* A ProposalError fails the request, but only its own item of a bulk one. *)
Refuse(t) ==
  IF body[t].bulk
    THEN NextItem(t)
    ELSE Goto(t, "failed") /\ UNCHANGED <<todo, landed>>

-----------------------------------------------------------------------------

Receive(t) ==
  \E b \in Bodies :
    /\ pc[t] = "new"
    /\ Cardinality(Active) < MaxActive
    /\ body' = [body EXCEPT ![t] = b]
    /\ todo' = [todo EXCEPT ![t] = b.ids]
    /\ Goto(t, "read")
    /\ UNCHANGED <<edges, reviews, audit, deleted, locks, now, landed, writes, marks, log>>

\* Fault: the status is not looked at.
Open_Always(view, p) == TRUE

(* proposal.status == "pending" *)
Open(view, p) == view[p].status = "pending"

ReadStatus(t) ==
  /\ pc[t] = "read"
  /\ IF Open(Reviews(t), Item(t))
       THEN /\ Goto(t, IF body[t].verb = "approve" THEN "source" ELSE "mark")
            /\ UNCHANGED <<todo, landed>>
       ELSE Refuse(t)
  /\ UNCHANGED <<edges, reviews, audit, deleted, locks, now, body, writes, marks, log>>

(* The source episode, if there is one, must still be there. *)
CheckSource(t) ==
  /\ pc[t] = "source"
  /\ IF Source[Item(t)] \in deleted
       THEN Refuse(t)
       ELSE Goto(t, "land") /\ UNCHANGED <<todo, landed>>
  /\ UNCHANGED <<edges, reviews, audit, deleted, locks, now, body, writes, marks, log>>

NewRow(f, at) ==
  [subject |-> f.subject, predicate |-> f.predicate, object |-> f.object,
   valid_from |-> f.valid_from, valid_to |-> f.valid_to,
   sys_from |-> at, sys_to |-> Infinity, invalidated_by |-> NoEdge]

(* Live rows the contradictor may judge to contradict a high-stakes fact.  *)
Candidates(view, f) ==
  IF f.predicate \in HighStakes THEN {e \in LiveIds(view) : Key(view[e]) = Key(f)} ELSE {}

(* What add_fact writes for f as row e, with the rows in ended judged      *)
(* contradicting: those end on both axes, then f is inserted, then what an *)
(* exclusive fact overlaps is superseded.                                  *)
LandedRows(view, f, e, ended) ==
  LET closed   == [c \in ended |-> [view[c] EXCEPT !.sys_to = now, !.valid_to = f.valid_from]]
      inserted == Overlay(closed, [i \in {e} |-> NewRow(f, now + 1)])
      seen     == Overlay(view, inserted)
      replaced == IF Exclusive(f.predicate) THEN Superseded(seen, e) ELSE {}
  IN Overlay(inserted,
             [r \in replaced |-> [seen[r] EXCEPT !.sys_to = now + 2, !.invalidated_by = e]])

\* Fault: the lock statement returns without the lock.
Grantable_NoLock(t, k) == TRUE

Grantable(t, k) == locks[k] \in {NoRequest, t}

(* add_fact under its advisory lock: an existing row is returned as it is; *)
(* an edge of an empty or a reversed range is refused by the database.     *)
Land(t) ==
  LET f    == ProposedFact[Item(t)]
      view == View(t)
      same == Duplicates(view, f)
  IN /\ pc[t] = "land"
     /\ Grantable(t, Key(f))
     /\ locks' = [locks EXCEPT ![Key(f)] = t]
     /\ IF same # {}
          THEN /\ \E e \in same : landed' = [landed EXCEPT ![t] = e]
               /\ Goto(t, "mark")
               /\ UNCHANGED <<writes, now>>
          ELSE \E ended \in SUBSET Candidates(view, f) :
                 IF \/ \E c \in ended : RangeRefused(view[c], f.valid_from)
                    \/ ~Before(f.valid_from, f.valid_to)
                   THEN Goto(t, "failed") /\ UNCHANGED <<landed, writes, now>>
                   ELSE \E e \in EdgeIds \ UsedIds :
                          /\ landed' = [landed EXCEPT ![t] = e]
                          /\ writes' = [writes EXCEPT ![t] =
                                          Overlay(@, LandedRows(view, f, e, ended))]
                          /\ now' = now + 3
                          /\ Goto(t, "mark")
     /\ UNCHANGED <<edges, reviews, audit, deleted, body, todo, marks, log>>

\* Fault: an approved fact that becomes an edge retires its proposal.
Decided_Superseded(review, verb, e) ==
  IF verb = "approve" THEN [status |-> "superseded", edge |-> e]
  ELSE [review EXCEPT !.status = "rejected"]

(* What the UPDATE makes of a pending_fact row. *)
Decided(review, verb, e) ==
  IF verb = "approve" THEN [status |-> "approved", edge |-> e]
  ELSE [review EXCEPT !.status = "rejected"]

(* UPDATE pending_fact ... WHERE id: it waits for another request that     *)
(* changed the row and has not committed, and then overwrites.             *)
Mark(t) ==
  LET p == Item(t)
  IN /\ pc[t] = "mark"
     /\ \A u \in Requests \ {t} : p \notin DOMAIN marks[u]
     /\ marks' = [marks EXCEPT ![t] =
                    Overlay(@, [i \in {p} |-> Decided(Reviews(t)[p], body[t].verb, landed[t])])]
     /\ log' = [log EXCEPT ![t] = @ \cup
          {[request |-> t, verb |-> body[t].verb, proposal |-> p, edge |-> landed[t]]}]
     /\ NextItem(t)
     /\ UNCHANGED <<edges, reviews, audit, deleted, locks, now, body, writes>>

-----------------------------------------------------------------------------

End(t) ==
  /\ locks'  = [k \in Keys |-> IF locks[k] = t THEN NoRequest ELSE locks[k]]
  /\ body'   = [body EXCEPT ![t] = NoBody]
  /\ todo'   = [todo EXCEPT ![t] = << >>]
  /\ landed' = [landed EXCEPT ![t] = NoEdge]
  /\ writes' = [writes EXCEPT ![t] = << >>]
  /\ marks'  = [marks EXCEPT ![t] = << >>]
  /\ log'    = [log EXCEPT ![t] = {}]
  /\ Goto(t, "ended")
  /\ UNCHANGED <<deleted, now>>

Commit(t) ==
  /\ pc[t] = "done"
  /\ edges'   = View(t)
  /\ reviews' = Reviews(t)
  /\ audit'   = audit \cup log[t]
  /\ End(t)

Rollback(t) == pc[t] = "failed" /\ End(t) /\ UNCHANGED <<edges, reviews, audit>>

(* The connection or the process is lost. *)
Crash(t) == t \in Active /\ End(t) /\ UNCHANGED <<edges, reviews, audit>>

WaitsFor(t, u) ==
  /\ u # t
  /\ \/ pc[t] = "land" /\ locks[Key(ProposedFact[Item(t)])] = u
     \/ pc[t] = "mark" /\ Item(t) \in DOMAIN marks[u]

Deadlocked(t) ==
  \E S \in SUBSET Requests : t \in S /\ \A x \in S : \E y \in S : WaitsFor(x, y)

\* Fault: nothing breaks a cycle of waiting requests.
Cancelled_Never(t) == FALSE

(* Postgres cancels a transaction of every cycle.                          *)
Cancelled(t) == Deadlocked(t)

DeadlockVictim(t) == Cancelled(t) /\ End(t) /\ UNCHANGED <<edges, reviews, audit>>

(* An operator soft-deletes an episode; no code of the application does.   *)
DeleteSource ==
  /\ \E ep \in Episodes \ deleted : deleted' = deleted \cup {ep}
  /\ UNCHANGED <<edges, reviews, audit, locks, now, pc, body, todo, landed, writes, marks, log>>

-----------------------------------------------------------------------------

Init ==
  /\ edges   = << >>
  /\ reviews = [p \in Proposals |-> [status |-> "pending", edge |-> NoEdge]]
  /\ audit   = {}
  /\ deleted = {}
  /\ locks   = [k \in Keys |-> NoRequest]
  /\ now     = StartTime
  /\ pc      = [t \in Requests |-> "new"]
  /\ body    = [t \in Requests |-> NoBody]
  /\ todo    = [t \in Requests |-> << >>]
  /\ landed  = [t \in Requests |-> NoEdge]
  /\ writes  = [t \in Requests |-> << >>]
  /\ marks   = [t \in Requests |-> << >>]
  /\ log     = [t \in Requests |-> {}]

Step(t) == ReadStatus(t) \/ CheckSource(t) \/ Land(t) \/ Mark(t)

Quiet == (\A t \in Requests : pc[t] = "ended") /\ UNCHANGED vars

Next ==
  \/ \E t \in Requests : \/ Receive(t) \/ Step(t) \/ Commit(t) \/ Rollback(t) \/ Crash(t)
                         \/ DeadlockVictim(t)
  \/ DeleteSource
  \/ Quiet

Spec == Init /\ [][Next]_vars

(* As in EdgeStore: a request that has begun runs on. *)
Fairness ==
  \A t \in Requests : /\ WF_vars(Step(t))
                      /\ WF_vars(Commit(t))
                      /\ WF_vars(Rollback(t))
                      /\ WF_vars(DeadlockVictim(t))

FairSpec == Spec /\ Fairness

-----------------------------------------------------------------------------
(* Properties *)

(* Approval means the fact landed: the edge an approved proposal points at *)
(* is in the store and says what the proposal said, whichever of several   *)
(* reviewers and whichever of two rows of the subject won.                 *)
ApprovedFactsLanded ==
  \A p \in Proposals : reviews[p].status = "approved" =>
    /\ reviews[p].edge \in DOMAIN edges
    /\ SameTriple(edges[reviews[p].edge], ProposedFact[p])

(* A rejected proposal has no edge: nobody ever approved it into one.      *)
RejectedNeverLands ==
  \A p \in Proposals : reviews[p].status = "rejected" =>
    ~\E d \in audit : d.verb = "approve" /\ d.proposal = p /\ d.edge \in DOMAIN edges

(* A proposal is decided once, or again only by requests that were in      *)
(* progress at the same time: whoever asks after the first decision is     *)
(* committed is refused, also when a bulk request comes to it late.        *)
DecidedTogether ==
  \A p \in Proposals : Cardinality({d \in audit : d.proposal = p}) <= MaxActive

(* Approving one proposal is one assertion of the ledger, however the      *)
(* reviewers interleave: cardinality one and dedup hold on approval as on  *)
(* direct write.                                                           *)
AnyRelation(p) == p \in Predicates

NoMirror(row) == {}

Ledger == INSTANCE FactLedger WITH ledger <- edges, Plain <- AnyRelation, MirrorOf <- NoMirror

LedgerSpec == Ledger!LedgerSpec

(* Every review request ends, also bulk requests that lock the same facts  *)
(* in different orders.                                                    *)
RequestsEnd == \A t \in Requests : t \in Active ~> pc[t] = "ended"

=============================================================================
