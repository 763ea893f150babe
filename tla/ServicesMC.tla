------------------------------ MODULE ServicesMC ------------------------------
(***************************************************************************)
(* Small instances of the components of Services.  They do not touch one   *)
(* another's tables, so a behaviour picks one of them, the focus, and the  *)
(* others stay at their initial state: the run explores each component by  *)
(* itself, and not the product of all.                                     *)
(***************************************************************************)
EXTENDS Services, TLC

CONSTANTS
  Parts,      \* the components this run may pick
  NoId

VARIABLE focus

-----------------------------------------------------------------------------
(* Ontology: agents and persons are seeded; requests retype and delete     *)
(* them, and proposals bring types in either order, and a loop.            *)

Seed(under, path, system) ==
  [under |-> under, range |-> "none", path |-> path, deleted |-> FALSE, system |-> system]

SeededTypes == "agent" :> Seed("none", <<"agent">>, TRUE)
               @@ "person" :> Seed("agent", <<"agent", "person">>, FALSE)

Type(slug, under)            == [slug |-> slug, under |-> under, range |-> "none"]
Relation(slug, under, range) == [slug |-> slug, under |-> under, range |-> range]
Change(kind, items)          == [kind |-> kind, items |-> items]

TypeChanges ==
  {Change("create", <<Type("team", "agent")>>),
   Change("update", <<Type("agent", "team")>>),
   Change("update", <<Relation("leads", "team", "none")>>),
   Change("delete", <<Type("person", "none")>>),
   Change("delete", <<Type("agent", "none")>>),
   Change("apply", <<Relation("leads", "person", "team"), Type("crew", "team"), Type("team", "none")>>),
   Change("apply", <<Type("crew", "none"), Type("team", "person")>>),
   Change("apply", <<Type("crew", "crew")>>),
   Change("seed", <<Type("person", "agent"), Type("agent", "none")>>)}

TypeSlugs == {"agent", "person", "team", "crew"}

-----------------------------------------------------------------------------
(* Access: ann founds the workspace, bo is an admin with a pending invite  *)
(* and a token, cy is a stranger.                                          *)

Ask(op, who, of, r) == [op |-> op, who |-> who, target |-> of, role |-> r]

AccessCalls ==
  {Ask("invite", "ann", NoId, "editor"),
   Ask("accept", "cy", "i1", "viewer"), Ask("accept", "ann", "i1", "viewer"),
   Ask("uninvite", "bo", "i1", "viewer"),
   Ask("set_role", "ann", "bo", "viewer"), Ask("remove", "ann", "bo", "viewer"),
   Ask("mint", "bo", NoId, "viewer"), Ask("rotate", "bo", "k1", "viewer"),
   Ask("revoke", "k1", "k1", "viewer"),
   Ask("delete_me", "bo", NoId, "viewer"), Ask("delete_me", "cy", NoId, "viewer")}

People  == {"ann", "bo", "cy"}
Admins  == "bo" :> "admin"
Links   == {"i1", "i2", "i3"}
SentOne == "i1" :> [by |-> "bo", role |-> "editor", accepted |-> NoId, revoked |-> FALSE,
                    expired |-> FALSE]
Secrets == {"k1", "k2", "k3", "k4"}
BosOne  == "k1" :> [user |-> "bo", revoked |-> FALSE, from |-> NoId]

-----------------------------------------------------------------------------
(* Ingestion: every entry point on one text, and another text beside it.   *)

Post(kind, text) == [kind |-> kind, content |-> text, extract |-> TRUE]

PostedCalls == {Post("rest", "note"), Post("mcp", "note"), Post("mcp", "memo"),
                Post("reprocess", "note")}

-----------------------------------------------------------------------------
(* Exports: two, each with a job of its own, named like it.                *)

JobOfEach == [x \in Exports |-> x]

-----------------------------------------------------------------------------
(* Search: an entity, a fact about it and an episode; one policy stands    *)
(* and a second can be made.                                               *)

Kinds   == "n1" :> "entity" @@ "f1" :> "edge" @@ "p1" :> "episode"
Related == "n1" :> {} @@ "f1" :> {"n1"} @@ "p1" :> {}

PolicyRules ==
  "editors" :> [kind |-> "requires_role", labels |-> {"secret"}, roles |-> {"editor"},
                action |-> "block"]
  @@ "apart" :> [kind |-> "mutually_exclusive", labels |-> {"secret", "public"}, roles |-> {},
                 action |-> "warn"]

Labelled == {<<"f1", "public">>, <<"p1", "secret">>}
AskedFor == {[kinds |-> {"entity"}, expand |-> TRUE, limit |-> 1],
             [kinds |-> {"episode"}, expand |-> FALSE, limit |-> 2]}

ASSUME ServicesAssumption

-----------------------------------------------------------------------------

FocusInit == focus \in Parts /\ ServicesInit

(* The requests of the focus are over; ingestion and exports have a        *)
(* disjunct of their own for this.                                         *)
Over ==
  /\ \/ focus = "ontology" /\ \A t \in Requests : ontologyPc[t] = "ended"
     \/ focus = "access" /\ \A t \in Requests : pc[t] \in {"done", "failed", "refused"}
     \/ /\ focus = "search" /\ \A s \in Searches : search[s].pc = "ended"
        /\ \A t \in Editors : edit[t].pc \in {"new", "ended"}
  /\ UNCHANGED servicesVars

FocusNext ==
  /\ UNCHANGED focus
  /\ \/ focus = "ontology" /\ OntologySteps
     \/ focus = "access" /\ AccessSteps
     \/ focus = "ingestion" /\ IngestionSteps
     \/ focus = "exports" /\ ExportSteps
     \/ focus = "search" /\ SearchSteps
     \/ Over

(* A request that has begun runs on, and workers keep taking jobs: the     *)
(* fairness of the components, of which the focus alone has steps to take. *)
ServicesFairness ==
  /\ \A t \in Requests :
       /\ WF_ontologyVars(focus = "ontology" /\ Ontology!Statement(t))
       /\ WF_vars(focus = "access" /\ Step(t))
       /\ WF_ingestionVars(focus = "ingestion" /\ Ingestion!Serve(t))
  /\ \A j \in Jobs : WF_ingestionVars(focus = "ingestion" /\ Ingestion!Work(j))
  /\ \A x \in Exports :
       /\ WF_exportVars(focus = "exports" /\ Exporting!Serve(x))
       /\ WF_exportVars(focus = "exports" /\ Exporting!Work(x))

FocusSpec == FocusInit /\ [][FocusNext]_<<focus, servicesVars>> /\ ServicesFairness

-----------------------------------------------------------------------------
(* Liveness; the invariants are those of Services. *)

Waiting(x) ==
  \/ focus = "ingestion" /\ x \in Jobs /\ Ingestion!Waiting(x)
  \/ focus = "exports" /\ x \in Exports /\ Exporting!Waiting(x)

Settled(x) ==
  \/ focus = "ingestion" /\ Ingestion!Settled(x)
  \/ focus = "exports" /\ Exporting!Settled(x)

(* Ingestion and exports: what is committed while its job is in the queue  *)
(* gets an outcome, or the queue says that the job failed.                 *)
JobsEnd == \A x \in Jobs \cup Exports : Waiting(x) ~> Settled(x)

Begun(t) ==
  \/ ontologyPc[t] \notin {"new", "ended"}
  \/ pc[t] \notin {"new", "done", "failed", "refused"}

(* Ontology and access: requests that wait for one another's rows all end, *)
(* of the ontology in some cases because Postgres breaks a deadlock.       *)
CallsEnd == \A t \in Requests : Begun(t) ~> ~Begun(t)

=============================================================================
