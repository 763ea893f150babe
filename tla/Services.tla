------------------------------- MODULE Services --------------------------------
(***************************************************************************)
(* The components that serve requests and jobs on tables of their own, in  *)
(* one workspace: the ontology, access, episode ingestion, data export,    *)
(* and search under sensitivity policies.  Requests of all of them are     *)
(* handled at once; none reads or writes a table of another, so a step of  *)
(* one leaves the others alone.                                            *)
(*                                                                         *)
(* Access is extended; the others are instances, whose parameters are      *)
(* parameters of this module.                                              *)
(***************************************************************************)
EXTENDS Access, Sequences

CONSTANTS
  OntologyTypes, OntologyRelations, NoType, Seeded, SystemSlugs, Changes, NoChange,
  Contents, Episodes, NoEpisode, Posts, NoPost, Jobs, MaxTries, MaxKills,
  Exports, Dumps, DumpOf, MaxDumpKills,
  Items, KindOf, Ends, Labels, Policies, Rule, Assigned, Enabled, CallerRoles, NoRole,
  Searches, Editors, Queries, MaxRows, MaxChanges

VARIABLES
  rows, links, ontologyPc, ontologyBody, ontologyTodo, wanted, known, ontologyDraft,
  extractions, extractionKills, episodes, facts, postPc, call, target, fresh, arg,
  extractionStep, outcome,
  dumps, dumpKills, exports, objects, exportPc, dumpStep,
  visible, row, made, assigned, enabled, search, held, edit, changes

ontologyVars  == <<rows, links, ontologyPc, ontologyBody, ontologyTodo, wanted, known, ontologyDraft>>
ingestionVars == <<extractions, extractionKills, episodes, facts, postPc, call, target, fresh,
                   arg, extractionStep, outcome>>
exportVars    == <<dumps, dumpKills, exports, objects, exportPc, dumpStep>>
searchVars    == <<visible, row, made, assigned, enabled, search, held, edit, changes>>
servicesVars  == <<ontologyVars, vars, ingestionVars, exportVars, searchVars>>

Ontology ==
  INSTANCE Ontology WITH
    Types <- OntologyTypes, Relations <- OntologyRelations, Bodies <- Changes, NoBody <- NoChange,
    pc <- ontologyPc, body <- ontologyBody, todo <- ontologyTodo, draft <- ontologyDraft

Ingestion ==
  INSTANCE EpisodeIngestion WITH
    Calls <- Posts, NoCall <- NoPost,
    jobs <- extractions, kills <- extractionKills, pc <- postPc, step <- extractionStep

Exporting ==
  INSTANCE ExportJobs WITH
    Jobs <- Dumps, JobOf <- DumpOf, MaxKills <- MaxDumpKills,
    jobs <- dumps, kills <- dumpKills, pc <- exportPc, step <- dumpStep

Search == INSTANCE Retrieval WITH Roles <- CallerRoles

ServicesAssumption ==
  /\ Ontology!OntologyAssumption
  /\ AccessAssumption
  /\ Ingestion!IngestionAssumption
  /\ Exporting!ExportAssumption
  /\ Search!RetrievalAssumption

-----------------------------------------------------------------------------

ServicesInit == Ontology!Init /\ Init /\ Ingestion!Init /\ Exporting!Init /\ Search!Init

OntologySteps  == Ontology!Next  /\ UNCHANGED <<vars, ingestionVars, exportVars, searchVars>>
AccessSteps    == Next           /\ UNCHANGED <<ontologyVars, ingestionVars, exportVars, searchVars>>
IngestionSteps == Ingestion!Next /\ UNCHANGED <<ontologyVars, vars, exportVars, searchVars>>
ExportSteps    == Exporting!Next /\ UNCHANGED <<ontologyVars, vars, ingestionVars, searchVars>>
SearchSteps    == Search!Next    /\ UNCHANGED <<ontologyVars, vars, ingestionVars, exportVars>>

ServicesNext == OntologySteps \/ AccessSteps \/ IngestionSteps \/ ExportSteps \/ SearchSteps

ServicesSpec == ServicesInit /\ [][ServicesNext]_servicesVars

-----------------------------------------------------------------------------
(* Properties: those of the components, and InviteSettledOnce and          *)
(* NothingOutlivesAccount of Access.                                       *)

(* Every table, request and job has a value the code can give it.          *)
TypesOK ==
  /\ Ontology!TypeOK
  /\ TypeOK
  /\ Ingestion!TypeOK
  /\ Exporting!TypeOK
  /\ Search!TypeOK

(* Ontology: a path never holds the extends link of a request that rolled  *)
(* back, whatever proposals, retypings and deletions are interleaved.      *)
PathLinksReal == Ontology!PathLinksReal

(* Ingestion: posting a text twice, also at once, makes one episode of it. *)
OneEpisodePerContent == Ingestion!OneEpisodePerContent

(* Ingestion: facts are committed with the status of their episode.        *)
FactsHaveProcessedSource == Ingestion!FactsHaveProcessedSource

(* Exports: a completed row names a file that was uploaded.                *)
CompletedHasObject == Exporting!CompletedHasObject

(* Search: a policy and labels that stood for the whole of a search govern *)
(* its answer, whatever was edited meanwhile and whichever query found it. *)
StandingPoliciesGovern == Search!StandingPoliciesGovern

(* Ontology: the descendants validate_edge accepts where a type is asked   *)
(* for are those the extends links lead to.                                *)
SubtypesFollowExtends == Ontology!SubtypesFollowExtends

=============================================================================
