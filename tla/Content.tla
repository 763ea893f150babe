-------------------------------- MODULE Content --------------------------------
(***************************************************************************)
(* The components that write and read content, in one workspace: the       *)
(* documents and their collaboration server, the review queue, the graph   *)
(* walk and the demo seeder.  Their requests are handled at once.  The     *)
(* walk stands for one traversal, and the seeder brings the rows it looks  *)
(* for with it: each is a model of its own, and a step of one leaves the   *)
(* others alone.                                                           *)
(*                                                                         *)
(* Documents is extended; the others are instances, whose parameters are   *)
(* parameters of this module.                                              *)
(***************************************************************************)
EXTENDS Documents

CONSTANTS
  Infinity, One, Symmetric,
  Proposals, ProposedFact, Source, Episodes, NoEpisode, People, Predicates, HighStakes,
  EdgeIds, NoEdge, NoRequest, Bodies, MaxActive, StartTime,
  Nodes, Queries, MaxNodes,
  Seeders

VARIABLES
  edges, reviews, audit, deleted, locks, now, reviewPc, body, reviewTodo, landed, writes, marks,
  log,
  graph, gone, query, seen, nodes, between, walkPc,
  rows, seedPc, mine

reviewVars  == <<edges, reviews, audit, deleted, locks, now, reviewPc, body, reviewTodo,
                 landed, writes, marks, log>>
walkVars    == <<graph, gone, query, seen, nodes, between, walkPc>>
seedVars    == <<rows, seedPc, mine>>
contentVars == <<vars, reviewVars, walkVars, seedVars>>

Reviewing == INSTANCE ReviewQueue WITH Entities <- People, pc <- reviewPc, todo <- reviewTodo

Walking == INSTANCE GraphWalk WITH edges <- graph, pc <- walkPc

Seeding == INSTANCE DemoSeeder WITH Calls <- Seeders, pc <- seedPc

ContentAssumption ==
  Reviewing!InfinityAssumption /\ Reviewing!QueueAssumption /\ Walking!GraphAssumption

-----------------------------------------------------------------------------

ContentInit == Init /\ Reviewing!Init /\ Walking!Init /\ Seeding!Init

DocumentSteps == Next           /\ UNCHANGED <<reviewVars, walkVars, seedVars>>
ReviewSteps   == Reviewing!Next /\ UNCHANGED <<vars, walkVars, seedVars>>
WalkSteps     == Walking!Next   /\ UNCHANGED <<vars, reviewVars, seedVars>>
SeedSteps     == Seeding!Next   /\ UNCHANGED <<vars, reviewVars, walkVars>>

ContentNext == DocumentSteps \/ ReviewSteps \/ WalkSteps \/ SeedSteps

ContentSpec == ContentInit /\ [][ContentNext]_contentVars

-----------------------------------------------------------------------------
(* Properties: those of the components, and NoStaleBacklinks and           *)
(* ProjectionFollowsStore of Documents.                                    *)

(* Every row, request and answer has a value the code can give it. *)
TypesOK ==
  /\ TypeOK
  /\ Reviewing!TypeOK
  /\ Walking!TypeOK
  /\ Seeding!TypeOK

(* Walk: the entities returned are a shortest-path neighbourhood of the    *)
(* seeds at the moment of the first query.                                 *)
AnswerIsNeighbourhood == Walking!AnswerIsNeighbourhood

(* Seeder: calls that overlap, fail or are repeated leave all of the live  *)
(* dataset or nothing, each item once, and one closed fact and one         *)
(* replaced or live fact of each pair per completed call.                  *)
OneLiveDataset == Seeding!OneLiveDataset

=============================================================================
