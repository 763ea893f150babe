SPECIFICATION Spec

CONSTANTS
  ann = ann
  bob = bob
  acme = acme
  globex = globex
  works_at = works_at
  ep1 = ep1
  p1 = p1
  p2 = p2
  p3 = p3
  Infinity = Infinity
  NoEdge = NoEdge
  NoRequest = NoRequest
  NoEpisode = NoEpisode
  StartTime = 3
  Entities <- MCEntities
  Predicates = {works_at}
  One = {works_at}
  Symmetric = {}
  HighStakes = {works_at}
  Episodes = {ep1}
  Proposals = {p1, p2, p3}
  ProposedFact <- MCFacts
  Source <- MCSource
  EdgeIds = {e1, e2, e3}
  Requests = {r1, r2, r3}
  MaxActive = 2
  Bodies <- SinglesAndBulks

SYMMETRY Ids

INVARIANTS
  TypeOK
  ApprovedFactsLanded
  DecidedTogether

PROPERTIES
  LedgerSpec
