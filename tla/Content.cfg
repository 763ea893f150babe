SPECIFICATION FocusSpec

CONSTANTS
  Parts = {"documents", "reviews", "walk", "seeding"}
  Requests = {r1, r2}
  Infinity = Infinity
  NoId = NoId
  Docs = {"d1", "d2"}
  Blocks = {"b1", "b2", "b3"}
  Entities = {"e1"}
  NoMention = "none"
  Initial <- Stored
  Drafts <- Typed
  Calls <- Asked
  NoCall = NoId
  MaxEdits = 2
  People <- PeopleAndFirms
  Predicates = {"works_at"}
  One = {"works_at"}
  Symmetric = {}
  HighStakes = {}
  Proposals = {"p1", "p2", "p4"}
  ProposedFact <- Facts
  Source <- Extracted
  Episodes = {"n1"}
  NoEpisode = NoId
  EdgeIds = {"e1", "e2", "e3", "e4"}
  NoEdge = NoId
  NoRequest = NoId
  Bodies <- Crossing
  MaxActive = 2
  StartTime = 3
  Nodes = {1, 2, 3}
  Queries <- Walks
  MaxNodes = 2
  Seeders = {1, 2, 3}

INVARIANTS
  AnswerIsNeighbourhood
  TypesOK
  NoStaleBacklinks
  ProjectionFollowsStore
  OneLiveDataset

PROPERTIES
  ContentRequestsEnd
