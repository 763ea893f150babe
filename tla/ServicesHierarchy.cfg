SPECIFICATION FocusSpec

CONSTANTS
  Parts = {"ontology"}
  Requests = {r1, r2}
  NoId = NoId
  NoUser = NoId
  NoToken = NoId
  NoBody = NoId
  Founder = "ann"
  Users <- People
  Guests <- Admins
  Invites <- Links
  Tokens <- Secrets
  Sent <- SentOne
  Minted <- BosOne
  Bodies <- AccessCalls
  OntologyTypes <- TypeSlugs
  OntologyRelations = {"leads"}
  NoType = "none"
  Seeded <- SeededTypes
  SystemSlugs = {"agent", "person"}
  Changes <- TypeChanges
  NoChange = NoId
  Contents = {"note", "memo"}
  Episodes = {"n1", "n2"}
  NoEpisode = NoId
  Posts <- PostedCalls
  NoPost = NoId
  Jobs = {"j1", "j2"}
  MaxTries = 2
  MaxKills = 2
  Exports = {"j1", "j2"}
  Dumps = {"j1", "j2"}
  DumpOf <- JobOfEach
  MaxDumpKills = 3
  Items = {"n1", "f1", "p1"}
  KindOf <- Kinds
  Ends <- Related
  Labels = {"secret", "public"}
  Policies = {"editors", "apart"}
  Rule <- PolicyRules
  Assigned <- Labelled
  Enabled = {"editors"}
  CallerRoles = {"editor"}
  NoRole = NoId
  Searches = {"s1"}
  Editors = {"t1"}
  Queries <- AskedFor
  MaxRows = 2
  MaxChanges = 2

INVARIANTS
  SubtypesFollowExtends
