------------------------------ MODULE ContentProofs -----------------------------
(***************************************************************************)
(* Proofs about the content of a workspace, for every set of documents,    *)
(* proposals, entities, requests and calls: the demo seeder, the graph     *)
(* walk, and all of the components together.  Those about documents and    *)
(* reviews are in DocumentsProofs and ReviewQueueProofs.                   *)
(***************************************************************************)
EXTENDS Content, DocumentsProofs, TLAPS, FiniteSetTheorems, SequenceTheorems

-----------------------------------------------------------------------------
(***************************************************************************)
(* The seeder.  What a call holds when it is about to run its next         *)
(* statement.  A call that creates the dataset has the first entity and,   *)
(* later on, all that comes with it; one that finds the entity committed   *)
(* writes nothing but blocks and the facts of the pairs.                   *)
(***************************************************************************)

HoldsOnly(c, xs) == \A x \in Seeding!Tables : mine[c][x] => x \in xs

Holds(c, xs) == \A x \in xs : mine[c][x]

Committed(xs) == \A x \in xs : rows[x] # {}

Creates(c) ==
  /\ rows["entity"] = {} /\ Holds(c, {"type", "entity"})
  /\ IF seedPc[c] \in {"document", "add_document"} THEN HoldsOnly(c, {"type", "entity"})
     ELSE Holds(c, {"iri", "document"})
  /\ seedPc[c] \in {"add_fact"} \cup Seeding!FactsBegun => mine[c]["episode"]
  /\ seedPc[c] \in Seeding!FactsBegun => mine[c]["fact"]
  /\ mine[c]["session"] <=> seedPc[c] = "commit"

Repeats(c) ==
  /\ rows["entity"] # {} /\ HoldsOnly(c, {"closed", "open", "replaced", "state"})
  /\ seedPc[c] # "add_session"

(* Either way it writes both facts of a pair, and closes what was live.    *)
WritesPair(c) ==
  /\ seedPc[c] \in Seeding!FactsBegun \ {"add_closed"} => mine[c]["closed"]
  /\ seedPc[c] \in {"add_open", "session", "add_session", "commit"} => mine[c]["replaced"]
  /\ seedPc[c] \in {"session", "add_session", "commit"} => mine[c]["open"]

SeedControl(c) ==
  /\ seedPc[c] \in {"new", "type", "add_type", "done", "failed"} => HoldsOnly(c, {})
  /\ seedPc[c] \in {"entity", "add_entity"} =>
       HoldsOnly(c, {"type"}) /\ (mine[c]["type"] \/ Committed({"type"}))
  /\ seedPc[c] = "update" => rows["entity"] # {} /\ HoldsOnly(c, {})
  /\ seedPc[c] \in Seeding!Updated => (Creates(c) \/ Repeats(c)) /\ WritesPair(c)

SeedInvariant ==
  /\ Seeding!TypeOK
  /\ OneLiveDataset
  /\ rows["entity"] = {} => rows = Seeding!Empty
  /\ \A c \in Seeders : SeedControl(c)
  /\ \A c \in Seeders : mine[c]["type"] => rows["type"] = {}
  /\ \A c, d \in Seeders : mine[c]["type"] /\ mine[d]["type"] => c = d
  /\ \A c, d \in Seeders :
       seedPc[c] \in Seeding!Updated /\ seedPc[d] \in Seeding!Updated => c = d

(* The row changes of one call.                                            *)
OnlyCall(c) ==
  /\ \A d \in Seeders \ {c} : mine'[d] = mine[d] /\ seedPc'[d] = seedPc[d]
  /\ mine' \in [Seeders -> [Seeding!Tables -> BOOLEAN]]
  /\ seedPc' \in [Seeders -> Seeding!Places]

LEMMA SeedCardinality ==
  /\ Seeding!Cardinality({}) = 0
  /\ \A c : Seeding!Cardinality({c}) = 1
<1>1. \A S : Seeding!Cardinality(S) = Cardinality(S)
  BY DEF Seeding!Cardinality, Cardinality
<1>2. Cardinality({}) = 0 /\ \A c : Cardinality({c}) = 1
  BY FS_EmptySet, FS_Singleton
<1> QED BY <1>1, <1>2

LEMMA SeedInit == Seeding!Init => SeedInvariant
<1> SUFFICES ASSUME Seeding!Init PROVE SeedInvariant
  OBVIOUS
<1>1. /\ rows = [x \in Seeding!Tables |-> {}]
      /\ seedPc = [c \in Seeders |-> "new"]
      /\ mine = [c \in Seeders |-> [x \in Seeding!Tables |-> FALSE]]
  BY DEF Seeding!Init, Seeding!Empty
<1>2. Seeding!TypeOK
  BY <1>1 DEF Seeding!TypeOK, Seeding!Places
<1>3. OneLiveDataset
  BY <1>1, SeedCardinality
     DEF OneLiveDataset, Seeding!OneLiveDataset, Seeding!Live, Seeding!Completed, Seeding!Tables
<1>4. \A c \in Seeders : SeedControl(c)
  BY <1>1 DEF SeedControl, HoldsOnly, Seeding!Updated
<1> QED BY <1>1, <1>2, <1>3, <1>4
      DEF SeedInvariant, Seeding!Empty, Seeding!Tables, Seeding!Updated

(* A statement of one call that commits nothing.                           *)
LEMMA SeedMoves ==
  ASSUME SeedInvariant, NEW c \in Seeders, rows' = rows, OnlyCall(c), SeedControl(c)',
         seedPc[c] # "done", seedPc'[c] # "done",
         mine'[c]["type"] =>
           \/ mine[c]["type"]
           \/ rows["type"] = {} /\ \A d \in Seeders \ {c} : ~mine[d]["type"],
         seedPc'[c] \in Seeding!Updated =>
           \/ seedPc[c] \in Seeding!Updated
           \/ \A d \in Seeders \ {c} : seedPc[d] \notin Seeding!Updated
  PROVE  SeedInvariant'
<1>1. Seeding!TypeOK'
  BY DEF SeedInvariant, Seeding!TypeOK, OnlyCall
<1>2. OneLiveDataset' /\ (rows'["entity"] = {} => rows' = Seeding!Empty')
  <2>1. Seeding!Completed' = Seeding!Completed /\ Seeding!Live' = Seeding!Live
    BY DEF OnlyCall, Seeding!Completed, Seeding!Live
  <2> QED BY <2>1 DEF SeedInvariant, OneLiveDataset, Seeding!OneLiveDataset, Seeding!Empty
<1>3. ASSUME NEW d \in Seeders \ {c} PROVE SeedControl(d)'
  <2>1. mine'[d] = mine[d] /\ seedPc'[d] = seedPc[d] /\ SeedControl(d)
    BY DEF OnlyCall, SeedInvariant
  <2> QED BY <2>1 DEF SeedControl, HoldsOnly, Holds, Committed, Creates, Repeats, WritesPair, Seeding!FactsBegun
<1>4. \A d \in Seeders : mine'[d]["type"] => rows'["type"] = {}
  BY DEF SeedInvariant, OnlyCall
<1>5. \A d, e \in Seeders : mine'[d]["type"] /\ mine'[e]["type"] => d = e
  BY DEF SeedInvariant, OnlyCall
<1>6. \A d, e \in Seeders :
        seedPc'[d] \in Seeding!Updated /\ seedPc'[e] \in Seeding!Updated => d = e
  BY DEF SeedInvariant, OnlyCall
<1>7. \A d \in Seeders : SeedControl(d)'
  BY <1>3
<1>8. Seeding!Updated' = Seeding!Updated
  BY DEF Seeding!Updated
<1> QED BY <1>1, <1>2, <1>4, <1>5, <1>6, <1>7, <1>8 DEF SeedInvariant

(* What the invariant says of one call.                                    *)
LEMMA SeedFacts ==
  ASSUME SeedInvariant, NEW c \in Seeders
  PROVE  /\ seedPc \in [Seeders -> Seeding!Places]
         /\ mine \in [Seeders -> [Seeding!Tables -> BOOLEAN]]
         /\ SeedControl(c)
         /\ rows["entity"] = {} => \A x \in Seeding!Tables : rows[x] = {}
         /\ rows["entity"] # {} =>
              Committed({"type", "iri", "episode", "fact", "open", "session"})
         /\ mine[c]["type"] =>
              rows["type"] = {} /\ \A d \in Seeders \ {c} : ~mine[d]["type"]
BY DEF SeedInvariant, Seeding!TypeOK, OneLiveDataset, Seeding!OneLiveDataset, Seeding!Live,
       Seeding!Empty, Committed, Seeding!Tables

LEMMA GotoFrame ==
  ASSUME SeedInvariant, NEW c \in Seeders, NEW next \in Seeding!Places, Seeding!Goto(c, next)
  PROVE  /\ seedPc' \in [Seeders -> Seeding!Places] /\ seedPc'[c] = next
         /\ \A d \in Seeders \ {c} : seedPc'[d] = seedPc[d]
BY SeedFacts DEF Seeding!Goto

LEMMA LookUpFrame ==
  ASSUME SeedInvariant, NEW c \in Seeders, NEW x \in Seeding!Tables, NEW here,
         NEW found \in Seeding!Places, NEW missing \in Seeding!Places,
         Seeding!LookUp(c, x, here, found, missing)
  PROVE  /\ seedPc[c] = here /\ rows' = rows /\ mine' = mine /\ OnlyCall(c)
         /\ seedPc'[c] = IF rows[x] # {} \/ mine[c][x] THEN found ELSE missing
<1>1. PICK next : next = IF Seeding!Found(c, x) THEN found ELSE missing
  OBVIOUS
<1>2. next \in Seeding!Places /\ Seeding!Goto(c, next)
  BY <1>1 DEF Seeding!LookUp
<1> QED BY <1>1, <1>2, GotoFrame, SeedFacts DEF Seeding!LookUp, Seeding!Found, OnlyCall

LEMMA SeedReads ==
  ASSUME SeedInvariant, NEW c \in Seeders,
         \/ Seeding!Begin(c) \/ Seeding!FindType(c) \/ Seeding!FindEntity(c)
         \/ Seeding!UpdateEntity(c)
         \/ Seeding!FindDocument(c) \/ Seeding!FindEpisode(c) \/ Seeding!FindSession(c)
  PROVE  SeedInvariant'
<1>1. /\ SeedControl(c)
      /\ rows["entity"] = {} => \A x \in Seeding!Tables : rows[x] = {}
      /\ rows["entity"] # {} =>
           Committed({"type", "iri", "episode", "fact", "open", "session"})
      /\ mine[c]["type"] => rows["type"] = {}
  BY SeedFacts
<1>2. SUFFICES /\ rows' = rows /\ mine' = mine /\ OnlyCall(c) /\ SeedControl(c)'
               /\ seedPc[c] # "done" /\ seedPc'[c] # "done"
               /\ seedPc'[c] \in Seeding!Updated =>
                    \/ seedPc[c] \in Seeding!Updated
                    \/ \A d \in Seeders \ {c} : seedPc[d] \notin Seeding!Updated
  BY SeedMoves
<1> DEFINE Moved(here, next) ==
      seedPc[c] = here /\ rows' = rows /\ mine' = mine /\ OnlyCall(c) /\ seedPc'[c] = next
<1>3. CASE Seeding!Begin(c)
  <2>1. "type" \in Seeding!Places /\ Seeding!Goto(c, "type")
    BY <1>3 DEF Seeding!Begin, Seeding!Places
  <2>2. Moved("new", "type")
    BY <1>3, <2>1, GotoFrame, SeedFacts DEF Seeding!Begin, OnlyCall
  <2> QED BY <1>1, <2>2
      DEF SeedControl, HoldsOnly, Holds, Committed, Seeding!Updated, Seeding!Tables, Creates, Repeats, WritesPair, Seeding!FactsBegun
<1>4. CASE Seeding!FindType(c)
  <2>1. Seeding!LookUp(c, "type", "type", "entity", "add_type")
    BY <1>4 DEF Seeding!FindType
  <2>2. Moved("type", IF rows["type"] # {} \/ mine[c]["type"] THEN "entity" ELSE "add_type")
    <3>1. "type" \in Seeding!Tables /\ "entity" \in Seeding!Places /\ "add_type" \in Seeding!Places
      BY DEF Seeding!Tables, Seeding!Places
    <3> QED BY <2>1, <3>1, LookUpFrame
  <2> QED BY <1>1, <2>2
      DEF SeedControl, HoldsOnly, Holds, Committed, Seeding!Updated, Seeding!Tables, Creates, Repeats, WritesPair, Seeding!FactsBegun
<1>5. CASE Seeding!FindEntity(c)
  <2>1. Seeding!LookUp(c, "entity", "entity", "update", "add_entity")
    BY <1>5 DEF Seeding!FindEntity
  <2>2. Moved("entity", IF rows["entity"] # {} \/ mine[c]["entity"] THEN "update" ELSE "add_entity")
    <3>1. "entity" \in Seeding!Tables /\ "update" \in Seeding!Places /\ "add_entity" \in Seeding!Places
      BY DEF Seeding!Tables, Seeding!Places
    <3> QED BY <2>1, <3>1, LookUpFrame
  <2> QED BY <1>1, <2>2
      DEF SeedControl, HoldsOnly, Holds, Committed, Seeding!Updated, Seeding!Tables, Creates, Repeats, WritesPair, Seeding!FactsBegun
<1>6. CASE Seeding!UpdateEntity(c)
  <2>1. "document" \in Seeding!Places /\ Seeding!Goto(c, "document")
    BY <1>6 DEF Seeding!UpdateEntity, Seeding!Places
  <2>2. Moved("update", "document")
    BY <1>6, <2>1, GotoFrame, SeedFacts DEF Seeding!UpdateEntity, OnlyCall
  <2>3. \A d \in Seeders \ {c} : seedPc[d] \notin Seeding!Updated
    BY <1>6 DEF Seeding!UpdateEntity, Seeding!EntityLocked
  <2> QED BY <1>1, <2>2, <2>3
      DEF SeedControl, HoldsOnly, Committed, Seeding!Updated, Seeding!Tables, Repeats, WritesPair, Seeding!FactsBegun
<1>7. CASE Seeding!FindDocument(c)
  <2>1. Seeding!LookUp(c, "document", "document", "retitle", "add_document")
    BY <1>7 DEF Seeding!FindDocument
  <2>2. Moved("document", IF rows["document"] # {} \/ mine[c]["document"] THEN "retitle" ELSE "add_document")
    <3>1. "document" \in Seeding!Tables /\ "retitle" \in Seeding!Places /\ "add_document" \in Seeding!Places
      BY DEF Seeding!Tables, Seeding!Places
    <3> QED BY <2>1, <3>1, LookUpFrame
  <2> QED BY <1>1, <2>2
      DEF SeedControl, HoldsOnly, Holds, Committed, Seeding!Updated, Seeding!Tables, Creates, Repeats, WritesPair, Seeding!FactsBegun
<1>8. CASE Seeding!FindEpisode(c)
  <2>1. Seeding!LookUp(c, "episode", "episode", "add_fact", "add_episode")
    BY <1>8 DEF Seeding!FindEpisode
  <2>2. Moved("episode", IF rows["episode"] # {} \/ mine[c]["episode"] THEN "add_fact" ELSE "add_episode")
    <3>1. "episode" \in Seeding!Tables /\ "add_fact" \in Seeding!Places /\ "add_episode" \in Seeding!Places
      BY DEF Seeding!Tables, Seeding!Places
    <3> QED BY <2>1, <3>1, LookUpFrame
  <2> QED BY <1>1, <2>2
      DEF SeedControl, HoldsOnly, Holds, Committed, Seeding!Updated, Seeding!Tables, Creates, Repeats, WritesPair, Seeding!FactsBegun
<1>9. CASE Seeding!FindSession(c)
  <2>1. Seeding!LookUp(c, "session", "session", "commit", "add_session")
    BY <1>9 DEF Seeding!FindSession
  <2>2. Moved("session", IF rows["session"] # {} \/ mine[c]["session"] THEN "commit" ELSE "add_session")
    <3>1. "session" \in Seeding!Tables /\ "commit" \in Seeding!Places /\ "add_session" \in Seeding!Places
      BY DEF Seeding!Tables, Seeding!Places
    <3> QED BY <2>1, <3>1, LookUpFrame
  <2> QED BY <1>1, <2>2
      DEF SeedControl, HoldsOnly, Holds, Committed, Seeding!Updated, Seeding!Tables, Creates, Repeats, WritesPair, Seeding!FactsBegun
<1> QED BY <1>3, <1>4, <1>5, <1>6, <1>7, <1>8, <1>9

(* What an INSERT does to the call: it fails, or holds its rows as well.   *)
LEMMA InsertFrame ==
  ASSUME SeedInvariant, NEW c \in Seeders, NEW xs \in SUBSET Seeding!Tables, NEW here,
         NEW next \in Seeding!Places, Seeding!Insert(c, xs, here, next)
  PROVE  /\ seedPc[c] = here /\ rows' = rows /\ OnlyCall(c)
         /\ \A d \in Seeders \ {c} : \A x \in xs \cap Seeding!Unique : ~mine[d][x]
         /\ \/ seedPc'[c] = "failed" /\ (\A x \in Seeding!Tables : ~mine'[c][x])
            \/ /\ \A x \in xs \cap Seeding!Unique : rows[x] = {}
               /\ seedPc'[c] = next
               /\ \A x \in Seeding!Tables : mine'[c][x] <=> mine[c][x] \/ x \in xs
<1>1. /\ mine \in [Seeders -> [Seeding!Tables -> BOOLEAN]]
      /\ "failed" \in Seeding!Places
  BY SeedFacts DEF Seeding!Places
<1>2. CASE \E x \in xs \cap Seeding!Unique : rows[x] # {}
  <2>1. Seeding!Goto(c, "failed") /\ seedPc[c] = here /\ rows' = rows
    BY <1>2 DEF Seeding!Insert
  <2>2. mine' = [mine EXCEPT ![c] = [x \in Seeding!Tables |-> FALSE]]
    BY <1>2 DEF Seeding!Insert
  <2> QED BY <1>1, <1>2, <2>1, <2>2, GotoFrame DEF Seeding!Insert, OnlyCall
<1>3. CASE ~\E x \in xs \cap Seeding!Unique : rows[x] # {}
  <2>1. Seeding!Goto(c, next) /\ seedPc[c] = here /\ rows' = rows
    BY <1>3 DEF Seeding!Insert
  <2>2. mine' = [mine EXCEPT ![c] = [x \in Seeding!Tables |-> @[x] \/ x \in xs]]
    BY <1>3 DEF Seeding!Insert
  <2> QED BY <1>1, <1>3, <2>1, <2>2, GotoFrame DEF Seeding!Insert, OnlyCall
<1> QED BY <1>2, <1>3

(* A call that fails holds nothing.                                        *)
LEMMA SeedFails ==
  ASSUME SeedInvariant, NEW c \in Seeders, rows' = rows, OnlyCall(c),
         seedPc[c] # "done", seedPc'[c] = "failed",
         \A x \in Seeding!Tables : ~mine'[c][x]
  PROVE  SeedInvariant'
<1>1. SeedControl(c)'
  BY DEF SeedControl, HoldsOnly, Seeding!Updated
<1>2. ~mine'[c]["type"] /\ seedPc'[c] \notin Seeding!Updated
  BY DEF Seeding!Tables, Seeding!Updated
<1> QED BY <1>1, <1>2, SeedMoves

LEMMA SeedInserts ==
  ASSUME SeedInvariant, NEW c \in Seeders,
         \/ Seeding!CreateType(c) \/ Seeding!CreateEntity(c)
         \/ Seeding!CreateDocument(c) \/ Seeding!CreateSession(c)
  PROVE  SeedInvariant'
<1>1. /\ SeedControl(c)
      /\ rows["entity"] = {} => \A x \in Seeding!Tables : rows[x] = {}
      /\ rows["entity"] # {} =>
           Committed({"type", "iri", "episode", "fact", "open", "session"})
      /\ mine[c]["type"] => rows["type"] = {}
  BY SeedFacts
<1> DEFINE Inserted(xs, here, next) ==
      /\ seedPc[c] = here /\ rows' = rows /\ OnlyCall(c)
      /\ \A d \in Seeders \ {c} : \A x \in xs \cap Seeding!Unique : ~mine[d][x]
      /\ \A x \in xs \cap Seeding!Unique : rows[x] = {}
      /\ seedPc'[c] = next
      /\ \A x \in Seeding!Tables : mine'[c][x] <=> mine[c][x] \/ x \in xs
<1>2. ASSUME NEW xs \in SUBSET Seeding!Tables, NEW here, NEW next \in Seeding!Places,
             here # "done",
             Seeding!Insert(c, xs, here, next), Inserted(xs, here, next) => SeedInvariant'
      PROVE  SeedInvariant'
  <2>1. /\ seedPc[c] = here /\ rows' = rows /\ OnlyCall(c)
        /\ \A d \in Seeders \ {c} : \A x \in xs \cap Seeding!Unique : ~mine[d][x]
        /\ \/ seedPc'[c] = "failed" /\ (\A x \in Seeding!Tables : ~mine'[c][x])
           \/ /\ \A x \in xs \cap Seeding!Unique : rows[x] = {}
              /\ seedPc'[c] = next
              /\ \A x \in Seeding!Tables : mine'[c][x] <=> mine[c][x] \/ x \in xs
    BY <1>2, InsertFrame
  <2> QED BY <1>2, <2>1, SeedFails
<1> HIDE DEF Inserted
<1>3. CASE Seeding!CreateType(c)
  <2>1. Seeding!Insert(c, {"type"}, "add_type", "entity")
    BY <1>3 DEF Seeding!CreateType
  <2>2. ASSUME Inserted({"type"}, "add_type", "entity") PROVE SeedInvariant'
    <3>1. /\ rows["type"] = {} /\ \A d \in Seeders \ {c} : ~mine[d]["type"]
          /\ seedPc'[c] \notin Seeding!Updated
      BY <2>2 DEF Inserted, Seeding!Unique, Seeding!Updated
    <3>2. SeedControl(c)'
      BY <1>1, <2>2 DEF Inserted, SeedControl, HoldsOnly, Seeding!Updated, Seeding!Tables
    <3> QED BY <2>2, <3>1, <3>2, SeedMoves DEF Inserted
  <2>3. {"type"} \in SUBSET Seeding!Tables /\ "entity" \in Seeding!Places
    BY DEF Seeding!Tables, Seeding!Places
  <2> QED BY <1>2, <2>1, <2>2, <2>3
<1>4. CASE Seeding!CreateEntity(c)
  <2>1. Seeding!Insert(c, {"entity"}, "add_entity", "document")
    BY <1>4 DEF Seeding!CreateEntity
  <2>2. ASSUME Inserted({"entity"}, "add_entity", "document") PROVE SeedInvariant'
    <3>1. /\ rows["entity"] = {} /\ \A d \in Seeders \ {c} : ~mine[d]["entity"]
          /\ mine'[c]["type"] => mine[c]["type"]
      BY <2>2 DEF Inserted, Seeding!Unique, Seeding!Tables
    <3>2. \A d \in Seeders \ {c} : seedPc[d] \notin Seeding!Updated
      BY <3>1, SeedFacts DEF SeedControl, Creates, Repeats, WritesPair, Seeding!FactsBegun, Holds
    <3>3. SeedControl(c)'
      BY <1>1, <2>2, <3>1 DEF Inserted, SeedControl, HoldsOnly, Holds, Committed, Creates,
                              WritesPair, Seeding!FactsBegun,
                              Seeding!Updated, Seeding!Tables
    <3> QED BY <2>2, <3>1, <3>2, <3>3, SeedMoves DEF Inserted
  <2>3. {"entity"} \in SUBSET Seeding!Tables /\ "document" \in Seeding!Places
    BY DEF Seeding!Tables, Seeding!Places
  <2> QED BY <1>2, <2>1, <2>2, <2>3
<1>5. CASE Seeding!CreateDocument(c)
  <2>1. Seeding!Insert(c, {"iri", "document"}, "add_document", "hydrate")
    BY <1>5 DEF Seeding!CreateDocument
  <2>2. ASSUME Inserted({"iri", "document"}, "add_document", "hydrate") PROVE SeedInvariant'
    <3>1. /\ rows["iri"] = {} /\ seedPc[c] \in Seeding!Updated
          /\ mine'[c]["type"] => mine[c]["type"]
      BY <2>2 DEF Inserted, Seeding!Unique, Seeding!Tables, Seeding!Updated
    <3>2. SeedControl(c)'
      BY <1>1, <2>2, <3>1 DEF Inserted, SeedControl, HoldsOnly, Holds, Committed, Creates, Repeats, WritesPair, Seeding!FactsBegun,
                              Seeding!Updated, Seeding!Tables
    <3> QED BY <2>2, <3>1, <3>2, SeedMoves DEF Inserted
  <2>3. {"iri", "document"} \in SUBSET Seeding!Tables /\ "hydrate" \in Seeding!Places
    BY DEF Seeding!Tables, Seeding!Places
  <2> QED BY <1>2, <2>1, <2>2, <2>3
<1>6. CASE Seeding!CreateSession(c)
  <2>1. Seeding!Insert(c, {"session"}, "add_session", "commit")
    BY <1>6 DEF Seeding!CreateSession
  <2>2. ASSUME Inserted({"session"}, "add_session", "commit") PROVE SeedInvariant'
    <3>1. seedPc[c] \in Seeding!Updated /\ (mine'[c]["type"] => mine[c]["type"])
      BY <2>2 DEF Inserted, Seeding!Tables, Seeding!Updated
    <3>2. SeedControl(c)'
      BY <1>1, <2>2 DEF Inserted, SeedControl, HoldsOnly, Holds, Committed, Creates, Repeats, WritesPair, Seeding!FactsBegun,
                        Seeding!Updated, Seeding!Tables
    <3> QED BY <2>2, <3>1, <3>2, SeedMoves DEF Inserted
  <2>3. {"session"} \in SUBSET Seeding!Tables /\ "commit" \in Seeding!Places
    BY DEF Seeding!Tables, Seeding!Places
  <2> QED BY <1>2, <2>1, <2>2, <2>3
<1> QED BY <1>3, <1>4, <1>5, <1>6

LEMMA SeedRest ==
  ASSUME SeedInvariant, NEW c \in Seeders,
         \/ Seeding!Retitle(c) \/ Seeding!Hydrate(c) \/ Seeding!CreateEpisode(c)
         \/ Seeding!AddFact(c) \/ Seeding!AddClosedFact(c)
         \/ Seeding!CloseFact(c) \/ Seeding!AddOpenFact(c) \/ Seeding!Abort(c)
  PROVE  SeedInvariant'
<1>1. /\ SeedControl(c)
      /\ rows["entity"] = {} => \A x \in Seeding!Tables : rows[x] = {}
      /\ rows["entity"] # {} =>
           Committed({"type", "iri", "episode", "fact", "open", "session"})
      /\ mine \in [Seeders -> [Seeding!Tables -> BOOLEAN]]
  BY SeedFacts
<1>2. ASSUME NEW next \in Seeding!Places, Seeding!Goto(c, next), rows' = rows,
             mine' \in [Seeders -> [Seeding!Tables -> BOOLEAN]],
             \A d \in Seeders \ {c} : mine'[d] = mine[d]
      PROVE  seedPc'[c] = next /\ OnlyCall(c)
  BY <1>2, GotoFrame DEF OnlyCall
<1> DEFINE Added(here, next, xs) ==
      /\ seedPc[c] = here /\ rows' = rows /\ OnlyCall(c) /\ seedPc'[c] = next
      /\ \A x \in Seeding!Tables : mine'[c][x] <=> mine[c][x] \/ x \in xs
<1>3. ASSUME NEW next \in Seeding!Places, Seeding!Goto(c, next), rows' = rows,
             NEW xs \in SUBSET Seeding!Tables, NEW here, seedPc[c] = here,
             mine' = [mine EXCEPT ![c] = [x \in Seeding!Tables |-> mine[c][x] \/ x \in xs]]
      PROVE  Added(here, next, xs)
  <2>1. /\ mine' \in [Seeders -> [Seeding!Tables -> BOOLEAN]]
        /\ \A d \in Seeders \ {c} : mine'[d] = mine[d]
        /\ \A x \in Seeding!Tables : mine'[c][x] <=> mine[c][x] \/ x \in xs
    BY <1>1, <1>3
  <2> QED BY <1>2, <1>3, <2>1
<1>4. ASSUME seedPc[c] # "done", Seeding!Goto(c, "failed"), rows' = rows,
             mine' = [mine EXCEPT ![c] = [x \in Seeding!Tables |-> FALSE]]
      PROVE  SeedInvariant'
  <2>1. /\ mine' \in [Seeders -> [Seeding!Tables -> BOOLEAN]]
        /\ \A d \in Seeders \ {c} : mine'[d] = mine[d]
        /\ \A x \in Seeding!Tables : ~mine'[c][x]
    BY <1>1, <1>4
  <2>2. "failed" \in Seeding!Places
    BY DEF Seeding!Places
  <2>3. seedPc'[c] = "failed" /\ OnlyCall(c)
    BY <1>2, <1>4, <2>1, <2>2
  <2> QED BY <1>4, <2>1, <2>3, SeedFails
<1>5. /\ mine = [mine EXCEPT ![c] = [x \in Seeding!Tables |-> mine[c][x] \/ x \in {}]]
      /\ \A y \in Seeding!Tables :
           [mine EXCEPT ![c][y] = TRUE]
             = [mine EXCEPT ![c] = [x \in Seeding!Tables |-> mine[c][x] \/ x \in {y}]]
  <2>1. ASSUME NEW y \in Seeding!Tables
        PROVE  [mine[c] EXCEPT ![y] = TRUE] = [x \in Seeding!Tables |-> mine[c][x] \/ x \in {y}]
    BY <1>1
  <2>2. mine[c] = [x \in Seeding!Tables |-> mine[c][x] \/ x \in {}]
    BY <1>1
  <2> QED BY <1>1, <2>1, <2>2
<1>6. /\ {"hydrate", "episode", "add_fact", "add_closed", "invalidate", "add_open", "session"}
           \subseteq Seeding!Places
      /\ {"state", "episode", "fact", "closed", "replaced", "open"} \subseteq Seeding!Tables
  BY DEF Seeding!Places, Seeding!Tables
<1> DEFINE CallKeeps == SeedControl(c)' /\ seedPc[c] \in Seeding!Updated
                   /\ seedPc'[c] # "done"
                   /\ (mine'[c]["type"] => mine[c]["type"])
<1>7. ASSUME NEW here, NEW next, NEW xs, Added(here, next, xs), CallKeeps PROVE SeedInvariant'
  BY <1>7, SeedMoves DEF Seeding!Updated
<1> HIDE DEF CallKeeps
<1>8. CASE Seeding!Retitle(c)
  <2>1. CASE Seeding!Found(c, "document")
    <3>1. Added("retitle", "hydrate", {})
      <4>1. Seeding!Goto(c, "hydrate") /\ rows' = rows /\ seedPc[c] = "retitle" /\ mine' = mine
        BY <1>8, <2>1 DEF Seeding!Retitle
      <4> HIDE DEF Added
      <4> QED BY <1>3, <1>5, <1>6, <4>1
    <3>2. CallKeeps
      BY <1>1, <3>1 DEF CallKeeps, SeedControl, HoldsOnly, Holds, Creates, Repeats, WritesPair, Seeding!FactsBegun, Seeding!Updated,
                        Seeding!Tables
    <3> HIDE DEF Added
    <3> QED BY <1>7, <3>1, <3>2
  <2>2. CASE ~Seeding!Found(c, "document")
    BY <1>4, <1>8, <2>2 DEF Seeding!Retitle
  <2> QED BY <2>1, <2>2
<1>9. CASE Seeding!Hydrate(c)
  <2>1. PICK xs \in {{}, {"state"}} : Added("hydrate", "episode", xs)
    <3>1. Seeding!Goto(c, "episode") /\ rows' = rows /\ seedPc[c] = "hydrate"
      BY <1>9 DEF Seeding!Hydrate
    <3>2. mine' = mine \/ mine' = [mine EXCEPT ![c]["state"] = TRUE]
      BY <1>9 DEF Seeding!Hydrate
    <3> HIDE DEF Added
    <3> QED BY <1>3, <1>5, <1>6, <3>1, <3>2
  <2>2. CallKeeps
    BY <1>1, <2>1 DEF CallKeeps, SeedControl, HoldsOnly, Holds, Creates, Repeats, WritesPair, Seeding!FactsBegun, Seeding!Updated,
                      Seeding!Tables
  <2> HIDE DEF Added
  <2> QED BY <1>7, <2>1, <2>2
<1>10. CASE Seeding!CreateEpisode(c)
  <2>1. Added("add_episode", "add_fact", IF rows["episode"] = {} THEN {"episode"} ELSE {})
    <3>1. Seeding!Goto(c, "add_fact") /\ rows' = rows /\ seedPc[c] = "add_episode"
      BY <1>10 DEF Seeding!CreateEpisode
    <3>2. mine' = IF rows["episode"] = {} THEN [mine EXCEPT ![c]["episode"] = TRUE] ELSE mine
      BY <1>10 DEF Seeding!CreateEpisode
    <3> HIDE DEF Added
    <3> QED BY <1>3, <1>5, <1>6, <3>1, <3>2
  <2>2. CallKeeps
    BY <1>1, <2>1 DEF CallKeeps, SeedControl, HoldsOnly, Holds, Committed, Creates, Repeats, WritesPair, Seeding!FactsBegun,
                      Seeding!Updated, Seeding!Tables
  <2> HIDE DEF Added
  <2> QED BY <1>7, <2>1, <2>2
<1>11. CASE Seeding!AddFact(c)
  <2>1. Added("add_fact", "add_closed", IF rows["fact"] = {} THEN {"fact"} ELSE {})
    <3>1. Seeding!Goto(c, "add_closed") /\ rows' = rows /\ seedPc[c] = "add_fact"
      BY <1>11 DEF Seeding!AddFact
    <3>2. mine' = IF rows["fact"] = {} THEN [mine EXCEPT ![c]["fact"] = TRUE] ELSE mine
      BY <1>11 DEF Seeding!AddFact
    <3> HIDE DEF Added
    <3> QED BY <1>3, <1>5, <1>6, <3>1, <3>2
  <2>2. CallKeeps
    BY <1>1, <2>1 DEF CallKeeps, SeedControl, HoldsOnly, Holds, Committed, Creates, Repeats,
                      WritesPair, Seeding!FactsBegun, Seeding!Updated, Seeding!Tables
  <2> HIDE DEF Added
  <2> QED BY <1>7, <2>1, <2>2
<1>12. CASE Seeding!AddClosedFact(c)
  <2>1. Added("add_closed", "invalidate", {"closed"})
    <3>1. Seeding!Goto(c, "invalidate") /\ rows' = rows /\ seedPc[c] = "add_closed"
      BY <1>12 DEF Seeding!AddClosedFact
    <3>2. mine' = [mine EXCEPT ![c]["closed"] = TRUE]
      BY <1>12 DEF Seeding!AddClosedFact
    <3> HIDE DEF Added
    <3> QED BY <1>3, <1>5, <1>6, <3>1, <3>2
  <2>2. CallKeeps
    BY <1>1, <2>1 DEF CallKeeps, SeedControl, HoldsOnly, Holds, Committed, Creates, Repeats,
                      WritesPair, Seeding!FactsBegun, Seeding!Updated, Seeding!Tables
  <2> HIDE DEF Added
  <2> QED BY <1>7, <2>1, <2>2
<1>13. CASE Seeding!CloseFact(c)
  <2>1. Added("invalidate", "add_open", {"replaced"})
    <3>1. Seeding!Goto(c, "add_open") /\ rows' = rows /\ seedPc[c] = "invalidate"
      BY <1>13 DEF Seeding!CloseFact
    <3>2. mine' = [mine EXCEPT ![c]["replaced"] = TRUE]
      BY <1>13 DEF Seeding!CloseFact
    <3> HIDE DEF Added
    <3> QED BY <1>3, <1>5, <1>6, <3>1, <3>2
  <2>2. CallKeeps
    BY <1>1, <2>1 DEF CallKeeps, SeedControl, HoldsOnly, Holds, Committed, Creates, Repeats,
                      WritesPair, Seeding!FactsBegun, Seeding!Updated, Seeding!Tables
  <2> HIDE DEF Added
  <2> QED BY <1>7, <2>1, <2>2
<1>14. CASE Seeding!AddOpenFact(c)
  <2>1. Added("add_open", "session", {"open"})
    <3>1. Seeding!Goto(c, "session") /\ rows' = rows /\ seedPc[c] = "add_open"
      BY <1>14 DEF Seeding!AddOpenFact
    <3>2. mine' = [mine EXCEPT ![c]["open"] = TRUE]
      <4>1. mine[c]["replaced"]
        BY <1>1, <3>1 DEF SeedControl, WritesPair, Seeding!Updated
      <4> QED BY <1>14, <4>1 DEF Seeding!AddOpenFact, Seeding!Remaining
    <3> HIDE DEF Added
    <3> QED BY <1>3, <1>5, <1>6, <3>1, <3>2
  <2>2. CallKeeps
    BY <1>1, <2>1 DEF CallKeeps, SeedControl, HoldsOnly, Holds, Committed, Creates, Repeats,
                      WritesPair, Seeding!FactsBegun, Seeding!Updated, Seeding!Tables
  <2> HIDE DEF Added
  <2> QED BY <1>7, <2>1, <2>2
<1>15. CASE Seeding!Abort(c)
  BY <1>4, <1>15 DEF Seeding!Abort, Seeding!Active
<1> QED BY <1>8, <1>9, <1>10, <1>11, <1>12, <1>13, <1>14, <1>15

(* All of the dataset is committed at once, or blocks and the facts of the *)
(* pairs, which become the live ones.                                      *)
LEMMA SeedCommits ==
  ASSUME SeedInvariant, NEW c \in Seeders, Seeding!Commit(c)
  PROVE  SeedInvariant'
<1>1. /\ SeedControl(c) /\ seedPc[c] = "commit"
      /\ rows["entity"] = {} => \A x \in Seeding!Tables : rows[x] = {}
      /\ rows["entity"] # {} =>
           Committed({"type", "iri", "episode", "fact", "open", "session"})
      /\ mine \in [Seeders -> [Seeding!Tables -> BOOLEAN]]
      /\ mine[c]["type"] => \A d \in Seeders \ {c} : ~mine[d]["type"]
      /\ rows \in [Seeding!Tables -> SUBSET Seeders]
  BY SeedFacts DEF Seeding!Commit, SeedInvariant, Seeding!TypeOK
<1>2. \A d \in Seeders \ {c} : seedPc[d] \notin Seeding!Updated
  BY <1>1 DEF SeedInvariant, Seeding!Updated
<1>3. Creates(c) \/ Repeats(c)
  BY <1>1 DEF SeedControl, Seeding!Updated
<1>4. /\ \A d \in Seeders \ {c} : mine'[d] = mine[d] /\ seedPc'[d] = seedPc[d]
      /\ mine' \in [Seeders -> [Seeding!Tables -> BOOLEAN]]
      /\ seedPc' \in [Seeders -> Seeding!Places]
      /\ seedPc'[c] = "done" /\ (\A x \in Seeding!Tables : ~mine'[c][x])
  <2>1. Seeding!Goto(c, "done") /\ "done" \in Seeding!Places
    BY DEF Seeding!Commit, Seeding!Places
  <2>2. mine' = [mine EXCEPT ![c] = [x \in Seeding!Tables |-> FALSE]]
    BY DEF Seeding!Commit
  <2> QED BY <1>1, <2>1, <2>2, GotoFrame
<1>5. /\ \A x \in Seeding!Tables \ {"open", "replaced"} :
            rows'[x] = rows[x] \cup (IF mine[c][x] THEN {c} ELSE {})
      /\ rows'["open"] = {c} /\ rows'["replaced"] = rows["replaced"] \cup rows["open"]
      /\ rows'["closed"] = rows["closed"] \cup {c}
  <2>1. mine[c]["closed"] /\ mine[c]["open"] /\ mine[c]["replaced"]
    BY <1>1 DEF SeedControl, WritesPair, Seeding!Updated, Seeding!FactsBegun
  <2>2. rows' = [x \in Seeding!Tables |-> Seeding!Remaining(c, x) \cup Seeding!Written(c, x)]
    BY DEF Seeding!Commit, Seeding!Outcome
  <2> QED BY <2>1, <2>2 DEF Seeding!Remaining, Seeding!Written, Seeding!Tables
<1>6. rows' \in [Seeding!Tables -> SUBSET Seeders]
  BY <1>1 DEF Seeding!Commit, Seeding!Outcome, Seeding!Remaining, Seeding!Written, Seeding!Tables
<1>7. Seeding!TypeOK'
  BY <1>4, <1>6 DEF Seeding!TypeOK
<1>8. rows'["entity"] # {}
  BY <1>3, <1>5 DEF Creates, Repeats, WritesPair, Seeding!FactsBegun, Holds, Seeding!Tables
<1>9. OneLiveDataset'
  <2>1. Seeding!Completed' = Seeding!Completed \cup {c} /\ c \notin Seeding!Completed
    BY <1>1, <1>4 DEF Seeding!Completed
  <2>2. /\ rows["closed"] = Seeding!Completed
        /\ rows["open"] \cup rows["replaced"] = Seeding!Completed
        /\ rows["open"] \cap rows["replaced"] = {}
        /\ \A x \in Seeding!Live : Seeding!Cardinality(rows[x]) <= 1
    BY DEF SeedInvariant, OneLiveDataset, Seeding!OneLiveDataset
  <2>3. ASSUME NEW x \in Seeding!Live PROVE Seeding!Cardinality(rows'[x]) <= 1
    <3>1. CASE x = "open"
      <4>1. rows'[x] = {c}
        BY <1>5, <3>1
      <4>2. Seeding!Cardinality({c}) <= 1
        BY SeedCardinality
      <4> QED BY <4>1, <4>2
    <3>2. CASE x # "open" /\ Creates(c)
      <4>1. rows'[x] = IF mine[c][x] THEN {c} ELSE {}
        BY <1>1, <1>5, <3>2 DEF Creates, Seeding!Live, Seeding!Tables
      <4>2. Seeding!Cardinality({c}) <= 1
        BY SeedCardinality
      <4>3. Seeding!Cardinality({}) <= 1
        BY SeedCardinality
      <4> QED BY <4>1, <4>2, <4>3
    <3>3. CASE x # "open" /\ Repeats(c)
      <4>1. rows'[x] = rows[x]
        BY <1>5, <3>3 DEF Repeats, HoldsOnly, Seeding!Live, Seeding!Tables
      <4> QED BY <2>2, <4>1
    <3> QED BY <1>3, <3>1, <3>2, <3>3
  <2>4. ASSUME NEW x \in Seeding!Live \ {"document"} PROVE rows'[x] # {}
    <3>1. mine[c][x] \/ rows[x] # {}
      BY <1>1, <1>3 DEF Creates, Repeats, Holds, Committed, WritesPair, SeedControl, Seeding!Live,
                        Seeding!FactsBegun, Seeding!Updated
    <3> QED BY <1>5, <3>1 DEF Seeding!Live, Seeding!Tables
  <2>5. Seeding!Live' = Seeding!Live
    BY DEF Seeding!Live
  <2>6. /\ rows'["closed"] = Seeding!Completed'
        /\ rows'["open"] \cup rows'["replaced"] = Seeding!Completed'
        /\ rows'["open"] \cap rows'["replaced"] = {}
    BY <1>5, <2>1, <2>2
  <2> QED BY <2>3, <2>4, <2>5, <2>6 DEF OneLiveDataset, Seeding!OneLiveDataset
<1>10. \A x \in Seeding!Tables : rows[x] # {} => rows'[x] # {}
  BY <1>5 DEF Seeding!Tables
<1>11. \A d \in Seeders : SeedControl(d)'
  <2>1. SeedControl(c)'
    BY <1>4 DEF SeedControl, HoldsOnly, Seeding!Updated
  <2>2. ASSUME NEW d \in Seeders \ {c} PROVE SeedControl(d)'
    <3>1. /\ mine'[d] = mine[d] /\ seedPc'[d] = seedPc[d] /\ SeedControl(d)
          /\ seedPc[d] \notin Seeding!Updated
      BY <1>2, <1>4 DEF SeedInvariant
    <3> QED BY <1>8, <1>10, <3>1
         DEF SeedControl, HoldsOnly, Committed, Seeding!Tables, Seeding!Updated
  <2> QED BY <2>1, <2>2
<1>12. \A d \in Seeders : mine'[d]["type"] => rows'["type"] = {}
  <2>1. ASSUME NEW d \in Seeders, mine'[d]["type"] PROVE rows'["type"] = {}
    <3>1. d # c /\ mine[d]["type"]
      BY <1>4, <2>1 DEF Seeding!Tables
    <3>2. ~mine[c]["type"] /\ rows["type"] = {}
      BY <1>1, <3>1 DEF SeedInvariant
    <3> QED BY <1>5, <3>2 DEF Seeding!Tables
  <2> QED BY <2>1
<1>13. \A d, e \in Seeders : mine'[d]["type"] /\ mine'[e]["type"] => d = e
  BY <1>4 DEF SeedInvariant, Seeding!Tables
<1>14. \A d \in Seeders : seedPc'[d] \notin Seeding!Updated
  BY <1>2, <1>4 DEF Seeding!Updated
<1>15. Seeding!Updated' = Seeding!Updated
  BY DEF Seeding!Updated
<1> QED BY <1>7, <1>8, <1>9, <1>11, <1>12, <1>13, <1>14, <1>15 DEF SeedInvariant

LEMMA SeedDeletes ==
  ASSUME SeedInvariant, Seeding!DeleteDocument
  PROVE  SeedInvariant'
<1>1. /\ rows' = [rows EXCEPT !["document"] = {}, !["state"] = {}]
      /\ mine' = mine /\ seedPc' = seedPc /\ rows["document"] # {}
  BY DEF Seeding!DeleteDocument
<1>2. Seeding!TypeOK
  BY DEF SeedInvariant
<1>3. /\ \A x \in Seeding!Tables \ {"document", "state"} : rows'[x] = rows[x]
      /\ rows'["document"] = {}
      /\ rows' \in [Seeding!Tables -> SUBSET Seeders]
  BY <1>1, <1>2 DEF Seeding!TypeOK, Seeding!Tables
<1>4. rows["entity"] # {}
  BY <1>1, <1>2 DEF SeedInvariant, Seeding!Empty, Seeding!Tables
<1>5. rows'["entity"] # {} /\ rows'["type"] = rows["type"] /\ rows'["entity"] = rows["entity"]
  BY <1>3, <1>4 DEF Seeding!Tables
<1>6. OneLiveDataset'
  <2>1. Seeding!Completed' = Seeding!Completed /\ Seeding!Live' = Seeding!Live
    BY <1>1 DEF Seeding!Completed, Seeding!Live
  <2>2. ASSUME NEW x \in Seeding!Live, x # "document" PROVE rows'[x] = rows[x]
    BY <1>3, <2>2 DEF Seeding!Live, Seeding!Tables
  <2>3. Seeding!Cardinality(rows'["document"]) <= 1
    BY <1>3, SeedCardinality
  <2>4. \A x \in {"closed", "open", "replaced"} : rows'[x] = rows[x]
    BY <1>3 DEF Seeding!Tables
  <2> QED BY <1>4, <2>1, <2>2, <2>3, <2>4 DEF SeedInvariant, OneLiveDataset, Seeding!OneLiveDataset
<1>7. ASSUME NEW c \in Seeders PROVE SeedControl(c)'
  <2>1. SeedControl(c)
    BY DEF SeedInvariant
  <2> QED BY <1>1, <1>5, <2>1 DEF SeedControl, HoldsOnly, Holds, Committed, Creates, Repeats, WritesPair, Seeding!FactsBegun
<1>8. Seeding!TypeOK'
  BY <1>1, <1>2, <1>3 DEF Seeding!TypeOK
<1> QED BY <1>1, <1>5, <1>6, <1>7, <1>8 DEF SeedInvariant, Seeding!Updated

LEMMA SeedStep == ASSUME SeedInvariant, [Seeding!Next]_(Seeding!vars) PROVE SeedInvariant'
<1>1. CASE UNCHANGED Seeding!vars
  BY <1>1 DEF SeedInvariant, OneLiveDataset, Seeding!OneLiveDataset, Seeding!Live,
              Seeding!Completed, Seeding!TypeOK, Seeding!Empty, SeedControl,
              HoldsOnly, Holds, Committed, Creates, Repeats, WritesPair, Seeding!FactsBegun, Seeding!vars, Seeding!Updated
<1>2. ASSUME NEW c \in Seeders, Seeding!Begin(c) \/ Seeding!Step(c) \/ Seeding!Abort(c)
      PROVE  SeedInvariant'
  BY <1>2, SeedReads, SeedInserts, SeedRest, SeedCommits DEF Seeding!Step
<1> QED BY <1>1, <1>2, SeedDeletes DEF Seeding!Next

LEMMA SeedAlways == Seeding!Spec => []SeedInvariant
BY SeedInit, SeedStep, PTL DEF Seeding!Spec

-----------------------------------------------------------------------------
(* Reviews: what is proved of the component holds of the instance.         *)

ReviewProofs ==
  INSTANCE ReviewQueueProofs WITH Entities <- People, pc <- reviewPc, todo <- reviewTodo

(* The two instances have the same definitions.                            *)
LEMMA SameReviews ==
  /\ Reviewing!InfinityAssumption <=> ReviewProofs!InfinityAssumption
  /\ Reviewing!QueueAssumption <=> ReviewProofs!QueueAssumption
  /\ Reviewing!Init <=> ReviewProofs!Init
  /\ Reviewing!TypeOK <=> ReviewProofs!TypeOK
  BY DEF Reviewing!Instant, ReviewProofs!Instant, Reviewing!Endpoint, ReviewProofs!Endpoint,
         Reviewing!InfinityAssumption, ReviewProofs!InfinityAssumption, Reviewing!Fact,
         ReviewProofs!Fact, Reviewing!Body, ReviewProofs!Body, Reviewing!Row, ReviewProofs!Row,
         Reviewing!Review, ReviewProofs!Review, Reviewing!Decision, ReviewProofs!Decision,
         Reviewing!Keys, ReviewProofs!Keys, Reviewing!QueueAssumption, ReviewProofs!QueueAssumption,
         Reviewing!NoBody, ReviewProofs!NoBody, Reviewing!TypeOK, ReviewProofs!TypeOK,
         Reviewing!Init, ReviewProofs!Init

LEMMA SameReviewSteps ==
  /\ Reviewing!vars = ReviewProofs!vars
  /\ Reviewing!vars' = ReviewProofs!vars'
  /\ Reviewing!Next <=> ReviewProofs!Next
<1>1. Reviewing!vars = ReviewProofs!vars /\ Reviewing!vars' = ReviewProofs!vars'
  BY DEF Reviewing!vars, ReviewProofs!vars
<1>2. ASSUME NEW t \in Requests
      PROVE  \/ Reviewing!Receive(t) \/ Reviewing!Step(t) \/ Reviewing!Commit(t)
             \/ Reviewing!Rollback(t) \/ Reviewing!Crash(t) \/ Reviewing!DeadlockVictim(t)
             <=>
             \/ ReviewProofs!Receive(t) \/ ReviewProofs!Step(t) \/ ReviewProofs!Commit(t)
             \/ ReviewProofs!Rollback(t) \/ ReviewProofs!Crash(t) \/ ReviewProofs!DeadlockVictim(t)
  <2>1. Reviewing!Receive(t) <=> ReviewProofs!Receive(t)
    BY DEF Reviewing!Receive, ReviewProofs!Receive, Reviewing!Goto, ReviewProofs!Goto,
           Reviewing!Active, ReviewProofs!Active, Reviewing!Cardinality, ReviewProofs!Cardinality
  <2>2. Reviewing!ReadStatus(t) <=> ReviewProofs!ReadStatus(t)
    BY DEF Reviewing!ReadStatus, ReviewProofs!ReadStatus, Reviewing!Refuse, ReviewProofs!Refuse,
           Reviewing!Goto, ReviewProofs!Goto, Reviewing!NextItem, ReviewProofs!NextItem,
           Reviewing!Item, ReviewProofs!Item, Reviewing!Reviews, ReviewProofs!Reviews,
           Reviewing!Overlay, ReviewProofs!Overlay, Reviewing!Open, ReviewProofs!Open
  <2>3. Reviewing!CheckSource(t) <=> ReviewProofs!CheckSource(t)
    BY DEF Reviewing!CheckSource, ReviewProofs!CheckSource, Reviewing!Goto, ReviewProofs!Goto,
           Reviewing!Refuse, ReviewProofs!Refuse, Reviewing!NextItem, ReviewProofs!NextItem,
           Reviewing!Item, ReviewProofs!Item
  <2>4. Reviewing!Land(t) <=> ReviewProofs!Land(t)
    BY DEF Reviewing!Land, ReviewProofs!Land, Reviewing!Goto, ReviewProofs!Goto,
           Reviewing!LandedRows, ReviewProofs!LandedRows, Reviewing!Overlay, ReviewProofs!Overlay,
           Reviewing!Superseded, ReviewProofs!Superseded, Reviewing!Overlaps, ReviewProofs!Overlaps,
           Reviewing!Before, ReviewProofs!Before, Reviewing!Key, ReviewProofs!Key,
           Reviewing!LiveIds, ReviewProofs!LiveIds, Reviewing!Live, ReviewProofs!Live,
           Reviewing!Exclusive, ReviewProofs!Exclusive, Reviewing!NewRow, ReviewProofs!NewRow,
           Reviewing!UsedIds, ReviewProofs!UsedIds, Reviewing!RangeRefused,
           ReviewProofs!RangeRefused, Reviewing!Candidates, ReviewProofs!Candidates,
           Reviewing!Grantable, ReviewProofs!Grantable, Reviewing!Duplicates,
           ReviewProofs!Duplicates, Reviewing!ValidAt, ReviewProofs!ValidAt, Reviewing!SameTriple,
           ReviewProofs!SameTriple, Reviewing!View, ReviewProofs!View, Reviewing!Item,
           ReviewProofs!Item
  <2>5. Reviewing!Mark(t) <=> ReviewProofs!Mark(t)
    BY DEF Reviewing!Mark, ReviewProofs!Mark, Reviewing!NextItem, ReviewProofs!NextItem,
           Reviewing!Goto, ReviewProofs!Goto, Reviewing!Reviews, ReviewProofs!Reviews,
           Reviewing!Overlay, ReviewProofs!Overlay, Reviewing!Decided, ReviewProofs!Decided,
           Reviewing!Item, ReviewProofs!Item
  <2>6. Reviewing!Commit(t) <=> ReviewProofs!Commit(t)
    BY DEF Reviewing!Commit, ReviewProofs!Commit, Reviewing!End, ReviewProofs!End, Reviewing!Goto,
           ReviewProofs!Goto, Reviewing!NoBody, ReviewProofs!NoBody, Reviewing!Keys,
           ReviewProofs!Keys, Reviewing!Reviews, ReviewProofs!Reviews, Reviewing!Overlay,
           ReviewProofs!Overlay, Reviewing!View, ReviewProofs!View
  <2>7. Reviewing!Rollback(t) <=> ReviewProofs!Rollback(t)
    BY DEF Reviewing!Rollback, ReviewProofs!Rollback, Reviewing!End, ReviewProofs!End,
           Reviewing!Goto, ReviewProofs!Goto, Reviewing!NoBody, ReviewProofs!NoBody, Reviewing!Keys,
           ReviewProofs!Keys
  <2>8. Reviewing!Crash(t) <=> ReviewProofs!Crash(t)
    BY DEF Reviewing!Crash, ReviewProofs!Crash, Reviewing!End, ReviewProofs!End, Reviewing!Goto,
           ReviewProofs!Goto, Reviewing!NoBody, ReviewProofs!NoBody, Reviewing!Keys,
           ReviewProofs!Keys, Reviewing!Active, ReviewProofs!Active
  <2>9. Reviewing!DeadlockVictim(t) <=> ReviewProofs!DeadlockVictim(t)
    BY DEF Reviewing!DeadlockVictim, ReviewProofs!DeadlockVictim, Reviewing!End, ReviewProofs!End,
           Reviewing!Goto, ReviewProofs!Goto, Reviewing!NoBody, ReviewProofs!NoBody, Reviewing!Keys,
           ReviewProofs!Keys, Reviewing!Cancelled, ReviewProofs!Cancelled, Reviewing!Deadlocked,
           ReviewProofs!Deadlocked, Reviewing!WaitsFor, ReviewProofs!WaitsFor, Reviewing!Item,
           ReviewProofs!Item, Reviewing!Key, ReviewProofs!Key
  <2> QED BY <2>1, <2>2, <2>3, <2>4, <2>5, <2>6, <2>7, <2>8, <2>9
      DEF Reviewing!Step, ReviewProofs!Step
<1>3. Reviewing!DeleteSource <=> ReviewProofs!DeleteSource
  BY DEF Reviewing!DeleteSource, ReviewProofs!DeleteSource
<1>4. Reviewing!Quiet <=> ReviewProofs!Quiet
  BY DEF Reviewing!Quiet, ReviewProofs!Quiet, Reviewing!vars, ReviewProofs!vars
<1> QED BY <1>1, <1>2, <1>3, <1>4 DEF Reviewing!Next, ReviewProofs!Next

LEMMA ReviewsAlways ==
  Reviewing!InfinityAssumption /\ Reviewing!QueueAssumption
    => (Reviewing!Spec => []Reviewing!TypeOK)
<1> SUFFICES ASSUME Reviewing!InfinityAssumption, Reviewing!QueueAssumption
             PROVE  Reviewing!Spec => []Reviewing!TypeOK
  OBVIOUS
<1>1. ReviewProofs!InfinityAssumption /\ ReviewProofs!QueueAssumption
  BY SameReviews
<1>2. ReviewProofs!Spec => []ReviewProofs!TypeOK
  BY <1>1, ReviewProofs!QueueTypes
<1>3. Reviewing!Init => ReviewProofs!Init
  BY SameReviews
<1>4. [Reviewing!Next]_(Reviewing!vars) => [ReviewProofs!Next]_(ReviewProofs!vars)
  BY SameReviewSteps
<1>5. ReviewProofs!TypeOK => Reviewing!TypeOK
  BY SameReviews
<1> QED BY <1>2, <1>3, <1>4, <1>5, PTL DEF Reviewing!Spec, ReviewProofs!Spec

-----------------------------------------------------------------------------
(* The graph walk: recursive functions of numbers.                         *)

LEMMA LeastNumber ==
  ASSUME NEW S \in SUBSET Nat, S # {}
  PROVE  \E m \in S : \A k \in S : m <= k
<1>1. PICK m \in S : \A k \in S : <<k, m>> \notin OpToRel(<, Nat)
  BY WFMin, NatLessThanWellFounded, Zenon
<1>2. \A k \in S : ~(k < m)
  BY <1>1, Zenon DEF OpToRel
<1> QED BY <1>2

(* f[n + 1] is what step n makes of f[n].                                  *)
Unfolds(f, S, G, e) == f \in [Nat -> S] /\ f[0] = e /\ \A n \in Nat : f[n + 1] = G[<<n, f[n]>>]

LEMMA UnfoldExists ==
  ASSUME NEW S, NEW G \in [Nat \X S -> S], NEW e \in S
  PROVE  \E f : Unfolds(f, S, G, e)
<1> DEFINE Upto(g, k) == g[0] = e /\ \A n \in Nat : n < k => g[n + 1] = G[<<n, g[n]>>]
           Good == {k \in Nat : \E g \in [Nat -> S] : Upto(g, k)}
           Bad == Nat \ Good
<1>1. Good = Nat
  <2> SUFFICES ASSUME Bad # {} PROVE FALSE
    OBVIOUS
  <2>1. Bad \in SUBSET Nat
    OBVIOUS
  <2> HIDE DEF Bad
  <2>2. PICK m \in Bad : \A k \in Bad : m <= k
    BY <2>1, LeastNumber
  <2> USE DEF Bad
  <2>3. m # 0
    <3>1. [n \in Nat |-> e] \in [Nat -> S] /\ Upto([n \in Nat |-> e], 0)
      OBVIOUS
    <3> QED BY <3>1
  <2>4. m - 1 \in Good /\ m - 1 \in Nat
    BY <2>2, <2>3
  <2>5. PICK g \in [Nat -> S] : Upto(g, m - 1)
    BY <2>4
  <2> DEFINE h == [g EXCEPT ![m] = G[<<m - 1, g[m - 1]>>]]
  <2>6. G[<<m - 1, g[m - 1]>>] \in S
    BY <2>4
  <2>7. h \in [Nat -> S]
    BY <2>6
  <2>8. Upto(h, m)
    <3>1. h[0] = e
      BY <2>3, <2>5
    <3>2. ASSUME NEW n \in Nat, n < m PROVE h[n + 1] = G[<<n, h[n]>>]
      <4>1. h[n] = g[n]
        BY <3>2
      <4>2. CASE n = m - 1
        BY <2>2, <4>1, <4>2
      <4>3. CASE n < m - 1
        <5>1. h[n + 1] = g[n + 1]
          BY <2>2, <4>3
        <5> QED BY <2>5, <4>1, <4>3, <5>1
      <4> QED BY <2>4, <3>2, <4>2, <4>3
    <3> QED BY <3>1, <3>2
  <2>9. m \in Good
    BY <2>1, <2>7, <2>8
  <2> QED BY <2>9
<1> DEFINE g(k) == CHOOSE g \in [Nat -> S] : Upto(g, k)
<1>2. \A k \in Nat : g(k) \in [Nat -> S] /\ Upto(g(k), k)
  BY <1>1
<1> HIDE DEF g
<1>3. \A k, n \in Nat : n <= k => g(k)[n] = g(n)[n]
  <2> SUFFICES ASSUME NEW k \in Nat, NEW n \in Nat, n <= k PROVE g(k)[n] = g(n)[n]
    OBVIOUS
  <2> DEFINE Differ == {i \in Nat : i <= n /\ g(k)[i] # g(n)[i]}
  <2>1. CASE Differ = {}
    BY <2>1
  <2>2. CASE Differ # {}
    <3>1. PICK i \in Differ : \A j \in Differ : i <= j
      <4>1. Differ \in SUBSET Nat
        OBVIOUS
      <4> HIDE DEF Differ
      <4> QED BY <2>2, <4>1, LeastNumber
    <3>2. i # 0
      BY <1>2, <3>1
    <3>3. i - 1 \in Nat /\ i - 1 < n /\ i - 1 < k /\ (i - 1) + 1 = i
      BY <3>1, <3>2
    <3>4. g(k)[i - 1] = g(n)[i - 1]
      BY <3>1, <3>3
    <3>5. g(k)[i] = G[<<i - 1, g(k)[i - 1]>>] /\ g(n)[i] = G[<<i - 1, g(n)[i - 1]>>]
      BY <1>2, <3>3
    <3> QED BY <3>1, <3>4, <3>5
  <2> QED BY <2>1, <2>2
<1> DEFINE f == [n \in Nat |-> g(n)[n]]
<1>4. f \in [Nat -> S] /\ f[0] = e
  BY <1>2
<1>5. ASSUME NEW n \in Nat PROVE f[n + 1] = G[<<n, f[n]>>]
  <2>1. g(n + 1)[n + 1] = G[<<n, g(n + 1)[n]>>]
    BY <1>2
  <2>2. g(n + 1)[n] = g(n)[n]
    BY <1>3
  <2> QED BY <2>1, <2>2
<1> QED BY <1>4, <1>5 DEF Unfolds

-----------------------------------------------------------------------------
(* The entities within so many steps                                       *)

Around(es, q, X) == X \cup UNION {Walking!Neighbours(es, q.direction, x) : x \in X}

(* b[d] are the entities within d steps.                                   *)
Balls(b, es, dead, q) ==
  /\ b \in [Nat -> SUBSET Nodes] /\ b[0] = q.seeds \ dead
  /\ \A n \in Nat : b[n + 1] = Around(es, q, b[n])

LEMMA BallsExist ==
  ASSUME NEW es, NEW dead, NEW q \in Walking!Query
  PROVE  \E b : Balls(b, es, dead, q)
<1> DEFINE G == [s \in Nat \X SUBSET Nodes |-> Around(es, q, s[2])]
<1>1. G \in [Nat \X SUBSET Nodes -> SUBSET Nodes]
  BY DEF Around, Walking!Neighbours
<1>2. q.seeds \ dead \in SUBSET Nodes
  BY DEF Walking!Query
<1> HIDE DEF G
<1>3. PICK b : Unfolds(b, SUBSET Nodes, G, q.seeds \ dead)
  BY <1>1, <1>2, UnfoldExists
<1>4. \A n \in Nat : b[n + 1] = Around(es, q, b[n])
  BY <1>3 DEF Unfolds, G
<1> QED BY <1>3, <1>4 DEF Unfolds, Balls

(* Within(d), of any graph and question.                                   *)
BallOf(es, dead, q, d) ==
  LET ball[i \in 0..d] ==
        IF i = 0 THEN q.seeds \ dead
        ELSE ball[i - 1] \cup UNION {Walking!Neighbours(es, q.direction, x) : x \in ball[i - 1]}
  IN ball[d]

LEMMA BallIs ==
  ASSUME NEW es, NEW dead, NEW q \in Walking!Query, NEW b, Balls(b, es, dead, q), NEW d \in Nat
  PROVE  BallOf(es, dead, q, d) = b[d]
<1> DEFINE unfold(f) == [i \in 0..d |->
                           IF i = 0 THEN q.seeds \ dead
                           ELSE f[i - 1] \cup UNION {Walking!Neighbours(es, q.direction, x) :
                                                       x \in f[i - 1]}]
           ball == CHOOSE f : f = unfold(f)
<1>1. BallOf(es, dead, q, d) = ball[d]
  BY DEF BallOf
<1>2. [i \in 0..d |-> b[i]] = unfold([i \in 0..d |-> b[i]])
  BY DEF Balls, Around
<1>3. ball = unfold(ball)
  BY <1>2
<1> HIDE DEF ball
<1>4. ball[0] = b[0] /\ \A i \in Nat : i + 1 <= d => ball[i + 1] = Around(es, q, ball[i])
  BY <1>3 DEF Balls, Around
<1> DEFINE Differ == {i \in 0..d : ball[i] # b[i]}
<1>5. CASE Differ # {}
  <2>1. PICK i \in Differ : \A j \in Differ : i <= j
    <3>1. Differ \in SUBSET Nat
      OBVIOUS
    <3> HIDE DEF Differ
    <3> QED BY <1>5, <3>1, LeastNumber
  <2>2. i # 0
    BY <1>4, <2>1
  <2>3. i - 1 \in Nat /\ i - 1 < d /\ (i - 1) + 1 = i /\ ball[i - 1] = b[i - 1]
    BY <2>1, <2>2
  <2>4. ball[i] = Around(es, q, ball[i - 1]) /\ b[i] = Around(es, q, b[i - 1])
    BY <1>4, <2>3 DEF Balls
  <2> QED BY <2>1, <2>3, <2>4
<1>6. CASE Differ = {}
  BY <1>1, <1>6
<1> QED BY <1>5, <1>6

-----------------------------------------------------------------------------
(* The paths of the recursive query                                        *)

Onward(es, q, p) ==
  {y \in Walking!Neighbours(es, q.direction, p[Len(p)]) : \A i \in 1..Len(p) : p[i] # y}

Longer(es, q, n, ps) ==
  IF Walking!Extended(n, q.hops) THEN UNION {{Append(p, y) : y \in Onward(es, q, p)} : p \in ps}
  ELSE {}

(* of[d] are the paths of d steps.                                         *)
PathRows(of, es, dead, q) ==
  /\ of[0] = {<<x>> : x \in q.seeds \ dead}
  /\ \A n \in Nat : n + 1 <= Cardinality(Nodes) => of[n + 1] = Longer(es, q, n, of[n])

LEMMA PathsAreRows ==
  ASSUME IsFiniteSet(Nodes), NEW es, NEW dead, NEW q \in Walking!Query
  PROVE  \E of : /\ PathRows(of, es, dead, q)
                 /\ Walking!Paths(es, dead, q) = UNION {of[d] : d \in 0..Cardinality(Nodes)}
<1> DEFINE N == Cardinality(Nodes)
           unfold(f) == [d \in 0..N |->
                           IF d = 0 THEN {<<x>> : x \in q.seeds \ dead}
                           ELSE IF Walking!Extended(d - 1, q.hops)
                             THEN UNION {{Append(p, y) : y \in Onward(es, q, p)} : p \in f[d - 1]}
                           ELSE {}]
           of == CHOOSE f : f = unfold(f)
<1>1. N \in Nat
  BY FS_CardinalityType
<1>2. Walking!Cardinality(Nodes) = N
  BY DEF Walking!Cardinality, Cardinality
<1>3. Walking!Paths(es, dead, q) = UNION {of[d] : d \in 0..N}
  BY <1>2 DEF Walking!Paths, Onward
<1>4. \E f : f = unfold(f)
  <2> DEFINE G == [s \in Nat \X SUBSET Seq(Nodes) |-> Longer(es, q, s[1], s[2])]
  <2>1. G \in [Nat \X SUBSET Seq(Nodes) -> SUBSET Seq(Nodes)]
    <3>1. \A p \in Seq(Nodes) : \A y \in Onward(es, q, p) : Append(p, y) \in Seq(Nodes)
      BY DEF Onward, Walking!Neighbours
    <3>2. \A n \in Nat, ps \in SUBSET Seq(Nodes) : Longer(es, q, n, ps) \in SUBSET Seq(Nodes)
      <4> TAKE n \in Nat, ps \in SUBSET Seq(Nodes)
      <4>1. \A z \in Longer(es, q, n, ps) : \E p \in ps : \E y \in Onward(es, q, p) : z = Append(p, y)
        BY DEF Longer
      <4> QED BY <3>1, <4>1
    <3> QED BY <3>2
  <2>2. {<<x>> : x \in q.seeds \ dead} \in SUBSET Seq(Nodes)
    <3>1. q.seeds \in SUBSET Nodes
      BY DEF Walking!Query
    <3>2. \A x \in Nodes : <<x>> \in Seq(Nodes)
      OBVIOUS
    <3> QED BY <3>1, <3>2
  <2> HIDE DEF G
  <2>3. PICK f : Unfolds(f, SUBSET Seq(Nodes), G, {<<x>> : x \in q.seeds \ dead})
    BY <2>1, <2>2, UnfoldExists
  <2>4. \A n \in Nat : f[n + 1] = Longer(es, q, n, f[n])
    BY <2>3 DEF Unfolds, G
  <2> DEFINE g == [d \in 0..N |-> f[d]]
  <2>5. \A d \in 0..N : g[d] = IF d = 0 THEN {<<x>> : x \in q.seeds \ dead}
                               ELSE Longer(es, q, d - 1, g[d - 1])
    <3>1. ASSUME NEW d \in 0..N, d # 0 PROVE g[d] = Longer(es, q, d - 1, g[d - 1])
      <4>1. d - 1 \in Nat /\ (d - 1) + 1 = d /\ d - 1 \in 0..N
        BY <1>1, <3>1
      <4>2. f[d] = Longer(es, q, d - 1, f[d - 1])
        BY <2>4, <4>1
      <4> QED BY <3>1, <4>1, <4>2
    <3>2. g[0] = {<<x>> : x \in q.seeds \ dead}
      BY <1>1, <2>3 DEF Unfolds
    <3> QED BY <3>1, <3>2
  <2> HIDE DEF g
  <2>6. g = unfold(g)
    <3>1. g = [d \in 0..N |-> g[d]]
      BY DEF g
    <3> QED BY <2>5, <3>1 DEF Longer
  <2> QED BY <2>6
<1>5. of = unfold(of)
  BY <1>4
<1> HIDE DEF of
<1>6. PathRows(of, es, dead, q)
  <2>1. of[0] = {<<x>> : x \in q.seeds \ dead}
    BY <1>1, <1>5
  <2>2. ASSUME NEW n \in Nat, n + 1 <= N PROVE of[n + 1] = Longer(es, q, n, of[n])
    <3>1. n + 1 \in 0..N /\ n + 1 # 0 /\ (n + 1) - 1 = n
      BY <1>1, <2>2
    <3>2. of[n + 1] = IF Walking!Extended((n + 1) - 1, q.hops)
                      THEN UNION {{Append(p, y) : y \in Onward(es, q, p)} : p \in of[(n + 1) - 1]}
                      ELSE {}
      BY <1>5, <3>1
    <3> QED BY <3>1, <3>2 DEF Longer
  <2> QED BY <2>1, <2>2 DEF PathRows
<1> QED BY <1>3, <1>6

-----------------------------------------------------------------------------
(* Paths and balls *)

(* p is a path of d steps without a repeated entity, and its end is within *)
(* d steps.                                                                *)
IsPath(p, b, q, d) ==
  /\ p \in Seq(Nodes) /\ Len(p) = d + 1
  /\ \A i, j \in 1..Len(p) : p[i] = p[j] => i = j
  /\ d <= q.hops /\ p[Len(p)] \in b[d]

LEMMA LongerPath ==
  ASSUME NEW es, NEW dead, NEW q \in Walking!Query, NEW b, Balls(b, es, dead, q),
         NEW d \in Nat, d < q.hops, NEW p, IsPath(p, b, q, d), NEW y \in Onward(es, q, p)
  PROVE  IsPath(Append(p, y), b, q, d + 1)
<1>1. y \in Nodes /\ y \in Walking!Neighbours(es, q.direction, p[Len(p)])
      /\ \A i \in 1..Len(p) : p[i] # y
  BY DEF Onward, Walking!Neighbours
<1> DEFINE r == Append(p, y)
<1>2. /\ r \in Seq(Nodes) /\ Len(r) = Len(p) + 1 /\ Len(p) = d + 1 /\ r[Len(r)] = y
      /\ \A i \in 1..Len(p) : r[i] = p[i]
  BY <1>1 DEF IsPath
<1> HIDE DEF r
<1>3. \A i, j \in 1..Len(r) : r[i] = r[j] => i = j
  <2> SUFFICES ASSUME NEW i \in 1..Len(r), NEW j \in 1..Len(r), r[i] = r[j] PROVE i = j
    OBVIOUS
  <2>1. \A k \in 1..Len(r) : k \in 1..Len(p) \/ k = Len(r)
    BY <1>2
  <2>2. \A k \in 1..Len(p) : r[k] # r[Len(r)]
    BY <1>1, <1>2
  <2>3. CASE i \in 1..Len(p) /\ j \in 1..Len(p)
    BY <1>2, <2>3 DEF IsPath
  <2>4. CASE ~(i \in 1..Len(p) /\ j \in 1..Len(p))
    BY <2>1, <2>2, <2>4
  <2> QED BY <2>3, <2>4
<1>4. y \in b[d + 1]
  <2>1. b[d + 1] = Around(es, q, b[d])
    BY DEF Balls
  <2>2. p[Len(p)] \in b[d]
    BY DEF IsPath
  <2> QED BY <1>1, <2>1, <2>2 DEF Around
<1>5. d + 1 <= q.hops
  BY DEF Walking!Query
<1>6. IsPath(r, b, q, d + 1)
  BY <1>2, <1>3, <1>4, <1>5 DEF IsPath
<1> QED BY <1>6 DEF r

LEMMA RowsArePaths ==
  ASSUME IsFiniteSet(Nodes), NEW es, NEW dead, NEW q \in Walking!Query,
         NEW b, Balls(b, es, dead, q), NEW of, PathRows(of, es, dead, q)
  PROVE  \A d \in 0..Cardinality(Nodes) : \A p \in of[d] : IsPath(p, b, q, d)
<1> DEFINE Bad == {d \in 0..Cardinality(Nodes) : \E p \in of[d] : ~IsPath(p, b, q, d)}
<1>1. Cardinality(Nodes) \in Nat /\ q.hops \in Nat /\ q.seeds \subseteq Nodes
  BY FS_CardinalityType DEF Walking!Query
<1>2. SUFFICES ASSUME Bad # {} PROVE FALSE
  OBVIOUS
<1>3. PICK d \in Bad : \A k \in Bad : d <= k
  <2>1. Bad \in SUBSET Nat
    BY <1>1
  <2> HIDE DEF Bad
  <2> QED BY <1>2, <2>1, LeastNumber
<1>4. PICK p \in of[d] : ~IsPath(p, b, q, d)
  BY <1>3
<1>5. d \in Nat /\ d <= Cardinality(Nodes)
  BY <1>1, <1>3
<1>6. CASE d = 0
  <2>1. PICK x \in q.seeds \ dead : p = <<x>>
    BY <1>4, <1>6 DEF PathRows
  <2>2. p \in Seq(Nodes) /\ Len(p) = 0 + 1 /\ p[1] = x
    BY <1>1, <2>1
  <2>3. x \in b[0]
    BY <2>1 DEF Balls
  <2>4. \A i, j \in 1..Len(p) : i = 1 /\ j = 1
    BY <2>2
  <2> QED BY <1>1, <1>4, <1>6, <2>2, <2>3, <2>4 DEF IsPath
<1>7. CASE d # 0
  <2>1. d - 1 \in Nat /\ (d - 1) + 1 = d /\ d - 1 \in 0..Cardinality(Nodes) /\ ~(d <= d - 1)
    BY <1>1, <1>5, <1>7
  <2>2. of[d] = Longer(es, q, d - 1, of[d - 1])
    BY <1>5, <2>1 DEF PathRows
  <2>3. PICK r \in of[d - 1] : \E y \in Onward(es, q, r) : p = Append(r, y)
    BY <1>4, <2>2 DEF Longer
  <2>4. PICK y \in Onward(es, q, r) : p = Append(r, y)
    BY <2>3
  <2>5. d - 1 < q.hops
    BY <1>4, <2>2 DEF Longer, Walking!Extended
  <2>6. IsPath(r, b, q, d - 1)
    BY <1>3, <2>1, <2>3
  <2>7. IsPath(Append(r, y), b, q, (d - 1) + 1)
    BY <2>1, <2>5, <2>6, LongerPath
  <2> QED BY <1>4, <2>1, <2>4, <2>7
<1> QED BY <1>6, <1>7

(* A path without a repeated entity is no longer than there are entities.  *)
LEMMA PathFits ==
  ASSUME IsFiniteSet(Nodes), NEW p \in Seq(Nodes),
         \A i, j \in 1..Len(p) : p[i] = p[j] => i = j
  PROVE  Len(p) <= Cardinality(Nodes)
<1> DEFINE f == [i \in 1..Len(p) |-> p[i]]
<1>1. f \in Injection(1..Len(p), Nodes)
  BY DEF Injection, IsInjective
<1>2. IsFiniteSet(1..Len(p)) /\ Cardinality(1..Len(p)) = Len(p)
  <2>1. Len(p) \in Nat /\ 1 \in Int /\ Len(p) \in Int
    OBVIOUS
  <2>2. IsFiniteSet(1..Len(p)) /\ Cardinality(1..Len(p)) = IF 1 > Len(p) THEN 0 ELSE Len(p) - 1 + 1
    BY <2>1, FS_Interval
  <2> QED BY <2>1, <2>2
<1>3. Cardinality(1..Len(p)) <= Cardinality(Nodes)
  BY <1>1, <1>2, FS_Injection
<1> QED BY <1>2, <1>3

(* An entity d steps away and no fewer has a path of d steps.              *)
ShortPathFor(x, d, of, b, q) ==
  d <= q.hops /\ (\A k \in Nat : k < d => x \notin b[k]) =>
    /\ d <= Cardinality(Nodes)
    /\ \E p \in of[d] : p[Len(p)] = x /\ \A i \in 1..Len(p) : p[i] \in b[i - 1]

LEMMA ShortestPaths ==
  ASSUME IsFiniteSet(Nodes), NEW es, NEW dead, NEW q \in Walking!Query,
         NEW b, Balls(b, es, dead, q), NEW of, PathRows(of, es, dead, q)
  PROVE  \A d \in Nat : \A x \in b[d] : ShortPathFor(x, d, of, b, q)
<1> DEFINE Shortest(x, d) ==
             x \in b[d] /\ d <= q.hops /\ (\A k \in Nat : k < d => x \notin b[k])
           Reached(x, d) ==
             /\ d <= Cardinality(Nodes)
             /\ \E p \in of[d] : p[Len(p)] = x /\ \A i \in 1..Len(p) : p[i] \in b[i - 1]
           Bad == {d \in Nat : \E x \in b[d] : Shortest(x, d) /\ ~Reached(x, d)}
<1>1. Cardinality(Nodes) \in Nat /\ q.hops \in Nat /\ q.seeds \subseteq Nodes
  BY FS_CardinalityType DEF Walking!Query
<1>2. SUFFICES ASSUME Bad # {} PROVE FALSE
  BY DEF ShortPathFor
<1>3. PICK d \in Bad : \A k \in Bad : d <= k
  <2>1. Bad \in SUBSET Nat
    OBVIOUS
  <2> HIDE DEF Bad
  <2> QED BY <1>2, <2>1, LeastNumber
<1>4. PICK x \in b[d] : Shortest(x, d) /\ ~Reached(x, d)
  BY <1>3
<1>5. CASE d = 0
  <2>1. <<x>> \in of[0] /\ x \in b[0]
    BY <1>4, <1>5 DEF PathRows, Balls
  <2>2. Len(<<x>>) = 1 /\ <<x>>[1] = x
    OBVIOUS
  <2>3. \A i \in 1..Len(<<x>>) : <<x>>[i] \in b[i - 1]
    <3>1. \A i \in 1..Len(<<x>>) : i = 1 /\ i - 1 = 0
      BY <2>2
    <3> QED BY <2>1, <2>2, <3>1
  <2>4. \E p \in of[0] : p[Len(p)] = x /\ \A i \in 1..Len(p) : p[i] \in b[i - 1]
    BY <2>1, <2>2, <2>3
  <2> QED BY <1>1, <1>4, <1>5, <2>4
<1>6. CASE d # 0
  <2>1. PICK c \in Nat : c + 1 = d /\ c < d /\ ~(d <= c)
    BY <1>6
  <2>2. x \in Around(es, q, b[c]) /\ x \notin b[c]
    BY <1>4, <2>1 DEF Balls
  <2>3. PICK y \in b[c] : x \in Walking!Neighbours(es, q.direction, y)
    BY <2>2 DEF Around
  <2>4. \A k \in Nat : k < c => y \notin b[k]
    <3>1. ASSUME NEW k \in Nat, k < c, y \in b[k] PROVE FALSE
      <4>1. x \in b[k + 1]
        BY <2>3, <3>1 DEF Balls, Around
      <4> QED BY <1>4, <2>1, <3>1, <4>1
    <3> QED BY <3>1
  <2>5. c < q.hops /\ c <= q.hops
    BY <1>1, <1>4, <2>1
  <2>6. Reached(y, c)
    BY <1>3, <2>1, <2>3, <2>4, <2>5
  <2>7. PICK p \in of[c] : p[Len(p)] = y /\ \A i \in 1..Len(p) : p[i] \in b[i - 1]
    BY <2>6
  <2>8. IsPath(p, b, q, c)
    BY <1>1, <2>6, <2>7, RowsArePaths
  <2>9. \A i \in 1..Len(p) : p[i] # x
    <3>1. ASSUME NEW i \in 1..Len(p) PROVE i - 1 \in Nat /\ i - 1 < d
      BY <2>1, <2>8, <3>1 DEF IsPath
    <3> QED BY <1>4, <2>7, <3>1
  <2>10. x \in Onward(es, q, p)
    BY <2>3, <2>7, <2>9 DEF Onward, Walking!Neighbours
  <2>11. IsPath(Append(p, x), b, q, c + 1)
    BY <2>5, <2>8, <2>10, LongerPath
  <2> DEFINE r == Append(p, x)
  <2>12. /\ Len(r) = Len(p) + 1 /\ Len(p) = c + 1 /\ r[Len(r)] = x
         /\ \A i \in 1..Len(p) : r[i] = p[i]
    BY <2>8 DEF IsPath
  <2>13. IsPath(r, b, q, d)
    BY <2>1, <2>11
  <2> HIDE DEF r
  <2>14. Len(r) <= Cardinality(Nodes) /\ Len(r) = d + 1
    BY <2>13, PathFits DEF IsPath
  <2>15. d <= Cardinality(Nodes) /\ c + 1 <= Cardinality(Nodes)
    BY <1>1, <2>1, <2>14
  <2>16. of[d] = Longer(es, q, c, of[c])
    BY <2>1, <2>15 DEF PathRows
  <2>17. r \in of[d]
    BY <2>5, <2>7, <2>10, <2>16 DEF Longer, Walking!Extended, r
  <2>18. \A i \in 1..Len(r) : r[i] \in b[i - 1]
    <3>1. ASSUME NEW i \in 1..Len(r) PROVE r[i] \in b[i - 1]
      <4>1. CASE i \in 1..Len(p)
        BY <2>7, <2>12, <4>1
      <4>2. CASE i \notin 1..Len(p)
        <5>1. i = Len(r) /\ i - 1 = d
          BY <2>1, <2>12, <4>2
        <5> QED BY <1>4, <2>12, <5>1
      <4> QED BY <4>1, <4>2
    <3> QED BY <3>1
  <2> QED BY <1>4, <2>12, <2>15, <2>17, <2>18
<1> QED BY <1>5, <1>6

-----------------------------------------------------------------------------
(* The answer *)

LEMMA WalkMin ==
  ASSUME NEW S \in SUBSET Nat, S # {}
  PROVE  Walking!Min(S) \in S /\ \A k \in S : Walking!Min(S) <= k
<1>1. \E m \in S : \A k \in S : m <= k
  BY LeastNumber
<1> QED BY <1>1 DEF Walking!Min

(* found[x] is the distance of x, for every entity that stands within      *)
(* max_hops of the seeds and no other.                                     *)
Distances(found, b, dead, q) ==
  /\ DOMAIN found \subseteq Nodes \ dead
  /\ \A x \in DOMAIN found :
       /\ found[x] \in Nat /\ found[x] <= q.hops /\ x \in b[found[x]]
       /\ \A k \in Nat : k < found[x] => x \notin b[k]
  /\ \A d \in Nat : d <= q.hops => b[d] \ dead \subseteq DOMAIN found

LEMMA FoundIsDistance ==
  ASSUME IsFiniteSet(Nodes), NEW es, NEW dead, NEW q \in Walking!Query,
         NEW b, Balls(b, es, dead, q)
  PROVE  Distances(Walking!Found(es, dead, q), b, dead, q)
<1>1. PICK of : /\ PathRows(of, es, dead, q)
                /\ Walking!Paths(es, dead, q) = UNION {of[d] : d \in 0..Cardinality(Nodes)}
  BY PathsAreRows
<1>2. PICK paths : paths = Walking!Paths(es, dead, q)
  OBVIOUS
<1> DEFINE Lengths(x) == {Len(p) - 1 : p \in {p \in paths : p[Len(p)] = x}}
           found == Walking!Found(es, dead, q)
<1>3. /\ DOMAIN found = {p[Len(p)] : p \in paths} \ dead
      /\ \A x \in DOMAIN found : found[x] = Walking!Min(Lengths(x))
  BY <1>2 DEF Walking!Found
<1> HIDE DEF found
<1>4. Cardinality(Nodes) \in Nat /\ q.hops \in Nat
  BY FS_CardinalityType DEF Walking!Query
<1>5. \A p \in paths : \E d \in 0..Cardinality(Nodes) : p \in of[d] /\ IsPath(p, b, q, d)
  <2>1. \A d \in 0..Cardinality(Nodes) : \A p \in of[d] : IsPath(p, b, q, d)
    BY <1>1, RowsArePaths
  <2> QED BY <1>1, <1>2, <2>1
<1>6. \A p \in paths : Len(p) - 1 \in Nat /\ Len(p) - 1 <= q.hops /\ p[Len(p)] \in b[Len(p) - 1]
                       /\ p[Len(p)] \in Nodes
  <2> TAKE p \in paths
  <2>1. PICK d \in 0..Cardinality(Nodes) : IsPath(p, b, q, d)
    BY <1>5
  <2>2. Len(p) - 1 = d /\ d \in Nat /\ Len(p) \in 1..Len(p)
    BY <1>4, <2>1 DEF IsPath
  <2> QED BY <2>1, <2>2 DEF IsPath
<1>7. \A d \in Nat : \A x \in b[d] :
        d <= q.hops /\ (\A k \in Nat : k < d => x \notin b[k]) =>
          \E p \in paths : p[Len(p)] = x /\ Len(p) - 1 = d
  <2>1. SUFFICES ASSUME NEW d \in Nat, NEW x \in b[d], d <= q.hops,
                        \A k \in Nat : k < d => x \notin b[k]
                 PROVE  \E p \in paths : p[Len(p)] = x /\ Len(p) - 1 = d
    OBVIOUS
  <2>2. d <= Cardinality(Nodes) /\ \E p \in of[d] : p[Len(p)] = x
    <3>1. ShortPathFor(x, d, of, b, q)
      BY <1>1, ShortestPaths
    <3> QED BY <2>1, <3>1 DEF ShortPathFor
  <2>3. PICK p \in of[d] : p[Len(p)] = x
    BY <2>2
  <2>4. d \in 0..Cardinality(Nodes)
    BY <1>4, <2>2
  <2>5. p \in paths /\ IsPath(p, b, q, d)
    BY <1>1, <1>2, <2>4, RowsArePaths
  <2> QED BY <2>3, <2>5 DEF IsPath
<1>8. \A x : \A k \in Nat : x \in b[k] =>
        \E d \in Nat : d <= k /\ x \in b[d] /\ \A j \in Nat : j < d => x \notin b[j]
  <2> TAKE x
  <2> TAKE k \in Nat
  <2> SUFFICES ASSUME x \in b[k]
               PROVE  \E d \in Nat : d <= k /\ x \in b[d] /\ \A j \in Nat : j < d => x \notin b[j]
    OBVIOUS
  <2>1. {j \in Nat : x \in b[j]} \in SUBSET Nat /\ {j \in Nat : x \in b[j]} # {}
    OBVIOUS
  <2>2. PICK d \in {j \in Nat : x \in b[j]} : \A j \in {j \in Nat : x \in b[j]} : d <= j
    BY <2>1, LeastNumber
  <2> QED BY <2>2
<1>9. ASSUME NEW x \in DOMAIN found
      PROVE  /\ x \in Nodes \ dead
             /\ found[x] \in Nat /\ found[x] <= q.hops /\ x \in b[found[x]]
             /\ \A k \in Nat : k < found[x] => x \notin b[k]
  <2>1. Lengths(x) \in SUBSET Nat /\ Lengths(x) # {}
    BY <1>3, <1>6
  <2>2. found[x] \in Lengths(x) /\ \A k \in Lengths(x) : found[x] <= k
    BY <1>3, <2>1, WalkMin
  <2>3. PICK p \in paths : p[Len(p)] = x /\ found[x] = Len(p) - 1
    BY <2>2
  <2>4. found[x] \in Nat /\ found[x] <= q.hops /\ x \in b[found[x]] /\ x \in Nodes \ dead
    BY <1>3, <1>6, <2>3
  <2>5. ASSUME NEW k \in Nat, k < found[x], x \in b[k] PROVE FALSE
    <3>1. PICK d \in Nat : d <= k /\ x \in b[d] /\ \A j \in Nat : j < d => x \notin b[j]
      BY <1>8, <2>5
    <3>2. d <= q.hops /\ ~(found[x] <= d)
      BY <1>4, <2>4, <2>5, <3>1
    <3>3. PICK r \in paths : r[Len(r)] = x /\ Len(r) - 1 = d
      BY <1>7, <3>1, <3>2
    <3>4. d \in Lengths(x)
      BY <3>3
    <3> QED BY <2>2, <3>2, <3>4
  <2> QED BY <2>4, <2>5
<1>10. ASSUME NEW d \in Nat, d <= q.hops, NEW x \in b[d] \ dead PROVE x \in DOMAIN found
  <2>1. PICK k \in Nat : k <= d /\ x \in b[k] /\ \A j \in Nat : j < k => x \notin b[j]
    BY <1>8
  <2>2. k <= q.hops
    BY <1>4, <1>10, <2>1
  <2>3. PICK p \in paths : p[Len(p)] = x
    BY <1>7, <2>1, <2>2
  <2> QED BY <1>3, <2>3
<1>11. Distances(found, b, dead, q)
  BY <1>9, <1>10 DEF Distances
<1> QED BY <1>11 DEF found

LEMMA WithinIsBall ==
  /\ \A d : Walking!Within(d) = BallOf(seen.edges, seen.gone, query, d)
  /\ \A d : Walking!Within(d)' = BallOf(seen'.edges, seen'.gone, query', d)
BY DEF Walking!Within, BallOf

LEMMA WalkCardinality == \A S : Walking!Cardinality(S) = Cardinality(S)
BY DEF Walking!Cardinality, Cardinality

LEMMA WalkFinite == \A S : Walking!IsFiniteSet(S) <=> IsFiniteSet(S)
BY DEF Walking!IsFiniteSet, IsFiniteSet

(* What the caller is promised of the answer ns.                           *)
GoodAnswer(ns, b, dead, q) ==
  /\ \A x \in DOMAIN ns :
       /\ ns[x] <= q.hops /\ x \in b[ns[x]] \ dead
       /\ ns[x] > 0 => x \notin b[ns[x] - 1]
  /\ q.hops > 0 /\ Cardinality(DOMAIN ns) < MaxNodes => b[q.hops] \ dead \subseteq DOMAIN ns

TypedAnswer(ns) == DOMAIN ns \subseteq Nodes /\ \A x \in DOMAIN ns : ns[x] \in Nat

(* No seeds, no neighbourhood.                                             *)
LEMMA NothingAround ==
  ASSUME NEW es, NEW dead, NEW q \in Walking!Query, NEW b, Balls(b, es, dead, q), q.seeds = {}
  PROVE  \A d \in Nat : b[d] = {}
<1> DEFINE Bad == {d \in Nat : b[d] # {}}
<1>1. SUFFICES ASSUME Bad # {} PROVE FALSE
  OBVIOUS
<1>2. PICK d \in Bad : \A k \in Bad : d <= k
  <2>1. Bad \in SUBSET Nat
    OBVIOUS
  <2> HIDE DEF Bad
  <2> QED BY <1>1, <2>1, LeastNumber
<1>3. d # 0
  BY <1>2 DEF Balls
<1>4. PICK c \in Nat : c + 1 = d /\ ~(d <= c)
  <2>1. d - 1 \in Nat /\ (d - 1) + 1 = d /\ ~(d <= d - 1)
    BY <1>2, <1>3
  <2> QED BY <2>1
<1>5. b[c] = {} /\ b[d] = Around(es, q, b[c])
  BY <1>2, <1>4 DEF Balls
<1> QED BY <1>2, <1>5 DEF Around

LEMMA LimitedIsGood ==
  ASSUME IsFiniteSet(Nodes), MaxNodes \in Nat, NEW es, NEW dead, NEW q \in Walking!Query,
         NEW b, Balls(b, es, dead, q),
         NEW ns \in Walking!Limited(Walking!Found(es, dead, q))
  PROVE  GoodAnswer(ns, b, dead, q) /\ TypedAnswer(ns)
<1>1. PICK found : found = Walking!Found(es, dead, q)
  OBVIOUS
<1>2. Distances(found, b, dead, q)
  BY <1>1, FoundIsDistance
<1>3. PICK kept \in SUBSET DOMAIN found :
        /\ Cardinality(kept) = Walking!Min({MaxNodes, Cardinality(DOMAIN found)})
        /\ ns = Walking!Restrict(found, kept)
  BY <1>1, WalkCardinality DEF Walking!Limited
<1>4. DOMAIN ns = kept /\ \A x \in kept : ns[x] = found[x]
  BY <1>3 DEF Walking!Restrict
<1>5. TypedAnswer(ns)
  BY <1>2, <1>4 DEF Distances, TypedAnswer
<1>6. \A x \in DOMAIN ns : /\ ns[x] <= q.hops /\ x \in b[ns[x]] \ dead
                           /\ ns[x] > 0 => x \notin b[ns[x] - 1]
  <2>1. ASSUME NEW x \in DOMAIN ns, ns[x] > 0 PROVE ns[x] - 1 \in Nat /\ ns[x] - 1 < ns[x]
    BY <1>5, <2>1 DEF TypedAnswer
  <2> QED BY <1>2, <1>4, <2>1 DEF Distances
<1>7. ASSUME Cardinality(DOMAIN ns) < MaxNodes PROVE b[q.hops] \ dead \subseteq DOMAIN ns
  <2>1. IsFiniteSet(DOMAIN found) /\ Cardinality(DOMAIN found) \in Nat
    <3>1. DOMAIN found \subseteq Nodes
      BY <1>2 DEF Distances
    <3> QED BY <3>1, FS_Subset, FS_CardinalityType
  <2>2. Cardinality(kept) \in {MaxNodes, Cardinality(DOMAIN found)}
    <3>1. {MaxNodes, Cardinality(DOMAIN found)} \in SUBSET Nat
      BY <2>1
    <3> QED BY <1>3, <3>1, WalkMin
  <2>3. Cardinality(kept) = Cardinality(DOMAIN found)
    BY <1>4, <1>7, <2>1, <2>2
  <2>4. kept = DOMAIN found
    BY <1>3, <2>1, <2>3, FS_Subset
  <2>5. q.hops \in Nat
    BY DEF Walking!Query
  <2> QED BY <1>2, <1>4, <2>4, <2>5 DEF Distances
<1> QED BY <1>5, <1>6, <1>7 DEF GoodAnswer

WalkInvariant ==
  /\ Walking!TypeOK
  /\ walkPc = "walk" => nodes = << >> /\ between = {}
  /\ AnswerIsNeighbourhood

LEMMA WalkInit == ASSUME Walking!GraphAssumption, Walking!Init PROVE WalkInvariant
<1>1. query \in Queries /\ query \in Walking!Query /\ nodes = << >> /\ DOMAIN nodes = {} /\ between = {}
      /\ walkPc = "walk"
  BY DEF Walking!Init, Walking!GraphAssumption
<1>2. Walking!TypeOK
  BY <1>1 DEF Walking!Init, Walking!TypeOK
<1>3. AnswerIsNeighbourhood
  BY <1>1 DEF AnswerIsNeighbourhood, Walking!AnswerIsNeighbourhood
<1> QED BY <1>1, <1>2, <1>3 DEF WalkInvariant

LEMMA WalkAnswers ==
  ASSUME Walking!GraphAssumption, WalkInvariant, Walking!Walk
  PROVE  WalkInvariant'
<1>1. /\ IsFiniteSet(Nodes) /\ MaxNodes \in Nat /\ query \in Walking!Query
      /\ query' = query /\ query.hops \in Nat
      /\ between = {} /\ between' = {} /\ graph' = graph /\ gone' = gone
      /\ seen' = [edges |-> graph, gone |-> gone]
  BY WalkFinite DEF Walking!GraphAssumption, WalkInvariant, Walking!TypeOK, Walking!Walk, Walking!Query
<1>2. PICK b : Balls(b, graph, gone, query)
  BY <1>1, BallsExist
<1>3. GoodAnswer(nodes', b, gone, query) /\ TypedAnswer(nodes')
  <2>1. CASE query.seeds = {} \/ query.hops < 1
    <3>1. nodes' = << >> /\ DOMAIN nodes' = {}
      BY <2>1 DEF Walking!Walk
    <3>2. query.hops > 0 => b[query.hops] = {}
      <4>1. CASE query.seeds = {}
        BY <1>1, <1>2, <4>1, NothingAround
      <4>2. CASE query.hops < 1
        BY <1>1, <4>2
      <4> QED BY <2>1, <4>1, <4>2
    <3> QED BY <3>1, <3>2 DEF GoodAnswer, TypedAnswer
  <2>2. CASE ~(query.seeds = {} \/ query.hops < 1)
    <3>1. nodes' \in Walking!Limited(Walking!Found(graph, gone, query))
      BY <2>2 DEF Walking!Walk
    <3> QED BY <1>1, <1>2, <3>1, LimitedIsGood
  <2> QED BY <2>1, <2>2
<1>4. walkPc' \in {"edges", "done"}
  BY DEF Walking!Walk
<1>5. Walking!TypeOK'
  BY <1>1, <1>3, <1>4 DEF WalkInvariant, Walking!TypeOK, TypedAnswer
<1>6. \A d \in Nat : Walking!Within(d)' = b[d]
  <2>1. seen'.edges = graph /\ seen'.gone = gone
    BY <1>1
  <2> QED BY <1>1, <1>2, <2>1, WithinIsBall, BallIs
<1>7. AnswerIsNeighbourhood'
  <2>1. \A x \in DOMAIN nodes' : nodes'[x] \in Nat /\ (nodes'[x] > 0 => nodes'[x] - 1 \in Nat)
    BY <1>3 DEF TypedAnswer
  <2>2. seen'.gone = gone
    BY <1>1
  <2> QED BY <1>1, <1>3, <1>6, <2>1, <2>2, WalkCardinality
       DEF AnswerIsNeighbourhood, Walking!AnswerIsNeighbourhood, GoodAnswer
<1> QED BY <1>4, <1>5, <1>7 DEF WalkInvariant

LEMMA AnswerStays ==
  ASSUME WalkInvariant, query' = query, seen' = seen, nodes' = nodes, walkPc # "walk",
         \A e \in between' : e[1] \in DOMAIN nodes /\ e[2] \in DOMAIN nodes
  PROVE  AnswerIsNeighbourhood'
<1>1. \A d : Walking!Within(d)' = Walking!Within(d)
  BY WithinIsBall
<1> QED BY <1>1 DEF WalkInvariant, AnswerIsNeighbourhood, Walking!AnswerIsNeighbourhood

LEMMA WalkStep ==
  ASSUME Walking!GraphAssumption, WalkInvariant, [Walking!Next]_(Walking!vars)
  PROVE  WalkInvariant'
<1>1. CASE Walking!Walk
  BY <1>1, WalkAnswers
<1>2. CASE Walking!FetchEdges
  <2>1. /\ query' = query /\ seen' = seen /\ nodes' = nodes /\ graph' = graph /\ gone' = gone
        /\ walkPc = "edges" /\ walkPc' = "done" /\ between' \subseteq graph
        /\ \A e \in between' : e[1] \in DOMAIN nodes /\ e[2] \in DOMAIN nodes
    BY <1>2 DEF Walking!FetchEdges
  <2>2. Walking!TypeOK'
    BY <2>1 DEF WalkInvariant, Walking!TypeOK
  <2> QED BY <2>1, <2>2, AnswerStays DEF WalkInvariant
<1>3. CASE Walking!Elsewhere
  <2>1. /\ query' = query /\ seen' = seen /\ nodes' = nodes /\ between' = between /\ gone' = gone
        /\ walkPc = "edges" /\ walkPc' = "edges" /\ graph' \subseteq Walking!Edges
    BY <1>3 DEF Walking!Elsewhere, WalkInvariant, Walking!TypeOK
  <2>2. Walking!TypeOK'
    BY <2>1 DEF WalkInvariant, Walking!TypeOK
  <2>3. \A e \in between' : e[1] \in DOMAIN nodes /\ e[2] \in DOMAIN nodes
    BY <2>1 DEF WalkInvariant, AnswerIsNeighbourhood, Walking!AnswerIsNeighbourhood
  <2> QED BY <2>1, <2>2, <2>3, AnswerStays DEF WalkInvariant
<1>4. CASE UNCHANGED Walking!vars
  <2>1. /\ query' = query /\ seen' = seen /\ nodes' = nodes /\ between' = between /\ gone' = gone
        /\ walkPc' = walkPc /\ graph' = graph
    BY <1>4 DEF Walking!vars
  <2>2. Walking!TypeOK'
    BY <2>1 DEF WalkInvariant, Walking!TypeOK
  <2>3. \A d : Walking!Within(d)' = Walking!Within(d)
    BY <2>1, WithinIsBall
  <2>4. AnswerIsNeighbourhood'
    BY <2>1, <2>3 DEF WalkInvariant, AnswerIsNeighbourhood, Walking!AnswerIsNeighbourhood
  <2> QED BY <2>1, <2>2, <2>4 DEF WalkInvariant
<1> QED BY <1>1, <1>2, <1>3, <1>4 DEF Walking!Next

LEMMA WalkAlways == Walking!GraphAssumption => (Walking!Spec => []WalkInvariant)
<1> SUFFICES ASSUME Walking!GraphAssumption PROVE Walking!Spec => []WalkInvariant
  OBVIOUS
<1> QED BY WalkInit, WalkStep, PTL DEF Walking!Spec

-----------------------------------------------------------------------------
(* All of them *)

(* A step of one component leaves the others alone.                        *)
LEMMA OtherContentStutters ==
  [ContentNext]_contentVars =>
    /\ [Next]_vars
    /\ [Reviewing!Next]_(Reviewing!vars)
    /\ [Walking!Next]_(Walking!vars)
    /\ [Seeding!Next]_(Seeding!vars)
<1>1. /\ Reviewing!vars = reviewVars /\ Walking!vars = walkVars /\ Seeding!vars = seedVars
      /\ Reviewing!vars' = reviewVars' /\ Walking!vars' = walkVars' /\ Seeding!vars' = seedVars'
  BY DEF Reviewing!vars, Walking!vars, Seeding!vars, reviewVars, walkVars, seedVars
<1> HIDE DEF vars, reviewVars, walkVars, seedVars
<1>2. CASE UNCHANGED contentVars
  BY <1>1, <1>2 DEF contentVars
<1>3. CASE ContentNext
  BY <1>1, <1>3 DEF ContentNext, DocumentSteps, ReviewSteps, WalkSteps, SeedSteps
<1> QED BY <1>2, <1>3

LEMMA EachContent ==
  ContentSpec => Spec /\ Reviewing!Spec /\ Walking!Spec /\ Seeding!Spec
<1>1. ContentInit => Init /\ Reviewing!Init /\ Walking!Init /\ Seeding!Init
  BY DEF ContentInit
<1> QED BY <1>1, OtherContentStutters, PTL
      DEF ContentSpec, Spec, Reviewing!Spec, Walking!Spec, Seeding!Spec

(* Every row, request, answer and call of the components keeps to its      *)
(* type, however documents, reviews, walks and seeding interleave.         *)
THEOREM ContentTypes == ContentAssumption => (ContentSpec => []TypesOK)
<1> SUFFICES ASSUME ContentAssumption PROVE ContentSpec => []TypesOK
  OBVIOUS
<1>1. /\ Reviewing!InfinityAssumption /\ Reviewing!QueueAssumption
      /\ Walking!GraphAssumption
  BY DEF ContentAssumption
<1>2. /\ Spec => []TypeOK
      /\ Reviewing!Spec => []Reviewing!TypeOK
      /\ Walking!Spec => []WalkInvariant
      /\ Seeding!Spec => []SeedInvariant
  BY <1>1, DocumentTypes, ReviewsAlways, WalkAlways, SeedAlways
<1>3. TypeOK /\ Reviewing!TypeOK /\ WalkInvariant /\ SeedInvariant => TypesOK
  BY DEF WalkInvariant, SeedInvariant, TypesOK
<1> QED BY <1>2, <1>3, EachContent, PTL

(* The distances a traversal reports are those of shortest walks, a full   *)
(* answer leaves out no live entity within max_hops, and no edge of the    *)
(* answer lacks an end: for every graph, with or without cycles, although  *)
(* the recursive query of graph.py follows only paths without repetition.  *)
THEOREM WalkFindsNeighbourhood == ContentAssumption => (ContentSpec => []AnswerIsNeighbourhood)
<1> SUFFICES ASSUME ContentAssumption PROVE ContentSpec => []AnswerIsNeighbourhood
  OBVIOUS
<1>1. Walking!Spec => []WalkInvariant
  BY WalkAlways DEF ContentAssumption
<1>2. WalkInvariant => AnswerIsNeighbourhood
  BY DEF WalkInvariant
<1> QED BY <1>1, <1>2, EachContent, PTL

(* However many calls of seed-demo overlap, fail or are repeated, the      *)
(* workspace shows all of the dataset or nothing, and each item once: the  *)
(* documents and sessions, which no unique index covers, are ordered by    *)
(* the row of the first entity.  Of each pair of facts, a completed call   *)
(* leaves one closed row and one that replaces that of the call before.    *)
THEOREM LiveDatasetSeededOnce == ContentAssumption => (ContentSpec => []OneLiveDataset)
<1> SUFFICES ASSUME ContentAssumption PROVE ContentSpec => []OneLiveDataset
  OBVIOUS
<1>1. Seeding!Spec => []SeedInvariant
  BY SeedAlways
<1>2. SeedInvariant => OneLiveDataset
  BY DEF SeedInvariant
<1> QED BY <1>1, <1>2, EachContent, PTL

=============================================================================
