# dynamiq-context-engine: TLA+ models, checks and proofs

The context engine stores facts about entities as bi-temporal rows in
Postgres, fills them from episodes with a language model, lets people review
what is doubtful, and serves them to agents over REST and MCP. This directory
holds TLA+ models of the parts whose correctness depends on how concurrent
requests, jobs and failures interleave, the TLC runs that check them and the
TLAPS proofs of every safety property the runs check.

Paths below are relative to the repository; `app/` is `src/backend/app/`.

## The system and its components

| Component | State it keeps | Operations | Talks to |
|---|---|---|---|
| Fact store, `domain/edge.py` | `edge` rows with `valid_time` and `sys_time`, advisory locks | `add_fact`, `propose_fact`, `invalidate`, `invalidate_matching_live`, `live_edges`, `as_of` | contradictor, review queue, triggers of the schema |
| Contradictor, `llm/contradictor.py` | none | picks live rows of a subject and predicate, asks the model, closes what contradicts | called inside `add_fact` |
| Review queue, `domain/proposals.py` | `pending_fact` rows, `extraction_policy` | enqueue, approve, reject, in bulk | fed by `propose_fact`, approves through `add_fact` |
| Action layer, `domain/action.py` | `action_type`, `action_invocation` | execute with an idempotency key, approve, reject, run a handler | handlers write `edge.props` |
| Ingestion, `domain/episode.py`, `extraction/pipeline.py` | `episode` rows and their status | add (content-hash dedup), reprocess, extract | job queue, fact store |
| Job queue, `workers/` | arq jobs in Redis | enqueue, run, retry after a kill, drain on SIGTERM | HTTP processes and workers |
| Data export, `workers/export.py` | `export_job` rows, objects in S3 | request, run, poll | job queue |
| Entities, `domain/entity.py`, `entity_resolver.py` | `entity`, external references, merge pointers | create, update, delete, resolve, merge | fact store, pipeline |
| Membership, `domain/members.py`, `auth/deps.py` | roles, invites | change role, remove, invite, accept, revoke | every route |
| Agent tokens, `domain/agent_token.py` | token rows | mint, rotate, revoke, verify | MCP server |
| Rate limiter, `api/middleware/rate_limit.py` | a deque per token prefix | admit or refuse | MCP server |
| Ontology, `domain/ontology.py`, `auto_ontology.py`, `ontology_seed.py` | entity and relation types, the path of each type | create, update, delete, apply a proposal, seed | hierarchy trigger, pipeline, entities |
| Labels, `domain/sensitivity.py` | labels, assignments, policies | create, assign (in bulk), unassign, filter hits | retrieval |
| Provenance, `domain/provenance.py` | activities, derivations | start, end, link, walk | every write |
| Documents, `domain/document.py`, `collab/` | Yjs state, block rows, references to entities, revisions | upload, replace, snapshot, restore, delete; open, edit, store, project | web client, collaboration server |
| Event stream, `api/websocket/events.py` | a queue per subscriber | notify | database triggers |
| Retrieval, `retrieval/` | none | ranked search with expansion, reranking and label policies; graph walk | fact store, labels |
| Demo data, `domain/demo_seeder.py` | rows of nearly every table | seed, again | services of the other parts, collaboration server |
| Account deletion, `api/rest/me.py` | `app_user` | delete with everything that cascades | members, tokens, invites |

What makes them hard is nearly always the same thing. A request or a job is
one `session_scope`: one Postgres transaction at READ COMMITTED. Between any
two of its statements another transaction may commit, a statement that reads
takes no lock, an `UPDATE` waits for a row somebody else has changed, and an
error anywhere rolls everything back. Redis, the object store and other
processes are not part of the transaction at all. What each component has to
get right:

- **Fact store**: a cardinality-one relation has one value at a time; the same
  fact is not stored twice; what is closed stays closed, and is explained by
  the row that replaced it or by an audit row; high-stakes values are not
  replaced without review; every transaction ends.
- **Review queue**: a decision is taken once; approved facts are in the store,
  rejected ones are not.
- **Action layer**: a key names one invocation, its effect happens once and
  exactly if it is completed.
- **Ingestion, export**: one episode per text; facts have a processed source;
  no episode or export is left behind; a completed export has its file.
- **Entities**: merges keep cardinality one and form no cycle.
- **Membership, tokens, accounts**: an invite is accepted once or revoked;
  nothing outlives the account it is in the name of.
- **Ontology**: paths, which validation reads, come from committed extends
  links; requests that add the same slugs end.
- **Documents**: block rows project the stored document; references are of
  live mentions.
- **Retrieval**: what a standing policy withholds is not in the answer; a walk
  returns the neighbourhood.
- **Demo data**: what is live of the dataset is there once or not at all, and a
  repeated call leaves it so, although it closes a part of it.

## Modules

| Module | Models |
|---|---|
| `Bitemporal` | instants, ranges with infinity, liveness of a row, validity, overlap |
| `ReadCommitted` | what a statement sees: committed rows and its transaction's own |
| `EdgeRows` | the queries on edge rows that `add_fact` makes |
| `EdgeStore` | `domain/edge.py` statement by statement, any number of transactions |
| `FactLedger` | abstract specification: facts change by whole assertions and whole retractions |
| `EdgeStoreInvariant` | the inductive invariants of `EdgeStore`: cardinality one, time and history, one operation, review |
| `EdgeStoreProofs` | theorems about `EdgeStore` |
| `ReviewQueue` | approvals and rejections, single and bulk, over the same rows |
| `ReviewQueueProofs` | theorems about `ReviewQueue` |
| `ActionInvocations` | `execute_action`, reviews of gated invocations, the handler |
| `ActionInvocationsProofs` | theorems about `ActionInvocations` |
| `JobQueue` | arq: at-least-once delivery, tries, kills |
| `EpisodeIngestion` | extends `JobQueue`: the requests that add episodes and the extraction job |
| `EpisodeIngestionProofs` | theorems about `EpisodeIngestion` |
| `ExportJobs` | extends `JobQueue`: the export request and job |
| `EntityIdentity` | entities, merge pointers, soft deletion, the resolver cascade, external references |
| `EntityIdentityProofs` | theorems about `EntityIdentity` |
| `Access` | members and roles, invites, agent tokens, the checks before a handler, deleting an account |
| `Ontology` | types and relations, proposals and seeding, the path trigger, unique slugs |
| `Documents` | block rows, references and revisions under REST requests, and the collaboration server beside them |
| `DocumentsProofs` | theorems about `Documents` |
| `Retrieval` | labels, assignments and policies, and a search that reads them query by query |
| `GraphWalk` | the recursive query of a graph traversal, checked against neighbourhoods |
| `DemoSeeder` | the look-ups and inserts of the seeder, overlapping and repeated |
| `Services` | composes `Access`, which it extends, with `Ontology`, `EpisodeIngestion`, `ExportJobs` and `Retrieval` |
| `ServicesProofs` | theorems about `Services`, and about `Access` by itself |
| `Content` | composes `Documents`, which it extends, with `ReviewQueue`, `GraphWalk` and `DemoSeeder` |
| `ContentProofs` | theorems about `Content` |
| `EdgeStoreMC`, `ReviewQueueMC`, `ActionInvocationsMC`, `EntityIdentityMC` | small instances: model values, inputs, symmetry |
| `ServicesMC`, `ContentMC` | small instances of `Services` and `Content`, one component at a time |

`EdgeStore` and `ReviewQueue` share `EdgeRows` and both implement
`FactLedger`, the first statement by statement, the second with `add_fact` as
one step. `EpisodeIngestion` and `ExportJobs` compose the queue with what its
jobs do. `Documents` composes REST requests with the collaboration server,
`Retrieval` a search with the requests that edit what governs it.

`Services` and `Content` put components side by side in one workspace: a step
is a step of one of them and leaves the variables of the others alone. Those of
`Services` have tables of their own. In `Content` the walk has a graph and the
seeder rows of its own, which stand for what they read and write. The theorems
are about these compositions. The runs take less: a behaviour of `ServicesMC` or
`ContentMC` picks one component, the `focus`, in its initial state, and only
the focus moves, so that TLC explores each component by itself, without the
product of all of them.

### How the models correspond to the code

*Transactions.* Each transaction has a `pc`, the statement it runs next, and
its uncommitted rows (`writes`, `rows`, `marks`). What a statement sees is
`Overlay(committed, own)`: committed rows as of that statement, and its own.
`Commit` publishes the overlay, `Rollback`, `Crash` and `DeadlockVictim` drop
it. Row locks are not a variable: a row is locked while another transaction
has an uncommitted version of it.

*`EdgeStore`.* `add_fact` is `AddFact` (validation, `valid_from` fixed to the
clock), `Lock`, `Dedup`, `Contradict` and one `Judge...` per verdict for
high-stakes predicates, `Insert` with the mirror trigger and the unique index,
and `Supersede`. `propose_fact` is `Propose`, `Guard` and then the same.
`invalidate` is `Retract` for the row and `RetractDuplicates`;
`invalidate_matching_live` is `Negate` followed by the same two for each row.
Every write takes the clock forward (`clock_timestamp()`), so instants order
writes. Confidence is in tenths.

*`ReviewQueue`.* `ReadStatus` and `CheckSource` read, `Land` is `add_fact`
under its lock, `Mark` is the `UPDATE ... WHERE id` and the audit row. A
proposal that is refused fails a single request, and only its own item of a
bulk one (`Refuse`).

*`ActionInvocations`.* `Lookup` is everything before the `INSERT`: role,
enabled, idempotency key, schema. `Insert` waits for an uncommitted row with
the same key. `Handle` is `attach_evidence_to_fact`; `HandlerFails` is an
exception recorded in the row, `HandlerAborts` one the database raised, which
aborts the transaction and so cannot be recorded.

*`JobQueue`.* arq is outside the repository and modelled from its
configuration and use: a job stays in the queue until it is acknowledged,
each start counts as a try, a kill or a cancellation puts it back, an
exception finishes it.

*`EpisodeIngestion`, `ExportJobs`.* `Enqueue` comes before `Commit`, as in the
routes, and a worker may take the job before the request has committed. The
job then finds no row and ends. Jobs may be killed at any statement and may
raise. A run without errors is completed even if it added no fact (`Verdict`).

*`EntityIdentity`.* `get` is one `Get` step per query: each merge pointer is
followed by a query of its own, and another request may commit in between. The
three tiers of the resolver are `ByIdentifier`, `ByName` and `BySimilarity`,
each a query of its own; similarity and the model's verdict choose freely. A
merge is `MoveSubjects`, `MoveObjects`, `MarkMerged` and a last `get` of the
survivor, without which it fails. Edges are the live ones of one predicate,
without their times.

*`Access`.* The check of a route (`IsMember`, `RequireRole`, `VerifyToken`) is
a transaction before the handler's, so a role may be lost between the two.
`accept_invite` is `LockInvite` (`SELECT ... FOR UPDATE`), `ReadMembership`,
`InsertMember` and `MarkAccepted`; `rotate_token` reads, revokes by id and
mints. `DeleteMe` waits for rows that go with the account or refer to it.

*`Ontology`.* A proposal takes its snapshot (`Snapshot`), filters (`Consider`)
and then runs one statement per item (`LookUp`, `Insert`, `Update`); seeding is
one `Upsert` per item, which marks as system what the seed marks so
(`SystemSlugs`: all of `seeds/ontology.yaml`). `Insert` waits for an
uncommitted row with the same slug. The trigger is part of every write: it sets the path of the row written
from the committed and own rows it sees, and of no other row.

*`Documents`.* A replacement is `Scan`, `Sweep` and one `Upsert` per block;
rebuilding references is `ScanRefs`, `Clear`, `Refer`. `restore_revision` runs
the same on the tree of a revision, `Project` on the tree the collaboration
server stored. The server holds one copy of an open document, stores it
(`Store`) and asks for the projection in a request of its own, which may
fail or come late. `astray` is history: the rows were written by somebody else,
or a projection was lost, since the last store.

*`Retrieval`.* A search is one action per query: `Query` for each kind,
`Expand`, `ReadPolicies`, `ReadEdgeLabels`, `ReadEpisodeLabels`, `Rank`,
`Enrich`. `held` is history: what stood from the first to the last of them.

*`GraphWalk`.* `Paths` is the recursive query, a recursive function by depth;
`Found` keeps the shortest row of each node, `Limited` any `max_nodes` of them.

*`DemoSeeder`.* Each phase is a look-up and an insert; an insert under a unique
index waits for another call's uncommitted row. The IRI of the demo document is
an entity row that a deleted document leaves behind. The list has two pairs of
facts of one triple (`seeds/demo/halcyon/relationships.py:125-169`): one with
`invalidate_at` and then the one that is true after it. `AddFact` stands for the
facts outside the pairs; `AddClosedFact`, `CloseFact` and `AddOpenFact` are the
statements on a pair. `invalidate` also closes every other live row of the
triple (`app/domain/edge.py:521-535`), so that a later call closes what the call
before left live ("replaced") and writes it again. The contradictor is left out
here: of a high-stakes relation the list has two facts of one subject only where
they name one object, which its prompt does not call a contradiction.

## What the runs show

Passing runs:

| Run | Question | Instance |
|---|---|---|
| `edge_concurrent` | Every kind of fact (current, backdated, future, ended, symmetric), invalidations and negations in all interleavings: `OneValuePerTime`, `NoLiveDuplicate`, `ClosuresExplained`, `AuditedAreClosed`, `HistoryAppendOnly`, and the refinement of `FactLedger` | 3 transactions of one operation, 56,000 states |
| `edge_batch` | Transactions of two operations, whose locks accumulate and which lock two subjects in either order: `CardinalityInvariant`, the invariant of the proof, and `TransactionsEnd` | 2 x 2 operations, 74,000 states |
| `edge_review` | `AutoReplacementsJustified`: confidences on both sides of every threshold, one transaction at a time | 3 transactions, 35,000 states |
| `review_single` | `ApprovedFactsLanded`, `DecidedTogether` and the refinement of `FactLedger` for single decisions, beside bulk rejections in crossing order and an approval that names a proposal twice | 3 requests, 2 at a time, 3 proposals, 24,500 states |
| `actions` | `OneInvocationPerKey`, `EffectsMatchStatus`, `OutcomesFinal`, `RequestsEnd`: retries, refusals, failing and missing handlers, crashes, one review at a time | 3 requests, 3 invocations |
| `entities` | `NoMergeCycle`, `AuditedMergesHappened`, `IdentifierNamesOne`, `DecisionsStay`: merges, deletions, facts and ingestions, one merge and one ingestion at a time | 4 requests, 3 entities, 137,000 states |
| `services` | `PathLinksReal`, `InviteSettledOnce`, `NothingOutlivesAccount`, `OneEpisodePerContent`, `FactsHaveProcessedSource`, `CompletedHasObject`, `StandingPoliciesGovern`, `JobsEnd`, `CallsEnd`: proposals and retypings of types; invites, tokens and deletions of accounts; every entry point of ingestion and an export per request, with kills, workers that are early and jobs that raise; a search under edits | 2 requests, 365,000 states over five components |
| `content` | `NoStaleBacklinks`, `ProjectionFollowsStore`, `AnswerIsNeighbourhood`, `OneLiveDataset`, `ContentRequestsEnd`: replacements, restores and deletions beside an open editor; bulk approvals in crossing order; walks in every graph; overlapping calls of the seeder | 2 requests, 3 calls of the seeder, graphs of 3 entities, 161,000 states over four components |

Each passing property has a mutant, a plausible bug in a mapped definition
(operators marked "Fault" in the modules), under which its run fails.

Some of these properties are weaker than a reader may wish, and say so in
their comments. `JobsEnd` is about jobs that are still in the queue when the
request commits, and accepts a job that failed. `OutcomesFinal` and
`EffectsMatchStatus` are checked with one review at a time,
`AutoReplacementsJustified` with one transaction at a time, `NoMergeCycle` and
`IdentifierNamesOne` with one merge and one ingestion at a time.
`DecidedTogether` allows requests that overlap to decide a proposal twice.
`PathLinksReal` says that a path is made of links that were committed at some
time, not that they still hold. `ProjectionFollowsStore` leaves out documents
whose rows a REST request wrote since the last store. `StandingPoliciesGovern`
is about labels and policies that stood for the whole search. `OneLiveDataset`
counts live items once; that the history of a pair of facts grows by one closed
and one replaced row per completed call is part of what it says. The lists below
say what happens otherwise.

Runs that show where the code and what the repository says of it part ways:

| Run | What happens |
|---|---|
| `edge_review_race` | two proposals for one high-stakes relation both find no conflict, the second replaces the first without review |
| `edge_converge` | `valid_from` is read before the lock is taken: two parallel calls of the same fact both insert |
| `review_race` | an approval and a rejection both succeed: the fact is live, the proposal says rejected |
| `services_hierarchy` | a type with subtypes is moved under another: the trigger rewrites the path of the row that moved only, so its subtypes are no longer where validation looks for them |

Other behaviour the models reach, worth knowing, without a run of its own (the
properties named here are stated in their modules and known not to hold):

- the guard of `propose_fact` compares with the row valid now, the closing
  `UPDATE` with the rows that overlap: a future fact of higher confidence is
  closed (`app/domain/edge.py:341`);
- `add_fact` over REST and MCP replaces a high-stakes value without the queue
  (`app/api/mcp/tools.py:330`);
- `invalidate` rewrites `valid_time` of the closed row, which changes the
  answer of earlier `as_of` questions (`app/domain/edge.py:507`), while the row
  a new value replaces keeps its open `valid_time` (`:240`);
- the mirror trigger can add a second value of a cardinality-one relation
  (migration `20260513_0001`, line 221), and closing one direction of a
  symmetric fact leaves the other (`app/domain/edge.py:521`);
- two approvals of one invocation run the handler twice
  (`app/domain/action.py:320`), and a concurrent retry gets an integrity error
  and not the first result (`:266`);
- a text posted twice over REST is one episode and two extractions
  (`app/api/rest/episodes.py:50`);
- a worker that is faster than the commit leaves the episode pending, the
  export queued (`episodes.py:51`, `exports.py:56`); a job that raises takes
  its status with it and is not retried (`app/workers/jobs.py:76`); a completed
  export delivered again goes back to running (`app/workers/export.py:78`);
- two merges in opposite directions at once make a cycle of merge pointers,
  in which `entity.get` does not end (`app/domain/entity.py:430`): set
  `OneMerge` of `EntityIdentityMC` to two merges to see it;
- an `add_fact` that resolved an entity before its merge commits leaves a live
  edge on the merged entity, which no read by reference finds
  (`app/domain/entity.py:411`);
- two ingestions that bring the same new identifier create two entities, and
  an identifier whose entity was deleted creates one even if a live entity has
  the name (`app/extraction/pipeline.py:252`);
- two rotations of one token at once mint two successors
  (`app/domain/agent_token.py:174`, `Access!RotatedOnce`);
- an account that accepted somebody else's invite cannot be deleted:
  `accepted_by` has no `ON DELETE` and is not cleared
  (`app/api/rest/me.py:48`, `Access!AccountsCanGo`);
- restoring a revision, or replacing a document over REST, writes the rows and
  not the Yjs state, and the next store brings the old document back
  (`app/domain/document.py:445`, `Documents!BlocksProjectYjs`);
- a replacement that swept before another one committed leaves the other's
  blocks live and clears their references
  (`app/domain/document.py:199`, `Documents!BacklinksComplete`);
- the seeder fails for good once its demo document was deleted, because the
  IRI is still taken (`DemoSeeder!IrisMatched`);
- calling the seeder again does not update every fact in place, as
  `app/domain/demo_seeder.py:9-12` and `seeds/demo/halcyon/_types.py:6-8` may be
  read: the round of $20M and the letter of intent are written and closed once
  more, and the facts that are true after them are closed and written once more.

### Bounds

Bounds are constants and appear only in guards: `MaxOps` (operations per
transaction), `MaxActive` and `MaxOpen` (transactions open at once),
`MaxReviews` (reviews of invocations at once), `MaxTries`, `MaxKills`,
`MaxEdits` (edits of a document by people), `MaxChanges` (edits of labels,
policies and facts during a search), `MaxRows` and `MaxNodes` (the `LIMIT`s of
the queries), and the sets of ids. Two or three transactions are enough for
every race between a reader and a writer and for a cycle of waiting; the third
lets a row be inserted, replaced and retracted by three parties. Four edge ids
leave room for two rows of one relation, a mirrored row and one more. Inputs
are chosen so that ranges touch, overlap and miss each other. Runs with one
transaction, review, merge or ingestion at a time state what holds when they
do not overlap; it does not when they do. `MaxTries` is 2 where arq has 5, and
`MaxKills` at least as large, so that jobs also run out of tries. Two edits are
what it takes to edit a document while it is being stored; two changes during a
search take a label away and give it back, or exchange one. A limit of two
below three candidates makes every `LIMIT` cut. Two requests are enough for
each race the code of these components has, a reader against a writer or two
lock orders; a third call of the seeder comes after two that overlapped.

Runs stop when every transaction has ended; a `Quiet` step keeps that from
counting as a deadlock. Transactions that wait for one another are not a
deadlock to TLC either, because any of them may crash: the liveness properties
are what shows that they end.

### Fairness

Weak fairness of the statements of a transaction that has begun: the event
loop resumes a coroutine whose query has returned, and Postgres grants a lock
that is free. Of `DeadlockVictim`: Postgres looks for cycles after
`deadlock_timeout` and cancels one member. Of workers: they keep polling. No
fairness is assumed of clients, of crashes and kills, or of jobs that raise.
The contradictor and the model are calls with a timeout and are assumed to
return.

## What is proved

The proofs are for every instance: any number of transactions, operations,
entities, documents and rows. They rest on the named assumptions of the
modules (`RelationAssumption`, `StoreAssumption`, `InputAssumption`,
`InfinityAssumption`, `QueueAssumption`, `ActionAssumption`,
`EntityAssumption`, `AccessAssumption`, `IngestionAssumption`,
`ExportAssumption`, `OntologyAssumption`, `RetrievalAssumption`,
`DocumentAssumption`, `GraphAssumption`; `ServicesAssumption` and
`ContentAssumption` collect those of their components), which say that
constants are what they should be, that sentinels are none of the values, and
what a client cannot ask for, such as an invite to be an owner. Three say more.
`SeedClosed`, of the list the ontology is seeded from
(`app/domain/ontology_seed.py:93`): no slug is in it twice, and a type
it extends is in it too. The rule of a sensitivity policy names finitely many
labels. A walk is in a finite table of entities. TLC evaluates them in every
run.
Where a theorem has a hypothesis beside them, it is named here with what
happens without it.

Each proof follows one pattern. The property speaks of committed rows, and a
transaction may be about to commit anything, so the property is not inductive.
Its invariant says what every open transaction has read and has written, and
which of it the others can still change; each statement keeps the clause of its
own transaction, and a commit keeps the clauses of the others.

### The fact store: `EdgeStoreProofs`

- **`TypeCorrect`**: `Spec => []TypeInv`. `TypeInv` is the type invariant and
  `ControlOK`, what each statement finds in the variables of its operation: the
  row `Supersede` closes around has been inserted, the rows selected for
  closing exist. It is inductive by itself; each action is one step.
- **`HistoryIsAppendOnly`**: `Spec => HistoryAppendOnly`. The invariant behind
  it is `AppendInvariant`: no two transactions have written the same row
  (`WritesApart`, from the row locks), and a write in flight to a committed row
  closes it (`UpdatesClose`). A commit therefore never overwrites a row that
  another transaction closed after this one read it.
- **`CardinalityAlways`** and **`OneValueAlways`**:
  `MirrorsPlain => (Spec => []OneValuePerTime)`. `CardinalityInvariant` says
  that an `add_fact` past its lock statement holds the lock (`LockHeld`), that a
  row of an exclusive predicate in flight is covered by the lock of its key
  (`InsertsLocked`), `AppendInvariant`, and that what every transaction sees
  keeps cardinality one by itself, but for the row whose `add_fact` has yet to
  close the others (`ViewsCompatible`). A commit by another transaction then
  cannot bring a second value into the view, because its inserts are under
  other locks and its other writes only close rows.
- **`SystemTimeRunsForward`**: `Spec => []RowsOrdered`. Beliefs begin before
  now and end after they began, committed or in flight. The next theorems need
  it, as they compare when a row ended with when its successor began.
- **`AuditTellsTheTruth`**: `Spec => []AuditedAreClosed`. `AuditInvariant`: the
  rows a transaction has put in its audit log are closed in its view, and
  nothing reopens a row.
- **`ClosuresAlwaysExplained`**:
  `MirrorsPlain => (Spec => []ClosuresExplained)`. `ExplainedInvariant`: each
  view explains its closed rows, except the row a retraction has closed and not
  yet audited.
- **`NoDuplicateAlways`**: `Spec => []NoLiveDuplicate`. `DedupInvariant`: while
  `add_fact` is between its dedup query and its insert, its view has no live
  copy that its row would start in, because the lock keeps the other writers of
  that key out. It is about facts that nothing mirrors, as the property is: the
  trigger inserts without the query.
- **`ReplacementsAlwaysJustified`**:
  `MaxActive <= 1 /\ FactsBegun /\ MirrorsPlain => (Spec => []AutoReplacementsJustified)`.
  `ReviewInvariant`: what the pipeline is about to replace on its own is what
  its guard allowed. With two transactions the guard reads before the lock is
  taken (the run `edge_review_race`), and without `FactsBegun`, no fact begins
  after it is written, the closing statement reaches rows the guard did not
  look at.
- **`StoreImplementsLedger`**: `MaxOps = 1 /\ MirrorsPlain => (Spec => LedgerSpec)`,
  the refinement of `FactLedger`. `ShapeInvariant` says exactly what one
  operation has written before it commits: nothing; or a new row, its mirror
  and the rows it closed in its own favour; or rows it retracted. Every commit
  is then one whole assertion or one whole retraction, and every other step a
  stutter. A transaction of several operations commits several at once, which
  the ledger does not know.

`MirrorsPlain` says that the mirror trigger never writes to a predicate with
cardinality one; the trigger inserts without closing anything. TLC checks
`CardinalityInvariant` in `edge_batch`.

### Review queue, actions, entities, ingestion

- **`QueueTypes`**, **`ApprovedAlwaysLanded`**
  (`Spec => []ApprovedFactsLanded`), from `LandInvariant`: an approval between
  `add_fact` and its `UPDATE` sees the edge it will name, with the triple of
  the proposal, and edges keep their triple.
- **`DecidedByOverlapping`**: `Spec => []DecidedTogether`. `DecisionInvariant`
  counts: those who have decided a proposal, and those who have read it as
  pending, are together at most `MaxActive`, because nobody starts on a
  proposal once a decision has been committed. The argument is about
  cardinalities and holds for any `MaxActive`.
- **`ReviewsImplementLedger`**: `OneApproval => (Spec => LedgerSpec)`.
  `OneApproval`: an approval is of one proposal, perhaps named twice. A bulk
  approval commits several assertions at once.
- **`ActionTypes`**, **`KeyNamesOne`** (`Spec => []OneInvocationPerKey`), from
  `KeyInvariant`: rows in flight with one key are one transaction's, and an
  update keeps the key.
- **`EffectsTellTheTruth`**, **`OutcomesStay`**:
  `OneReviewer => (Spec => []EffectsMatchStatus)`, `OneReviewer => (Spec => OutcomesFinal)`.
  `EffectInvariant`: what a transaction has attached agrees with the status it
  has written, and the row it reviews is pending still. `OneReviewer` is
  `MaxReviews <= 1`: with two, the handler runs twice.
- **`IdentityTypes`**, **`DecisionsAlwaysStay`** (`Spec => DecisionsStay`), from
  `RowInvariant`: an entity row in flight agrees with the committed one on what
  was decided (`Follows`), which row locks keep so.
- **`AuditedMergesAreReal`**, **`MergePointersRise`**:
  `OneMergeAtATime => (Spec => []AuditedMergesHappened)` and
  `OneMergeAtATime => (Spec => []PointersRise)`. `PointersRise` says that the
  entities can be ranked so that every pointer goes up. A merge points the
  loser at a survivor that points nowhere, and a rank for it exists. With two
  merges at once there is a cycle.
- **`FollowingEnds`**:
  `OneMergeAtATime /\ IsFiniteSet(Entities) => (Spec => []NoMergeCycle)`. A way
  along the pointers rises in rank as long as it goes on, so no entity is on it
  twice and it ends within as many steps as there are entities (`WayEnds`). The
  way is a recursive function on the naturals: that it exists, and that a claim
  about its steps holds for all of them, is proved from the least number that
  would violate it, as `<` is well-founded (`Least`, `IterateExists`).
- **`IdentifiersAgree`**:
  `OneMergeAtATime /\ OneIngestionAtATime /\ IsFiniteSet(Entities) => (Spec => []IdentifierNamesOne)`.
  `LinkInvariant`: from the entity of every committed ingestion the pointers
  lead to the entity the identifier names now, or to a deleted one
  (`LinksLead`), and every ingestion under way knows as much of what it looks
  up (`Ingests`). Being on the way is stated by sets closed under the pointers
  (`OnWay`), so that it is kept when rows are added and marked (`WaysKept`);
  only the last step, two entities on one way come to the same (`WayReaches`),
  goes back to the recursion. With two ingestions at once, both find nothing
  and create an entity. TLC checked `LinkInvariant` on the instance of
  `entities`.
- **`IngestionTypes`**, **`OneEpisodeAlways`** (`Spec => []OneEpisodePerContent`),
  **`FactsAlwaysSourced`** (`Spec => []FactsHaveProcessedSource`), each under
  `IngestionAssumption`: the request that has inserted an episode is the only
  one that knows of it, the unique index keeps the second out, and a job past
  its look-up works on an episode that is there (`JobsLoaded`).

### Access

In `ServicesProofs`, about `Access!Spec`:

- **`AccessTypes`**, **`SettledOnce`** (`Spec => []InviteSettledOnce`) and
  **`AccountLeavesNothing`** (`Spec => []NothingOutlivesAccount`), from
  **`AccessInvariant`**, `Spec => []AccessInv`. The two properties speak of
  tables only; what a request has read under a lock and not yet written is what
  could break them. `AccessInv` therefore adds `HeldOpen` (what a request found
  under the lock of an invite still holds: revoking and the cascade of an
  account wait for the lock), `HeldAlone` (the lock excludes) and `JoinersStay`
  (the account of a member row in the making is there: an insert shares the row
  of the user, for which a deletion waits).

### Services: `ServicesProofs`

Each theorem is `ServicesAssumption => (ServicesSpec => []P)`. To every
component the others stutter (`OthersStutter`), so a behaviour of `Services` is
a behaviour of each (`EachComponent`), and what is proved of one holds of all
at once. TLC checked the invariants on the instance of `services`.

- **`ServicesTypes`** (`TypesOK`), from the five invariants below.
- **`CompletedExportsUploaded`** (`CompletedHasObject`), from
  `ExportInvariant`: a job past its upload has a file in the store, files stay,
  and a job starts again only with tries left.
- **`PathsFollowCommittedLinks`** (`PathLinksReal`), from `OntologyInvariant`.
  The trigger computes the path of a row from the row above it, which may be
  uncommitted as well. The invariant says of every request that its uncommitted
  paths follow links that were committed or are its own (`DraftPaths`), that
  what its item extends has been found or is still to be looked up
  (`UnderFound`), that a row it changes is there (`SlugFound`), and that the
  seed comes to a type after what the type extends (`SeedInOrder`, from the
  order the seed is sorted into, `OrderOf`). Paths end in their own type, or a
  path put together from another would not follow a link at the joint.
- **`PoliciesGovern`** (`StandingPoliciesGovern`), from `SearchInvariant`: what
  has stood since a search began stands now (`HeldStands`); once it has read
  policies and labels it knows all of those (`ReadWhatStands`); from the verdict
  on the answer obeys them (`Governed`), also what `Enrich` attaches later,
  since hits only become fewer.
- **`OneEpisodeServed`**, **`SourcedFactsServed`**: the theorems of
  `EpisodeIngestionProofs`, taken over by instantiating that module
  (`IngestionProofs`) and showing that the two instances of the component have
  the same steps (`SameIngestionSteps`).

### Documents

- **`DocumentTypes`**: `Spec => []TypeOK`, from `TypeInvariant`, with what each
  statement finds in the variables of its request.
- **`BacklinksNeverStale`**: `TreesApart => (Spec => []NoStaleBacklinks)`.
  `BacklinkInvariant`: no two requests have written one block (`WritesApart`);
  the nodes a replacement has upserted stand as its tree has them (`Placed`);
  every reference a request sees is right, but for those of blocks it has
  written itself and is about to clear (`Pointing`); and a block lives in the
  document it was made for (`RowsKept`).
- **`ProjectionFollows`**: `TreesApart => (Spec => []ProjectionFollowsStore)`.
  `ProjectionInvariant`: a document has at most one projection in progress,
  while the collaboration server is saving it; unless there was an edit, the
  projection carries the tree that was stored; and after its sweep the live
  rows it sees are of that tree.

`TreesApart`: a tree says one thing about a block, and block ids, which the
editor makes up, are of one document. TLC shows that `NoStaleBacklinks` needs
both halves: the upsert of a replacement takes over a block of another document
without its references, and of two nodes with one id and different mentions
both references are inserted. TLC checked the three invariants on the instance
of `content`.

### Content: `ContentProofs`

Each theorem is `ContentAssumption => (ContentSpec => []P)`, along the same
composition (`OtherContentStutters`, `EachContent`); the types of the reviews
come from `ReviewQueueProofs` by instantiation.

- **`ContentTypes`** (`TypesOK`).
- **`LiveDatasetSeededOnce`** (`OneLiveDataset`), from `SeedInvariant`. Documents
  and sessions have no unique index; what keeps them single is that at most one
  call is past the row of the first entity at a time. Such a call either
  creates everything, and holds all of what its place in the code says
  (`Creates`), or has found the entity committed and adds nothing but blocks
  and the facts of the pairs (`Repeats`). Either way it writes both facts of a
  pair and closes what was live of it before (`WritesPair`), so that completed
  calls, closed rows, and live and replaced rows are in step. TLC checked the
  invariant on the instance of `content`.
- **`WalkFindsNeighbourhood`** (`AnswerIsNeighbourhood`), for every finite
  table of entities and every graph. The recursive query follows paths without
  a repeated entity and keeps the shortest to each; the property speaks of
  balls, the entities within so many steps of a seed. Both are recursive
  functions, shown to exist from a least number at which they would fail
  (`LeastNumber`, `UnfoldExists`). A row of the query ends in the ball of its
  length (`RowsArePaths`); an entity new in a ball is at the end of a row of
  just that length, since a shortest way does not come to an entity twice
  (`ShortestPaths`); and such rows are no longer than there are entities
  (`PathFits`). So the distance found is the radius of the first ball
  (`FoundIsDistance`), and a `LIMIT` that was not reached left nothing out
  (`LimitedIsGood`).

`EdgeStoreMC`, `ReviewQueueMC`, `ActionInvocationsMC`, `EntityIdentityMC`,
`ServicesMC` (with `Services` and `Access`) and `ContentMC` (with `Content` and
`Documents`) extend the module they are an instance of, so the runs check the
very definitions the theorems name.

### Only model-checked

- All liveness properties (`TransactionsEnd`, `RequestsEnd`, `JobsEnd`,
  `CallsEnd`, `ContentRequestsEnd`), which are out of the prover's reach, as is
  `ENABLED`.
- The four runs that show a disagreement: TLC finds a behaviour; a proof has
  nothing to say about it.

Every invariant, action property and refinement of a passing run has a theorem,
under the hypotheses named above where it has any.

## What is not modelled

- Text, embeddings, scores and the content of model answers: they are
  nondeterministic choices among the outcomes the code tells apart.
- Row level security and workspaces: every run is one workspace.
- Soft deletion of episodes is an environment step, since no code of the
  repository does it.
- Postgres deadlock detection is external; transactions that only read are not
  modelled.
- Provenance: rows inserted and read back, on which no control depends.
- The rate limiter: a list in one process, read and written under one lock.
- The event stream: notifications that nothing in the backend acts on.
- Model clients, request parsing of REST and MCP, JSON-LD, the web client:
  network calls, serialisation and user interface.
- Entity updates, larger clusters and their safeguard; the sync of users from
  BetterAuth; renaming and deleting a workspace.
- Three hazards of `PROJECT.json` name no property: `entity.update` merges
  patches in Python over a row read before, `invalidate` rewrites the
  `valid_time` of the row it closes, and a merge repoints edges without the
  lock of the fact store. Each follows from the statements themselves, and
  nothing in the repository promises otherwise.

## Plan

Done: the modules above, and a theorem for each safety property the runs check.

Worth doing next: `EntityIdentity` continued, with larger clusters and their
safeguard, and entities in the transaction of the facts of one extraction.
