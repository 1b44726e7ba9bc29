# AML_Real: a TLA+ verification project

AML_Real is a platform for wallet investigations. Four chain services (Bitcoin,
BSC, Ethereum, TRON) read blocks from nodes, store facts in a ClickHouse database of
their own, derive analyses from them and answer an HTTP API; an analytical node keeps
investigations in Neo4j behind a gateway. ClickHouse has no transactions, so every
"publication" is a sequence of separate inserts, and a crash, a chain reorganisation or a
failing node may come between any two of them. The evidence read out of a block, the
searches over it and the scores that rest on both are put together by many queries while
ingestion goes on beneath.

This directory models these parts. TLC checks the modules on small instances; TLAPS
proves the main theorems about the publication protocol, the four chains' ingestion, the Bitcoin
analytics worker, the Bitcoin service's stored analyses, backfill and kept investigations, the calls to
BSC's and Ethereum's nodes and TRON's reviews and discovery for every value of the constants.

Run a check from this directory with `tlc -config MCPublication.cfg MCPublication`,
and a proof with `tlapm PublicationProofs.tla`. `PROJECT.json` lists the runs, the mutants,
the map from definitions to source lines, the findings, the hazards and the theorems.

## 1. Inventory of the system

`PROJECT.json` has the 27 components with their files and what of each is left out. Grouped, with
the state they keep and what makes them correct:

### Shared warehouse (`shared/warehouse`)
* *Publication* (`publication.rs`, `core.rs`). State: `aml_ingested_blocks` (a row per block and
  `state_revision`), the fact tables, `aml_sync_state` (the newest row is the checkpoint, called the
  *fence*), and views that cut the canonical history out of them. Operations: `reserve`, `facts`,
  `complete`, `publish`, `orphan_suffix`. All are separate inserts, and a retry follows whatever a dead
  writer left. Correct when readers always see one linked, complete chain.
* *Analysis publications* (`visibility.rs`). Output rows of a run, then a seal row; a view shows
  a sealed run while its source snapshot is current. The source may be republished between any two checks.
* *Migration* (`migration.rs` and each chain's `db/migrations.rs`). Ledgers of applied versions, an identity row,
  the schema itself; statements one by one, resumed by the next start.
* *Values, contracts, relationships*: stateless validation and SQL text.

### Bitcoin (`dockerizd_bitcoin`)
* *Ingestion*: the fence, `aml_ingestion_failures`, and in memory the endpoints, the cooldown and the window.
  `ingest`, `once`, `repair`, `scan_gaps`, `reconcile` under a kernel lock. The published chain may only move by bounded rollbacks and
  by children of its tip; a dead letter stops automatic ingestion; a follower reaches the confirmed tip.
* *Extraction and resolver*: which previous output an input spends; rows; reading them back; detectors.
* *Analytics worker*: a checkpoint file (scan anchor, cursor, job queue). Correct when a finished sweep has covered its anchor's
  history, budgets survive crashes and sweeps go on.
* *Exposure, risk, clustering, API*: runs of several inserts that are sealed, inspected and reviewed by concurrent clients.
* *Backfill*: the one-time move of the old tables.

### BSC (`dockerizd_bsc`), Ethereum (`dockerizd_ethereum`), TRON (`dockerizd_tron/app`)
* *Ingestion*. BSC: `ingested_blocks`, `sync_state`, failures, no lock, no fence. Ethereum: seven block-scoped tables, a marker, `sync_state`; a
  `range` command runs beside the follower. TRON: a journal of blocks, `sync_state`, row batchers in memory that flush in the background.
* *Node calls*. BSC asks several nodes with failover; Ethereum one node by height; both may meet other forks between two calls.
* *Extraction and semantics*: transfers, flows and events of a transaction, each exactly once.
* *Metadata workers*: jobs per token with an attempt count that is read, used and written back.
* *Labels, clustering, exposure, assessment, reviews*: commands and workers that insert statement by statement, several at a time.
* *Investigations*: one answer from many queries during ingestion.

### Risk policy, analytical node, the rest
The policy (`shared/risk_policy`) scores the evidence of all chains. The analytical node keeps investigations with an
expiry, exports them, and compares Bitcoin ones with their source again. The gateway, deployment and
backup scripts, web pages and offline machine learning are I/O without a protocol.

### How they interact
A service's ingestion is the only writer of its facts; everything else reads them through views at
the checkpoint. Each component that reads has an action that lets ingestion move between any two of its own steps.
Services share no memory; clients and the analytical node call them over HTTP, where a call that is cut
off may still be applied.

## 2. Plan and state

| module | about | state |
|---|---|---|
| `PublishedChain`, `Publication`, `PublicationProofs` | the inserts of the protocol, the abstract chain they implement, proofs | done |
| `BitcoinIngestion`, `BitcoinIngestionProofs` | cursor owner, failure records, repair | done |
| `BitcoinAnalyticsWorker`, `BitcoinAnalyticsWorkerProofs` | sweeps, queue and checkpoint file over a moving chain | done |
| `AnalysisPublication`, `ClusterReviews` | sealed results, inspections, reviews under a lock | done |
| `BscIngestion`, `BscIngestionProofs` | the second ingestion protocol, without fence | done |
| `BranchTheorems` | lemmas on the branches of a tree of blocks, for the three proofs above | done |
| `EthereumIngestion`, `TronIngestion` with proofs | two writers without a lock; batchers that flush at least once | done |
| `BscRpc`, `EthereumRpc` | one block from calls that meet different forks; proved in `BscIngestionProofs` and `EthereumIngestionProofs` | done |
| `BitcoinEvidence`, `BscEvidence`, `EthereumEvidence`, `TronEvidence` | what is read out of a transaction, against reference definitions | done |
| `BitcoinExposure`, `TronExposure`, `EthereumExposure`, `RiskPolicy` | searches and scores against reference definitions | done |
| `BscInvestigation`, `EthereumInvestigation` | answers of many queries over a moving history | done |
| `TronIntelligence` | reviews and projections, the discovery and its cursor; proved in `TronIngestionProofs` | done |
| `ChainServices` | the two node calls and TRON's intelligence, one per behaviour: what those proofs are about | done |
| `MetadataWorkers` | jobs and attempts | done |
| `BitcoinBackfill`, `WarehouseMigration` | moving data and schema, interrupted anywhere | done |
| `Investigations` | retention and source comparison in the analytical node | done |
| `BitcoinService`, `BitcoinServiceProofs` | analyses, reviews, backfill and kept investigations together; shown results are whole, hidden ones stay hidden, reviews form one chain, `current` was true, a ready backfill is whole | done |
| proofs about `MetadataWorkers`, `WarehouseMigration` | the conjuncts of `TasksHold` | open |
| two owners of the Bitcoin or BSC cursor | what the lock, or its absence, is for | open |

Composition. The ingestion modules meet the others at the published history. `Publication` implements
`PublishedChain`; `BitcoinIngestion` replaces the whole of it by one atomic step on `tip`, which is
what the refinement justifies, with an insert whose outcome is unknown as a commit that fails and
may have published. `BitcoinAnalyticsWorker`, `AnalysisPublication`, `ClusterReviews` and the investigations keep an
action that moves that history between any two of their steps. `BitcoinExposure` hands what it would store to
`RiskPolicy`. `BitcoinService` has the clients of stored Bitcoin analyses, the backfill and the analytical node, `ChainServices` the calls to
nodes and TRON's intelligence, `MCEvidence` the extractors of all four chains
over one growing transaction, and `MCServices` and `MCProgress` the processes that share nothing but their
inputs. Each of them has one task per behaviour (`service`, `task`), so that the state spaces add up instead of multiplying; a task leaves
the variables of the others alone, which is all a proof needs in order to take a behaviour apart.

## 3. The modules

`PROJECT.json` maps every definition to its lines. Conventions: a block is its hash, or a name for it; a query, an
insert or a call to a node is a step of its own, so that others may act between two of them; time is a
flag that the environment sets ("due", "cooling") or a small clock. Definitions whose comment begins with "Mutant"
or whose name begins with `Mutant_` are faulty variants of the definition after them, used by no specification.

### `Publication` and `PublishedChain` (`shared/warehouse`)

| state | code |
|---|---|
| `blocks`, `facts` | rows of `aml_ingested_blocks` and of the fact tables, append-only |
| `fence` | `aml_sync_state_current`, the newest `aml_sync_state` row |
| `pc`, `previous`, `next`, `pending`, `suffix` | locals of the writer between two inserts |
| `Canonical`, `VisibleFacts` | the views `aml_ingested_blocks_canonical` and the fact views |

`BeginBlock`, `Reserve`, `WriteFacts`, `Complete`, `CheckPublish`, `PublishFence` are one block;
`BeginRollback`, `CheckPublish`, `WriteOrphans`, `PublishFence` one reorganisation. `RefusePublish`
is an `ensure!` that fails. `WriteFacts` may lose an insert; then `Complete`, which counts the stored rows, is disabled and
the attempt ends without a marker. `Crash` may follow every step, which is also what an error return
amounts to. With `InterruptedRollback` FALSE a crash does not fall between the tombstones and the
fence of a rollback; that is the one assumption the strong properties need (section 6).
`PublishedChain` has one variable, the set of visible hashes, with `Append`, `CutBack` and `Reset`.
The refinement maps it to the hashes of `Canonical`.

### `BitcoinIngestion` (`bitcoin/ingestion.rs`, `failures.rs`, `repair.rs`)

| state | code |
|---|---|
| `tip` | the published checkpoint |
| `failures` | `aml_ingestion_failures_current`: attempts, status, due |
| `damaged` | published heights with missing transaction rows, which `scan_gaps` looks for |
| `views` | what each endpoint of the `RpcPool` serves, or `Down` |
| `mode`, `pc`, `order`, `head`, `ancestor`, `window`, `selected` | locals of the command that holds the kernel lock |
| `active`, `cooling` | `RpcPool::active`, `now < retry_primary_at` |

A command (`ingest`, `once`, `repair`) first settles records of published heights, one page of at most `SettleLimit` (64 in the code), passes the gate at
the frontier, tries the endpoints in order, reconciles, fetches a window and commits block by block. Reconciling asks the node height by height
(`SearchOn`), and the node may move between two of these calls.
`CommitFails` covers both outcomes of an insert that reports an error. The nodes move between
any two calls (`ViewChanges`), rows get lost (`LoseRows`), the process dies (`Crash`).

### `BitcoinAnalyticsWorker` (`analytics`)

`disk` is the checkpoint file, `state` the worker's copy. A cycle reads the source (`BeginCycle`), compares the anchor
(`Resweep`, `BeginSweep`, `ContinueSweep`), lists a page (`ReadPage`), enqueues it if the source is still the
same (`Enqueue`, else `SourceMoved`), and runs at most one job (`Run`, `JobSucceeds`, `JobFails`,
`Wait`). The file is replaced by rename, so a failing save leaves the old or the new content
(`SaveAndGo`). `CycleFails` is a query or a heartbeat that fails. `Open(redefined)` is a start, with the
configuration of the file or another one; `Retry` the operator's command; `Stop` a pause.
`done` and `runs` are history variables.

### `AnalysisPublication`, `ClusterReviews` (`visibility.rs`, `exposure`, `clustering/store.rs`)

An investigation computes an exposure run and a risk assessment on top of it: `at` is its place
(one per query), `seen` what it has read so far; `rows`, `failed` and `seals` are the
stored results. `SealVisible` is the view's condition; `Inspect`, `Look` and `Answer` are the queries of
an inspection; `Withdraw` is `invalidate_analysis`. `Publish` and `Label` move the chain and the labels in between.
In `ClusterReviews` clients compute, inspect and review; a reviewer holds the kernel lock (`lock`) until its request ends in
any way. `BitcoinService` puts the two together with the backfill and the analytical node, four tasks: it extends `ClusterReviews` and takes
`AnalysisPublication`, `BitcoinBackfill` and `Investigations` as the instances `A`, `B` and `K`. `late` are runs whose client left while the seal was on its way: the API drops a handler after 120 s and
the insert it sent is not withdrawn (`Land`).

### `BscIngestion` (`ingestion/service.rs`, `store.rs`)

| state | code |
|---|---|
| `marker` | newest `ingested_blocks` row of a height |
| `facts`, `staged` | fact rows with that row's hash and revision; rows of the revision after it |
| `cursor` | `sync_state_current` |
| `failures` | `ingestion_failures_current`: open, dead or settled |
| `mode`, `pc`, ... | locals of `sync_once`, `process_range`, `repair_reorg`, `repair_range` |

Revisions are per height and a commit takes the newest marker's plus one, so rows of older revisions
can never be seen again and two sets of rows per height stand for all of them. `StageFacts` and
`InsertMarker` are `commit_block`; `Search*`, `AncestorFound`, `Tombstone`, `RewindCursor` are
`repair_reorg`. A node serves one branch per call and may serve another at the next. `holes` is
a history variable: heights that were tombstoned by a repair which did not get to the cursor.

### `EthereumIngestion`, `TronIngestion`

`EthereumIngestion`: `rows`, `marker` and `checkpoint` are the tables; `proc[p]` the locals of the follower and of an operator's
`range`, which share the tables and no lock. A block is `Check`, `Fetch`, `Validate` (or `Conflict`), one `WriteTable` per table, `Mark`,
`ReadCheckpoint`, `Advance`: the checkpoint that decides whether to advance is read before it is written. `Fail` ends the command anywhere, with the insert
under way applied or not. `requested` and `moves` are history: explicit heights of operators, and blocks the node replaced.

`TronIngestion`: `journal` is `block_ingestion_state` (PROCESSING, COMPLETE or FAILED, with the version of the block), `tables` the stored rows, `buffer` and `inflight` the
batchers: a flush inserts a copy of the buffer and removes what was copied afterwards, and a timer, a full buffer and the end of a block may all
start one. `checkpoint` is a set, since rows of one second are equally new. The loop and a replay are two processes with batchers of their own, and a timer of a process runs as long as the process does, also after a
command in it has failed.
`CallFails`, `TxFails`, `FlushFails` and `Crash` are the faults.

### Node calls: `BscRpc`, `EthereumRpc`

`BscRpc` has the start-up probe (`stage`, `probed`, `able`) and one height's `fetch`: each call goes to the next node, a transient failure or a missing
method to another one, until all were asked. `EthereumRpc` has the block and receipts in parallel and the traces after them, with retries, and the
balances of `holdings.rs`; the node moves between forks (`serves`), and `returned` remembers that it came back to one.
`ChainServices` has both (`F`, `R`) and `TronIntelligence` (`I`), with the assumptions on their constants and one property each.

### Evidence: `BitcoinEvidence`, `BscEvidence`, `EthereumEvidence`, `TronEvidence`, `MCEvidence`

Operators translated from the extractors, from the node's transaction to rows, features and events. `MCEvidence` lets one transaction grow by
logs and frames (of TRON also contracts and internal transactions), or a block of Bitcoin by transactions, so that every short sequence
of parts occurs. `FlowsHold` compares what is extracted with a definition of its own: every movement of value exactly
once, nothing that the chain reverted, and for Bitcoin every input the output it spends, with sums that are conserved when stored rows are read back.
`EventsHold` says the same of what is derived: an event points at extracted flows, the identifiers are distinct and repeat in a replay. A run checks both as `FlowsAndEventsHold`.

### Searches and scores: `BitcoinExposure`, `TronExposure`, `EthereumExposure`, `RiskPolicy`

`BitcoinExposure` builds every small history (`Ingest`), then searches it one input or output per step with the code's limits. Its reference
definitions are `RouteIds` (all routes, told without a search) and `Deliverable` (all ways coins can mix). `TronExposure` runs the
pruning search of two scanners of one seed and the tables they write. `EthereumExposure` has the import of labels, clustering and exposure runs of a
worker and a command, and assessments, one insert per step, each process ending anywhere. An extension of paths is cut as the query does it: its `LIMIT BY` names the
columns of the path that goes on, so `Kept` takes at most `MaxPaths` extensions of each subject reached so far, ranked by the score up to there. `RiskPolicy` is the policy as operators over a wallet's evidence; `MCServices` lets that grow.

### Investigations: `BscInvestigation`, `EthereumInvestigation`, `Investigations`

A request is a record that a query per step fills while blocks are replaced or ingested. BSC's answers are compared with the history of their epoch;
Ethereum's paths with all walks; its lists of flows and counterparties are cut at `FlowLimit` and `CounterpartyLimit` (100 and 25 in the code), BSC's search at `MaxStates`. `Investigations` is the analytical node: `investigations` is the Neo4j store, `request` a client's request at its place,
`janitor` the sweep between finding and locking, `upstream` the versions that the parts of a Bitcoin answer rest on. `Check` is one call of
`refresh_source_validity`, `Annotate` the decision, `Find` and `RemoveFound` the two halves of `cleanup`.

### `TronIntelligence`, `MetadataWorkers`, `BitcoinBackfill`, `WarehouseMigration`

`TronIntelligence` has labels, claims, and reviews that are recorded and then projected into `tables` and `members` one insert at a time by concurrent
reviewers, and the discovery worker with its `saved` cursor. Blocks may be taken back and others take their place between any two of the worker's queries; `slipped` are the
cursors that were saved although this happened between the comparison of the old cursor and the read of the new boundary. `MetadataWorkers` is one behaviour per chain: `found`, `jobs` (rows before merging),
`queue`, the `attempt` under way and `size`, the `LIMIT` of the query; a page is any `size` of the tokens that are due, whatever their order. `tried` is history. `BitcoinBackfill` publishes the `legacy` history block by block under a fence while an old writer changes it.
`WarehouseMigration` runs the chain's and the shared migrations statement by statement over `schema`, with both ledgers
(`recorded`, `versions`) and the `identity`; releases are deployed and taken back meanwhile. A version has one of four orders of statements
(`upgrade`): the baseline, constraints alone (version 2), all tables and then the views (3, 4), or table by table with views of its own (5).

## 4. The runs

| run | shows | distinct states |
|---|---|---|
| `publication` | readers see one linked chain of complete blocks, changed by the last insert only; the steps implement `PublishedChain`; attempts never share a revision | 576,083 |
| `publication_interrupted_rollback` | `CanonicalChain` fails once a rollback is abandoned between tombstones and fence | violation |
| `bitcoin_ingestion` | failure records and published chain agree, dead letters block, the tip moves by the rules | 1,162,664 |
| `bitcoin_analytics` | sweeps cover, the file loads, budgets survive, and `SweepsRepeat` | 648,542 |
| `bitcoin_service` | shown analyses are whole, an answer called current was current, reviews of a cluster are one chain unless a seal lands late; a backfill said to be ready is whole and one history; kept investigations and their exports stay, and a shown score was current | 2,582,772 |
| `bsc_ingestion` | below the checkpoint one chain with its evidence; history moves by the rules; `CatchesUp` | 434,231 |
| `bsc_restart` | `RestartsRecover` fails: two crash points stop the follower for good | violation |
| `bsc_evidence` | `EvidenceCommitted` fails: a retry shows what the attempt before it staged | violation |
| `ethereum_ingestion` | a marked block is whole, complete heights link, gaps are an operator's; `CatchesUp` | 718,508 |
| `tron_ingestion` | a COMPLETE block is whole, the journal explains what is missing; `CatchesUp` | 620,360 |
| `services` | evidence, searches, policy, TRON's reviews and discovery, investigations, node calls | 889,407 |
| `progress` | the Bitcoin follower, the metadata workers and a schema upgrade arrive | 397,539 |

Every property of a passing run has a mutant in `PROJECT.json`: a variant of one definition, as a
plausible bug would have it, under which the property fails in the same instance.

The invariants called `Consistent`, `ScoresHold`, `AnswersHold`, `TasksHold` and the like are conjunctions of
named properties, each with its own comment in its module; those of `ChainServices`, `MCServices` and `MCProgress` are guarded by `service` or `task`.

| invariant | conjuncts | promise |
|---|---|---|
| `ScoresHold` | `TronScan!ScoresAreBest`, `ReaderSeesWholeRuns` | pruning loses no better score; no reader takes a part of a run for the whole |
| | `NothingMissed`, `BoundsAreTight`, `ScoredIsAccepted` | Bitcoin's search and its satoshi intervals against the reference; the policy accepts what is stored |
| | `CurrentRunIsWhole`, `AssessmentsAreExplained` | Ethereum's runs and assessments |
| | `EvidenceCountsOnce` | the policy counts no row and no transaction twice |
| `AnswersHold` | `AnswerFitsOneHistory`, `PathsAreWalks`, `PathsAreAll`, `WalletAgrees` | answers of BSC and Ethereum that many queries made; the parts of a wallet's answer add up where no list is full |
| `FlowsAndEventsHold` | `FlowsHold`, `EventsHold` | extraction |
| `ReviewsHold` | `NothingUnreviewed`, `LatestDecisionStands`, `CountsMatch`, `CursorCovers` | TRON's projections follow the decisions; discovery skips no block, unless its cursor slipped (section 7) |
| `FetchesHold` | `PreparedIsOneBlock`, `FailoverGoesRound`, `RequiredIsServed` | a BSC block put together from calls to several nodes has its own receipts and traces of its transactions; a fetch that ends for want of a node has asked all of them |
| `ReadsHold` | `AcceptedIsOneBlock`, `AllAttemptsMade`, `AmountsAreOfTheBlock` | an Ethereum block and balances put together from calls |
| `BackfillHolds` | `ReadyIsWhole`, `OneHistory` | Bitcoin's backfill (run `bitcoin_service`) |
| `InvestigationsHold` | `ExportsStay`, `CurrentWasTrue`, `ScoreIsKept` | investigations the analytical node keeps (run `bitcoin_service`) |

### Why the bounds are enough

*Publication.* Each attempt takes three revisions, so ten leave room for a crash, a retry and a rollback, or an append, a
rollback and a second append on another branch. Two families show a half-written block. Four blocks have a fork above
the first block and a branch of length three, so a rollback over two heights occurs, which `MaxRollback = 2` accepts, and a longer one is refused.

*Bitcoin ingestion.* One branch change below the bound, one that needs a rollback of the whole range, and one deeper than
`ReorgDepth = 1` occur. Windows of two blocks are longer than the room that is left after the first. Two attempts reach a dead letter, and
`SettleLimit = 1` makes a full page of records occur, which leaves others open.
`MaxCarried = 2` cuts off only commands that start with records beyond that.

*Analytics.* Three addresses do not fit a queue of two, so pages are cut by the room, and failed jobs can fill it. Three publications
replace the history at equal height (`a2`, nothing, `b2`). One fault, in any place, with any number of crashes.

*Bitcoin service.* A behaviour has two clients that compute, inspect and review clusters, one investigation with a reader, a backfill, or the analytical node. Two clients are needed for a conflict,
two clusters for a copy that keeps one review and replaces another, three runs for a computed run with two reviews. All clocks say the
same, so `max(now, previous + 1)` orders the reviews. An investigation has two results that depend on each other; publications take the tip away and
back again, which a comparison by hash would miss. Clients are symmetric: no definition tells them apart. The old tables grow, fork and are replaced
under a backfill that may stop. A kept investigation meets three changes, enough for a release that leaves and comes back around another
change; one investigation and a clock that reaches its expiry let it expire while it is found, exported, reopened or removed.

*BSC ingestion.* Two heights above the genesis block and `ReorgDepth = 2` give reorganisations within, at and beyond the bound, and one that finds no
ancestor. The follower requires traces and the command may not, so a block is committed without them and again with them. One failing insert or
crash, one operator command, and a branch that changes away and back.

*Ethereum and TRON ingestion.* Two heights of two branches, one replacement, one fault and one command: the follower and the range may be at the same or at
different heights, the fault may hit either. TRON has a block of one transaction and one of two, so that a flush may separate transactions of a block and join
blocks; one fault and one replay of one block. What a fault leaves is repaired by a fault-free pass, so a second one meets no new state of the tables; the theorems of section 6 hold for any number.

*Services.* `MCServices` names the bounds of each instance: TRON's graphs have up to four of nine edges with two assets, a service and equal blocks; Bitcoin's histories two new
transactions over two old coins, every label combination and budgets that are reached; BSC's requests three blocks and one replacement over four addresses; a BSC fetch two nodes of every ability, one fault and one move; Ethereum's six transfers of
which at least three are published at first, with limits that some wallets reach and others do not. Transactions grow to two logs or three frames (TRON: three logs), Bitcoin's blocks to four transactions. TRON's intelligence has three kinds of behaviour
(`BoundsOf`): three decisions of one command, two commands at once that may end anywhere, and a discovery over three blocks with a restore, a replay and a stop.

*Progress.* Two tokens, whose calls may fail every time, two attempts, and batches of one or two, so that a token may wait behind one that fails. The upgrade has four releases, one of each
order of statements, two deployments, two stops, one row that breaks a constraint, and a clock that may
go back. The follower is `BitcoinIngestion` with fresh records (`MaxCarried = 0`).

`CHECK_DEADLOCK FALSE` where behaviours end because a budget is used up or a single request is answered: `publication`, `bitcoin_service`, `ethereum_ingestion`, `tron_ingestion`, `services`, `progress`.

## 5. Liveness and fairness

All fairness is weak, and never of a fault, a crash, a reorganisation or an operator.

* `BitcoinIngestion!Advance` and time (`RetryDue`, `CooldownElapses`): a process that is not dead is scheduled, and every
  call has a timeout. Starting is not fair; `CatchesUp` speaks of a primary that from some moment on stays up on one branch and an `ingest`
  that keeps running. A dead letter or a gap at the frontier waits for an operator and is an exception.
* `BitcoinAnalyticsWorker!Cycle` (it polls, and every job has a deadline) and time. Exceptions are what waits for the operator: a failed job, a queue full of
  failed jobs, and a job stranded by a failing save (section 7).
* `BscIngestion`: the loop and the start of the follower (`dockerizd_bsc/docker-compose.yml:129-132`, `restart: unless-stopped`). The property speaks of a node that settles on
  one branch and an operator who leaves it alone. The exceptions are what `RestartsRecover` shows to go wrong.
* `EthereumIngestion`: the follower's start (`docker-compose.yml:52`) and its steps. Exceptions: a height an operator jumped over, and a stored block that the node replaced, for which the code has no way out.
* `TronIngestion`: the loop's start (`docker-compose.yml:42`) and the steps of both processes.
* `MetadataWorkers`: the worker's steps and the hour of the next attempt. `WarehouseMigration`: a start and its statements, for each runner.

## 6. What is proved

`PublicationProofs`, for every block tree, family set, clock and bound that satisfies `ChainAssumption` and
`BoundAssumption`:

| theorem | from | says |
|---|---|---|
| `SafeInvariant` | the assumptions | `SafeInv` holds wherever the writer stops |
| `TypeCorrect`, `VersionsUnique`, `AttemptsSeparate`, `VisibleComplete` | `SafeInvariant` | the invariants `TypeOK`, `UniqueVersions`, `AttemptOwnsRevision`, `VisibleBlocksComplete` |
| `FenceDecidesVisibility` | `SafeInvariant` | `InvisibleUntilFence`: only the last insert changes what readers see |
| `ChainCorrect` | also `~InterruptedRollback` | `CanonicalChain` |
| `Implementation` | also `~InterruptedRollback` | every behaviour of `Publication` is one of `PublishedChain` |

None of the properties is inductive alone. `SafeInv` adds that rows carry the header fields of their hash,
that a complete marker was written over all its facts (`MarkersCounted`), that facts live one revision above a block row
(`FactsReserved`, why `next_revision` adds three), that the checkpoint is valid, and what the writer
knows at each place (`WriterOwnsRevision`). `next_revision` uses all block rows, published or not, and this is what makes a retry safe.
`ChainInv` adds `UnpublishedAbove`: above the fence there are rows for the height after the tip only, or tombstones of the
running rollback. So raising the fence to an append shows exactly one new block, and lowering it exactly hides the
suffix. An abandoned rollback breaks this invariant: the run `publication_interrupted_rollback` is the
counterexample, so the assumption cannot be dropped.

`EthereumIngestionProofs`, for every set of chains of equal length (`ChainsShareHeights`), every trace mode and budget:

| theorem | says |
|---|---|
| `SafeInvariant` | `SafeInv`: types, a marked block is whole, the checkpoint is typed, what each process knows at its place |
| `GapsExplained` | `GapsAreRequested` |
| `EthereumConsistent` | `Consistent`: also that complete heights link and the checkpoint names a complete block, under the two conditions of `LinkedHistory` |
| `ReadsAreOfOneBlock` | `ReadsHold`: an accepted block has its own receipts, reported balances are those of the block they name, and a fetch fails only after all its attempts |

`RowsInv` is the heart of the first: the tables before the current one are written, for the block and trace outcome the process holds, and
the marker comes last. `GapInv` adds what a process that is past its check knows of the heights below it. `LinkedHistory` has two
proofs. If the node never replaced a block (`StillInv`), all blocks anyone holds are of one branch. If the follower is alone (`AloneInv`), the markers are one
history up to the checkpoint or one above it (`HistoryInv`), and the block that is validated links to it (`WriterInv`).

`ReadsAreOfOneBlock` is about `ChainsSpec` of `ChainServices`, for every set of forks, trace mode and number of retries (`ReadsAssumption`: the node's null is no hash). Its
`ReadsInv` says of the balances, which are read one call after the other, that what was read so far is of the block that was named, or that the node has left
that block (`AmountsFit`). The node may serve a fork again that it had left (`returned`); the property excepts it, as no check of the code can see it.

`TronIngestionProofs`, for every sequence of blocks (`TronAssumption`) and every budget:

| theorem | says |
|---|---|
| `TronComplete` | `Consistent`: a COMPLETE block has all its rows |
| `TronJournalExplains` | `JournalExplains`: without replays, every block up to any checkpoint a read may return is COMPLETE, and a FAILED one has an open failure |
| `IntelligenceHolds` | `ReviewsHold`: reviews are projected as decided, and discovery skips no block below a cursor that did not slip |

`SafeInv` says that each row of a block that is processed is stored or in the buffer of its process, and in the tables that were flushed stored; a process that stands still keeps it because tables only grow
(`OtherStable`), whatever the other one flushes. `JournalInv` is about the loop alone.

`IntelligenceHolds` is about `ChainsSpec`, for any labels, candidates, reviewers, batch and overlap (`WorkerAssumption`). It joins two lemmas.

*Reviews* (`DecisionsStand`). A command inserts its decision first and then row after row, and may end between any two of them. `ReviewInv`: whoever projects a decision has recorded
it, and what is active was approved; this holds however commands interleave. The rest needs one command at a time that is not interrupted (`sequential`), as the properties do. `LatestInv`: each projection shows
the decisions that have reached it (`Shows`), that is all but the one of the command that has not come to this table yet; decisions are told apart by their times, and the newest of
an address owns its row. `CountInv`: the versions of a cluster have the numbers from 1 on (`Gapless`), and the newest one counts the active members, except between the insert of the member and that of the version,
when `ReadFits` says what the command still holds is right.

*Discovery* (`CursorsStand`). A cursor is a height and a hash, and blocks below it may be taken back, restored or replayed meanwhile. `StandsFor` is what it promises: *while* the block at its height has its hash, the blocks up to there
were scanned, or replayed and so left to a full scan. Hashes are not reused and a block that is replaced takes those above it along (`Follows`), so what stood for the blocks before stands for what is left of them (`StandsStill`). The worker has the boundary's hash before it
reads and compares it again before it saves, which is why its scan may count for that hash only. The scan begins above the old cursor, though, which was compared *before* the boundary was read: if blocks at
or below the cursor are replaced between these two queries, the new boundary is of the new branch and the blocks below the scan are not looked at. Such a cursor is marked `slipped`, as is every one that is saved on top of it,
and `StandsFor` is promised of the others.

### Branches of a tree of blocks

`Chain[h]` and `Branch[h]` are recursive functions, defined by the equation they satisfy, and a proof may use that equation only once it has shown that a
function with it exists. `BranchTheorems` does so for every set of hashes with numbers that grow from parent to child (`Tree`), with no assumption on its size:
`SolutionsExist` builds a solution up to each height, by the induction over sets of naturals `NatSetInduction`; two solutions agree (`SolutionsAgree`), so
they join (`BranchesExist`). `BranchFacts` says what the proofs need: a branch holds its tip, goes down to its root, is closed under parents, and two
of its blocks of one height are the same. The worker's module for this names an assumption that its configuration always met: the number of a block
is its parent's plus one (as `BitcoinIngestion` and `BscIngestion` say), and there are finitely many addresses.

### `BitcoinIngestionProofs`

For every tree of blocks, list of endpoints, views they may serve, depth, window and number of attempts (`IngestionAssumption`):

| theorem | says |
|---|---|
| `InvariantHolds` | `IInv`: what a command relies on at each of its places |
| `RecordsAndChainAgree` | `Consistent`: types; once the loop runs no published height has an open failure record, unless a full page of them was settled at the start and the height is below it; at most one record is in repair |
| `TipMoves` | `TipMovesByRule` |
| `ResolvedWhenPublished` | `ResolvedIsPublished` |
| `DeadLettersRemain` | `DeadLettersHold` |

`IInv` adds to the types and to `PublishedIsSettled` what a command holds at each place (`Control`), that the window goes on from the tip and a rollback's target is within the bound
(`Positions`), that a repair works on the next height or the one it has just published, and on one it selected (`RepairTarget`), and that what is about to be committed has passed the gate, while a
dead letter has used up its attempts (`Records`). `PublishedIsSettled` makes one exception, the tip between its publication and the settling of its record, and rests on
`settle` as a command's first place: a crash between those two inserts leaves an open record, and the next command begins by settling it, or a page of the highest of them if there are more than `SettleLimit`. `OneRepair` is why the `LIMIT 1000` of `recover_interrupted` never
cuts anything off: a start recovers what the command before it left, which is one record at most. `Positions` gives the rest: a height that is recorded as failed is above the tip,
a rollback only takes published heights away, and the branch of a child of the tip adds one height (`ChainStep`).

### `BitcoinAnalyticsWorkerProofs`

For every chain, assignment of addresses to blocks, page, queue and attempt limit (`WorkerAssumption`):

| theorem | says |
|---|---|
| `InvariantHolds` | `IInv` |
| `SweepsMissNothing` | `Consistent`: types, `SweepCovers`, `CheckpointLoads` |
| `BudgetHolds` | `BudgetSurvivesCrashes` |

A page is the lowest addresses beyond the cursor, one more than the queue has room for; the cursor goes to its last one. That nothing is skipped rests on three parts of `IInv`. `Reading`: the source of the
cycle is the published one exactly as long as its revision is. `Anchored`: the anchor is then on the published branch, with the same start. `Paged`: the page is what a query
over the *anchor's* history would return, although it is asked of the published one. `LowestPrefix`, `LowestSize` and `LowestWhole` say that a page has no holes, fits, and is all there is if it is not full.
`Sound` (`Covers`, `Loads`, `Budgeted`) has to hold of the file and of memory, since a failing save leaves either in the file. `Budgeted` counts an analysis *before* it runs,
which is why a crash in it cannot exceed the limit.

### `BscIngestionProofs`

For every tree of blocks, start height, batch size and depth, trace modes and bound (`BscAssumption`):

| theorem | says |
|---|---|
| `InvariantHolds` | `IInv` |
| `ChainStands` | `Consistent`: types, `CheckpointStands`, `EvidenceComplete` |
| `HistoryByRule` | `HistoryChangesByRule`: `CursorFollowsChain`, `HashesStand`, `ResolvedIsCommitted` |
| `BlocksAreFetchedWhole` | `FetchesHold`: a block that is handed on has exactly the receipts of its fork, and traces of its own fork or a twin; over nodes that cannot or could not answer, no fetch gives up or does without traces before every node was asked; what is required is never missed |

`CheckpointStands` speaks of states without holes, and the next repair may start in one that has them; `Standing` is its inductive form: below the checkpoint only the holes are not part of one
canonical chain, and a link is promised between neighbours that are both no holes. `Following` is what makes an advance safe: the block at hand is the one after the checkpoint, the checkpoint is still canonical, and
`parent` is its hash; `CheckpointAgrees` establishes it and no other step between it and the advance can take it away, because tombstones are written at one place only, and the search comes first. `Committing` says that a
block replaces no other and has its rows before its marker. `Repairing` counts the depth: the search has looked at each height from the checkpoint down, so the cursor goes back by at most `ReorgDepth`. The one case without a checkpoint hash
(a repair that found no ancestor, and another conflict at height 0) is where the cursor moves up in a repair.

`BlocksAreFetchedWhole` is about `ChainsSpec`, for any number of endpoints and at least as many attempts (`FetchAssumption`; `rpc.rs` 53 refuses fewer). Every call starts at a node of its own and goes round; that it has been
at all of them when its attempts are used up is arithmetic modulo `Endpoints` (`EveryNodeAsked`). `FetchInv` says that the nodes which passed the start have what the configuration requires (`Started`),
and what the fetch has when it asks for more (`FetchFits`). Two limits of the code are stated in the property and not hidden: a null or broken answer ends the fetch with the node that gave it, whatever the others
would say, and a trace names no block, so traces of a *twin* pass, a fork with the same transactions, none of which failed there and not here.

### `BitcoinServiceProofs`

For every set of clients, clusters and scopes, clocks that may go backwards, and bound (`ReviewsAssumption`), and every chain, set of addresses, tables, readers and
investigations, of which there must be one (`AnalysisAssumption`; that `ParentOf` makes a tree is not needed):

| theorem | says |
|---|---|
| `InvariantHolds`, `AnalysisInvariant`, `BackfillInvariant`, `KeptInvariant` | `IInv` of the clusters, `AnalysisInv` of the analyses, `BackfillInv` of the backfill, `KeptInv` of what the analytical node keeps |
| `ReviewsChained` | `ChainUnlessLate`: the decisions on a cluster, on one source, are one chain |
| `AnswersTrue` | `AnswersWereCurrent`, for clusters also when seals land late |
| `ResultsWhole`, `ResponsesFit`, `Hidden` | `VisibleIsWhole`, `ResponseFits`, `HiddenForGood` |
| `OldHistoryWhole` | `BackfillHolds`: a backfill that answers `ready` has published the old tables whole, and what is published is one history |
| `KeptForClients` | `InvestigationsHold`: exports stay, a result shown as current was, a score is kept or said to be unknown |

`ServiceParts` takes a behaviour of the service apart: it is one of each of the four modules, as none writes another's state.

*Clusters.* `reviews_unchanged` compares cluster by cluster while others review, so at no point does a client know that its run is current. `Witnessed` is what it does know: if the run was not current at any moment since the client
began, some cluster *that is still to be compared* was reviewed again. `StaysReviewed` makes this stable: once a newer review hides the one a run copied, no later review, late or not, brings it back, because a
review has its run's identifier (`Sourced`) and identifiers are not reused. When nothing is left to compare, the answer is true. The chain needs the lock as well: `Reviewing` says that a reviewer that has compared its target knows the latest
review until it seals, and a late seal is the one thing that breaks it, hence `Punctual`. That the new revision exceeds the old one, whatever the clock says (`NextRevision`), makes the latest review unique (`ChainGrows`).

*Analyses.* `AnalysisInv` has three parts for what an investigation knows and one for inspections. `ReadOK` orders what was read: a revision that was read is not above the published one and equals it only if nothing was
published since (`Past`); the snapshot of the exposure run is not older than that of the investigation, and the subject's labels were read again after the first time. So a check that finds the *first* value unchanged
proves that the second is the same value: this is how `Join` makes `seen.snapshot = seen.source`, and the check of the source before the first insert puts all facts of a scan into one revision (`CheckedOK`).
`StoredOK` says that rows come after the checks, a seal after all rows, and an assessment's seal after that of its exposure run. `LookOK` is for the inspections: labels are compared after the seal was seen to be visible, so
between the two queries the client does not know whether the labels had moved already. It knows that *either* the result was current then *or* the comparison will fail, since a version does not come back (`LabelsMoved`).
`HiddenForGood` is no consequence of the invariant in one state: `Kept` is what no step does to a sealed result, and `SealVisibleBack` shows that a seal that is visible after a step names the revision of before, since a new one is one
higher than all that were read.

*Backfill.* For any histories, of which the old tables may show one after the other (`HistoriesAssumption` only says that they are sequences of blocks). A run compares the old tables with what it began with before it
raises the fence. So it works on the next block of a state that is still there, or that state has gone, and then no marker of the present one exists (`FenceIsGone`), since no other run marks blocks meanwhile. `MarkersFit` is about what stopped runs leave: unless the present state was published
whole, a marker of it is no further than the next block, and one of the tip lies above the fence. This is why a marker of the tip below the fence is enough for `Ready`.

*Kept investigations.* For any answers of the Bitcoin service that name clusters and a risk when they are about a wallet (`AnswersAssumption`, as its response does). A comparison asks one question after the other while the service moves on, and has no snapshot. `BorneOut` is
why it may say `current` all the same: an upstream version other than the release's never returns, so a wallet of which every answer was unchanged was unchanged at one moment, when the clusters were asked for (the fifth call), unless source
or labels had moved by then, and then the risk, which is asked for last, differs. Exports stay because the janitor, which has found them expired, looks again when it removes them, and because an export is marked before the read that ends it (`RequestFits`).

### Only model-checked

* Liveness (`CatchesUp`, `SweepsRepeat`, `UpgradeCompletes`, `MetadataSettles`): fairness and `ENABLED` are out of the prover's reach.
* What recursive functions and folds compute over data, since an induction over data needs a theorem with an operator for a parameter: `ScoresHold` (searches and policy against their references) and
  `FlowsAndEventsHold` (extraction).
* `AnswersHold`: the answers of an investigation are compared with the paths of one history, which are enumerated by recursion.
* `TasksHold` of the run `progress`, whose parts are about stops of an upgrade and of the metadata workers.

## 7. Findings

| run | the code | the text that says otherwise |
|---|---|---|
| `publication_interrupted_rollback` | tombstones of an abandoned rollback are shown by the next append's fence and hide published heights | `shared/warehouse/src/publication.rs:315-316` |
| `bsc_restart` | a crash between tombstones and cursor, or between marker and cursor before a reorganisation, fails every later batch | `dockerizd_bsc/docs/architecture.md:104` |
| `bsc_evidence` | an interrupted attempt and its retry share a revision, so staged rows become visible | `dockerizd_bsc/sql/migrations/20260904_0003_commit_revision_gate.sql:1-2` |

Met while modelling, without a run of their own (each shows up as a named exception of a property):

* A fallback that is caught up never renews the primary's cooldown, so a primary that died is asked for the next block first and its failures dead-letter the frontier; `dockerizd_bitcoin/README.md:289-290` speaks of a periodic retry.
* A failing save can leave an analytics job running in memory only, which stops further sweeps until a restart; compare `dockerizd_bitcoin/ANALYTICS.md:50-51`.
* `dockerizd_bitcoin/CLUSTERING.md:79-81` promises that a stale review is refused, which holds (`ChainUnlessLate`, proved as `ReviewsChained`) as long as no seal lands after the request that sent it was dropped.
* Two processes that start on an old database at once may install a view over a newer one; `WarehouseMigration!Completes` fails with two `Runners`. The documents speak of restarts, not of overlapping starts.
* A REJECTED row in a later Ethereum import does not take back what an earlier APPROVED row wrote into `address_entities`.
* `max_paths_per_subject` of Ethereum's exposure limits the extensions of the *previous* path's subject and ranks them by the previous path's score, since the columns of `ORDER BY` and `LIMIT BY` have no alias in the query (`dockerizd_ethereum`, `exposure.rs:410-411`); `EthereumExposure!GoesOn` says what a run then has.
* Ethereum's answer about a wallet cuts its flows at 100 and its counterparties at 25 without saying so (`investigation.rs:858`, `490`, `1281`), while a graph that is cut off says so; `WalletAgrees` promises sums for lists that are not full.
* A null or broken answer of one BSC node ends the fetch although others could answer (`rpc.rs:125-127`, `240-260`), and traces of a fork with the same transactions pass (`BscRpc!Twins`).
* TRON's discovery compares its cursor, then reads the boundary. "A replaced checkpoint invalidates the discovery cursor" (`analytics.rs:209`) does not cover blocks that are replaced between these two queries: the scan goes on above them and the new cursor does not show it (`slipped`).
* After more than 64 open records of published heights, which takes many crashes, a Bitcoin command starts while older ones are still open (`failures.rs:339`); `Skipped` names them.
* An investigation whose comparison failed when it was created keeps its score as history only, although a later comparison finds its evidence current.

## 8. Not modelled, and why

* Two owners of a Bitcoin or BSC cursor: the Bitcoin commands take a kernel lock; BSC has none, and its operator must not run a repair beside the follower.
* `BITCOIN_END_BLOCK`, read-only lists, and the bounded `once` mode of the worker, which is a run that stops.
* Blocks of a BSC range that are fetched ahead concurrently: commits stay in the order of heights, and every check that decides is made at the commit.
* Truncated exposure runs and partial cluster runs, which are never sealed; the policy registry; the import of labels of Bitcoin and BSC; activity and holdings of Bitcoin, sums over one snapshot.
* TRON's AI risk score, wallet fingerprints, flow graph and read API: each is a query and arithmetic over its rows, without a state of its own.
* Decoding of bytes (ABI, scripts, hex), texts and wording, JSON shapes, HTTP details, the probes for diagnosis.
* `values.rs`, `contract.rs`, `semantics.rs` and `relationships` of the warehouse: validation of single rows and SQL text.
* In the analytical node: owners and sessions, the listing, the form of the graph, and the limit of eight requests at once, which refuses and never waits.
* The gateway, deployment and backup scripts, static pages and offline machine learning: I/O without a protocol.
