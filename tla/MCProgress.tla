---------------------------- MODULE MCProgress ----------------------------
(***************************************************************************)
(* What the processes that run for ever, or until they are done, must      *)
(* bring about in the end: the Bitcoin follower, the metadata workers of   *)
(* three chains, and the schema upgrade of one process.  `task` says which *)
(* one a behaviour is about; the others stay as they are at their start.   *)
(***************************************************************************)
EXTENDS BitcoinIngestion

VARIABLES
    task,
    chain, size, found, jobs, due, metadata, queue, stage, attempt, tried, stops,   \* MetadataWorkers
    schema, recorded, versions, identity, invalid, deployed, newest, runner, bounds   \* WarehouseMigration

metadataVars == <<chain, size, found, jobs, due, metadata, queue, stage, attempt, tried, stops>>
upgradeVars == <<schema, recorded, versions, identity, invalid, deployed, newest, runner, bounds>>
allVars == <<task, vars, metadataVars, upgradeVars>>

\* The follower's primary may move between three branches; a fallback serves the first.
MCHashes == {"a1", "a2", "b2", "c1", "c2"}
MCNumberOf == [a1 |-> 1, a2 |-> 2, b2 |-> 2, c1 |-> 1, c2 |-> 2]
MCParentOf == [a1 |-> "none", a2 |-> "a1", b2 |-> "a1", c1 |-> "none", c2 |-> "c1"]
MCFallbacks == <<"fallback">>
MCViewsOf == [primary |-> {"down", "a2", "b2", "c2"}, fallback |-> {"down", "a2"}]

Tokens == {"t1", "t2"}
Metadata == INSTANCE MetadataWorkers
    WITH MaxAttempts <- 2, BatchSizes <- {1, 2}, MaxFound <- 3, MaxStops <- 1

\* Four releases, with migrations of the chain's own.  The shared schema's versions
\* upgrade in the four orders there are: the baseline (1), constraints alone (2), all
\* tables at once (3 and 4 of the code), table by table (5).
Table(columns, constraints) == [columns |-> columns, constraints |-> constraints]
DDL(op, object, value) == [op |-> op, object |-> object, value |-> value]

Views(canonical, current) == [canonical |-> canonical, current |-> current]

MCContracts ==
    <<[upgrade |-> "baseline", views |-> Views(1, 0),
       tables |-> [facts |-> Table(1, {}), analyses |-> Table(0, {})]],
      [upgrade |-> "constraints", views |-> Views(1, 0),
       tables |-> [facts |-> Table(1, {"values"}), analyses |-> Table(0, {})]],
      [upgrade |-> "all tables", views |-> Views(2, 1),
       tables |-> [facts |-> Table(2, {"values", "core"}), analyses |-> Table(1, {})]],
      [upgrade |-> "by table", views |-> Views(3, 1),
       tables |-> [facts |-> Table(3, {"values", "core"}), analyses |-> Table(2, {"visibility"})]]>>

MCChainMigrations ==
    <<<<DDL("create table", "blocks", Table(1, {})), DDL("create view", "latest", 1)>>,
      <<DDL("add column", "blocks", 2), DDL("drop view", "latest", 0),
        DDL("create view", "latest", 2)>>,
      <<DDL("replace view", "latest", 3)>>, <<>>>>

MCChainContract ==
    <<[tables |-> [blocks |-> 1], views |-> [latest |-> 1]],
      [tables |-> [blocks |-> 2], views |-> [latest |-> 2]],
      [tables |-> [blocks |-> 2], views |-> [latest |-> 3]],
      [tables |-> [blocks |-> 2], views |-> [latest |-> 3]]>>

Runners == {"api"}
Upgrade == INSTANCE WarehouseMigration
    WITH Contracts <- MCContracts, ChainMigrations <- MCChainMigrations,
         ChainContract <- MCChainContract, Clock <- {0, 2},
         MaxDeploys <- 2, MaxStops <- 2, MaxWrites <- 1

-----------------------------------------------------------------------------
(* One process in each behaviour *)

NoFollower == Init /\ views = [primary |-> "a2", fallback |-> "a2"]
NoMetadata == Metadata!Init /\ chain = "bsc" /\ size = 2
NoUpgrade == Upgrade!Init

ProgressInit ==
    \/ task = "follower" /\ Init /\ NoMetadata /\ NoUpgrade
    \/ task = "metadata" /\ Metadata!Init /\ NoFollower /\ NoUpgrade
    \/ task = "upgrade" /\ Upgrade!Init /\ NoFollower /\ NoMetadata

Follows(A) == task = "follower" /\ A /\ UNCHANGED <<task, metadataVars, upgradeVars>>
Describes(A) == task = "metadata" /\ A /\ UNCHANGED <<task, vars, upgradeVars>>
Migrates(A) == task = "upgrade" /\ A /\ UNCHANGED <<task, vars, metadataVars>>

ProgressNext == Follows(Next) \/ Describes(Metadata!Next) \/ Migrates(Upgrade!Next)

\* The fairness of each process: FairSpec, Metadata!Fairness and Upgrade!Fairness.
ProgressFairness ==
    /\ WF_allVars(Follows(Advance)) /\ WF_allVars(Follows(CooldownElapses))
    /\ \A n \in Heights : WF_allVars(Follows(RetryDue(n)))
    /\ WF_allVars(Describes(Metadata!Work))
    /\ \A t \in Tokens : WF_allVars(Describes(Metadata!Wait(t)))
    /\ \A r \in Runners : /\ WF_allVars(Migrates(Upgrade!Initialize(r)))
                          /\ WF_allVars(Migrates(Upgrade!Step(r)))

ProgressSpec == ProgressInit /\ [][ProgressNext]_allVars /\ ProgressFairness

-----------------------------------------------------------------------------
(* Properties *)

\* Whatever was interrupted: the next start of an upgrade carries on, the
\* ledgers say what is installed, and no constraint is installed over rows
\* that break it.
UpgradeHolds ==
    task = "upgrade" =>
        Upgrade!RestartsHeal /\ Upgrade!LedgersAreInstalled /\ Upgrade!StoredRowsObey

\* The identity of the schema never goes back, although the clock may.
IdentityAdvances == Upgrade!IdentityAdvances

\* A process that upgrades alone completes the newest release's schema.
UpgradeCompletes == (task = "upgrade" => Upgrade!Completes) /\ IdentityAdvances

\* No token is given up before its attempts were made.
MetadataGivesUpLate == task = "metadata" => Metadata!TypeOK /\ Metadata!GivesUpLate

\* What the two tasks may not do on their way.
TasksHold == UpgradeHolds /\ MetadataGivesUpLate

\* Every token that was found is resolved or given up in the end.
MetadataSettles == task = "metadata" => Metadata!Settles
=============================================================================
