-------------------------- MODULE WarehouseMigration ---------------------------
(***************************************************************************)
(* The schema of a chain's database: first the chain's own migrations      *)
(* (dockerizd_bsc/src/db/migrations.rs, dockerizd_ethereum/src/db/         *)
(* migrations.rs), then the shared warehouse's, version by version         *)
(* (shared/warehouse/src/migration.rs initialize_statements).  ClickHouse  *)
(* has no transactions: every statement and every row of the ledgers is a  *)
(* step of its own, and the job may stop between any two.                  *)
(*                                                                         *)
(* The schema gives a table the number of its columns (0: no table; they   *)
(* are only ever appended) and its constraints, a view the number of its   *)
(* definition (0: no view).  Left out: names, types, engines, keys,        *)
(* indexes, and the edits of a contract or of the database by hand which   *)
(* the checksums and the validation refuse.                                *)
(***************************************************************************)
EXTENDS Integers, Sequences, FiniteSets, SequencesExt

CONSTANTS Runners,         \* processes that initialise the schema
          Contracts,       \* version -> [upgrade: the order of its statements,
                           \*   tables: name -> [columns, constraints], views: name -> definition]
          ChainMigrations, \* release -> the statements its own migration adds
          ChainContract,   \* release -> what validate_schema_contract asks of the chain's objects
          Clock,           \* times a process can read
          MaxDeploys, MaxStops, MaxWrites   \* bounds

VARIABLES schema,    \* [tables, views], the shared and the chain's
          recorded,  \* the chain's ledger: migrations
          versions,  \* aml_schema_migrations
          identity,  \* aml_warehouse_identity: [version, revision]
          invalid,   \* constraints that stored rows break
          deployed,  \* the release that runs: it knows the versions up to its own
          newest,    \* the newest release there was
          runner,    \* the processes
          bounds     \* deployments, stops and writes so far

vars == <<schema, recorded, versions, identity, invalid, deployed, newest, runner, bounds>>
stored == <<schema, recorded, versions, identity>>
world == <<invalid, deployed, newest, bounds>>

SharedTables == DOMAIN Contracts[1].tables
SharedViews == DOMAIN Contracts[1].views
Releases == DOMAIN Contracts
Off == [at |-> "off", release |-> 1, todo |-> <<>>, pending |-> <<>>, applied |-> 0,
        revision |-> 0, identified |-> 0]
NoTable == [columns |-> 0, constraints |-> {}]

Init ==
    /\ schema = [tables |-> [t \in SharedTables \cup DOMAIN ChainContract[1].tables |-> NoTable],
                 views |-> [v \in SharedViews \cup DOMAIN ChainContract[1].views |-> 0]]
    /\ recorded = {} /\ versions = {}
    /\ identity = [version |-> 0, revision |-> 0]
    /\ invalid = {}
    /\ deployed = 1 /\ newest = 1
    /\ runner = [r \in Runners |-> Off]
    /\ bounds = [deploys |-> 0, stops |-> 0, writes |-> 0]

----------------------------------------------------------------------------
(* Statements; all of them may run again *)

Statement(op, object, value) == [op |-> op, object |-> object, value |-> value]

Execute(s, statement) ==
    LET o == statement.object
    IN  CASE statement.op = "create table" ->
               IF s.tables[o].columns > 0 THEN s ELSE [s EXCEPT !.tables[o] = statement.value]
          [] statement.op = "add column" ->
               IF s.tables[o].columns >= statement.value THEN s
               ELSE [s EXCEPT !.tables[o].columns = @ + 1]
          [] statement.op = "add constraint" ->
               [s EXCEPT !.tables[o].constraints = @ \cup {statement.value}]
          [] statement.op = "create view" ->
               IF s.views[o] > 0 THEN s ELSE [s EXCEPT !.views[o] = statement.value]
          [] statement.op = "replace view" -> [s EXCEPT !.views[o] = statement.value]
          [] statement.op = "drop view" -> [s EXCEPT !.views[o] = 0]

AddColumns(version, t) ==
    LET new == Contracts[version].tables[t].columns
        old == Contracts[version - 1].tables[t].columns
    IN  IF old = 0 THEN <<>>
        ELSE [i \in 1 .. new - old |-> Statement("add column", t, old + i)]

AddConstraints(version, t) ==
    LET old == Contracts[version - 1].tables[t]
        added == SetToSeq(Contracts[version].tables[t].constraints \ old.constraints)
    IN  IF old.columns = 0 THEN <<>>
        ELSE [i \in DOMAIN added |-> Statement("add constraint", t, added[i])]

CreateTables(version, tables) ==
    [i \in DOMAIN tables |->
        Statement("create table", tables[i], Contracts[version].tables[tables[i]])]

Views(op, version, views) ==
    LET some == SetToSeq(views)
    IN  [i \in DOMAIN some |-> Statement(op, some[i], Contracts[version].views[some[i]])]

\* The statements of one version.  Version 2 only adds constraints, 3 and 4 treat
\* all tables at once and replace every view, 5 goes table by table and replaces
\* the views it defines itself.
Phase(version) ==
    LET c == Contracts[version]
        every == SetToSeq(SharedTables)
        views == {v \in SharedViews : c.views[v] > 0}
        fresh == SelectSeq(every, LAMBDA t : Contracts[version - 1].tables[t].columns = 0
                                             /\ c.tables[t].columns > 0)
        each(A(_, _)) == FlattenSeq([i \in DOMAIN every |-> A(version, every[i])])
    IN  CASE c.upgrade = "baseline" ->
               CreateTables(version, SelectSeq(every, LAMBDA t : c.tables[t].columns > 0))
                   \o Views("create view", version, views)
          [] c.upgrade = "constraints" -> each(AddConstraints)
          [] c.upgrade = "all tables" ->
               each(AddColumns) \o CreateTables(version, fresh) \o each(AddConstraints)
                   \o Views("replace view", version, views)
          [] c.upgrade = "by table" ->
               CreateTables(version, fresh)
                   \o each(LAMBDA v, t : AddColumns(v, t) \o AddConstraints(v, t))
                   \o Views("replace view", version,
                            {v \in views : c.views[v] # Contracts[version - 1].views[v]})

----------------------------------------------------------------------------
(* Checks *)

\* check_ledger of a release.
LedgerStands(release) ==
    /\ versions \subseteq 1..release
    /\ identity.version \in versions \cup {0}
    /\ \A v \in versions : 1..v \subseteq versions

Complete(release) == versions = 1..release /\ identity.version = release

\* validate_objects and validate_constraints, when everything has to be there.
Installed(version) ==
    /\ \A t \in SharedTables : schema.tables[t] = Contracts[version].tables[t]
    /\ \A v \in SharedViews : schema.views[v] = Contracts[version].views[v]

\* resume_contract: from an applied version some of the next one may be there -
\* columns, constraints, whole new tables, and views of either definition.
Resumable(applied, next) ==
    LET old == Contracts[IF applied = 0 THEN 1 ELSE applied]
        new == Contracts[next]
    IN  /\ \A t \in SharedTables :
            LET table == schema.tables[t]
            IN  IF applied = 0 THEN table \in {NoTable, new.tables[t]}
                ELSE IF old.tables[t].columns = 0 THEN table \in {NoTable, new.tables[t]}
                ELSE /\ table.columns \in old.tables[t].columns .. new.tables[t].columns
                     /\ old.tables[t].constraints \subseteq table.constraints
                     /\ table.constraints \subseteq new.tables[t].constraints
        /\ \A v \in SharedViews :
            schema.views[v] \in {old.views[v], new.views[v]} \cup (IF applied = 0 THEN {0} ELSE {})

\* preflight: no stored row breaks a constraint of the next version.
Preflight(next) ==
    \A t \in SharedTables :
        schema.tables[t].columns > 0 => invalid \cap Contracts[next].tables[t].constraints = {}

----------------------------------------------------------------------------
(* A process *)

Go(r, at) == runner' = [runner EXCEPT ![r].at = at]
Refuse(r) == Go(r, "refused") /\ UNCHANGED stored

\* A start loads the chain's ledger once and works off what is missing in it.
Initialize(r) ==
    /\ runner[r].at \in {"off", "refused"}
    /\ runner' = [runner EXCEPT ![r] =
                    [Off EXCEPT !.at = "chain", !.release = deployed,
                                !.pending = SelectSeq([i \in 1..deployed |-> i],
                                                      LAMBDA i : i \notin recorded)]]
    /\ UNCHANGED <<stored, world>>

BeginMigration(r) ==
    /\ runner[r].at = "chain" /\ runner[r].pending # <<>>
    /\ runner' = [runner EXCEPT ![r].at = "sql", ![r].todo = ChainMigrations[Head(runner[r].pending)]]
    /\ UNCHANGED <<stored, world>>

Mutant_AfterError(r) == [runner[r] EXCEPT !.todo = Tail(@)]
\* A statement that ClickHouse refuses ends the process.
AfterError(r) == Off

\* run_sql and the phases of the shared schema: one statement.
RunStatement(r) ==
    /\ runner[r].at \in {"sql", "apply"} /\ runner[r].todo # <<>>
    /\ schema' = Execute(schema, Head(runner[r].todo))
    /\ runner' = [runner EXCEPT ![r].todo = Tail(@)]
    /\ UNCHANGED <<recorded, versions, identity, world>>

StatementFails(r) ==
    /\ runner[r].at \in {"sql", "apply"} /\ runner[r].todo # <<>>
    /\ bounds.stops < MaxStops
    /\ bounds' = [bounds EXCEPT !.stops = @ + 1]
    /\ runner' = [runner EXCEPT ![r] = AfterError(r)]
    /\ UNCHANGED <<stored, invalid, deployed, newest>>

RecordChain(r) ==
    /\ runner[r].at = "sql" /\ runner[r].todo = <<>>
    /\ recorded' = recorded \cup {Head(runner[r].pending)}
    /\ runner' = [runner EXCEPT ![r].at = "chain", ![r].pending = Tail(@)]
    /\ UNCHANGED <<schema, versions, identity, world>>

\* validate_migration_ledger and validate_schema_contract: the chain's columns,
\* and the names of its views.
ChainStands(release) ==
    /\ 1..release \subseteq recorded
    /\ \A t \in DOMAIN ChainContract[release].tables :
        schema.tables[t].columns >= ChainContract[release].tables[t]
    /\ \A v \in DOMAIN ChainContract[release].views :
        ChainContract[release].views[v] > 0 => schema.views[v] > 0

ChainDone(r) ==
    /\ runner[r].at = "chain" /\ runner[r].pending = <<>>
    /\ IF ChainStands(runner[r].release) THEN Go(r, "shared") /\ UNCHANGED stored ELSE Refuse(r)
    /\ UNCHANGED world

\* check_ledger; what is applied is what the ledger says, whatever is installed.
ReadLedger(r) ==
    /\ runner[r].at = "shared"
    /\ LET applied == Cardinality(versions)
       IN  IF ~LedgerStands(runner[r].release) \/ (applied = runner[r].release /\ ~Installed(applied))
           THEN Refuse(r)
           ELSE /\ runner' = [runner EXCEPT ![r].at = "resume", ![r].applied = applied,
                                            ![r].revision = identity.revision,
                                            ![r].identified = identity.version]
                /\ UNCHANGED stored
    /\ UNCHANGED world

Resume(r) ==
    /\ runner[r].at = "resume" /\ runner[r].applied < runner[r].release
    /\ IF Resumable(runner[r].applied, runner[r].applied + 1) /\ Preflight(runner[r].applied + 1)
       THEN /\ runner' = [runner EXCEPT ![r].at = "apply", ![r].todo = Phase(runner[r].applied + 1)]
            /\ UNCHANGED stored
       ELSE Refuse(r)
    /\ UNCHANGED world

RecordMigration(r) ==
    /\ runner[r].at = "apply" /\ runner[r].todo = <<>>
    /\ IF Installed(runner[r].applied + 1)
       THEN /\ versions' = versions \cup {runner[r].applied + 1}
            /\ runner' = [runner EXCEPT ![r].at = "identity", ![r].applied = @ + 1]
            /\ UNCHANGED <<schema, recorded, identity>>
       ELSE Refuse(r)
    /\ UNCHANGED world

Larger(a, b) == IF a > b THEN a ELSE b

NextRevision(previous, now) == Larger(now, previous + 1)

\* record_identity, after a version or at the end when only the identity is behind.
RecordIdentity(r) ==
    /\ runner[r].at = "identity"
    /\ \E now \in Clock :
        LET revision == NextRevision(runner[r].revision, now)
        IN  /\ identity' = [version |-> runner[r].applied, revision |-> revision]
            /\ runner' = [runner EXCEPT ![r].at = "resume", ![r].revision = revision,
                                        ![r].identified = runner[r].applied]
    /\ UNCHANGED <<schema, recorded, versions, world>>

Mutant_IdentityBehind(r) == FALSE
IdentityBehind(r) == runner[r].identified # runner[r].release

Finish(r) ==
    /\ runner[r].at = "resume" /\ runner[r].applied = runner[r].release
    /\ IF IdentityBehind(r) THEN Go(r, "identity") /\ UNCHANGED stored
       ELSE IF LedgerStands(runner[r].release) /\ Complete(runner[r].release)
               /\ Installed(runner[r].release)
       THEN Go(r, "off") /\ UNCHANGED stored
       ELSE Refuse(r)
    /\ UNCHANGED world

Stop(r) ==
    /\ runner[r].at \notin {"off", "refused"}
    /\ bounds.stops < MaxStops
    /\ bounds' = [bounds EXCEPT !.stops = @ + 1]
    /\ runner' = [runner EXCEPT ![r] = Off]
    /\ UNCHANGED <<stored, invalid, deployed, newest>>

----------------------------------------------------------------------------
(* Around them *)

\* Another release is deployed, an older one as well.
Deploy ==
    /\ bounds.deploys < MaxDeploys
    /\ \A r \in Runners : runner[r].at \in {"off", "refused"}
    /\ \E release \in Releases \ {deployed} :
        /\ deployed' = release
        /\ newest' = Larger(newest, release)
    /\ bounds' = [bounds EXCEPT !.deploys = @ + 1]
    /\ UNCHANGED <<stored, invalid, runner>>

\* A row arrives that breaks a rule no constraint of its table states yet; the
\* writers are stopped during an upgrade.
Write ==
    /\ bounds.writes < MaxWrites
    /\ \A r \in Runners : runner[r].at \in {"off", "refused"}
    /\ \E t \in SharedTables :
        /\ schema.tables[t].columns > 0
        /\ \E k \in UNION {Contracts[v].tables[t].constraints : v \in Releases}
                        \ schema.tables[t].constraints :
            invalid' = invalid \cup {k}
    /\ bounds' = [bounds EXCEPT !.writes = @ + 1]
    /\ UNCHANGED <<stored, deployed, newest, runner>>

Step(r) ==
    \/ BeginMigration(r) \/ RunStatement(r) \/ RecordChain(r) \/ ChainDone(r)
    \/ ReadLedger(r) \/ Resume(r) \/ RecordMigration(r) \/ RecordIdentity(r) \/ Finish(r)

Next ==
    \/ \E r \in Runners : Initialize(r) \/ Step(r) \/ StatementFails(r) \/ Stop(r)
    \/ Deploy \/ Write

\* A container that ends is started again, and what started goes on.
Fairness == \A r \in Runners : WF_vars(Initialize(r)) /\ WF_vars(Step(r))
Spec == Init /\ [][Next]_vars /\ Fairness

----------------------------------------------------------------------------
(* Properties *)

\* Wherever an upgrade was interrupted, the next start carries on: the release
\* that is deployed refuses the database only because of stored rows that break
\* its rules, or because a newer release has been there
\* (shared/warehouse/README.md 34-41, migration.rs 395-505).
RestartsHeal ==
    \A r \in Runners :
        runner[r].at = "refused" => invalid # {} \/ runner[r].release < newest

\* What a ledger says was applied is there: in the shared schema the applied
\* version or a part of the next one; of the chain's tables all the columns, of
\* its views the definition or what the next migration is making of them.
LedgersAreInstalled ==
    /\ versions # {} =>
        LET applied == Cardinality(versions)
        IN  Resumable(applied, IF applied + 1 \in Releases THEN applied + 1 ELSE applied)
    /\ recorded # {} =>
        LET last == Cardinality(recorded)
            next == IF last + 1 \in Releases THEN last + 1 ELSE last
        IN  /\ \A t \in DOMAIN ChainContract[last].tables :
                schema.tables[t].columns >= ChainContract[last].tables[t]
            /\ \A v \in DOMAIN ChainContract[last].views :
                schema.views[v] \in {ChainContract[last].views[v], ChainContract[next].views[v]}
                                       \cup (IF next # last THEN {0} ELSE {})

\* A constraint is installed only over rows that obey it (preflight before every
\* upgrade, migration.rs 507-560).
StoredRowsObey ==
    \A t \in SharedTables : schema.tables[t].constraints \cap invalid = {}

\* The identity never runs ahead of the ledger, and every change of it carries a
\* larger revision, although the clock may go back (migration.rs 580-602).
IdentityAdvances ==
    [][identity' # identity =>
        identity'.revision > identity.revision /\ identity'.version \in versions']_vars

\* Once the newest release stays deployed, the upgrade is completed, the identity
\* included, and from then on every start accepts the database
\* (shared/warehouse/README.md 39: restarting interrupted upgrades is supported).
Completes ==
    <>[](invalid = {} /\ deployed = newest =>
            Complete(deployed) /\ \A r \in Runners : runner[r].at # "refused")
=============================================================================
