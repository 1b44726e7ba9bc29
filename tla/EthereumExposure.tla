---------------------------- MODULE EthereumExposure ----------------------------
(***************************************************************************)
(* What Ethereum makes of reviewed labels: the CSV import                  *)
(* (dockerizd_ethereum/src/intelligence.rs), the analytics worker with its *)
(* clustering and exposure runs (clustering.rs, exposure.rs,               *)
(* bin/ethereum_analytics_worker.rs) beside the same exposure run as a     *)
(* command, and the assessment of a wallet (risk.rs).  Every INSERT is a   *)
(* step of its own, and each process may end between two.                  *)
(*                                                                         *)
(* A share is counted in twelfths, the age of a transfer as a weight.      *)
(* Scores are multiplied by Whole * Decay(0), so that they stay integers.  *)
(* Left out: semantic and pass-through evidence, which only adds signals   *)
(* of its own, deployment claims, and the texts of labels and signals.     *)
(***************************************************************************)
EXTENDS Integers, Sequences, FiniteSets, FiniteSetsExt, SequencesExt

CONSTANTS Csv,        \* rows an analyst may import: [address, entity, service, seed, level, status]
          Transfers,  \* canonical transfers: id -> [from, to, asset, amount, weight]
          Published,  \* what may be canonical at first: sets of transfers
          Wallets,    \* addresses that are assessed; addresses are numbers, as min(address) is an anchor
          Runners,    \* processes that propagate: the worker, the command
          MaxHops, MaxPaths,                \* the options of a run
          MaxImports, MaxRuns, MaxAssessments, MaxFailures  \* bounds

VARIABLES labels,       \* entity_labels: label id -> review status
          reviews,      \* intelligence_reviews: [label, decision]
          entities,     \* address_entities, by address and entity
          importer,     \* the import: [row, at]
          visible,      \* the transfers that are canonical
          claims,       \* address_cluster_claims, by entity and address: [anchor]
          memberships,  \* address_cluster_memberships_active: [entity, address]
          runs,         \* exposure_runs in the order they started
          paths,        \* address_exposure_paths
          runner,       \* the propagating processes
          engine,       \* an assessment on its way
          signals,      \* wallet_risk_signals: [id, type, contribution]
          assessments,  \* wallet_risk_assessments: [id, score, types, from]
          bounds        \* imports, runs, assessments and failures so far

vars == <<labels, reviews, entities, importer, visible, claims, memberships, runs, paths, runner,
          engine, signals, assessments, bounds>>
labelled == <<labels, reviews, entities, importer>>
clustered == <<claims, memberships>>
exposed == <<runs, paths>>
assessed == <<engine, signals, assessments>>

Label(row) == <<row.address, row.entity>>
Idle == [at |-> "idle", run |-> 0, hop |-> 0, direction |-> "SEED"]
NoRow == [at |-> "off"]

Init ==
    /\ labels = {} /\ reviews = {} /\ entities = {}
    /\ importer = NoRow
    /\ visible \in Published
    /\ claims = {} /\ memberships = {}
    /\ runs = <<>> /\ paths = {}
    /\ runner = [r \in Runners |-> Idle]
    /\ engine = NoRow
    /\ signals = {} /\ assessments = {}
    /\ bounds = [imports |-> 0, runs |-> 0, assessments |-> 0, failures |-> 0]

----------------------------------------------------------------------------
(* import_entity_labels_csv: one row of the file *)

SeedIsFit(row) == row.seed => row.level > 0

ImportLabel(row) ==
    /\ importer = NoRow /\ bounds.imports < MaxImports
    /\ SeedIsFit(row)
    /\ labels' = {l \in labels : l.id # Label(row)} \cup {[id |-> Label(row), status |-> row.status]}
    /\ importer' = IF row.status = "PENDING" THEN NoRow ELSE [at |-> "review", row |-> row]
    /\ bounds' = [bounds EXCEPT !.imports = @ + 1]
    /\ UNCHANGED <<reviews, entities, visible, clustered, exposed, runner, assessed>>

ImportReview ==
    /\ importer.at = "review"
    /\ reviews' = reviews \cup {[label |-> Label(importer.row), decision |-> importer.row.status]}
    /\ importer' = IF importer.row.status = "REJECTED" THEN NoRow ELSE [importer EXCEPT !.at = "entity"]
    /\ UNCHANGED <<labels, entities, visible, clustered, exposed, runner, assessed, bounds>>

\* ReplacingMergeTree by address and entity: the newer row stands.
ImportEntity ==
    /\ importer.at = "entity"
    /\ LET row == importer.row
       IN  entities' = {e \in entities : Label(e) # Label(row)}
                           \cup {[address |-> row.address, entity |-> row.entity, service |-> row.service,
                                  seed |-> row.seed, level |-> row.level]}
    /\ importer' = NoRow
    /\ UNCHANGED <<labels, reviews, visible, clustered, exposed, runner, assessed, bounds>>

ImportEnds ==
    /\ importer # NoRow /\ bounds.failures < MaxFailures
    /\ importer' = NoRow
    /\ bounds' = [bounds EXCEPT !.failures = @ + 1]
    /\ UNCHANGED <<labels, reviews, entities, visible, clustered, exposed, runner, assessed>>

Service(a) == \E e \in entities : e.address = a /\ e.service
Seeds == {e \in entities : e.seed /\ e.level > 0}

----------------------------------------------------------------------------
(* discover_address_clusters: a star around the smallest address of each    *)
(* entity, then its members                                                 *)

Members(entity) == {e.address : e \in {f \in entities : f.entity = entity}}
Entities == {e.entity : e \in entities}

ClaimsOf ==
    {[entity |-> e.entity, address |-> e.address, anchor |-> Min(Members(e.entity))] :
        e \in {f \in entities : f.address # Min(Members(f.entity))}}

\* claim_id names the entity and the address, never the anchor.
ReplaceClaims(old, new) ==
    new \cup {o \in old : \A n \in new : <<o.entity, o.address>> # <<n.entity, n.address>>}

StartClustering(r) ==
    /\ runner[r].at = "idle" /\ bounds.runs < MaxRuns
    /\ runner' = [runner EXCEPT ![r].at = "claims"]
    /\ bounds' = [bounds EXCEPT !.runs = @ + 1]
    /\ UNCHANGED <<labelled, visible, clustered, exposed, assessed>>

InsertClaims(r) ==
    /\ runner[r].at = "claims"
    /\ claims' = ReplaceClaims(claims, ClaimsOf)
    /\ runner' = [runner EXCEPT ![r].at = "memberships"]
    /\ UNCHANGED <<labelled, visible, memberships, exposed, assessed, bounds>>

InsertMemberships(r) ==
    /\ runner[r].at = "memberships"
    /\ memberships' = memberships \cup {[entity |-> e.entity, address |-> e.address] : e \in entities}
    /\ runner' = [runner EXCEPT ![r].at = "clustered"]
    /\ UNCHANGED <<labelled, visible, claims, exposed, assessed, bounds>>

----------------------------------------------------------------------------
(* propagate_exposure *)

Directions == {"RECEIVED_FROM_SEED", "SENT_TO_SEED"}
Whole == 12
Decay(hop) == 2 ^ (MaxHops - hop)

Source(id, direction) == IF direction = "RECEIVED_FROM_SEED" THEN Transfers[id].from ELSE Transfers[id].to
Target(id, direction) == IF direction = "RECEIVED_FROM_SEED" THEN Transfers[id].to ELSE Transfers[id].from

Share(id, direction, seen) ==
    (Whole * Transfers[id].amount)
        \div MapThenSumSet(LAMBDA t : Transfers[t].amount,
                 {t \in seen : /\ Source(t, direction) = Source(id, direction)
                               /\ Transfers[t].asset = Transfers[id].asset})

Hop(p) == Len(p.ids)
Subject(p) == Last(p.walk)
Score(p) == p.level * Decay(Hop(p)) * p.share * p.weight
Less(a, b) == IF a < b THEN a ELSE b

SeedPath(run, e) ==
    [run |-> run, seed |-> e.address, entity |-> e.entity, level |-> e.level, direction |-> "SEED",
     asset |-> "", share |-> Whole, weight |-> 2, walk |-> <<e.address>>, ids |-> <<>>]

Extension(p, id, direction, seen) ==
    [p EXCEPT !.direction = direction, !.asset = Transfers[id].asset,
              !.share = Less(@, Share(id, direction, seen)), !.weight = Less(@, Transfers[id].weight),
              !.walk = Append(@, Target(id, direction)), !.ids = Append(@, id)]

\* One asset, no address twice, and nothing passes through a service.
Extends(p, id, direction) ==
    /\ p.direction \in {"SEED", direction}
    /\ Source(id, direction) = Subject(p)
    /\ p.asset \in {"", Transfers[id].asset}
    /\ Hop(p) = 0 \/ ~Service(Subject(p))
    /\ Target(id, direction) \notin Range(p.walk)

\* LIMIT BY and ORDER BY name columns that the SELECT gives no alias, so they
\* are those of the path that goes on (`on`), not of the longer one (`path`):
\* of every seed and address gone on from, MaxPaths are kept, those that go on
\* from the best paths first, and of equal ones any.
Group(p) == <<p.seed, Subject(p)>>
Kept(candidates) ==
    {kept \in SUBSET candidates :
        \A c \in candidates :
            LET group == {d \in candidates : Group(d.on) = Group(c.on)}
                chosen == group \cap kept
            IN  /\ Cardinality(chosen) = Less(MaxPaths, Cardinality(group))
                /\ \A d \in chosen, o \in group \ chosen : Score(d.on) >= Score(o.on)}

PathsOf(run) == {p \in paths : p.run = run}

StartExposure(r) ==
    /\ runner[r].at \in {"idle", "clustered"} /\ bounds.runs < MaxRuns
    /\ runs' = Append(runs, [status |-> "RUNNING", count |-> 0, base |-> visible])
    /\ runner' = [runner EXCEPT ![r] = [Idle EXCEPT !.at = "seeds", !.run = Len(runs) + 1]]
    /\ bounds' = [bounds EXCEPT !.runs = @ + 1]
    /\ UNCHANGED <<labelled, visible, clustered, paths, assessed>>

InsertSeeds(r) ==
    /\ runner[r].at = "seeds"
    /\ paths' = paths \cup {SeedPath(runner[r].run, e) : e \in Seeds}
    /\ runner' = [runner EXCEPT ![r].at = IF Seeds = {} THEN "complete" ELSE "hops",
                                ![r].hop = 1, ![r].direction = "RECEIVED_FROM_SEED"]
    /\ UNCHANGED <<labelled, visible, clustered, runs, assessed, bounds>>

ExpandHop(r) ==
    LET w == runner[r]
        before == {p \in PathsOf(w.run) : Hop(p) = w.hop - 1}
        candidates == {[on |-> p, path |-> Extension(p, id, w.direction, visible)] :
                          <<p, id>> \in {x \in before \X visible : Extends(x[1], x[2], w.direction)}}
    IN  /\ w.at = "hops" /\ w.hop <= MaxHops
        /\ \E kept \in Kept(candidates) : paths' = paths \cup {c.path : c \in kept}
        /\ runner' = [runner EXCEPT
              ![r].hop = IF w.direction = "SENT_TO_SEED" THEN w.hop + 1 ELSE w.hop,
              ![r].direction = IF w.direction = "SENT_TO_SEED" THEN "RECEIVED_FROM_SEED" ELSE "SENT_TO_SEED"]
        /\ UNCHANGED <<labelled, visible, clustered, runs, assessed, bounds>>

\* write_run with what was counted.
CompleteRun(r) ==
    LET w == runner[r]
        found == PathsOf(w.run)
    IN  /\ w.at = "complete" \/ (w.at = "hops" /\ w.hop > MaxHops)
        /\ runs' = [runs EXCEPT ![w.run].status = IF w.at = "complete" THEN "NO_SEEDS" ELSE "COMPLETE",
                                ![w.run].count = Cardinality({p \in found : Hop(p) > 0})]
        /\ runner' = [runner EXCEPT ![r] = Idle]
        /\ UNCHANGED <<labelled, visible, clustered, paths, assessed, bounds>>

\* A statement fails: the run is FAILED, unless the process ended or that row
\* cannot be written either, and then it stays RUNNING.
RunFails(r) ==
    /\ runner[r].at # "idle" /\ bounds.failures < MaxFailures
    /\ runs' \in {runs} \cup (IF runner[r].run = 0 THEN {}
                              ELSE {[runs EXCEPT ![runner[r].run].status = "FAILED"]})
    /\ runner' = [runner EXCEPT ![r] = Idle]
    /\ bounds' = [bounds EXCEPT !.failures = @ + 1]
    /\ UNCHANGED <<labelled, visible, clustered, paths, assessed>>

Mutant_LatestCompleteRun ==
    Max({0} \cup {i \in DOMAIN runs : runs[i].status \in {"COMPLETE", "FAILED"}})
\* latest_complete_run: the newest run counts, and only when it is complete.
LatestCompleteRun ==
    IF runs # <<>> /\ Last(runs).status = "COMPLETE" THEN Len(runs) ELSE 0

\* Ingestion goes on.
Ingest ==
    /\ \E id \in DOMAIN Transfers \ visible : visible' = visible \cup {id}
    /\ UNCHANGED <<labelled, clustered, exposed, runner, assessed, bounds>>

----------------------------------------------------------------------------
(* assess *)

\* address_exposure_best_paths: one path of a run, subject, seed and direction.
BestPaths(run) ==
    LET found == {p \in PathsOf(run) : Hop(p) > 0}
        Before(p, q) == Score(p) > Score(q) \/ (Score(p) = Score(q) /\ Hop(p) <= Hop(q))
    IN  {p \in found : \A q \in found :
            <<Group(q), q.direction>> = <<Group(p), p.direction>> => Before(p, q)}

Strongest(found) == IF found = {} THEN {} ELSE {p \in found : \A q \in found : Score(p) >= Score(q)}

Rule == [CONFIRMED_ILLICIT_SEED |-> 100, DIRECT_RECEIVED_EXPOSURE |-> 45,
         DIRECT_SENT_EXPOSURE |-> 30, INDIRECT_EXPOSURE |-> 25]

StartAssessment(a) ==
    /\ engine = NoRow /\ bounds.assessments < MaxAssessments
    /\ engine' = [at |-> "entity", address |-> a, block |-> visible, run |-> LatestCompleteRun,
                  found |-> {}]
    /\ bounds' = [bounds EXCEPT !.assessments = @ + 1]
    /\ UNCHANGED <<labelled, visible, clustered, exposed, runner, signals, assessments>>

Signal(type, contribution, path) == [type |-> type, contribution |-> contribution, path |-> path]
NoPath == <<>>

\* load_entity_evidence takes the largest level and the seed flag over all
\* entities of the address.
ReadEntity ==
    LET own == {e \in entities : e.address = engine.address}
    IN  /\ engine.at = "entity"
        /\ engine' = [engine EXCEPT !.at = "paths",
                         !.found = IF \E e \in own : e.seed
                                   THEN {Signal("CONFIRMED_ILLICIT_SEED",
                                                Rule["CONFIRMED_ILLICIT_SEED"] * Max({e.level : e \in own}),
                                                NoPath)}
                                   ELSE {}]
        /\ UNCHANGED <<labelled, visible, clustered, exposed, runner, signals, assessments, bounds>>

\* Only paths of seeds that are seeds now.
SeedStands(p) == \E e \in Seeds : e.address = p.seed /\ e.entity = p.entity

ReadPaths ==
    LET own == IF engine.run = 0 THEN {}
               ELSE {p \in BestPaths(engine.run) : Subject(p) = engine.address /\ SeedStands(p)}
        of(type, found) == {Signal(type, Rule[type] * Score(p), p) : p \in found}
        direct(direction) == Strongest({p \in own : p.direction = direction /\ Hop(p) = 1})
        indirect == Strongest({p \in own : Hop(p) > 1})
        one(found) == IF found = {} THEN {{}} ELSE {{s} : s \in found}
    IN  /\ engine.at = "paths"
        /\ \E received \in one(of("DIRECT_RECEIVED_EXPOSURE", direct("RECEIVED_FROM_SEED"))),
              sent \in one(of("DIRECT_SENT_EXPOSURE", direct("SENT_TO_SEED"))),
              far \in one(of("INDIRECT_EXPOSURE", indirect)) :
              engine' = [engine EXCEPT !.at = "signals", !.found = @ \cup received \cup sent \cup far]
        /\ UNCHANGED <<labelled, visible, clustered, exposed, runner, signals, assessments, bounds>>

\* The same address, checkpoint and run make the same assessment and signal ids.
AssessmentId == <<engine.address, engine.block, engine.run>>

PersistSignals ==
    /\ engine.at = "signals"
    /\ LET types == {s.type : s \in engine.found}
       IN  signals' = {s \in signals : s.id # AssessmentId \/ s.type \notin types}
                          \cup {[id |-> AssessmentId, type |-> s.type, contribution |-> s.contribution,
                                 path |-> s.path] : s \in engine.found}
    /\ engine' = [engine EXCEPT !.at = "assessment"]
    /\ UNCHANGED <<labelled, visible, clustered, exposed, runner, assessments, bounds>>

PersistAssessment ==
    /\ engine.at = "assessment"
    /\ assessments' = {a \in assessments : a.id # AssessmentId}
                          \cup {[id |-> AssessmentId, types |-> {s.type : s \in engine.found}]}
    /\ engine' = NoRow
    /\ UNCHANGED <<labelled, visible, clustered, exposed, runner, signals, bounds>>

AssessmentEnds ==
    /\ engine # NoRow /\ bounds.failures < MaxFailures
    /\ engine' = NoRow
    /\ bounds' = [bounds EXCEPT !.failures = @ + 1]
    /\ UNCHANGED <<labelled, visible, clustered, exposed, runner, signals, assessments>>

Next ==
    \/ \E row \in Csv : ImportLabel(row)
    \/ ImportReview \/ ImportEntity \/ ImportEnds \/ Ingest
    \/ \E r \in Runners :
        \/ StartClustering(r) \/ InsertClaims(r) \/ InsertMemberships(r)
        \/ StartExposure(r) \/ InsertSeeds(r) \/ ExpandHop(r) \/ CompleteRun(r) \/ RunFails(r)
    \/ \E a \in Wallets : StartAssessment(a)
    \/ ReadEntity \/ ReadPaths \/ PersistSignals \/ PersistAssessment \/ AssessmentEnds

Spec == Init /\ [][Next]_vars

----------------------------------------------------------------------------
(* Properties *)

\* A run that readers take lost nothing but what its option cut: each path that
\* could go on over a transfer that was canonical when the run started went on,
\* unless MaxPaths others of its seed went on from the same address, and from
\* paths that score no less (exposure.rs 61-73, 119-200, 286-425).
GoesOn(p, q) == /\ q.ids # <<>> /\ Front(q.ids) = p.ids /\ Front(q.walk) = p.walk
                /\ q.entity = p.entity /\ p.direction \in {"SEED", q.direction}

CurrentRunIsWhole ==
    LET run == LatestCompleteRun
        found == PathsOf(run)
    IN  run # 0 =>
        \A p \in found, id \in runs[run].base, direction \in Directions :
            Hop(p) < MaxHops /\ Extends(p, id, direction) =>
                LET rivals == {x \in found \X found : /\ GoesOn(x[1], x[2]) /\ Group(x[1]) = Group(p)
                                                      /\ x[2].direction = direction /\ Hop(x[1]) = Hop(p)}
                IN  \/ \E x \in rivals : x[1] = p /\ Last(x[2].ids) = id
                    \/ /\ Cardinality(rivals) = MaxPaths
                       /\ \A x \in rivals : Score(x[1]) >= Score(p)

\* What an assessment counted is written down with it: each of its signals has
\* a row, and an exposure signal the walk of a completed run that leads to a
\* seed whose approval was recorded (risk.rs 130-345, 533-595).
AssessmentsAreExplained ==
    \A a \in assessments, type \in UNION {b.types : b \in assessments} :
        type \in a.types =>
            \E s \in signals :
                /\ s.id = a.id /\ s.type = type
                /\ s.path # NoPath =>
                    /\ runs[a.id[3]].status = "COMPLETE" /\ s.path \in PathsOf(a.id[3])
                    /\ [label |-> <<s.path.seed, s.path.entity>>, decision |-> "APPROVED"] \in reviews
=============================================================================
