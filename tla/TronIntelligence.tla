--------------------------- MODULE TronIntelligence ---------------------------
(***************************************************************************)
(* Who is behind a TRON address: labels that are submitted and reviewed    *)
(* (dockerizd_tron/app/src/services/tron/entity_intelligence.rs), and the  *)
(* worker that proposes clusters of addresses from the stored transfers    *)
(* (tasks/analytics.rs, services/tron/address_clustering.rs), for review   *)
(* as well.  A decision is recorded first and then written into the tables *)
(* that readers take, one INSERT at a time, by commands that may run at    *)
(* once and may end anywhere.                                              *)
(*                                                                         *)
(* A block holds the addresses that moved funds in a telling way; how often *)
(* is counted in blocks.  Left out: names, texts and sources of labels, the *)
(* order of the candidates (any of them may come first) and the worker's   *)
(* status file.                                                            *)
(***************************************************************************)
EXTENDS Integers, SequencesExt

CONSTANTS
    Labels,       \* label -> [address, entity, exchange, hot, risky]
    Candidates,   \* what the worker looks for: [address, anchor]; anchor "" is a service
    Reviewers,    \* commands that review
    Threshold,    \* blocks in which a candidate must show
    MaxClaims, Batch, Overlap,                           \* settings of the worker
    MaxBlocks, MaxRestores, MaxReplays, MaxReviews, MaxSwitches, MaxStops   \* bounds

VARIABLES
    source,       \* the worker's own row of intelligence_sources
    labels,       \* entity_labels
    reviews,      \* intelligence_reviews: [subject, decision, at]
    tables,       \* address_entity, exchange_addresses, exposure_seeds: address -> row
    claims,       \* address_cluster_claims, in the order they were inserted
    members,      \* address_cluster_memberships: <<address, cluster>> -> row
    versions,     \* cluster_versions: [cluster, version, count]
    reviewer,     \* the commands on their way
    blocks,       \* the ingested blocks: [shows, hash, complete]; block n is blocks[n + 1]
    saved,        \* progress.json: [last, hash], and for the properties whether it slipped
    worker,       \* the analytics worker
    scanned,      \* the hashes of blocks that a finished discovery has read
    replayed,     \* the hashes of blocks that were ever replayed
    sequential,   \* whether every review ended before the next one began
    bounds
vars == <<source, labels, reviews, tables, claims, members, versions, reviewer, blocks, saved,
          worker, scanned, replayed, sequential, bounds>>
ingested == <<blocks, scanned, replayed>>
decided == <<labels, reviews, tables, members, versions, reviewer, sequential>>
proposed == <<source, claims, saved, worker>>

Tables == <<"entity", "exchange", "seed">>
NoRow == [of |-> <<>>, active |-> FALSE, version |-> 0]
NoReview == [at |-> "idle", subject |-> <<>>, decision |-> "", time |-> 0, table |-> 0,
             version |-> 0, others |-> 0]
NoProgress == [last |-> -1, hash |-> 0, slipped |-> FALSE]
Asleep(progress) == [at |-> "idle", progress |-> progress, tip |-> -1, from |-> 0, to |-> -1,
                     hash |-> 0, found |-> <<>>, read |-> {}]

Addresses == {Labels[l].address : l \in DOMAIN Labels}
                 \cup {c.address : c \in Candidates} \cup ({c.anchor : c \in Candidates} \ {""})

Init ==
    /\ source = "none"
    /\ labels = {} /\ reviews = {} /\ claims = <<>>
    /\ tables = [t \in {"entity", "exchange", "seed"} |-> [a \in Addresses |-> NoRow]]
    /\ members = [k \in {} |-> NoRow] /\ versions = {}
    /\ reviewer = [r \in Reviewers |-> NoReview]
    /\ blocks = <<>> /\ scanned = {} /\ replayed = {}
    /\ saved = NoProgress /\ worker = Asleep(NoProgress)
    /\ sequential = TRUE
    /\ bounds = [hash |-> 0, restores |-> 0, replays |-> 0, reviews |-> 0, switches |-> 0, stops |-> 0]

----------------------------------------------------------------------------
(* Labels and claims as subjects of a review *)

\* submit_entity_label; a label that is submitted again is the same row.
SubmitLabel(l) ==
    /\ l \notin labels
    /\ labels' = labels \cup {l}
    /\ UNCHANGED <<reviews, tables, members, versions, reviewer, sequential, ingested, proposed, bounds>>

LabelOf(l) == <<"label", l>>
ClaimOf(i) == <<"claim", claims[i].claim>>
Subjects == {LabelOf(l) : l \in labels} \cup {ClaimOf(i) : i \in DOMAIN claims}
IsLabel(subject) == subject[1] = "label"
AddressOf(subject) == IF IsLabel(subject) THEN Labels[subject[2]].address ELSE subject[2].address
Member(claim) == <<claim.address, claim.cluster>>

Approves(r) == reviewer[r].decision = "APPROVED"
Row(table, a) == tables[table][a]
ActiveExchange(a) == Row("exchange", a).active

----------------------------------------------------------------------------
(* review_intelligence_subject *)

Busy == {r \in Reviewers : reviewer[r].at # "idle"}

\* The subject is loaded; the decision has the time at which the command began.
Decide(r) ==
    /\ reviewer[r].at = "idle" /\ bounds.reviews < MaxReviews
    /\ \E s \in Subjects, decision \in {"APPROVED", "REJECTED"} :
        reviewer' = [reviewer EXCEPT ![r] = [NoReview EXCEPT !.at = "record", !.subject = s,
                                                 !.decision = decision, !.time = bounds.reviews + 1]]
    /\ sequential' = (sequential /\ Busy = {})
    /\ bounds' = [bounds EXCEPT !.reviews = @ + 1]
    /\ UNCHANGED <<labels, reviews, tables, members, versions, ingested, proposed>>

Goes(r, at) == reviewer' = [reviewer EXCEPT ![r].at = at]

\* insert_review
Record(r) ==
    LET v == reviewer[r]
    IN  /\ v.at = "record"
        /\ reviews' = reviews \cup {[subject |-> v.subject, decision |-> v.decision, at |-> v.time]}
        /\ reviewer' = [reviewer EXCEPT ![r].at = IF IsLabel(v.subject) THEN "check" ELSE "version",
                                        ![r].table = 1]
        /\ UNCHANGED <<labels, tables, members, versions, sequential, ingested, proposed, bounds>>

Concerns(label, table) ==
    CASE table = "entity" -> TRUE
      [] table = "exchange" -> Labels[label].exchange
      [] table = "seed" -> Labels[label].risky

\* Mutant: a rejection takes back whatever the row says.
Mutant_Matches(table, subject) == TRUE

\* projection_matches, current_exposure_seed_matches: the row is this subject's.
Matches(table, subject) == Row(table, AddressOf(subject)).of = subject

NextTable(r) ==
    LET next == reviewer[r].table + 1
    IN  reviewer' = [reviewer EXCEPT ![r] = IF next > Len(Tables) THEN NoReview
                                            ELSE [@ EXCEPT !.at = "check", !.table = next]]

\* project_entity_review: a rejection takes back only what the label gave.
Check(r) ==
    LET v == reviewer[r]
        table == Tables[v.table]
    IN  /\ v.at = "check"
        /\ IF Concerns(v.subject[2], table) /\ (Approves(r) \/ Matches(table, v.subject))
           THEN Goes(r, "write") ELSE NextTable(r)
        /\ UNCHANGED <<labels, reviews, tables, members, versions, sequential, ingested, proposed, bounds>>

WriteRow(table, subject, active) ==
    tables' = [tables EXCEPT ![table][AddressOf(subject)] =
                   [of |-> subject, active |-> active, version |-> 0]]

Write(r) ==
    /\ reviewer[r].at = "write"
    /\ WriteRow(Tables[reviewer[r].table], reviewer[r].subject, Approves(r))
    /\ NextTable(r)
    /\ UNCHANGED <<labels, reviews, members, versions, sequential, ingested, proposed, bounds>>

----------------------------------------------------------------------------
(* project_cluster_review *)

ReadVersion(r) ==
    LET cluster == reviewer[r].subject[2].cluster
    IN  /\ reviewer[r].at = "version"
        /\ reviewer' = [reviewer EXCEPT ![r].at = "count",
              ![r].version = 1 + Max({0} \cup {v.version : v \in {w \in versions : w.cluster = cluster}})]
        /\ UNCHANGED <<labels, reviews, tables, members, versions, sequential, ingested, proposed, bounds>>

\* The active members of the cluster besides the one under review.
Others(claim) == {m \in DOMAIN members :
                      m[2] = claim.cluster /\ m[1] # claim.address /\ members[m].active}

CountOthers(r) ==
    /\ reviewer[r].at = "count"
    /\ reviewer' = [reviewer EXCEPT ![r].at = "member",
                                    ![r].others = Cardinality(Others(reviewer[r].subject[2]))]
    /\ UNCHANGED <<labels, reviews, tables, members, versions, sequential, ingested, proposed, bounds>>

WriteMember(r) ==
    LET v == reviewer[r]
        m == Member(v.subject[2])
    IN  /\ v.at = "member"
        /\ members' = [k \in DOMAIN members \cup {m} |->
                           IF k = m THEN [of |-> v.subject, active |-> Approves(r), version |-> v.version]
                           ELSE members[k]]
        /\ Goes(r, "publish")
        /\ UNCHANGED <<labels, reviews, tables, versions, sequential, ingested, proposed, bounds>>

\* One row of a cluster and a version: a second one replaces it.
WriteVersion(r) ==
    LET v == reviewer[r]
        cluster == v.subject[2].cluster
    IN  /\ v.at = "publish"
        /\ versions' = {w \in versions : <<w.cluster, w.version>> # <<cluster, v.version>>}
               \cup {[cluster |-> cluster, version |-> v.version,
                      count |-> v.others + (IF Approves(r) THEN 1 ELSE 0)]}
        /\ Goes(r, "match")
        /\ UNCHANGED <<labels, reviews, tables, members, sequential, ingested, proposed, bounds>>

Anchored(claim) == \E a \in claim.anchors : ActiveExchange(a)

\* project_cluster_exchange_address: without an active anchor nothing is
\* written, a rejection neither.
MatchExchange(r) ==
    LET v == reviewer[r]
    IN  /\ v.at = "match"
        /\ reviewer' = [reviewer EXCEPT ![r] = IF Approves(r) \/ Matches("exchange", v.subject)
                                               THEN [@ EXCEPT !.at = "anchor"] ELSE NoReview]
        /\ UNCHANGED <<labels, reviews, tables, members, versions, sequential, ingested, proposed, bounds>>

ReadAnchor(r) ==
    LET v == reviewer[r]
    IN  /\ v.at = "anchor"
        /\ reviewer' = [reviewer EXCEPT ![r] = IF Anchored(v.subject[2])
                                               THEN [@ EXCEPT !.at = "row"] ELSE NoReview]
        /\ UNCHANGED <<labels, reviews, tables, members, versions, sequential, ingested, proposed, bounds>>

WriteExchange(r) ==
    /\ reviewer[r].at = "row"
    /\ WriteRow("exchange", reviewer[r].subject, Approves(r))
    /\ reviewer' = [reviewer EXCEPT ![r] = NoReview]
    /\ UNCHANGED <<labels, reviews, members, versions, sequential, ingested, proposed, bounds>>

\* The command ends, or a query of it fails.
ReviewEnds(r) ==
    /\ reviewer[r].at # "idle" /\ bounds.stops < MaxStops
    /\ reviewer' = [reviewer EXCEPT ![r] = NoReview]
    /\ sequential' = FALSE
    /\ bounds' = [bounds EXCEPT !.stops = @ + 1]
    /\ UNCHANGED <<labels, reviews, tables, members, versions, ingested, proposed>>

Review(r) ==
    \/ Decide(r) \/ Record(r) \/ Check(r) \/ Write(r)
    \/ ReadVersion(r) \/ CountOthers(r) \/ WriteMember(r) \/ WriteVersion(r)
    \/ MatchExchange(r) \/ ReadAnchor(r) \/ WriteExchange(r) \/ ReviewEnds(r)

----------------------------------------------------------------------------
(* Ingestion, as the worker meets it *)

Tip == Len(blocks) - 1

Ingest ==
    /\ Len(blocks) < MaxBlocks
    /\ \E shows \in SUBSET Candidates :
        blocks' = Append(blocks, [shows |-> shows, hash |-> bounds.hash + 1, complete |-> TRUE])
    /\ bounds' = [bounds EXCEPT !.hash = @ + 1]
    /\ UNCHANGED <<decided, proposed, scanned, replayed>>

\* A replay takes a block back to PROCESSING until it is complete again.
Replay ==
    /\ \E i \in DOMAIN blocks :
        /\ blocks[i].complete => bounds.replays < MaxReplays
        /\ blocks' = [blocks EXCEPT ![i].complete = ~@]
        /\ replayed' = replayed \cup {blocks[i].hash}
        /\ bounds' = [bounds EXCEPT !.replays = IF blocks[i].complete THEN @ + 1 ELSE @]
    /\ UNCHANGED <<decided, proposed, scanned>>

\* Blocks are taken back, to be ingested anew.  A cursor slips when that happens
\* between the worker's look at it and its look at the boundary, and the range
\* no longer follows what is left.
Restore ==
    /\ bounds.restores < MaxRestores
    /\ \E k \in 1 .. Len(blocks) - 1 :
        /\ blocks' = SubSeq(blocks, 1, k)
        /\ worker' = IF worker.at = "boundary" /\ k < worker.from
                     THEN [worker EXCEPT !.progress.slipped = TRUE] ELSE worker
    /\ bounds' = [bounds EXCEPT !.restores = @ + 1]
    /\ UNCHANGED <<decided, source, claims, saved, scanned, replayed>>

\* An analyst switches the worker's source off or on.
SwitchSource ==
    /\ source # "none" /\ bounds.switches < MaxSwitches
    /\ source' = IF source = "active" THEN "disabled" ELSE "active"
    /\ bounds' = [bounds EXCEPT !.switches = @ + 1]
    /\ UNCHANGED <<decided, claims, saved, worker, ingested>>

----------------------------------------------------------------------------
(* The worker's cycle *)

HashOf(n) == IF n + 1 \in DOMAIN blocks /\ blocks[n + 1].complete THEN blocks[n + 1].hash ELSE 0

\* A failed cycle ends the process; the next one reads progress.json.
Fails == worker' = Asleep(saved)

\* ensure_internal_source
Begin ==
    /\ worker.at = "idle"
    /\ source # "disabled"
    /\ source' = "active"
    /\ worker' = [worker EXCEPT !.at = "plan"]
    /\ UNCHANGED <<decided, claims, saved, ingested, bounds>>

ReadTip ==
    /\ worker.at = "plan"
    /\ worker' = IF Tip < 0 THEN [worker EXCEPT !.at = "idle"]
                 ELSE [worker EXCEPT !.at = "compare", !.tip = Tip]
    /\ UNCHANGED <<decided, source, claims, saved, ingested, bounds>>

\* cluster_range
ClusterRange(last, tip) ==
    LET next == last + 1
    IN  IF next > tip THEN [from |-> Max({0, tip - (Batch - 1)}), to |-> tip]
        ELSE [from |-> Max({0, next - Overlap}), to |-> Min({tip, next + Batch - 1})]

\* A cursor whose block is not what it was is forgotten.
Kept(p, tip) == IF p.last > tip \/ HashOf(p.last) # p.hash THEN NoProgress ELSE p

Plan ==
    LET progress == Kept(worker.progress, worker.tip)
        range == ClusterRange(progress.last, worker.tip)
    IN  /\ worker.at = "compare"
        /\ worker' = [worker EXCEPT !.at = "boundary", !.progress = progress,
                                    !.from = range.from, !.to = range.to]
        /\ UNCHANGED <<decided, source, claims, saved, ingested, bounds>>

ReadBoundary ==
    /\ worker.at = "boundary"
    /\ IF HashOf(worker.to) = 0 THEN Fails
       ELSE worker' = [worker EXCEPT !.at = "find", !.hash = HashOf(worker.to)]
    /\ UNCHANGED <<decided, source, claims, saved, ingested, bounds>>

----------------------------------------------------------------------------
(* discover_address_cluster_claims *)

\* Facts of a block under replay are out of sight.
ReadableBlocks == {n \in worker.from .. worker.to : HashOf(n) # 0}
Evidence(c) == {n \in ReadableBlocks : c \in blocks[n + 1].shows}

\* An anchor is an exchange address of a trusted role.
Hot(a) == /\ ActiveExchange(a)
          /\ IsLabel(Row("exchange", a).of) /\ Labels[Row("exchange", a).of[2]].hot
EntityOf(a) == Labels[Row("exchange", a).of[2]].entity

Tells(c) == /\ ~ActiveExchange(c.address)
            /\ Cardinality(Evidence(c)) >= Threshold
            /\ c.anchor # "" => Hot(c.anchor)

ClaimFor(c) ==
    [address |-> c.address, evidence |-> Evidence(c),
     cluster |-> IF c.anchor = "" THEN c.address ELSE EntityOf(c.anchor),
     anchors |-> {c.anchor} \ {""}]

\* claim_key: two claims of one key are versions of one proposal.
Key(claim) == <<claim.address, claim.cluster, claim.anchors = {}>>
Latest(claim) == Max({0} \cup {i \in DOMAIN claims : Key(claims[i].claim) = Key(claim)})

\* Of those that changed, deposits first, as many as there is room for.
Chosen ==
    LET changed(kind) == {ClaimFor(c) : c \in {d \in Candidates : (d.anchor = "") = kind /\ Tells(d)}}
                             \ {claims[i].claim : i \in DOMAIN claims}
        deposits == changed(FALSE)
        services == changed(TRUE)
        room == MaxClaims - Min({MaxClaims, Cardinality(deposits)})
    IN  {d \cup s : d \in kSubset(Min({MaxClaims, Cardinality(deposits)}), deposits),
                    s \in kSubset(Min({room, Cardinality(services)}), services)}

Find ==
    /\ worker.at = "find"
    /\ \E chosen \in Chosen : worker' = [worker EXCEPT !.at = "submit",
            !.found = SetToSeq({[claim |-> c, supersedes |-> Latest(c)] : c \in chosen}),
            !.read = {blocks[n + 1].hash : n \in ReadableBlocks}]
    /\ UNCHANGED <<decided, source, claims, saved, ingested, bounds>>

\* submit_cluster_claims
Submit ==
    /\ worker.at = "submit"
    /\ IF worker.found # <<>> /\ source # "active" THEN Fails /\ UNCHANGED claims
       ELSE /\ claims' = claims \o worker.found
            /\ worker' = [worker EXCEPT !.at = "confirm", !.found = <<>>]
    /\ UNCHANGED <<decided, source, saved, ingested, bounds>>

\* The boundary must be what it was; then the cursor moves and is saved.
Confirm ==
    LET after == [last |-> worker.to, hash |-> worker.hash, slipped |-> worker.progress.slipped]
    IN  /\ worker.at = "confirm"
        /\ IF HashOf(worker.to) = worker.hash
           THEN /\ saved' = after /\ worker' = Asleep(after)
                /\ scanned' = scanned \cup worker.read
           ELSE Fails /\ UNCHANGED <<saved, scanned>>
        /\ UNCHANGED <<decided, source, claims, blocks, replayed, bounds>>

\* A query fails or the process is stopped.
WorkerEnds ==
    /\ worker.at # "idle" /\ bounds.stops < MaxStops
    /\ Fails
    /\ bounds' = [bounds EXCEPT !.stops = @ + 1]
    /\ UNCHANGED <<decided, source, claims, saved, ingested>>

Work == Begin \/ ReadTip \/ Plan \/ ReadBoundary \/ Find \/ Submit \/ Confirm \/ WorkerEnds

Next ==
    \/ \E l \in DOMAIN Labels : SubmitLabel(l)
    \/ \E r \in Reviewers : Review(r)
    \/ Ingest \/ Replay \/ Restore \/ SwitchSource \/ Work

Spec == Init /\ [][Next]_vars

----------------------------------------------------------------------------
(* Properties *)

ReviewsOf(subject) == {v \in reviews : v.subject = subject}
Approvals(subjects) == {v \in reviews : v.subject \in subjects /\ v.decision = "APPROVED"}
Final(vs) == CHOOSE v \in vs : \A w \in vs : w.at <= v.at
StillApproved(subject) ==
    /\ ReviewsOf(subject) # {}
    /\ Final(ReviewsOf(subject)).decision = "APPROVED"
AtRest == sequential /\ Busy = {}

\* Readers take nothing for attributed that nobody approved, however the
\* commands interleave and wherever they end.
NothingUnreviewed ==
    /\ \A t \in DOMAIN tables : \A a \in Addresses :
          Row(t, a).active => Approvals({Row(t, a).of}) # {}
    /\ \A m \in DOMAIN members : members[m].active => Approvals({members[m].of}) # {}

\* Of reviews that follow each other, the last one of each address counts:
\* its row is that of the label approved last, and active unless that very
\* label was rejected afterwards.  The row of a claim may outlive the claim
\* when the anchor is gone.
LatestDecisionStands ==
    AtRest =>
        /\ \A a \in Addresses, t \in {"entity", "seed"} :
              LET mine == Approvals({LabelOf(l) : l \in
                              {k \in labels : Labels[k].address = a /\ Concerns(k, t)}})
              IN  Row(t, a).of = (IF mine = {} THEN <<>> ELSE Final(mine).subject)
        /\ \A a \in Addresses, t \in DOMAIN tables :
              LET row == Row(t, a)
              IN  row.of # <<>> /\ IsLabel(row.of) => (row.active <=> StillApproved(row.of))

\* Of reviews that follow each other, the versions of a cluster are numbered
\* without a gap and the newest counts the active members.
CountsMatch ==
    AtRest => \A cluster \in {v.cluster : v \in versions} :
        LET mine == {v \in versions : v.cluster = cluster}
            newest == CHOOSE v \in mine : \A w \in mine : w.version <= v.version
        IN  /\ {v.version : v \in mine} = 1 .. Cardinality(mine)
            /\ newest.count = Cardinality({m \in DOMAIN members :
                                              m[2] = cluster /\ members[m].active})

\* A saved cursor whose block is still there stands for blocks that were all
\* looked through, although blocks were taken back, unless it slipped: blocks
\* that are taken back and ingested anew just between the look at the cursor and
\* the look at the boundary are passed over, and the cursor does not show it.
\* A block that was under replay may have been missed too
\* (analytics.rs 197-245).
CursorCovers ==
    (/\ saved.last >= 0 /\ saved.last <= Tip /\ blocks[saved.last + 1].hash = saved.hash
     /\ ~saved.slipped) =>
        \A n \in 0 .. saved.last : blocks[n + 1].hash \in scanned \cup replayed

ReviewsHold == NothingUnreviewed /\ LatestDecisionStands /\ CountsMatch
============================================================================
