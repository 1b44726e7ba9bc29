---------------------------- MODULE BitcoinBackfill ----------------------------
(***************************************************************************)
(* The move of Bitcoin's old tables into the shared warehouse              *)
(* (dockerizd_bitcoin/src/db/warehouse.rs backfill, migration_ready;       *)
(* storage/writer.rs write_block): block by block under a fence on the old *)
(* checkpoint, with an old writer that somebody forgot to stop, a backfill *)
(* that ends anywhere, and the ingestion that may begin afterwards.        *)
(*                                                                         *)
(* The publication protocol itself is Publication; here a block is marked  *)
(* and then published, and what an interrupted attempt marked stays.       *)
(***************************************************************************)
EXTENDS Integers, Sequences, FiniteSets, SequencesExt

CONSTANTS Histories,  \* what the old tables may hold: sequences of hashes, <<>> at first
          Foreign,    \* blocks only the node serves
          MaxBlocks,  \* --max-blocks
          MaxChanges, MaxStops, MaxIngested   \* bounds

VARIABLES legacy,     \* bitcoin_sync_state and its canonical blocks: [revision, history]
          markers,    \* aml_ingested_blocks: [height, hash, source, revision]
          published,  \* the canonical chain: [hash, source]
          revision,   \* aml_sync_state
          job,        \* a backfill, which holds the writer lock
          whole,      \* the old revisions whose history was published whole
          bounds

vars == <<legacy, markers, published, revision, job, whole, bounds>>
chain == <<markers, published, revision, whole>>

Idle == [at |-> "idle", legacy |-> [revision |-> 0, history |-> <<>>], count |-> 0, block |-> <<>>,
         marked |-> 0]
Ingestion == 0   \* as a source; the backfill's source is the old revision

Init ==
    /\ \E h \in Histories : legacy = [revision |-> IF h = <<>> THEN 0 ELSE 1, history |-> h]
    /\ markers = {} /\ published = <<>> /\ revision = 0
    /\ job = Idle
    /\ whole = {}
    /\ bounds = [changes |-> 0, stops |-> 0, ingested |-> 0]

\* An old writer goes on: every publication of its own has a larger revision.
LegacyPublishes ==
    /\ bounds.changes < MaxChanges
    /\ \E h \in Histories \ {<<>>, legacy.history} :
        legacy' = [revision |-> legacy.revision + 1, history |-> h]
    /\ bounds' = [bounds EXCEPT !.changes = @ + 1]
    /\ UNCHANGED <<chain, job>>

NextRevision == 1 + Cardinality(markers)   \* above every marker there is

Mutant_Received == \E m \in markers :
    m.height = Len(legacy.history) /\ m.hash = Last(legacy.history) /\ m.source = legacy.revision
\* The marker of the old tip, of a revision the checkpoint has reached; a later
\* rollback leaves it.
Received == \E m \in markers :
    /\ m.height = Len(legacy.history) /\ m.hash = Last(legacy.history)
    /\ m.source = legacy.revision /\ m.revision <= revision

\* migration_ready
Ready == legacy.history = <<>> \/ Received

----------------------------------------------------------------------------
(* backfill *)

Refuse == job' = Idle /\ UNCHANGED chain

Resumable ==
    \/ published = <<>>
    \/ /\ Len(published) <= Len(legacy.history)
       /\ legacy.history[Len(published)] = Last(published).hash
       /\ Last(published).source = legacy.revision

Start ==
    /\ job.at = "idle" /\ legacy.history # <<>>
    /\ IF Resumable THEN job' = [Idle EXCEPT !.at = "next", !.legacy = legacy] /\ UNCHANGED chain
       ELSE Refuse
    /\ UNCHANGED <<legacy, bounds>>

FenceHolds == legacy = job.legacy

NextBlock ==
    /\ job.at = "next"
    /\ IF job.count < MaxBlocks /\ Len(published) < Len(job.legacy.history) /\ FenceHolds
       THEN job' = [job EXCEPT !.at = "read"] /\ UNCHANGED chain
       ELSE Refuse
    /\ UNCHANGED <<legacy, bounds>>

\* The block and its evidence come from the old tables as they are now.
Read ==
    /\ job.at = "read"
    /\ LET height == Len(published) + 1
       IN  IF height \in DOMAIN legacy.history
           THEN /\ job' = [job EXCEPT !.at = "check", !.block = SubSeq(legacy.history, 1, height)]
                /\ UNCHANGED chain
           ELSE Refuse
    /\ UNCHANGED <<legacy, bounds>>

\* validate_evidence, the height and the parent; reserve, facts, marker.
ParentFits == Front(job.block) = <<>> \/ Last(Front(job.block)) = Last(published).hash

Mark ==
    /\ job.at = "check"
    /\ IF FenceHolds /\ ParentFits
       THEN /\ markers' = markers \cup {[height |-> Len(job.block), hash |-> Last(job.block),
                                         source |-> job.legacy.revision, revision |-> NextRevision]}
            /\ job' = [job EXCEPT !.at = "marked", !.marked = NextRevision]
            /\ UNCHANGED <<published, revision, whole>>
       ELSE Refuse
    /\ UNCHANGED <<legacy, bounds>>

CheckFence ==
    /\ job.at = "marked"
    /\ IF FenceHolds THEN job' = [job EXCEPT !.at = "publish"] /\ UNCHANGED chain ELSE Refuse
    /\ UNCHANGED <<legacy, bounds>>

Publish ==
    /\ job.at = "publish"
    /\ published' = Append(published, [hash |-> Last(job.block), source |-> job.legacy.revision])
    /\ revision' = job.marked
    /\ whole' = IF Len(published') = Len(job.legacy.history) THEN whole \cup {job.legacy.revision} ELSE whole
    /\ job' = [job EXCEPT !.at = "next", !.count = @ + 1]
    /\ UNCHANGED <<legacy, markers, bounds>>

Stop ==
    /\ job.at # "idle" /\ bounds.stops < MaxStops
    /\ job' = Idle
    /\ bounds' = [bounds EXCEPT !.stops = @ + 1]
    /\ UNCHANGED <<legacy, chain>>

----------------------------------------------------------------------------
(* The ingestion, which asks migration_ready when it starts and shares the  *)
(* writer lock: one block more, or one block back                           *)

Ingest ==
    /\ job.at = "idle" /\ Ready /\ bounds.ingested < MaxIngested
    /\ \/ \E hash \in Foreign :
            /\ published' = Append(published, [hash |-> hash, source |-> Ingestion])
            /\ markers' = markers \cup {[height |-> Len(published) + 1, hash |-> hash,
                                         source |-> Ingestion, revision |-> NextRevision]}
       \/ /\ Len(published) > 1
          /\ published' = Front(published)
          /\ markers' = markers \cup {[height |-> Len(published), hash |-> "orphaned",
                                       source |-> Ingestion, revision |-> NextRevision]}
    /\ revision' = NextRevision
    /\ bounds' = [bounds EXCEPT !.ingested = @ + 1]
    /\ UNCHANGED <<legacy, job, whole>>

Next == LegacyPublishes \/ Start \/ NextBlock \/ Read \/ Mark \/ CheckFence \/ Publish \/ Stop \/ Ingest
Spec == Init /\ [][Next]_vars

----------------------------------------------------------------------------
(* Properties *)

\* The ingestion begins only over a history that was moved as a whole: never
\* over a part of one, whatever was interrupted, and never over a mixture of two
\* states of the old tables (warehouse.rs 268-285, 325-360).
ReadyIsWhole == Ready => legacy.history = <<>> \/ legacy.revision \in whole

\* All that the backfill published comes from one state of the old tables, however
\* often it was resumed; if they are still in that state, it is a part of what they
\* hold, block by block (warehouse.rs 301-318).
OneHistory ==
    \A i \in DOMAIN published :
        published[i].source # Ingestion =>
            /\ \A j \in DOMAIN published :
                  published[j].source # Ingestion => published[j].source = published[i].source
            /\ published[i].source = legacy.revision =>
                  i \in DOMAIN legacy.history /\ published[i].hash = legacy.history[i]
=============================================================================
