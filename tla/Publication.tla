----------------------------- MODULE Publication -----------------------------
(***************************************************************************)
(* The append-only block publication protocol of shared/warehouse.         *)
(*                                                                         *)
(* A writer that owns the cursor of a network turns a fetched block into   *)
(* visible history with a sequence of separate inserts: a reservation row, *)
(* the fact rows of every family, a complete marker and, last, a row of    *)
(* aml_sync_state (the "fence").  A reorganisation is published as orphan  *)
(* rows ("tombstones") followed by a lower fence.  Readers only see the    *)
(* view aml_ingested_blocks_canonical, which the fence cuts out of the     *)
(* history.  Any insert may be the last one before a crash or an error.    *)
(*                                                                         *)
(* Abstractions.  A hash stands for a block; NumberOf and ParentOf are the *)
(* header fields that the hash commits to.  The fact rows of a block are   *)
(* one element per family.  observed_rpc_height, timestamps and the other  *)
(* columns no guard of the protocol reads are left out.  An error return   *)
(* and a crash have the same effect on the database and on the writer,     *)
(* which starts again from state(): both are Crash.                        *)
(***************************************************************************)
EXTENDS Integers, FiniteSets

CONSTANTS
  Hashes,              \* block hashes the sources may report
  NoHash,              \* the empty last_block_hash of an uninitialised state
  NumberOf,            \* hash -> block_number
  ParentOf,            \* hash -> parent_hash (NoHash at the genesis block)
  Families,            \* fact tables of core::FACTS a block has rows in
  Clocks,              \* lower bounds the adapter's clock gives a revision
  MaxRevision,         \* bound on revisions (TLC only; guards of Begin*)
  MaxRollback,         \* rows orphan_suffix accepts (10000 in the code)
  InterruptedRollback  \* may the writer stop between tombstones and fence?

ASSUME ChainAssumption ==
  /\ NoHash \notin Hashes
  /\ NumberOf \in [Hashes -> Nat]
  /\ ParentOf \in [Hashes -> Hashes \cup {NoHash}]
  /\ \A h \in Hashes : ParentOf[h] \in Hashes => NumberOf[h] = NumberOf[ParentOf[h]] + 1

ASSUME BoundAssumption ==
  /\ Clocks \subseteq Nat
  /\ MaxRevision \in Nat
  /\ MaxRollback \in Nat
  /\ InterruptedRollback \in BOOLEAN

VARIABLES
  blocks,    \* rows of aml_ingested_blocks
  facts,     \* fact rows, one per block, revision and family
  fence,     \* aml_sync_state_current: the latest row of aml_sync_state
  pc,        \* what the cursor owner does next
  previous,  \* the state the owner read before it started
  next,      \* the state it wants to publish
  pending,   \* families whose facts it still has to insert
  suffix     \* canonical rows it still has to orphan

database == <<blocks, facts, fence>>
writer == <<pc, previous, next, pending, suffix>>
vars == <<database, writer>>

-----------------------------------------------------------------------------
(* Rows *)

Row == [number : Nat, hash : Hashes, parent : Hashes \cup {NoHash},
        revision : Nat, canonical : BOOLEAN,
        status : {"processing", "complete", "orphaned"}]

State == [revision : Nat, initialized : BOOLEAN, start : Nat, last : Nat,
          hash : Hashes \cup {NoHash}]

EmptyState == [revision |-> 0, initialized |-> FALSE, start |-> 0, last |-> 0,
               hash |-> NoHash]

\* Mutant: the reservation takes its revision from the state that is still published.
ReservationOfPublished(s) == [number |-> s.last, hash |-> s.hash, parent |-> ParentOf[s.hash],
                              revision |-> fence.revision - 1, canonical |-> FALSE,
                              status |-> "processing"]

\* row reserve inserts: it claims the revision below the one of the facts.
Reservation(s) == [number |-> s.last, hash |-> s.hash, parent |-> ParentOf[s.hash],
                   revision |-> s.revision - 1, canonical |-> FALSE,
                   status |-> "processing"]

Marker(s) == [number |-> s.last, hash |-> s.hash, parent |-> ParentOf[s.hash],
              revision |-> s.revision, canonical |-> TRUE, status |-> "complete"]

Orphan(r, revision) == [r EXCEPT !.revision = revision, !.canonical = FALSE,
                                 !.status = "orphaned"]

Fact(s, f) == [hash |-> s.hash, revision |-> s.revision, family |-> f]

-----------------------------------------------------------------------------
(* What readers see *)

\* Mutant: the view forgets to cut the history at the fence.
LatestEver(r, revision) ==
  \A q \in blocks : q.number = r.number => q.revision <= r.revision

\* argMax over revision of the rows of one height at or below a fence.
LatestBelow(r, revision) ==
  /\ r.revision <= revision
  /\ \A q \in blocks : (q.number = r.number /\ q.revision <= revision)
                         => q.revision <= r.revision

\* View aml_ingested_blocks_canonical.
Canonical ==
  {r \in blocks :
     /\ fence.initialized
     /\ fence.start <= r.number /\ r.number <= fence.last
     /\ LatestBelow(r, fence.revision)
     /\ r.canonical /\ r.status = "complete"
     /\ r.number < fence.last \/ r.hash = fence.hash}

\* Rows of the canonical views of the fact tables (the join on hash and revision).
VisibleFacts ==
  {f \in facts : \E r \in Canonical : f.hash = r.hash /\ f.revision = r.revision}

-----------------------------------------------------------------------------
(* Checks of the writer *)

\* Mutants: a revision that ignores unpublished rows, and one that leaves no room
\* for the facts of an interrupted attempt.
NextRevisionOfFence(revision) == \E clock \in Clocks \cup {fence.revision} :
  clock >= fence.revision /\ revision = clock + 3

NextRevisionTight(revision) ==
  LET used == {fence.revision} \cup {r.revision : r \in blocks}
  IN \E written \in used : (\A u \in used : u <= written) /\ revision = written + 1

\* next_revision: three above everything published or reserved, and above the
\* adapter's clock.  A reservation takes r - 1, its facts and marker take r.
NextRevision(revision) ==
  \E clock \in Clocks :
    LET used == {fence.revision, clock} \cup {r.revision : r \in blocks}
    IN \E written \in used : /\ \A u \in used : u <= written
                             /\ revision = written + 3

ValidSnapshot(s) ==
  IF s.initialized
  THEN s.revision > 0 /\ s.start <= s.last /\ s.hash \in Hashes
  ELSE s.last = 0 /\ s.hash = NoHash

IsRollback(p, n) == p.initialized /\ (~n.initialized \/ n.last < p.last)

\* The block row publish looks up: the canonical row for a rollback, otherwise
\* the newest row of the height up to the new revision.
LookedUp(p, n) ==
  IF IsRollback(p, n)
  THEN {r \in Canonical : r.number = n.last /\ r.revision <= n.revision}
  ELSE {r \in blocks : r.number = n.last /\ LatestBelow(r, n.revision)}

Extends(p, n) == ~p.initialized \/ n.last > p.last

\* Mutant: the looked-up block may have another hash than the new tip.
PublishChecksAnyHash(p, n) ==
  /\ n.revision > p.revision /\ fence = p
  /\ ValidSnapshot(p) /\ ValidSnapshot(n)
  /\ n.initialized => \E r \in LookedUp(p, n) : r.canonical /\ r.status = "complete"

\* What publish ensures before it writes anything.
PublishChecks(p, n) ==
  /\ n.revision > p.revision
  /\ fence = p
  /\ ValidSnapshot(p) /\ ValidSnapshot(n)
  /\ (p.initialized /\ n.initialized) =>
       /\ n.start = p.start
       /\ n.last = p.last => n.hash = p.hash
       /\ n.last > p.last => n.last = p.last + 1
  /\ n.initialized =>
       \E r \in LookedUp(p, n) :
         /\ r.hash = n.hash /\ r.canonical /\ r.status = "complete"
         /\ (~IsRollback(p, n) /\ Extends(p, n)) =>
              /\ r.revision = n.revision
              /\ p.initialized => r.parent = p.hash

\* The canonical rows a rollback has to orphan.
OrphanSuffix(n) == {r \in Canonical : n.initialized => r.number > n.last}

SuffixAccepted(p, s) == Cardinality(s) <= MaxRollback /\ (s # {} \/ p.last = 0)

\* Tombstones of the running rollback that are already in the table.
TombstonesWritten ==
  pc \in {"orphan", "fence"} /\ \E r \in blocks : r.revision = next.revision
                                                    /\ r.status = "orphaned"

-----------------------------------------------------------------------------
(* Actions *)

\* The call returned or the process died: its local state is gone.
Return ==
  /\ pc' = "idle" /\ previous' = EmptyState /\ next' = EmptyState
  /\ pending' = {} /\ suffix' = {}

Init ==
  /\ blocks = {} /\ facts = {} /\ fence = EmptyState
  /\ pc = "idle" /\ previous = EmptyState /\ next = EmptyState
  /\ pending = {} /\ suffix = {}

\* publish_batch / write_block accept the block after the tip whose parent is
\* the tip, or any first block.
BeginBlock(h, revision) ==
  /\ pc = "idle"
  /\ fence.initialized => NumberOf[h] = fence.last + 1 /\ ParentOf[h] = fence.hash
  /\ NextRevision(revision) /\ revision <= MaxRevision
  /\ pc' = "reserve"
  /\ previous' = fence
  /\ next' = [revision |-> revision, initialized |-> TRUE, last |-> NumberOf[h], hash |-> h,
              start |-> IF fence.initialized THEN fence.start ELSE NumberOf[h]]
  /\ pending' = Families
  /\ suffix' = {}
  /\ UNCHANGED database

Reserve ==
  /\ pc = "reserve"
  /\ blocks' = blocks \cup {Reservation(next)}
  /\ pc' = "facts"
  /\ UNCHANGED <<facts, fence, previous, next, pending, suffix>>

\* An insert that reports success may have stored nothing: of a table whose insert
\* may store some rows only, every such part is a family of its own.
WriteFacts(f) ==
  /\ pc = "facts" /\ f \in pending
  /\ \E stored \in SUBSET {Fact(next, f)} : facts' = facts \cup stored
  /\ pending' = pending \ {f}
  /\ UNCHANGED <<blocks, fence, pc, previous, next, suffix>>

\* Mutant: the marker is written without counting the facts.
CompleteUncounted ==
  /\ pc = "facts" /\ pending = {}
  /\ blocks' = blocks \cup {Marker(next)}
  /\ pc' = "publish"
  /\ UNCHANGED <<facts, fence, previous, next, pending, suffix>>

\* core::complete: the marker needs the exact count of every family; with a row
\* missing the writer returns with an error (Crash).
Complete ==
  /\ pc = "facts" /\ pending = {}
  /\ \A f \in Families : Fact(next, f) \in facts
  /\ blocks' = blocks \cup {Marker(next)}
  /\ pc' = "publish"
  /\ UNCHANGED <<facts, fence, previous, next, pending, suffix>>

\* A rollback to the height and hash an adapter's source reports as common
\* ancestor, or to an uninitialised state when there is none.
BeginRollback(target, revision) ==
  /\ pc = "idle" /\ fence.initialized
  /\ NextRevision(revision) /\ revision <= MaxRevision
  /\ target # NoHash => NumberOf[target] \in fence.start .. (fence.last - 1)
  /\ pc' = "publish"
  /\ previous' = fence
  /\ next' = IF target = NoHash
             THEN [fence EXCEPT !.revision = revision, !.initialized = FALSE,
                                !.last = 0, !.hash = NoHash]
             ELSE [fence EXCEPT !.revision = revision, !.last = NumberOf[target],
                                !.hash = target]
  /\ UNCHANGED <<database, pending, suffix>>

\* publish up to its second look at the checkpoint.
CheckPublish ==
  /\ pc = "publish"
  /\ PublishChecks(previous, next)
  /\ IF IsRollback(previous, next)
     THEN /\ SuffixAccepted(previous, OrphanSuffix(next))
          /\ suffix' = OrphanSuffix(next)
          /\ pc' = "orphan"
     ELSE pc' = "fence" /\ UNCHANGED suffix
  /\ UNCHANGED <<database, previous, next, pending>>

RefusePublish ==
  /\ pc = "publish"
  /\ \/ ~PublishChecks(previous, next)
     \/ IsRollback(previous, next) /\ ~SuffixAccepted(previous, OrphanSuffix(next))
  /\ Return
  /\ UNCHANGED database

\* Tombstones are inserted in chunks, lowest heights first.
WriteOrphans(height) ==
  LET chunk == {r \in suffix : r.number <= height}
  IN /\ pc = "orphan" /\ chunk # {}
     /\ blocks' = blocks \cup {Orphan(r, next.revision) : r \in chunk}
     /\ suffix' = suffix \ chunk
     /\ pc' = IF suffix' = {} THEN "fence" ELSE "orphan"
     /\ UNCHANGED <<facts, fence, previous, next, pending>>

PublishFence ==
  /\ pc = "fence" /\ fence = previous
  /\ fence' = next
  /\ Return
  /\ UNCHANGED <<blocks, facts>>

Crash ==
  /\ pc # "idle"
  /\ InterruptedRollback \/ ~TombstonesWritten
  /\ Return
  /\ UNCHANGED database

Next ==
  \/ \E h \in Hashes, revision \in 1 .. MaxRevision : BeginBlock(h, revision)
  \/ Reserve
  \/ \E f \in Families : WriteFacts(f)
  \/ Complete
  \/ \E t \in Hashes \cup {NoHash}, revision \in 1 .. MaxRevision : BeginRollback(t, revision)
  \/ CheckPublish
  \/ RefusePublish
  \/ \E r \in suffix : WriteOrphans(r.number)
  \/ PublishFence
  \/ Crash

Spec == Init /\ [][Next]_vars

-----------------------------------------------------------------------------
(* Properties *)

TypeOK ==
  /\ blocks \subseteq Row
  /\ facts \subseteq [hash : Hashes, revision : Nat, family : Families]
  /\ fence \in State /\ previous \in State /\ next \in State
  /\ pc \in {"idle", "reserve", "facts", "publish", "orphan", "fence"}
  /\ pending \subseteq Families
  /\ suffix \subseteq Row

\* The published range is one chain: every height from start to the tip has a
\* visible complete block, each block's parent is the visible block below it, and
\* the highest one is the fence's hash.
CanonicalChain ==
  fence.initialized =>
    /\ \A n \in fence.start .. fence.last : \E r \in Canonical : r.number = n
    /\ \A r \in Canonical : r.number = fence.last => r.hash = fence.hash
    /\ \A q, r \in Canonical : q.number + 1 = r.number => r.parent = q.hash

\* A height never has two rows of the same revision: the view's argMax and the
\* table's ReplacingMergeTree key (number, revision) are unambiguous.
UniqueVersions ==
  \A q, r \in blocks : (q.number = r.number /\ q.revision = r.revision) => q = r

\* While an attempt writes facts, all rows of its revision are ones this attempt has
\* inserted: what the complete marker counts is never mixed with what an interrupted
\* attempt left behind.
AttemptOwnsRevision ==
  pc = "facts" =>
    {f \in facts : f.revision = next.revision} \subseteq {Fact(next, f) : f \in Families \ pending}

\* Every visible block has the facts of all its families.
VisibleBlocksComplete ==
  \A r \in Canonical, f \in Families :
    [hash |-> r.hash, revision |-> r.revision, family |-> f] \in facts

\* Only the final insert of aml_sync_state changes what readers see.
InvisibleUntilFence == [][fence' = fence => UNCHANGED <<Canonical, VisibleFacts>>]_vars

-----------------------------------------------------------------------------
(* What the protocol promises to its readers *)

VisibleHashes == {r.hash : r \in Canonical}

Published == INSTANCE PublishedChain WITH chain <- VisibleHashes

\* To a reader the many inserts are atomic steps of one chain of blocks: it grows
\* by a child of its tip, is cut back to one of its own blocks, or is reset.
ImplementsPublishedChain == Published!Spec

-----------------------------------------------------------------------------
(* The inductive invariant behind CanonicalChain, in named parts *)

RowsMatchHeaders ==
  \A r \in blocks : r.number = NumberOf[r.hash] /\ r.parent = ParentOf[r.hash]

\* A complete marker is only ever written over the full set of its facts.
MarkersCounted ==
  \A r \in blocks, f \in Families :
    r.canonical => [hash |-> r.hash, revision |-> r.revision, family |-> f] \in facts

\* Facts live one revision above a block row, which next_revision jumps over.
FactsReserved == \A f \in facts : \E r \in blocks : f.revision = r.revision + 1

FenceValid ==
  /\ fence.initialized => /\ fence.start <= fence.last
                          /\ fence.hash \in Hashes /\ fence.last = NumberOf[fence.hash]
                          /\ fence.revision > 0
  /\ ~fence.initialized => fence.last = 0 /\ fence.hash = NoHash

Abandons(n, r) == /\ r.revision = n.revision /\ ~r.canonical
                  /\ n.initialized => r.number > n.last

\* What is written above the fence never touches a published height, except the
\* tombstones of the rollback under way.
UnpublishedAbove ==
  fence.initialized =>
    \A r \in blocks : r.revision > fence.revision =>
      \/ r.number = fence.last + 1
      \/ TombstonesWritten /\ IsRollback(previous, next) /\ Abandons(next, r)

AppendState ==
  /\ next.initialized /\ next.hash \in Hashes /\ next.last = NumberOf[next.hash]
  /\ fence.initialized => /\ next.start = fence.start /\ next.last = fence.last + 1
                          /\ ParentOf[next.hash] = fence.hash
  /\ ~fence.initialized => next.start = next.last

RollbackState ==
  /\ fence.initialized /\ IsRollback(fence, next)
  /\ ~next.initialized => next.last = 0 /\ next.hash = NoHash
  /\ next.initialized => /\ next.start = fence.start /\ next.start <= next.last
                         /\ next.hash \in Hashes /\ next.last = NumberOf[next.hash]

RollbackChecked ==
  next.initialized => \E r \in Canonical : r.number = next.last /\ r.hash = next.hash

WriterOwnsRevision ==
  /\ pc # "idle" => previous = fence /\ next.revision >= fence.revision + 3
  /\ pc \in {"reserve", "facts"} => AppendState
  /\ pc = "reserve" => /\ pending = Families
                       /\ \A r \in blocks : r.revision + 3 <= next.revision
  /\ pc = "facts" => /\ Reservation(next) \in blocks
                     /\ \A r \in blocks : r.revision < next.revision
  /\ pc \in {"publish", "fence"} =>
       \/ AppendState /\ Marker(next) \in blocks
       \/ RollbackState
  /\ pc = "orphan" => RollbackState
  /\ pc = "publish" /\ RollbackState => \A r \in blocks : r.revision < next.revision
  /\ pc \in {"publish", "orphan", "fence"} =>
       \A r \in blocks : r.revision <= next.revision
  /\ pc \in {"orphan", "fence"} /\ RollbackState => RollbackChecked
  /\ pc = "orphan" =>
       /\ suffix \subseteq OrphanSuffix(next)
       /\ \A q \in suffix, r \in blocks : r.revision = next.revision => r.number # q.number

\* Holds wherever the writer stops.
SafeInv ==
  /\ TypeOK /\ RowsMatchHeaders /\ UniqueVersions /\ MarkersCounted /\ FactsReserved
  /\ FenceValid /\ WriterOwnsRevision /\ AttemptOwnsRevision

\* Holds as long as no rollback is abandoned between its tombstones and its fence.
ChainInv == SafeInv /\ UnpublishedAbove /\ CanonicalChain
=============================================================================
