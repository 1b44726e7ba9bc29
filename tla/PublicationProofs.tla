------------------------- MODULE PublicationProofs -------------------------
(***************************************************************************)
(* Proofs about the publication protocol, for every set of blocks, every   *)
(* family of facts and every bound.                                        *)
(*                                                                         *)
(* SafeInv is inductive whatever call is the last one before a stop.       *)
(* ChainInv needs one assumption, named where it is used: no rollback is   *)
(* abandoned between its tombstones and its fence.                         *)
(***************************************************************************)
EXTENDS Publication, TLAPS

-----------------------------------------------------------------------------
(* Lemmas about the operators *)

\* A revision that next_revision gives out is three above everything in use.
LEMMA RevisionAboveAll ==
  ASSUME NEW revision, NextRevision(revision), TypeOK
  PROVE  /\ revision \in Nat
         /\ fence.revision + 3 <= revision
         /\ \A r \in blocks : r.revision + 3 <= revision
BY BoundAssumption DEF NextRevision, TypeOK, State, Row

\* The view has at most one row for a height.
LEMMA CanonicalUnique ==
  ASSUME TypeOK, UniqueVersions,
         NEW q \in Canonical, NEW r \in Canonical, q.number = r.number
  PROVE  q = r
<1>1. q \in blocks /\ r \in blocks /\ q \in Row /\ r \in Row
  BY DEF Canonical, TypeOK
<1>2. q.revision <= r.revision /\ r.revision <= q.revision
  BY <1>1 DEF Canonical, LatestBelow
<1>3. q.revision = r.revision
  BY <1>1, <1>2 DEF Row
<1> QED
  BY <1>1, <1>3 DEF UniqueVersions

\* Rows above the fence do not change what readers see.
LEMMA CanonicalStable ==
  ASSUME TypeOK, fence' = fence,
         blocks \subseteq blocks',
         \A r \in blocks' \ blocks : r.revision \in Nat /\ r.revision > fence.revision
  PROVE  Canonical' = Canonical
<1>1. fence.revision \in Nat /\ \A r \in blocks : r.revision \in Nat
  BY DEF TypeOK, State, Row
<1>2. \A r \in blocks' : r.revision <= fence.revision => r \in blocks
  BY <1>1
<1>3. \A r \in blocks : LatestBelow(r, fence.revision)' <=> LatestBelow(r, fence.revision)
  BY <1>2 DEF LatestBelow
<1>4. \A r \in blocks' : LatestBelow(r, fence.revision)' => r \in blocks
  BY <1>2 DEF LatestBelow
<1> QED
  BY <1>3, <1>4 DEF Canonical, LatestBelow

\* Nor do facts above it.
LEMMA VisibleFactsStable ==
  ASSUME TypeOK, Canonical' = Canonical, fence' = fence,
         facts \subseteq facts',
         \A f \in facts' \ facts : f.revision \in Nat /\ f.revision > fence.revision
  PROVE  VisibleFacts' = VisibleFacts
<1>1. \A r \in Canonical : r.revision \in Nat /\ r.revision <= fence.revision
  BY DEF Canonical, LatestBelow, TypeOK, Row
<1>2. fence.revision \in Nat
  BY DEF TypeOK, State
<1> QED
  BY <1>1, <1>2 DEF VisibleFacts

LEMMA RowTypes ==
  ASSUME NEW s, s \in State, s.hash \in Hashes, s.revision >= 1
  PROVE  Reservation(s) \in Row /\ Marker(s) \in Row
BY ChainAssumption DEF State, Row, Reservation, Marker

LEMMA OrphanType ==
  ASSUME NEW r \in Row, NEW revision \in Nat
  PROVE  /\ Orphan(r, revision) \in Row
         /\ Orphan(r, revision).revision = revision
         /\ Orphan(r, revision).number = r.number
         /\ Orphan(r, revision).hash = r.hash
         /\ Orphan(r, revision).parent = r.parent
         /\ Orphan(r, revision).canonical = FALSE
         /\ Orphan(r, revision).status = "orphaned"
BY DEF Row, Orphan

-----------------------------------------------------------------------------
(* SafeInv is inductive *)

LEMMA SafeInit == Init => SafeInv
BY DEF Init, SafeInv, TypeOK, RowsMatchHeaders, UniqueVersions, MarkersCounted,
       FactsReserved, FenceValid, WriterOwnsRevision, AttemptOwnsRevision, EmptyState, State

LEMMA SafeBegin ==
  ASSUME SafeInv, NEW h \in Hashes \cup {NoHash}, NEW revision \in 1 .. MaxRevision,
         (h \in Hashes /\ BeginBlock(h, revision)) \/ BeginRollback(h, revision)
  PROVE  SafeInv'
<1> USE DEF SafeInv
<1>1. /\ revision \in Nat /\ revision >= 3 /\ fence.revision + 3 <= revision
      /\ \A r \in blocks : r.revision + 3 <= revision
      /\ pc = "idle" /\ UNCHANGED <<blocks, facts, fence>> /\ previous' = fence
  BY RevisionAboveAll DEF BeginBlock, BeginRollback, database, TypeOK, State
<1>2. NumberOf \in [Hashes -> Nat] /\ fence \in State /\ \A r \in blocks : r.revision \in Nat
  BY ChainAssumption DEF TypeOK, Row
<1>3. /\ UniqueVersions' /\ RowsMatchHeaders' /\ MarkersCounted' /\ FactsReserved'
      /\ FenceValid'
  BY <1>1 DEF UniqueVersions, RowsMatchHeaders, MarkersCounted, FactsReserved, FenceValid
<1>4. CASE h \in Hashes /\ BeginBlock(h, revision)
  <2>1. /\ next' \in State /\ next'.revision = revision /\ next'.hash = h
        /\ next'.last = NumberOf[h] /\ next'.initialized
        /\ next'.start = IF fence.initialized THEN fence.start ELSE NumberOf[h]
        /\ pc' = "reserve" /\ pending' = Families /\ suffix' = {}
    BY <1>2, <1>4, <1>1 DEF BeginBlock, State
  <2>2. TypeOK'
    BY <2>1, <1>1 DEF TypeOK
  <2>3. AppendState'
    BY <2>1, <1>1, <1>4 DEF AppendState, BeginBlock
  <2>4. WriterOwnsRevision'
    BY <2>1, <2>3, <1>1 DEF WriterOwnsRevision
  <2>5. AttemptOwnsRevision'
    BY <2>1 DEF AttemptOwnsRevision
  <2> QED
    BY <2>2, <2>4, <2>5, <1>3
<1>5. CASE BeginRollback(h, revision)
  <2>1. /\ next' \in State /\ next'.revision = revision /\ pc' = "publish"
        /\ pending' = pending /\ suffix' = suffix
    BY <1>2, <1>5, <1>1 DEF BeginRollback, State
  <2>2. TypeOK'
    BY <2>1, <1>1 DEF TypeOK
  <2>3. RollbackState'
    BY <1>5, <1>1, <1>2, ChainAssumption DEF BeginRollback, RollbackState, IsRollback, State
  <2>4. \A r \in blocks' : r.revision < next'.revision
    BY <1>1, <1>2, <2>1
  <2>5. WriterOwnsRevision'
    BY <2>1, <2>3, <2>4, <1>1, <1>2 DEF WriterOwnsRevision
  <2>6. AttemptOwnsRevision'
    BY <2>1 DEF AttemptOwnsRevision
  <2> QED
    BY <2>2, <2>5, <2>6, <1>3
<1> QED
  BY <1>4, <1>5

LEMMA SafeReserve == SafeInv /\ Reserve => SafeInv'
<1> SUFFICES ASSUME SafeInv, Reserve PROVE SafeInv'
  OBVIOUS
<1> USE DEF SafeInv
<1> DEFINE new == Reservation(next)
<1>1. /\ pc = "reserve" /\ pc' = "facts" /\ blocks' = blocks \cup {new}
      /\ UNCHANGED <<facts, fence, previous, next, pending, suffix>>
  BY DEF Reserve
<1>2. /\ AppendState /\ pending = Families /\ previous = fence
      /\ next \in State /\ next.revision \in Nat /\ next.revision >= 3
      /\ next.revision >= fence.revision + 3
      /\ \A r \in blocks : r.revision \in Nat /\ r.revision + 3 <= next.revision
  BY <1>1 DEF WriterOwnsRevision, TypeOK, State, Row
<1>3. /\ new \in Row /\ new.revision = next.revision - 1 /\ ~new.canonical
      /\ new.number = next.last /\ new.hash = next.hash /\ new.parent = ParentOf[next.hash]
  BY <1>2, RowTypes DEF AppendState, Reservation
<1>4. TypeOK'
  BY <1>1, <1>3 DEF TypeOK
<1>5. RowsMatchHeaders' /\ MarkersCounted' /\ FactsReserved' /\ FenceValid'
  BY <1>1, <1>2, <1>3
     DEF RowsMatchHeaders, MarkersCounted, FactsReserved, FenceValid, AppendState
<1>6. UniqueVersions'
  BY <1>1, <1>2, <1>3 DEF UniqueVersions
<1>7. AppendState'
  BY <1>1, <1>2 DEF AppendState
<1>8. WriterOwnsRevision'
  BY <1>1, <1>2, <1>3, <1>7 DEF WriterOwnsRevision
<1>9. AttemptOwnsRevision'
  <2>1. \A f \in facts : f.revision # next.revision
    BY <1>2 DEF FactsReserved
  <2> QED
    BY <2>1, <1>1, <1>2 DEF AttemptOwnsRevision
<1> QED
  BY <1>4, <1>5, <1>6, <1>8, <1>9

LEMMA SafeWriteFacts == ASSUME NEW f \in Families PROVE SafeInv /\ WriteFacts(f) => SafeInv'
<1> SUFFICES ASSUME SafeInv, WriteFacts(f) PROVE SafeInv'
  OBVIOUS
<1> USE DEF SafeInv
<1>1. /\ pc = "facts" /\ f \in pending /\ pending' = pending \ {f}
      /\ facts \subseteq facts' /\ facts' \subseteq facts \cup {Fact(next, f)}
      /\ UNCHANGED <<blocks, fence, pc, previous, next, suffix>>
  BY DEF WriteFacts
<1>2. /\ AppendState /\ next \in State /\ next.revision \in Nat /\ Reservation(next) \in blocks
      /\ pending \subseteq Families
  BY <1>1 DEF WriterOwnsRevision, TypeOK, State
<1>3. TypeOK'
  BY <1>1, <1>2 DEF TypeOK, Fact, AppendState
<1>4. RowsMatchHeaders' /\ UniqueVersions' /\ MarkersCounted' /\ FenceValid'
  BY <1>1 DEF RowsMatchHeaders, UniqueVersions, MarkersCounted, FenceValid
<1>5. FactsReserved'
  BY <1>1, <1>2 DEF FactsReserved, Fact, Reservation
<1>6. AppendState'
  BY <1>1, <1>2 DEF AppendState
<1>7. WriterOwnsRevision'
  BY <1>1, <1>6 DEF WriterOwnsRevision
<1>8. AttemptOwnsRevision'
  BY <1>1, <1>2 DEF AttemptOwnsRevision, Fact
<1> QED
  BY <1>3, <1>4, <1>5, <1>7, <1>8

LEMMA SafeComplete == SafeInv /\ Complete => SafeInv'
<1> SUFFICES ASSUME SafeInv, Complete PROVE SafeInv'
  OBVIOUS
<1> USE DEF SafeInv
<1> DEFINE new == Marker(next)
<1>1. /\ pc = "facts" /\ pc' = "publish" /\ blocks' = blocks \cup {new}
      /\ \A f \in Families : Fact(next, f) \in facts
      /\ UNCHANGED <<facts, fence, previous, next, pending, suffix>>
  BY DEF Complete
<1>2. /\ AppendState /\ previous = fence /\ next \in State /\ next.revision \in Nat
      /\ next.revision >= fence.revision + 3 /\ fence.revision \in Nat
      /\ \A r \in blocks : r.revision \in Nat /\ r.revision < next.revision
  BY <1>1 DEF WriterOwnsRevision, TypeOK, State, Row
<1>3. /\ new \in Row /\ new.revision = next.revision
      /\ new.number = next.last /\ new.hash = next.hash /\ new.parent = ParentOf[next.hash]
  BY <1>2, RowTypes DEF AppendState, Marker
<1>4. TypeOK'
  BY <1>1, <1>3 DEF TypeOK
<1>5. RowsMatchHeaders' /\ FactsReserved' /\ FenceValid'
  BY <1>1, <1>2, <1>3 DEF RowsMatchHeaders, FactsReserved, FenceValid, AppendState
<1>6. MarkersCounted'
  BY <1>1, <1>3 DEF MarkersCounted, Fact
<1>7. UniqueVersions'
  BY <1>1, <1>2, <1>3 DEF UniqueVersions
<1>8. AppendState' /\ ~RollbackState'
  BY <1>1, <1>2 DEF AppendState, RollbackState, IsRollback, TypeOK, State
<1>9. WriterOwnsRevision'
  BY <1>1, <1>2, <1>3, <1>8 DEF WriterOwnsRevision
<1>10. AttemptOwnsRevision'
  BY <1>1 DEF AttemptOwnsRevision
<1> QED
  BY <1>4, <1>5, <1>6, <1>7, <1>9, <1>10

LEMMA SafeCheckPublish == SafeInv /\ CheckPublish => SafeInv'
<1> SUFFICES ASSUME SafeInv, CheckPublish PROVE SafeInv'
  OBVIOUS
<1> USE DEF SafeInv
<1>1. /\ pc = "publish" /\ PublishChecks(previous, next)
      /\ UNCHANGED <<blocks, facts, fence, previous, next, pending>>
      /\ \/ IsRollback(previous, next) /\ suffix' = OrphanSuffix(next) /\ pc' = "orphan"
         \/ ~IsRollback(previous, next) /\ suffix' = suffix /\ pc' = "fence"
  BY DEF CheckPublish, database
<1>2. /\ previous = fence
      /\ \/ AppendState /\ Marker(next) \in blocks
         \/ RollbackState
      /\ \A r \in blocks : r.revision <= next.revision
      /\ RollbackState => \A r \in blocks : r.revision < next.revision
      /\ next.revision >= fence.revision + 3
  BY <1>1 DEF WriterOwnsRevision
<1>3. /\ Canonical' = Canonical /\ OrphanSuffix(next)' = OrphanSuffix(next)
      /\ AppendState' = AppendState /\ RollbackState' = RollbackState
      /\ RollbackChecked' = RollbackChecked
  BY <1>1 DEF Canonical, LatestBelow, OrphanSuffix, AppendState, RollbackState, IsRollback,
              RollbackChecked
<1>4. RollbackState => IsRollback(previous, next)
  BY <1>2 DEF RollbackState
<1>5. IsRollback(previous, next) => RollbackState
  BY <1>2 DEF AppendState, IsRollback, TypeOK, State
<1>6. IsRollback(previous, next) => RollbackChecked
  BY <1>1 DEF PublishChecks, LookedUp, RollbackChecked
<1>7. TypeOK'
  BY <1>1 DEF TypeOK, OrphanSuffix, Canonical
<1>8. RowsMatchHeaders' /\ UniqueVersions' /\ MarkersCounted' /\ FactsReserved' /\ FenceValid'
  BY <1>1 DEF RowsMatchHeaders, UniqueVersions, MarkersCounted, FactsReserved, FenceValid
<1>9. AttemptOwnsRevision'
  BY <1>1 DEF AttemptOwnsRevision
<1>10. CASE IsRollback(previous, next)
  <2>1. \A r \in blocks : r.revision \in Nat /\ r.revision < next.revision
    BY <1>2, <1>5, <1>10 DEF TypeOK, Row
  <2>2. next.revision \in Nat
    BY DEF TypeOK, State
  <2>3. \A r \in blocks : r.revision # next.revision
    BY <2>1, <2>2
  <2> QED
    BY <1>1, <1>2, <1>3, <1>5, <1>6, <1>7, <1>8, <1>9, <1>10, <2>3 DEF WriterOwnsRevision
<1>11. CASE ~IsRollback(previous, next)
  BY <1>1, <1>2, <1>3, <1>4, <1>7, <1>8, <1>9, <1>11 DEF WriterOwnsRevision
<1> QED
  BY <1>10, <1>11

LEMMA SafeReturn == SafeInv /\ Return /\ UNCHANGED database => SafeInv'
BY DEF SafeInv, Return, database, TypeOK, EmptyState, State, RowsMatchHeaders, UniqueVersions,
       MarkersCounted, FactsReserved, FenceValid, WriterOwnsRevision, AttemptOwnsRevision

LEMMA SafeWriteOrphans ==
  ASSUME NEW height, SafeInv, WriteOrphans(height), height \in Nat
  PROVE  SafeInv'
<1> USE DEF SafeInv
<1> DEFINE chunk == {r \in suffix : r.number <= height}
<1> DEFINE new == {Orphan(r, next.revision) : r \in chunk}
<1>1. /\ pc = "orphan" /\ blocks' = blocks \cup new /\ suffix' = suffix \ chunk
      /\ pc' \in {"orphan", "fence"}
      /\ UNCHANGED <<facts, fence, previous, next, pending>>
  BY DEF WriteOrphans
<1>2. /\ RollbackState /\ RollbackChecked /\ previous = fence
      /\ next.revision >= fence.revision + 3
      /\ next.revision \in Nat /\ fence.revision \in Nat
      /\ \A r \in blocks : r.revision \in Nat /\ r.revision <= next.revision
      /\ suffix \subseteq OrphanSuffix(next)
      /\ \A q \in suffix, r \in blocks : r.revision = next.revision => r.number # q.number
  BY <1>1 DEF WriterOwnsRevision, TypeOK, State, Row
<1>3. suffix \subseteq Canonical /\ Canonical \subseteq blocks
  BY <1>2 DEF OrphanSuffix, Canonical
<1>4. \A r \in suffix : r \in Row /\ r \in blocks
  BY <1>3 DEF TypeOK
<1>5. \A o \in new : \E r \in chunk :
        /\ o = Orphan(r, next.revision) /\ o \in Row /\ o.revision = next.revision
        /\ o.number = r.number /\ o.hash = r.hash /\ o.parent = r.parent
        /\ o.canonical = FALSE /\ o.status = "orphaned"
  <2>1. ASSUME NEW r \in chunk
        PROVE  LET o == Orphan(r, next.revision)
               IN /\ o \in Row /\ o.revision = next.revision
                  /\ o.number = r.number /\ o.hash = r.hash /\ o.parent = r.parent
                  /\ o.canonical = FALSE /\ o.status = "orphaned"
    <3>1. r \in Row
      BY <1>4
    <3> HIDE DEF chunk
    <3> QED
      BY <3>1, <1>2, OrphanType
  <2> HIDE DEF chunk
  <2> QED
    BY <2>1
<1>6. TypeOK'
  BY <1>1, <1>5 DEF TypeOK
<1>7. RowsMatchHeaders' /\ MarkersCounted' /\ FactsReserved' /\ FenceValid'
  BY <1>1, <1>4, <1>5 DEF RowsMatchHeaders, MarkersCounted, FactsReserved, FenceValid
<1>8. UniqueVersions'
  <2>1. ASSUME NEW o \in new, NEW r \in blocks, r.number = o.number, r.revision = o.revision
        PROVE  FALSE
    BY <2>1, <1>5, <1>2
  <2>2. ASSUME NEW o \in new, NEW p \in new, o.number = p.number
        PROVE  o = p
    BY <2>2, <1>5, <1>3, CanonicalUnique
  <2> QED
    BY <1>1, <2>1, <2>2 DEF UniqueVersions
<1>9. Canonical' = Canonical
  <2>1. \A r \in blocks' \ blocks : r.revision \in Nat /\ r.revision > fence.revision
    BY <1>1, <1>2, <1>5
  <2> QED
    BY <1>1, <2>1, CanonicalStable
<1>10. RollbackState' /\ RollbackChecked'
  BY <1>1, <1>2, <1>9 DEF RollbackState, RollbackChecked, IsRollback
<1>11. suffix' \subseteq OrphanSuffix(next)'
  BY <1>1, <1>2, <1>9 DEF OrphanSuffix
<1>12. \A q \in suffix', r \in blocks' : r.revision = next'.revision => r.number # q.number
  BY <1>1, <1>2, <1>4, <1>5 DEF Row
<1>13. \A r \in blocks' : r.revision <= next'.revision
  BY <1>1, <1>2, <1>5
<1>14. WriterOwnsRevision'
  BY <1>1, <1>2, <1>10, <1>11, <1>12, <1>13 DEF WriterOwnsRevision
<1>15. AttemptOwnsRevision'
  BY <1>1 DEF AttemptOwnsRevision
<1> QED
  BY <1>6, <1>7, <1>8, <1>14, <1>15

LEMMA SafePublishFence == SafeInv /\ PublishFence => SafeInv'
<1> SUFFICES ASSUME SafeInv, PublishFence PROVE SafeInv'
  OBVIOUS
<1> USE DEF SafeInv
<1>1. pc = "fence" /\ fence' = next /\ Return /\ UNCHANGED <<blocks, facts>>
  BY DEF PublishFence
<1>2. (AppendState \/ RollbackState) /\ next.revision >= fence.revision + 3
  BY <1>1 DEF WriterOwnsRevision
<1>3. FenceValid'
  BY <1>1, <1>2, ChainAssumption
     DEF FenceValid, AppendState, RollbackState, IsRollback, TypeOK, State
<1>4. TypeOK'
  BY <1>1 DEF TypeOK, Return, EmptyState, State
<1> QED
  BY <1>1, <1>3, <1>4
     DEF Return, RowsMatchHeaders, UniqueVersions, MarkersCounted, FactsReserved,
         WriterOwnsRevision, AttemptOwnsRevision

LEMMA SafeStep == SafeInv /\ [Next]_vars => SafeInv'
<1> SUFFICES ASSUME SafeInv, [Next]_vars PROVE SafeInv'
  OBVIOUS
<1>1. CASE \E h \in Hashes, revision \in 1 .. MaxRevision : BeginBlock(h, revision)
  BY <1>1, SafeBegin
<1>2. CASE Reserve
  BY <1>2, SafeReserve
<1>3. CASE \E f \in Families : WriteFacts(f)
  BY <1>3, SafeWriteFacts
<1>4. CASE Complete
  BY <1>4, SafeComplete
<1>5. CASE \E t \in Hashes \cup {NoHash}, revision \in 1 .. MaxRevision :
             BeginRollback(t, revision)
  BY <1>5, SafeBegin
<1>6. CASE CheckPublish
  BY <1>6, SafeCheckPublish
<1>7. CASE RefusePublish
  BY <1>7, SafeReturn DEF RefusePublish
<1>8. CASE \E r \in suffix : WriteOrphans(r.number)
  <2>1. \A r \in suffix : r.number \in Nat
    BY DEF SafeInv, TypeOK, Row
  <2> QED
    BY <1>8, <2>1, SafeWriteOrphans
<1>9. CASE PublishFence
  BY <1>9, SafePublishFence
<1>10. CASE Crash
  BY <1>10, SafeReturn DEF Crash
<1>11. CASE UNCHANGED vars
  BY <1>11 DEF SafeInv, vars, database, writer, TypeOK, RowsMatchHeaders, UniqueVersions,
       MarkersCounted, FactsReserved, FenceValid, WriterOwnsRevision, AttemptOwnsRevision,
       AppendState, RollbackState, RollbackChecked, IsRollback, OrphanSuffix, Canonical,
       LatestBelow
<1> QED
  BY <1>1, <1>2, <1>3, <1>4, <1>5, <1>6, <1>7, <1>8, <1>9, <1>10, <1>11 DEF Next

-----------------------------------------------------------------------------
(* What holds wherever the writer stops *)

\* The inductive invariant of the protocol, interrupted rollbacks included.
THEOREM SafeInvariant == Spec => []SafeInv
<1> QED
  BY SafeInit, SafeStep, PTL DEF Spec

\* Rows, states and the writer's locals keep their types.
THEOREM TypeCorrect == Spec => []TypeOK
<1>1. SafeInv => TypeOK
  BY DEF SafeInv
<1> QED
  BY <1>1, SafeInvariant, PTL

\* argMax over a height and the table's key are unambiguous.
THEOREM VersionsUnique == Spec => []UniqueVersions
<1>1. SafeInv => UniqueVersions
  BY DEF SafeInv
<1> QED
  BY <1>1, SafeInvariant, PTL

\* The count behind a marker is never polluted by an earlier attempt.
THEOREM AttemptsSeparate == Spec => []AttemptOwnsRevision
<1>1. SafeInv => AttemptOwnsRevision
  BY DEF SafeInv
<1> QED
  BY <1>1, SafeInvariant, PTL

\* A block is visible only with all its facts.
THEOREM VisibleComplete == Spec => []VisibleBlocksComplete
<1>1. SafeInv => VisibleBlocksComplete
  BY DEF SafeInv, MarkersCounted, VisibleBlocksComplete, Canonical
<1> QED
  BY <1>1, SafeInvariant, PTL

\* What a step writes while it leaves the fence alone lies above the fence.
LEMMA WritesAboveFence ==
  ASSUME SafeInv, Next, fence' = fence
  PROVE  /\ blocks \subseteq blocks' /\ facts \subseteq facts'
         /\ \A r \in blocks' \ blocks : r.revision \in Nat /\ r.revision > fence.revision
         /\ \A f \in facts' \ facts : f.revision \in Nat /\ f.revision > fence.revision
<1>1. /\ fence.revision \in Nat /\ next.revision \in Nat /\ next \in State
      /\ pc # "idle" => next.revision >= fence.revision + 3
      /\ pc \in {"reserve", "facts"} => AppendState
  BY DEF SafeInv, TypeOK, State, WriterOwnsRevision
<1>2. CASE Reserve
  BY <1>1, <1>2 DEF Reserve, Reservation
<1>3. CASE \E f \in Families : WriteFacts(f)
  BY <1>1, <1>3 DEF WriteFacts, Fact
<1>4. CASE Complete
  BY <1>1, <1>4 DEF Complete, Marker
<1>5. CASE \E r \in suffix : WriteOrphans(r.number)
  <2>1. PICK height : WriteOrphans(height)
    BY <1>5
  <2>2. /\ pc = "orphan" /\ facts' = facts
        /\ blocks' = blocks \cup {Orphan(r, next.revision) :
                                    r \in {q \in suffix : q.number <= height}}
    BY <2>1 DEF WriteOrphans
  <2>3. \A r \in suffix : r \in Row
    BY DEF SafeInv, TypeOK
  <2>4. \A r \in suffix : Orphan(r, next.revision).revision = next.revision
    BY <1>1, <2>3, OrphanType
  <2> QED
    BY <1>1, <2>2, <2>4
<1>6. CASE UNCHANGED <<blocks, facts>>
  BY <1>6
<1> QED
  BY <1>2, <1>3, <1>4, <1>5, <1>6
     DEF Next, BeginBlock, BeginRollback, CheckPublish, RefusePublish, PublishFence, Crash,
         database

\* Nothing becomes visible before the fence is written.
THEOREM FenceDecidesVisibility == Spec => InvisibleUntilFence
<1>1. SafeInv /\ [Next]_vars => [fence' = fence => UNCHANGED <<Canonical, VisibleFacts>>]_vars
  <2> SUFFICES ASSUME SafeInv, Next, fence' = fence
               PROVE  Canonical' = Canonical /\ VisibleFacts' = VisibleFacts
    OBVIOUS
  <2>1. TypeOK
    BY DEF SafeInv
  <2>2. Canonical' = Canonical
    BY <2>1, WritesAboveFence, CanonicalStable
  <2>3. VisibleFacts' = VisibleFacts
    BY <2>1, <2>2, WritesAboveFence, VisibleFactsStable
  <2> QED
    BY <2>2, <2>3
<1> QED
  BY <1>1, SafeInvariant, PTL DEF Spec, InvisibleUntilFence

-----------------------------------------------------------------------------
(* What holds when no rollback is abandoned half way *)

\* Rows above the fence stay at the height of the next block, tombstones of the
\* running rollback excepted.
LEMMA UnpublishedAboveStep ==
  ASSUME SafeInv, UnpublishedAbove, Next, ~InterruptedRollback
  PROVE  UnpublishedAbove'
<1>1. /\ fence.revision \in Nat /\ next.revision \in Nat /\ previous \in State
      /\ pc # "idle" => next.revision >= fence.revision + 3 /\ previous = fence
      /\ pc \in {"reserve", "facts"} => AppendState
      /\ \A r \in blocks : r.revision \in Nat
  BY DEF SafeInv, TypeOK, State, Row, WriterOwnsRevision
<1>2. CASE \E h \in Hashes, revision \in 1 .. MaxRevision : BeginBlock(h, revision)
  BY <1>1, <1>2 DEF BeginBlock, database, UnpublishedAbove, TombstonesWritten
<1>3. CASE \E t \in Hashes \cup {NoHash}, revision \in 1 .. MaxRevision :
             BeginRollback(t, revision)
  BY <1>1, <1>3 DEF BeginRollback, database, UnpublishedAbove, TombstonesWritten
<1>4. CASE Reserve
  BY <1>1, <1>4 DEF Reserve, Reservation, AppendState, UnpublishedAbove, TombstonesWritten
<1>5. CASE \E f \in Families : WriteFacts(f)
  BY <1>1, <1>5 DEF WriteFacts, UnpublishedAbove, TombstonesWritten
<1>6. CASE Complete
  BY <1>1, <1>6 DEF Complete, Marker, AppendState, UnpublishedAbove, TombstonesWritten
<1>7. CASE CheckPublish
  BY <1>1, <1>7 DEF CheckPublish, database, UnpublishedAbove, TombstonesWritten
<1>8. CASE RefusePublish
  BY <1>1, <1>8 DEF RefusePublish, database, Return, UnpublishedAbove, TombstonesWritten
<1>9. CASE \E r \in suffix : WriteOrphans(r.number)
  <2>1. PICK height : height \in {r.number : r \in suffix} /\ WriteOrphans(height)
    BY <1>9
  <2> DEFINE chunk == {r \in suffix : r.number <= height}
  <2> DEFINE new == {Orphan(r, next.revision) : r \in chunk}
  <2>2. /\ pc = "orphan" /\ chunk # {} /\ blocks' = blocks \cup new
        /\ pc' \in {"orphan", "fence"} /\ UNCHANGED <<fence, previous, next>>
    BY <2>1 DEF WriteOrphans
  <2>3. /\ suffix \subseteq OrphanSuffix(next) /\ RollbackState /\ suffix \subseteq Row
    BY <2>2 DEF SafeInv, WriterOwnsRevision, TypeOK
  <2>4. \A r \in chunk : /\ Orphan(r, next.revision).revision = next.revision
                         /\ Orphan(r, next.revision).number = r.number
                         /\ Orphan(r, next.revision).canonical = FALSE
                         /\ Orphan(r, next.revision).status = "orphaned"
    BY <1>1, <2>3, OrphanType
  <2>5. \A o \in new : Abandons(next, o)
    BY <2>3, <2>4 DEF OrphanSuffix, Abandons
  <2>6. TombstonesWritten'
    BY <2>2, <2>4 DEF TombstonesWritten
  <2>7. IsRollback(previous, next)
    BY <1>1, <2>2, <2>3 DEF RollbackState
  <2> HIDE DEF new
  <2> QED
    BY <2>2, <2>5, <2>6, <2>7 DEF UnpublishedAbove, IsRollback, Abandons
<1>10. CASE PublishFence
  <2>1. \A r \in blocks : r.revision <= next.revision
    BY <1>10 DEF PublishFence, SafeInv, WriterOwnsRevision
  <2> QED
    BY <1>1, <1>10, <2>1 DEF PublishFence, UnpublishedAbove
<1>11. CASE Crash
  BY <1>1, <1>11 DEF Crash, database, Return, UnpublishedAbove, TombstonesWritten
<1> QED
  BY <1>2, <1>3, <1>4, <1>5, <1>6, <1>7, <1>8, <1>9, <1>10, <1>11 DEF Next

\* The view after the fence of an appended block: the old view and the new block.
LEMMA AppendView ==
  ASSUME ChainInv, PublishFence, AppendState
  PROVE  Canonical' = Canonical \cup {Marker(next)}
<1> DEFINE new == Marker(next)
<1> USE DEF ChainInv, SafeInv
<1>1. /\ pc = "fence" /\ fence' = next /\ blocks' = blocks /\ previous = fence
  BY DEF PublishFence
<1>2. /\ new \in blocks /\ next.revision >= fence.revision + 3
      /\ \A r \in blocks : r.revision <= next.revision /\ r.revision \in Nat /\ r.number \in Nat
      /\ next \in State /\ fence \in State
  BY <1>1 DEF WriterOwnsRevision, RollbackState, AppendState, IsRollback, TypeOK, State, Row
<1>3. ~IsRollback(previous, next)
  BY <1>1, <1>2 DEF AppendState, IsRollback, State
<1>4. new \in Canonical'
  <2>1. /\ new.number = next.last /\ new.revision = next.revision /\ new.hash = next.hash
        /\ new.canonical /\ new.status = "complete"
    BY DEF Marker
  <2>2. /\ next.start <= next.last /\ next.last \in Nat /\ next.revision \in Nat
        /\ next.initialized
    BY <1>2 DEF AppendState, FenceValid, State
  <2> HIDE DEF new
  <2>3. /\ new \in blocks /\ new.revision <= next.revision
        /\ \A q \in blocks : q.revision <= new.revision
    BY <1>2, <2>1, <2>2
  <2> QED
    BY <1>1, <2>1, <2>2, <2>3 DEF Canonical, LatestBelow
<1>5. \A r \in Canonical' : r.number = next.last => r = new
  <2> SUFFICES ASSUME NEW r \in Canonical', r.number = next.last PROVE r = new
    OBVIOUS
  <2>1. new.number = next.last /\ new.revision = next.revision
    BY DEF Marker
  <2>2. r \in blocks /\ next.revision <= r.revision
    BY <1>1, <1>2, <2>1 DEF Canonical, LatestBelow, State
  <2> QED
    BY <1>2, <2>1, <2>2 DEF UniqueVersions, State
<1>6. CASE ~fence.initialized
  <2>1. Canonical = {}
    BY <1>6 DEF Canonical
  <2>2. \A r \in Canonical' : r.number = next.last
    BY <1>1, <1>2, <1>6 DEF Canonical, AppendState, State
  <2> QED
    BY <1>4, <1>5, <2>1, <2>2
<1>7. CASE fence.initialized
  <2>1. \A r \in blocks : r.revision > fence.revision => r.number = fence.last + 1
    BY <1>3, <1>7 DEF UnpublishedAbove
  <2>2. /\ next.last = fence.last + 1 /\ next.start = fence.start /\ next.initialized
        /\ fence.last \in Nat /\ fence.start \in Nat /\ fence.revision \in Nat
        /\ next.revision \in Nat
    BY <1>2, <1>7 DEF AppendState, State
  <2>3. \A r \in blocks : r.number # next.last =>
          (LatestBelow(r, fence.revision) <=> LatestBelow(r, next.revision))
    BY <1>2, <2>1, <2>2 DEF LatestBelow
  <2>4. Canonical \subseteq Canonical'
    BY <1>1, <1>2, <1>7, <2>2, <2>3 DEF Canonical, LatestBelow
  <2>5. ASSUME NEW r \in Canonical', r.number # next.last
        PROVE  r \in Canonical
    <3>1. /\ r \in blocks /\ r.canonical /\ r.status = "complete"
          /\ fence.start <= r.number /\ r.number <= fence.last
          /\ LatestBelow(r, next.revision)
      BY <1>1, <1>2, <2>2, <2>5 DEF Canonical, LatestBelow
    <3>2. LatestBelow(r, fence.revision)
      BY <2>3, <2>5, <3>1
    <3>3. CASE r.number < fence.last
      BY <1>7, <3>1, <3>2, <3>3 DEF Canonical
    <3>4. CASE r.number = fence.last
      <4>1. PICK tip \in Canonical : tip.number = fence.last
        BY <1>7, <3>1, <3>4, <2>2 DEF CanonicalChain
      <4>2. tip \in blocks /\ LatestBelow(tip, fence.revision)
        BY <4>1 DEF Canonical
      <4>3. tip.revision = r.revision
        BY <1>2, <3>1, <3>2, <3>4, <4>1, <4>2 DEF LatestBelow
      <4>4. tip = r
        BY <3>1, <3>4, <4>1, <4>2, <4>3 DEF UniqueVersions
      <4> QED
        BY <4>1, <4>4
    <3> QED
      BY <1>2, <2>2, <3>1, <3>3, <3>4
  <2> QED
    BY <1>4, <1>5, <2>4, <2>5
<1> QED
  BY <1>6, <1>7

\* The view after the fence of a rollback: the old view up to the ancestor.
LEMMA RollbackView ==
  ASSUME ChainInv, PublishFence, RollbackState
  PROVE  Canonical' = {r \in Canonical : next.initialized /\ r.number <= next.last}
<1> USE DEF ChainInv, SafeInv
<1>1. /\ pc = "fence" /\ fence' = next /\ blocks' = blocks /\ previous = fence
      /\ RollbackChecked
  BY DEF PublishFence, WriterOwnsRevision
<1>2. /\ next.revision >= fence.revision + 3 /\ next \in State /\ fence \in State
      /\ \A r \in blocks : r.revision <= next.revision /\ r.revision \in Nat /\ r.number \in Nat
  BY <1>1 DEF WriterOwnsRevision, TypeOK, State, Row
<1>3. CASE ~next.initialized
  BY <1>1, <1>3 DEF Canonical
<1>4. CASE next.initialized
  <2>1. /\ fence.initialized /\ next.start = fence.start /\ next.last < fence.last
        /\ fence.last \in Nat /\ fence.start \in Nat /\ fence.revision \in Nat
        /\ next.revision \in Nat /\ next.last \in Nat
    BY <1>2, <1>4 DEF RollbackState, IsRollback, State
  <2>2. \A r \in blocks : r.revision > fence.revision => r.number > next.last
    BY <1>4, <2>1, <1>2 DEF UnpublishedAbove, Abandons
  <2>3. \A r \in blocks : r.number <= next.last =>
          (LatestBelow(r, fence.revision) <=> LatestBelow(r, next.revision))
    BY <1>2, <2>1, <2>2 DEF LatestBelow
  <2>4. ASSUME NEW r \in Canonical' PROVE r \in Canonical /\ r.number <= next.last
    BY <1>1, <1>2, <2>1, <2>3 DEF Canonical, LatestBelow
  <2>5. ASSUME NEW r \in Canonical, r.number <= next.last PROVE r \in Canonical'
    <3>1. PICK tip \in Canonical : tip.number = next.last /\ tip.hash = next.hash
      BY <1>1, <1>4 DEF RollbackChecked
    <3>2. r.number = next.last => r.hash = next.hash
      BY <3>1, CanonicalUnique
    <3>3. /\ r \in blocks /\ LatestBelow(r, fence.revision) /\ fence.start <= r.number
          /\ r.canonical /\ r.status = "complete"
      BY DEF Canonical
    <3>4. LatestBelow(r, next.revision)
      BY <2>3, <2>5, <3>3
    <3>5. r.number < next.last \/ r.hash = next.hash
      BY <1>2, <2>1, <2>5, <3>2, <3>3
    <3> QED
      BY <1>1, <1>4, <2>1, <2>5, <3>3, <3>4, <3>5 DEF Canonical, LatestBelow
  <2> QED
    BY <1>4, <2>4, <2>5
<1> QED
  BY <1>3, <1>4

LEMMA ChainAppend ==
  ASSUME ChainInv, PublishFence, AppendState
  PROVE  CanonicalChain'
<1> DEFINE new == Marker(next)
<1> USE DEF ChainInv, SafeInv
<1>1. fence' = next /\ fence \in State /\ next \in State
  BY DEF PublishFence, TypeOK
<1>2. /\ new.number = next.last /\ new.hash = next.hash /\ new.parent = ParentOf[next.hash]
  BY DEF Marker
<1>3. Canonical' = Canonical \cup {new}
  BY AppendView
<1> HIDE DEF new
<1>4. CASE ~fence.initialized
  <2>1. Canonical' = {new}
    BY <1>3, <1>4 DEF Canonical
  <2>2. next.start = next.last /\ next.last \in Nat
    BY <1>1, <1>4 DEF AppendState, State
  <2> QED
    BY <1>1, <1>2, <2>1, <2>2 DEF CanonicalChain
<1>5. CASE fence.initialized
  <2>1. /\ next.last = fence.last + 1 /\ next.start = fence.start
        /\ ParentOf[next.hash] = fence.hash
        /\ fence.last \in Nat /\ fence.start \in Nat
    BY <1>1, <1>5 DEF AppendState, State
  <2>2. \A r \in Canonical : r.number \in Nat /\ r.number <= fence.last
    BY DEF Canonical, TypeOK, Row
  <2>3. \A n \in next.start .. next.last : \E r \in Canonical' : r.number = n
    <3> SUFFICES ASSUME NEW n \in next.start .. next.last
                 PROVE  \E r \in Canonical' : r.number = n
      OBVIOUS
    <3>1. CASE n = next.last
      BY <1>2, <1>3, <3>1
    <3>2. CASE n # next.last
      <4>1. n \in fence.start .. fence.last
        BY <2>1, <3>2
      <4> QED
        BY <1>3, <1>5, <4>1 DEF CanonicalChain
    <3> QED
      BY <3>1, <3>2
  <2>4. \A r \in Canonical' : r.number = next.last => r.hash = next.hash
    BY <1>2, <1>3, <2>1, <2>2
  <2>5. \A q, r \in Canonical' : q.number + 1 = r.number => r.parent = q.hash
    BY <1>2, <1>3, <1>5, <2>1, <2>2 DEF CanonicalChain
  <2> QED
    BY <1>1, <2>3, <2>4, <2>5 DEF CanonicalChain
<1> QED
  BY <1>4, <1>5

LEMMA ChainRollback ==
  ASSUME ChainInv, PublishFence, RollbackState
  PROVE  CanonicalChain'
<1> USE DEF ChainInv, SafeInv
<1>1. fence' = next /\ fence \in State /\ next \in State /\ fence.initialized
  BY DEF PublishFence, TypeOK, RollbackState
<1>2. Canonical' = {r \in Canonical : next.initialized /\ r.number <= next.last}
  BY RollbackView
<1>3. next.initialized => /\ next.start = fence.start /\ next.last < fence.last
                          /\ next.last \in Nat /\ fence.last \in Nat /\ fence.start \in Nat
  BY <1>1 DEF RollbackState, IsRollback, State
<1>4. next.initialized => \A n \in next.start .. next.last : \E r \in Canonical' : r.number = n
  <2> SUFFICES ASSUME next.initialized, NEW n \in next.start .. next.last
               PROVE  \E r \in Canonical' : r.number = n
    OBVIOUS
  <2>1. n \in fence.start .. fence.last /\ n <= next.last
    BY <1>3
  <2>2. PICK r \in Canonical : r.number = n
    BY <1>1, <2>1 DEF CanonicalChain
  <2> QED
    BY <1>2, <2>1, <2>2
<1>5. \A r \in Canonical' : r.number = next.last => r.hash = next.hash
  BY <1>1, <1>3 DEF Canonical
<1>6. \A q, r \in Canonical' : q.number + 1 = r.number => r.parent = q.hash
  BY <1>1, <1>2 DEF CanonicalChain
<1> QED
  BY <1>1, <1>4, <1>5, <1>6 DEF CanonicalChain

LEMMA ChainStep == ChainInv /\ ~InterruptedRollback /\ [Next]_vars => ChainInv'
<1> SUFFICES ASSUME ChainInv, ~InterruptedRollback, [Next]_vars PROVE ChainInv'
  OBVIOUS
<1>1. SafeInv /\ TypeOK
  BY DEF ChainInv, SafeInv
<1>2. SafeInv'
  BY <1>1, SafeStep
<1>3. UnpublishedAbove'
  <2>1. CASE Next
    BY <1>1, <2>1, UnpublishedAboveStep DEF ChainInv
  <2>2. CASE UNCHANGED vars
    BY <2>2 DEF ChainInv, vars, database, writer, UnpublishedAbove, TombstonesWritten,
                IsRollback, Abandons
  <2> QED
    BY <2>1, <2>2
<1>4. CanonicalChain'
  <2>1. CASE fence' = fence
    <3>1. Canonical' = Canonical
      <4>1. CASE Next
        BY <1>1, <2>1, <4>1, WritesAboveFence, CanonicalStable
      <4>2. CASE UNCHANGED vars
        BY <4>2 DEF vars, database, Canonical, LatestBelow
      <4> QED
        BY <4>1, <4>2
    <3> QED
      BY <2>1, <3>1 DEF ChainInv, CanonicalChain
  <2>2. CASE fence' # fence
    <3>1. PublishFence
      BY <2>2 DEF Next, BeginBlock, Reserve, WriteFacts, Complete, BeginRollback, CheckPublish,
                  RefusePublish, WriteOrphans, Crash, database, vars
    <3>2. AppendState \/ RollbackState
      BY <3>1, <1>1 DEF PublishFence, SafeInv, WriterOwnsRevision
    <3> QED
      BY <3>1, <3>2, ChainAppend, ChainRollback
  <2> QED
    BY <2>1, <2>2
<1> QED
  BY <1>2, <1>3, <1>4 DEF ChainInv

\* The published range is one chain, if no rollback is abandoned half way.
THEOREM ChainInvariant == ASSUME ~InterruptedRollback PROVE Spec => []ChainInv
<1>1. Init => ChainInv
  <2> SUFFICES ASSUME Init PROVE ChainInv
    OBVIOUS
  <2> QED
    BY SafeInit DEF Init, ChainInv, UnpublishedAbove, CanonicalChain, EmptyState
<1>2. ChainInv /\ [Next]_vars => ChainInv'
  BY ChainStep
<1> QED
  BY <1>1, <1>2, PTL DEF Spec

\* Every height from the start to the tip has one visible block, linked to the next.
THEOREM ChainCorrect == ASSUME ~InterruptedRollback PROVE Spec => []CanonicalChain
<1>1. ChainInv => CanonicalChain
  BY DEF ChainInv
<1> QED
  BY <1>1, ChainInvariant, PTL

-----------------------------------------------------------------------------
(* The protocol implements PublishedChain *)

\* The heights of the visible rows are those of their hashes, up to the tip.
LEMMA VisibleHeights ==
  ASSUME SafeInv, NEW r \in Canonical
  PROVE  /\ fence.initialized /\ NumberOf[r.hash] = r.number
         /\ r.number \in Nat /\ r.number <= fence.last
BY DEF SafeInv, TypeOK, Row, RowsMatchHeaders, Canonical

LEMMA AppendImplements ==
  ASSUME ChainInv, PublishFence, AppendState
  PROVE  Published!Next
<1> USE DEF ChainInv
<1>1. VisibleHashes' = VisibleHashes \cup {next.hash}
  <2>1. Canonical' = Canonical \cup {Marker(next)} /\ Marker(next).hash = next.hash
    BY AppendView DEF Marker
  <2> QED
    BY <2>1 DEF VisibleHashes
<1>2. ASSUME VisibleHashes # {}
      PROVE  /\ Published!IsTip(ParentOf[next.hash])
             /\ NumberOf[next.hash] = NumberOf[ParentOf[next.hash]] + 1
  <2>1. fence.initialized
    BY <1>2 DEF VisibleHashes, Canonical
  <2>2. /\ ParentOf[next.hash] = fence.hash /\ next.last = fence.last + 1
        /\ NumberOf[next.hash] = next.last /\ NumberOf[fence.hash] = fence.last
        /\ fence.start <= fence.last /\ fence.last \in Nat /\ fence.start \in Nat
    BY <2>1 DEF AppendState, SafeInv, FenceValid, TypeOK, State
  <2>3. fence.last \in fence.start .. fence.last
    BY <2>2
  <2>4. \E r \in Canonical : r.number = fence.last /\ r.hash = fence.hash
    BY <2>1, <2>3 DEF CanonicalChain
  <2>5. fence.hash \in VisibleHashes
    BY <2>4 DEF VisibleHashes
  <2>6. \A g \in VisibleHashes : NumberOf[g] <= fence.last
    BY VisibleHeights DEF VisibleHashes
  <2> QED
    BY <2>2, <2>5, <2>6 DEF Published!IsTip
<1>3. Published!Append(next.hash)
  BY <1>1, <1>2 DEF Published!Append
<1> QED
  BY <1>3 DEF Published!Next, AppendState

LEMMA RollbackImplements ==
  ASSUME ChainInv, PublishFence, RollbackState
  PROVE  Published!Next
<1> USE DEF ChainInv
<1>1. Canonical' = {r \in Canonical : next.initialized /\ r.number <= next.last}
  BY RollbackView
<1>2. CASE ~next.initialized
  <2>1. VisibleHashes' = {}
    BY <1>1, <1>2 DEF VisibleHashes
  <2> QED
    BY <2>1 DEF Published!Next, Published!Reset
<1>3. CASE next.initialized
  <2>1. \E r \in Canonical : r.number = next.last /\ r.hash = next.hash
    BY <1>3 DEF PublishFence, SafeInv, WriterOwnsRevision, RollbackChecked
  <2>2. next.hash \in VisibleHashes
    BY <2>1 DEF VisibleHashes
  <2>3. NumberOf[next.hash] = next.last
    BY <1>3 DEF RollbackState
  <2>4. VisibleHashes' = {g \in VisibleHashes : NumberOf[g] <= NumberOf[next.hash]}
    BY <1>1, <1>3, <2>3, VisibleHeights DEF VisibleHashes
  <2> QED
    BY <2>2, <2>4 DEF Published!Next, Published!CutBack
<1> QED
  BY <1>2, <1>3

\* Readers cannot tell the protocol from atomic steps of one chain.
THEOREM Implementation == ASSUME ~InterruptedRollback PROVE Spec => ImplementsPublishedChain
<1>1. Init => Published!Init
  BY DEF Init, Published!Init, VisibleHashes, Canonical, EmptyState
<1>2. ChainInv /\ [Next]_vars => [Published!Next]_VisibleHashes
  <2> SUFFICES ASSUME ChainInv, [Next]_vars, VisibleHashes' # VisibleHashes
               PROVE  Published!Next
    OBVIOUS
  <2>1. Canonical' # Canonical
    BY DEF VisibleHashes
  <2>2. Next
    BY <2>1 DEF vars, database, Canonical, LatestBelow
  <2>3. fence' # fence
    BY <2>1, <2>2, WritesAboveFence, CanonicalStable DEF ChainInv, SafeInv
  <2>4. PublishFence
    BY <2>2, <2>3 DEF Next, BeginBlock, Reserve, WriteFacts, Complete, BeginRollback,
                      CheckPublish, RefusePublish, WriteOrphans, Crash, database
  <2>5. AppendState \/ RollbackState
    BY <2>4 DEF ChainInv, SafeInv, PublishFence, WriterOwnsRevision
  <2> QED
    BY <2>4, <2>5, AppendImplements, RollbackImplements
<1> QED
  BY <1>1, <1>2, ChainInvariant, PTL DEF Spec, Published!Spec, ImplementsPublishedChain
=============================================================================
