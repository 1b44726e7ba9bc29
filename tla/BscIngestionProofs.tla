-------------------------- MODULE BscIngestionProofs --------------------------
(***************************************************************************)
(* Proofs about the canonical ingestion of the BSC service, for every tree *)
(* of blocks, every batch size and reorganisation depth: the canonical     *)
(* blocks below the checkpoint are one chain unless a repair was cut off,  *)
(* each of them has its rows, and the cursor, the markers and the failure  *)
(* records change by their rules only.  What holds them up (IInv) is what  *)
(* a command may rely on at each place between its inserts.  The last part *)
(* is about how the block of one height is fetched from several nodes       *)
(* (BscRpc), for any number of them and any transactions.                  *)
(***************************************************************************)
EXTENDS BscIngestion, BranchTheorems, ChainServices, FiniteSetTheorems, TLAPS

-----------------------------------------------------------------------------
(* The invariant *)

States == Hashes \cup {NoHash}

Markers == [hash : States, canonical : BOOLEAN, traced : BOOLEAN]

MarkersTyped == marker \in [Heights -> Markers]

RowsTyped ==
  /\ facts \in [Heights -> SUBSET BOOLEAN]
  /\ staged \in [Heights -> SUBSET [hash : Hashes, traced : BOOLEAN]]

CursorTyped == cursor \in [written : BOOLEAN, next : Nat, hash : States]

FailuresTyped == failures \in [Heights -> {"none", "open", "dead"}]

\* A canonical marker is at its block's height and has the rows it counts.
MarkersPlaced ==
  \A n \in Heights : marker[n].canonical =>
    /\ marker[n].hash \in Hashes /\ NumberOf[marker[n].hash] = n
    /\ marker[n].traced \in facts[n]

\* The cursor is the block after its hash, or the first one when no block is left.
CursorPlaced ==
  /\ ~cursor.written => cursor.hash = NoHash
  /\ cursor.written => cursor.next = IF cursor.hash = NoHash THEN 0 ELSE NumberOf[cursor.hash] + 1

\* Below the checkpoint only the heights that a cut off repair tombstoned are not
\* part of one canonical chain.
Standing ==
  /\ \A n \in holes : n <= Last
  /\ cursor.hash # NoHash =>
       /\ Last \notin holes => CheckpointStored
       /\ \A n \in (Start .. Last) \ holes :
            /\ Stored(n) # NoHash
            /\ n > Start /\ n - 1 \notin holes => ParentOf[Stored(n)] = Stored(n - 1)

DatabaseOK ==
  /\ MarkersTyped /\ RowsTyped /\ CursorTyped /\ FailuresTyped /\ holes \subseteq Heights
  /\ MarkersPlaced /\ CursorPlaced /\ Standing

PlaceTyped ==
  /\ mode \in {"none", "sync", "range", "replay", "repair"}
  /\ pc \in {"none", "begin", "verify", "plan", "next", "block", "staged", "stored", "resolved",
             "search", "tombstone"}
  /\ wanted \in States /\ parent \in States
  /\ todo \subseteq Heights
  /\ tip \in Nat /\ at \in Nat /\ end \in Nat /\ examined \in 0 .. ReorgDepth - 1

FlagsTyped == required \in BOOLEAN /\ retried \in BOOLEAN

BlockTyped == block \in Markers

\* The modes that the places of a command belong to.
Control ==
  /\ pc \in {"begin", "verify", "plan", "search", "tombstone"} => mode = "sync"
  /\ pc = "next" => mode = "repair"

CheckpointKept == cursor.hash # NoHash => CheckpointStored

\* The follower works on the block after its checkpoint, which stays canonical.
Following ==
  /\ pc = "plan" => CheckpointKept
  /\ (mode = "sync" /\ pc \in {"block", "staged", "stored", "resolved"}) =>
       /\ at = NextBlock /\ CheckpointKept
       /\ cursor.hash # NoHash => parent = cursor.hash

Row == [hash |-> block.hash, traced |-> block.traced]

\* The block that is committed belongs at its height, continues the one before it,
\* replaces no other, and its rows are there before its marker.
Committing ==
  /\ pc = "staged" =>
       /\ block.hash \in Hashes /\ NumberOf[block.hash] = at /\ block.canonical
       /\ Existing \in {NoHash, block.hash} /\ Linked(block.hash)
       /\ Row \in staged[at]
  /\ pc \in {"stored", "resolved"} =>
       block.hash \in Hashes /\ Stored(at) = block.hash /\ Linked(block.hash)

\* The search for the ancestor has looked at every height from the checkpoint down;
\* the repair goes back to the block after the ancestor, or to the first one.
Repairing ==
  /\ pc = "search" => cursor.written /\ at + examined = Last /\ block = NoMarker
  /\ pc = "tombstone" =>
       /\ cursor.written
       /\ \/ at = 0 /\ block = NoMarker /\ Last < ReorgDepth
          \/ /\ block.hash \in Hashes /\ at = NumberOf[block.hash] + 1
             /\ at <= Last + 1 /\ Last + 1 - at < ReorgDepth /\ Stored(at - 1) = block.hash

ProcessOK ==
  /\ PlaceTyped /\ FlagsTyped /\ BlockTyped
  /\ Control /\ Following /\ Committing /\ Repairing

\* The invariant but for the bounds of the counters.
PInv == DatabaseOK /\ view \in Views /\ ProcessOK

UsedTyped ==
  used \in [errors : 0 .. MaxErrors, commands : 0 .. MaxCommands, changes : 0 .. MaxChanges]

IInv == PInv /\ UsedTyped

\* The canonical block of a height among given markers.
StoredIn(markers, n) ==
  IF n \in Heights /\ markers[n].canonical THEN markers[n].hash ELSE NoHash

-----------------------------------------------------------------------------
(* Heights, branches and markers *)

LEMMA HeightFacts ==
  /\ Heights \subseteq Nat /\ \A h \in Hashes : NumberOf[h] \in Heights /\ NumberOf[h] \in Nat
  /\ NoHash \notin Hashes /\ Start \in Nat /\ BatchSize \in Nat /\ BatchSize > 0
  /\ ReorgDepth \in Nat /\ ReorgDepth > 0
BY BscAssumption DEF Heights

LEMMA BlockTree == Tree(Hashes, NoHash, NumberOf, ParentOf)
<1>1. \A h \in Hashes : ParentOf[h] \in Hashes => NumberOf[ParentOf[h]] < NumberOf[h]
  <2>1. ASSUME NEW h \in Hashes, ParentOf[h] \in Hashes
        PROVE  NumberOf[ParentOf[h]] < NumberOf[h]
    <3>1. ParentOf[h] # NoHash /\ NumberOf[ParentOf[h]] \in Nat
      BY <2>1, BscAssumption
    <3>2. NumberOf[h] = NumberOf[ParentOf[h]] + 1
      BY <3>1, BscAssumption
    <3> QED
      BY <3>1, <3>2
  <2> QED
    BY <2>1
<1> QED
  BY <1>1, BscAssumption DEF Tree

LEMMA ChainUnfolds == Branches(Chain, Hashes, NoHash, ParentOf, Hashes)
<1>1. PICK f : Branches(f, Hashes, NoHash, ParentOf, Hashes)
  BY BlockTree, BranchesExist
<1>2. \A h \in Hashes \cup {NoHash} : h = NoHash <=> h \notin Hashes
  BY BscAssumption
<1>3. \A g : Branches(g, Hashes, NoHash, ParentOf, Hashes) <=>
             g = [h \in Hashes \cup {NoHash} |-> IF h = NoHash THEN {} ELSE {h} \cup g[ParentOf[h]]]
  BY <1>2 DEF Branches
<1> QED
  BY <1>1, <1>3 DEF Chain

LEMMA BlockAtFacts ==
  ASSUME view \in Views, NEW n
  PROVE  \A h \in BlockAt(n) : h \in Hashes /\ NumberOf[h] = n
<1>1. CASE view = Down
  BY <1>1 DEF BlockAt
<1>2. CASE view # Down
  <2>1. view \in Hashes
    BY <1>2, BscAssumption
  <2>2. Chain[view] \subseteq Hashes
    BY <2>1, BlockTree, ChainUnfolds, BranchFacts
  <2> QED
    BY <1>2, <2>2 DEF BlockAt
<1> QED
  BY <1>1, <1>2

LEMMA StoredFacts ==
  ASSUME DatabaseOK, NEW n
  PROVE  /\ Stored(n) \in States
         /\ Stored(n) # NoHash =>
              /\ n \in Heights /\ n \in Nat /\ marker[n].canonical /\ marker[n] \in Markers
              /\ Stored(n) = marker[n].hash /\ Stored(n) \in Hashes /\ NumberOf[Stored(n)] = n
              /\ marker[n].traced \in facts[n]
<1>1. CASE n \in Heights /\ marker[n].canonical
  <2>1. /\ Stored(n) = marker[n].hash /\ marker[n].hash \in Hashes
        /\ NumberOf[marker[n].hash] = n /\ marker[n].traced \in facts[n]
    BY <1>1 DEF Stored, DatabaseOK, MarkersPlaced
  <2>2. marker[n] \in Markers
    BY <1>1 DEF DatabaseOK, MarkersTyped
  <2> QED
    BY <1>1, <2>1, <2>2, HeightFacts DEF States
<1>2. CASE ~(n \in Heights /\ marker[n].canonical)
  BY <1>2 DEF Stored, States
<1> QED
  BY <1>1, <1>2

LEMMA StoredMarker ==
  ASSUME DatabaseOK, NEW n \in Heights
  PROVE  Stored(n) # NoHash <=> marker[n].canonical
BY HeightFacts DEF Stored, DatabaseOK, MarkersPlaced

LEMMA CursorFacts ==
  ASSUME DatabaseOK
  PROVE  /\ Last \in Nat /\ NextBlock \in Nat /\ cursor.hash \in States /\ cursor.next \in Nat
         /\ cursor.written \in BOOLEAN
         /\ cursor.hash # NoHash =>
              /\ cursor.written /\ cursor.hash \in Hashes /\ Last = NumberOf[cursor.hash]
              /\ cursor.next = Last + 1 /\ NextBlock = Last + 1
         /\ cursor.hash = NoHash => Last = 0 /\ (cursor.written => cursor.next = 0)
<1>1. cursor.hash \in States /\ cursor.next \in Nat /\ cursor.written \in BOOLEAN
  BY DEF DatabaseOK, CursorTyped
<1>2. CASE cursor.hash = NoHash
  BY <1>1, <1>2, HeightFacts DEF Last, NextBlock, DatabaseOK, CursorPlaced
<1>3. CASE cursor.hash # NoHash
  <2>1. cursor.hash \in Hashes /\ Last = NumberOf[cursor.hash] /\ Last \in Nat
    BY <1>1, <1>3, HeightFacts DEF States, Last
  <2>2. cursor.written /\ cursor.next = Last + 1
    BY <1>3, <2>1 DEF DatabaseOK, CursorPlaced
  <2> QED
    BY <1>1, <1>3, <2>1, <2>2 DEF NextBlock
<1> QED
  BY <1>2, <1>3

LEMMA NoMarkerTyped ==
  NoMarker \in Markers /\ NoMarker.hash = NoHash /\ NoMarker.canonical = FALSE
BY DEF NoMarker, Markers, States

LEMMA LowestFacts ==
  ASSUME NEW T \in SUBSET Nat, T # {}
  PROVE  Lowest(T) \in T /\ \A m \in T : Lowest(T) <= m
BY LeastNatural DEF Lowest

-----------------------------------------------------------------------------
(* What a step keeps *)

\* Only the failure records may change.
LEMMA FailuresChange ==
  ASSUME DatabaseOK, UNCHANGED <<marker, facts, staged, cursor, holes>>, FailuresTyped'
  PROVE  DatabaseOK'
<1>1. MarkersTyped' /\ RowsTyped' /\ CursorTyped' /\ (holes \subseteq Heights)'
  BY DEF DatabaseOK, MarkersTyped, RowsTyped, CursorTyped
<1>2. MarkersPlaced' /\ CursorPlaced'
  BY DEF DatabaseOK, MarkersPlaced, CursorPlaced
<1>3. Standing'
  BY DEF DatabaseOK, Standing, CheckpointStored, Stored, Last
<1> QED
  BY <1>1, <1>2, <1>3 DEF DatabaseOK

LEMMA DatabaseKept ==
  ASSUME DatabaseOK, UNCHANGED database
  PROVE  DatabaseOK'
<1>1. UNCHANGED <<marker, facts, staged, cursor, failures, holes>>
  BY DEF database
<1>2. FailuresTyped'
  BY <1>1 DEF DatabaseOK, FailuresTyped
<1> QED
  BY <1>1, <1>2, FailuresChange

\* A failure is recorded at the height at hand.
LEMMA RecordedTyped ==
  ASSUME DatabaseOK, NEW statuses \in SUBSET {"none", "open", "dead"}, Recorded(statuses)
  PROVE  FailuresTyped'
BY DEF DatabaseOK, FailuresTyped, Recorded

LEMMA IdleOK ==
  ASSUME Idle PROVE ProcessOK'
<1>1. PlaceTyped'
  BY HeightFacts DEF Idle, PlaceTyped, States
<1>2. FlagsTyped'
  BY DEF Idle, FlagsTyped
<1>3. BlockTyped'
  BY NoMarkerTyped DEF Idle, BlockTyped
<1>4. Control' /\ Following' /\ Committing' /\ Repairing'
  BY DEF Idle, Control, Following, Committing, Repairing
<1> QED
  BY <1>1, <1>2, <1>3, <1>4 DEF ProcessOK

\* Where nothing has to hold but the types and the mode.
LEMMA PlainOK ==
  ASSUME PlaceTyped', FlagsTyped', BlockTyped', Control',
         pc' \notin {"plan", "staged", "stored", "resolved", "search", "tombstone"},
         pc' = "block" => mode' # "sync"
  PROVE  ProcessOK'
<1>1. Following' /\ Committing' /\ Repairing'
  BY DEF Following, Committing, Repairing
<1> QED
  BY <1>1 DEF ProcessOK

LEMMA RangeTyped ==
  ASSUME DatabaseOK, NEW first \in Nat, NEW last \in Nat, ProcessRange(first, last)
  PROVE  /\ at' \in Nat /\ end' \in Nat /\ parent' \in States /\ pc' = "block"
         /\ at' = first /\ parent' = Stored(first - 1)
<1>1. at' = first /\ end' = last /\ parent' = Stored(first - 1) /\ pc' = "block"
  BY DEF ProcessRange
<1>2. parent' \in States
  BY <1>1, StoredFacts
<1> QED
  BY <1>1, <1>2

\* The heights go down to the first block.
LEMMA HeightsClosed ==
  ASSUME NEW n \in Nat, NEW m \in Heights, n <= m
  PROVE  n \in Heights
<1> DEFINE Q == {h \in Hashes : \A k \in Nat : k <= NumberOf[h] => k \in Heights}
<1>1. ASSUME NEW h \in Hashes, ParentOf[h] \in Hashes => ParentOf[h] \in Q
      PROVE  h \in Q
  <2>1. NumberOf[h] \in Heights /\ NumberOf[h] \in Nat
    BY HeightFacts
  <2>2. CASE ParentOf[h] = NoHash
    <3>1. NumberOf[h] = 0
      BY <2>2, BscAssumption
    <3> QED
      BY <2>1, <3>1
  <2>3. CASE ParentOf[h] # NoHash
    <3>1. ParentOf[h] \in Hashes /\ NumberOf[h] = NumberOf[ParentOf[h]] + 1
      BY <2>3, BscAssumption
    <3>2. NumberOf[ParentOf[h]] \in Nat
      BY <3>1, HeightFacts
    <3>3. ASSUME NEW k \in Nat, k <= NumberOf[h] PROVE k \in Heights
      <4>1. k = NumberOf[h] \/ k <= NumberOf[ParentOf[h]]
        BY <3>1, <3>2, <3>3
      <4> QED
        BY <1>1, <2>1, <3>1, <4>1
    <3> QED
      BY <3>3
  <2> QED
    BY <2>2, <2>3
<1>2. Hashes \subseteq Q
  <2> HIDE DEF Q
  <2> QED
    BY <1>1, BlockTree, BranchInduction
<1>3. PICK h \in Hashes : m = NumberOf[h]
  BY DEF Heights
<1> QED
  BY <1>2, <1>3

-----------------------------------------------------------------------------
(* Steps that leave the database alone *)

\* A step of a command, between two inserts.
LEMMA ProcessStep ==
  ASSUME PInv, UNCHANGED <<database, view>>, ProcessOK' PROVE PInv'
BY DatabaseKept DEF PInv

LEMMA IdleStep ==
  ASSUME PInv, UNCHANGED <<database, view>>, Idle PROVE PInv'
BY IdleOK, ProcessStep

LEMMA StartSyncStep == PInv /\ StartSync => PInv'
<1> SUFFICES ASSUME PInv, StartSync PROVE PInv'
  OBVIOUS
<1>1. PlaceTyped' /\ BlockTyped' /\ Control' /\ pc' = "begin"
  BY DEF StartSync, PInv, ProcessOK, PlaceTyped, BlockTyped, Control
<1>2. FlagsTyped'
  BY BscAssumption DEF StartSync, PInv, ProcessOK, FlagsTyped
<1>3. ProcessOK'
  BY <1>1, <1>2, PlainOK
<1> QED
  BY <1>3, ProcessStep DEF StartSync

LEMMA StartRangeStep ==
  ASSUME PInv, NEW m \in {"range", "replay"}, NEW traces \in BOOLEAN,
         NEW first \in Heights, NEW last \in Heights, StartRange(m, traces, first, last)
  PROVE  PInv'
<1>1. /\ mode' = m /\ required' = traces /\ ProcessRange(first, last)
      /\ UNCHANGED <<database, view, wanted, todo, tip, block, examined, retried>>
  BY DEF StartRange
<1>2. /\ at' \in Nat /\ end' \in Nat /\ parent' \in States /\ pc' = "block"
  BY <1>1, HeightFacts, RangeTyped DEF PInv
<1>3. PlaceTyped' /\ BlockTyped' /\ Control'
  BY <1>1, <1>2 DEF PInv, ProcessOK, PlaceTyped, BlockTyped, Control
<1>4. FlagsTyped'
  BY <1>1 DEF PInv, ProcessOK, FlagsTyped
<1>5. ProcessOK'
  BY <1>1, <1>2, <1>3, <1>4, PlainOK
<1> QED
  BY <1>1, <1>5, ProcessStep

LEMMA StartReplayOfStep ==
  ASSUME PInv, NEW h \in Hashes, NEW traces \in BOOLEAN, StartReplayOf(h, traces)
  PROVE  PInv'
<1>1. /\ mode' = "replay" /\ wanted' = h /\ required' = traces /\ ProcessRange(NumberOf[h], NumberOf[h])
      /\ UNCHANGED <<database, view, todo, tip, block, examined, retried>>
  BY DEF StartReplayOf
<1>2. /\ at' \in Nat /\ end' \in Nat /\ parent' \in States /\ pc' = "block"
  BY <1>1, HeightFacts, RangeTyped DEF PInv
<1>3. PlaceTyped' /\ BlockTyped' /\ Control'
  BY <1>1, <1>2 DEF PInv, ProcessOK, PlaceTyped, BlockTyped, Control, States
<1>4. FlagsTyped'
  BY <1>1 DEF PInv, ProcessOK, FlagsTyped
<1>5. ProcessOK'
  BY <1>1, <1>2, <1>3, <1>4, PlainOK
<1> QED
  BY <1>1, <1>5, ProcessStep

LEMMA StartRepairStep ==
  ASSUME PInv, NEW first \in Heights, NEW last \in Heights, NEW traces \in BOOLEAN,
         NEW dead \in BOOLEAN, StartRepair(first, last, traces, dead)
  PROVE  PInv'
<1>1. /\ mode' = "repair" /\ pc' = "next" /\ required' = traces
      /\ UNCHANGED <<database, view, wanted, tip, at, end, parent, block, examined, retried>>
  BY DEF StartRepair
<1>2. todo' \subseteq first .. last
  BY DEF StartRepair
<1>3. todo' \subseteq Heights
  <2>1. \A n \in first .. last : n \in Nat /\ n <= last
    BY HeightFacts
  <2> QED
    BY <1>2, <2>1, HeightsClosed
<1>4. PlaceTyped' /\ BlockTyped' /\ Control'
  BY <1>1, <1>3 DEF PInv, ProcessOK, PlaceTyped, BlockTyped, Control
<1>5. FlagsTyped'
  BY <1>1 DEF PInv, ProcessOK, FlagsTyped
<1>6. ProcessOK'
  BY <1>1, <1>4, <1>5, PlainOK
<1> QED
  BY <1>1, <1>6, ProcessStep

LEMMA RequeueStep ==
  ASSUME PInv, NEW n \in Heights, Requeue(n) PROVE PInv'
<1>1. /\ failures' = [failures EXCEPT ![n] = "open"]
      /\ UNCHANGED <<marker, facts, staged, cursor, holes, view, process>>
  BY DEF Requeue
<1>2. FailuresTyped'
  BY <1>1 DEF PInv, DatabaseOK, FailuresTyped
<1>3. DatabaseOK'
  BY <1>1, <1>2, FailuresChange DEF PInv
<1>4. UNCHANGED <<mode, pc, required, wanted, todo, tip, at, end, parent, block, examined, retried>>
  BY <1>1 DEF process
<1>5. PlaceTyped' /\ FlagsTyped' /\ BlockTyped' /\ Control'
  BY <1>4 DEF PInv, ProcessOK, PlaceTyped, FlagsTyped, BlockTyped, Control
<1>6. pc' = "next"
  BY <1>4 DEF Requeue
<1> QED
  BY <1>1, <1>3, <1>5, <1>6, PlainOK DEF PInv

LEMMA RepairNextStep == PInv /\ RepairNext => PInv'
<1> SUFFICES ASSUME PInv, RepairNext PROVE PInv'
  OBVIOUS
<1>1. /\ pc = "next" /\ todo # {} /\ ProcessRange(Lowest(todo), Lowest(todo))
      /\ todo' = todo \ {Lowest(todo)}
      /\ UNCHANGED <<database, view, mode, required, wanted, tip, block, examined, retried>>
  BY DEF RepairNext
<1>2. todo \subseteq Heights /\ mode = "repair"
  BY <1>1 DEF PInv, ProcessOK, PlaceTyped, Control
<1>3. Lowest(todo) \in Nat
  BY <1>1, <1>2, HeightFacts, LowestFacts
<1>4. /\ at' \in Nat /\ end' \in Nat /\ parent' \in States /\ pc' = "block"
  BY <1>1, <1>3, RangeTyped DEF PInv
<1>5. PlaceTyped' /\ FlagsTyped' /\ BlockTyped' /\ Control'
  BY <1>1, <1>2, <1>4 DEF PInv, ProcessOK, PlaceTyped, FlagsTyped, BlockTyped, Control
<1>6. ProcessOK'
  BY <1>1, <1>2, <1>4, <1>5, PlainOK
<1> QED
  BY <1>1, <1>6, ProcessStep

LEMMA ReadFinalizedStep == PInv /\ ReadFinalized => PInv'
<1> SUFFICES ASSUME PInv, ReadFinalized PROVE PInv'
  OBVIOUS
<1>1. /\ pc = "begin" /\ view # Down /\ tip' = NumberOf[view] /\ pc' = "verify"
      /\ UNCHANGED <<database, view, mode, required, wanted, todo, at, end, parent, block,
                     examined, retried>>
  BY DEF ReadFinalized
<1>2. tip' \in Nat
  BY <1>1, BscAssumption DEF PInv
<1>3. PlaceTyped' /\ FlagsTyped' /\ BlockTyped' /\ Control'
  BY <1>1, <1>2 DEF PInv, ProcessOK, PlaceTyped, FlagsTyped, BlockTyped, Control
<1>4. ProcessOK'
  BY <1>1, <1>3, PlainOK
<1> QED
  BY <1>1, <1>4, ProcessStep

\* The checkpoint is checked before a batch is planned.
LEMMA CheckpointAgreesStep == PInv /\ CheckpointAgrees => PInv'
<1> SUFFICES ASSUME PInv, CheckpointAgrees PROVE PInv'
  OBVIOUS
<1>1. /\ pc = "verify" /\ pc' = "plan" /\ CheckpointKept
      /\ UNCHANGED <<database, view, mode, required, wanted, todo, tip, at, end, parent, block,
                     examined, retried>>
  BY DEF CheckpointAgrees, CheckpointKept
<1>2. PlaceTyped' /\ FlagsTyped' /\ BlockTyped' /\ Control'
  BY <1>1 DEF PInv, ProcessOK, PlaceTyped, FlagsTyped, BlockTyped, Control
<1>3. Following'
  BY <1>1 DEF Following, CheckpointKept, CheckpointStored, Stored, Last, database
<1>4. Committing' /\ Repairing'
  BY <1>1 DEF Committing, Repairing
<1> QED
  BY <1>1, <1>2, <1>3, <1>4, ProcessStep DEF ProcessOK

\* The search begins at the checkpoint.
LEMMA SearchOK ==
  ASSUME DatabaseOK, PlaceTyped, mode = "sync", cursor.written, Search(Last),
         UNCHANGED <<cursor, mode, wanted, todo, tip>>, FlagsTyped'
  PROVE  ProcessOK'
<1>1. /\ pc' = "search" /\ at' = Last /\ examined' = 0
      /\ end' = 0 /\ parent' = NoHash /\ block' = NoMarker
  BY DEF Search
<1>2. Last \in Nat
  BY CursorFacts
<1>3. PlaceTyped'
  BY <1>1, <1>2, HeightFacts DEF PlaceTyped, States
<1>4. BlockTyped'
  BY <1>1, NoMarkerTyped DEF BlockTyped
<1>5. Control' /\ Following' /\ Committing'
  BY <1>1 DEF Control, Following, Committing
<1>6. Repairing'
  <2>1. at' + examined' = Last
    BY <1>1, <1>2
  <2> QED
    BY <1>1, <2>1 DEF Repairing, Last
<1> QED
  BY <1>3, <1>4, <1>5, <1>6 DEF ProcessOK

LEMMA CheckpointReorganisedStep == PInv /\ CheckpointReorganised => PInv'
<1> SUFFICES ASSUME PInv, CheckpointReorganised PROVE PInv'
  OBVIOUS
<1>1. /\ pc = "verify" /\ cursor.hash # NoHash /\ Search(Last)
      /\ UNCHANGED <<database, view, mode, required, wanted, todo, tip, retried>>
  BY DEF CheckpointReorganised
<1>2. DatabaseOK /\ PlaceTyped /\ mode = "sync" /\ cursor.written
  BY <1>1, CursorFacts DEF PInv, ProcessOK, Control
<1>3. FlagsTyped'
  BY <1>1 DEF PInv, ProcessOK, FlagsTyped
<1>4. ProcessOK'
  BY <1>1, <1>2, <1>3, SearchOK DEF database
<1> QED
  BY <1>1, <1>4, ProcessStep

LEMMA PlanBatchStep == PInv /\ PlanBatch => PInv'
<1> SUFFICES ASSUME PInv, PlanBatch PROVE PInv'
  OBVIOUS
<1> DEFINE last == Lower(NextBlock + BatchSize - 1, tip)
<1>1. /\ pc = "plan" /\ ProcessRange(NextBlock, last)
      /\ UNCHANGED <<database, view, mode, required, wanted, todo, tip, block, examined, retried>>
  BY DEF PlanBatch
<1>2. DatabaseOK /\ NextBlock \in Nat /\ CheckpointKept
  BY <1>1, CursorFacts DEF PInv, ProcessOK, Following
<1>3. last \in Nat
  <2>1. tip \in Nat /\ NextBlock + BatchSize - 1 \in Nat
    BY <1>2, HeightFacts DEF PInv, ProcessOK, PlaceTyped
  <2> QED
    BY <2>1 DEF Lower
<1> HIDE DEF last
<1>4. /\ at' \in Nat /\ end' \in Nat /\ parent' \in States /\ pc' = "block"
      /\ at' = NextBlock /\ parent' = Stored(NextBlock - 1)
  BY <1>1, <1>2, <1>3, RangeTyped
<1>5. PlaceTyped' /\ FlagsTyped' /\ BlockTyped' /\ Control'
  BY <1>1, <1>4 DEF PInv, ProcessOK, PlaceTyped, FlagsTyped, BlockTyped, Control
<1>6. Following'
  <2>1. cursor' = cursor /\ marker' = marker
    BY <1>1 DEF database
  <2>2. NextBlock' = NextBlock /\ (CheckpointKept' <=> CheckpointKept)
    BY <2>1 DEF NextBlock, CheckpointKept, CheckpointStored, Stored, Last
  <2>3. cursor.hash # NoHash => parent' = cursor.hash
    <3> SUFFICES ASSUME cursor.hash # NoHash PROVE parent' = cursor.hash
      OBVIOUS
    <3>1. NextBlock - 1 = Last
      BY <1>2, CursorFacts
    <3> QED
      BY <1>2, <1>4, <3>1 DEF CheckpointKept, CheckpointStored
  <2> QED
    BY <1>2, <1>4, <2>1, <2>2, <2>3 DEF Following
<1>7. Committing' /\ Repairing'
  BY <1>4 DEF Committing, Repairing
<1> QED
  BY <1>1, <1>5, <1>6, <1>7, ProcessStep DEF ProcessOK

LEMMA AgainOK ==
  ASSUME ProcessOK, mode = "sync", Again, required' = required
  PROVE  ProcessOK'
<1>1. PlaceTyped' /\ Control' /\ pc' = "begin"
  BY HeightFacts DEF ProcessOK, PlaceTyped, Control, Again, States
<1>2. FlagsTyped' /\ BlockTyped'
  BY NoMarkerTyped DEF ProcessOK, FlagsTyped, BlockTyped, Again
<1> QED
  BY <1>1, <1>2, PlainOK

LEMMA CaughtUpStep == PInv /\ CaughtUp => PInv'
<1> SUFFICES ASSUME PInv, CaughtUp PROVE PInv'
  OBVIOUS
<1>1. UNCHANGED <<database, view>> /\ ProcessOK /\ mode = "sync"
  BY DEF CaughtUp, PInv, ProcessOK, Control
<1>2. CASE Again
  <2>1. required' = required
    BY <1>2 DEF Again
  <2> QED
    BY <1>1, <1>2, <2>1, AgainOK, ProcessStep
<1>3. CASE Idle
  BY <1>1, <1>3, IdleStep
<1> QED
  BY <1>2, <1>3 DEF CaughtUp

\* A conflict ends the command, or starts the search from the checkpoint.
LEMMA ConflictOK ==
  ASSUME PInv, pc = "block", OnConflict, cursor' = cursor
  PROVE  ProcessOK'
<1>1. CASE mode = "sync" /\ ~retried /\ cursor.written
  <2>1. /\ Search(Lower(Last, at)) /\ retried' = TRUE
        /\ UNCHANGED <<mode, required, wanted, todo, tip>>
    BY <1>1 DEF OnConflict
  <2>2. DatabaseOK /\ PlaceTyped /\ at = NextBlock
    BY <1>1 DEF PInv, ProcessOK, Following
  <2>3. Lower(Last, at) = Last
    BY <1>1, <2>2, CursorFacts DEF Lower, NextBlock
  <2>4. FlagsTyped'
    BY <2>1 DEF PInv, ProcessOK, FlagsTyped
  <2> QED
    BY <1>1, <2>1, <2>2, <2>3, <2>4, SearchOK
<1>2. CASE Idle
  BY <1>2, IdleOK
<1> QED
  BY <1>1, <1>2 DEF OnConflict

LEMMA MeetConflictStep == PInv /\ MeetConflict => PInv'
<1> SUFFICES ASSUME PInv, MeetConflict PROVE PInv'
  OBVIOUS
<1>1. pc = "block" /\ OnConflict /\ UNCHANGED <<database, view>>
  BY DEF MeetConflict
<1>2. cursor' = cursor
  BY <1>1 DEF database
<1> QED
  BY <1>1, <1>2, ConflictOK, ProcessStep

\* What the places of a commit keep of the follower's promise.
LEMMA FollowingKept ==
  ASSUME PInv, pc \in {"block", "staged", "stored"}, pc' \in {"staged", "stored", "resolved"},
         UNCHANGED <<cursor, mode, at, parent>>,
         cursor.hash # NoHash /\ CheckpointStored => CheckpointStored'
  PROVE  Following'
<1>1. NextBlock' = NextBlock
  BY DEF NextBlock
<1>2. CheckpointKept => CheckpointKept'
  BY DEF CheckpointKept
<1> QED
  BY <1>1, <1>2 DEF PInv, ProcessOK, Following

LEMMA SkipStep == PInv /\ Skip => PInv'
<1> SUFFICES ASSUME PInv, Skip PROVE PInv'
  OBVIOUS
<1>1. /\ pc = "block" /\ ~StoredConflict /\ Complete(at, required)
      /\ block' = marker[at] /\ pc' = "stored"
      /\ UNCHANGED <<database, view, mode, required, wanted, todo, tip, at, end, parent, examined,
                     retried>>
  BY DEF Skip
<1>2. cursor' = cursor /\ marker' = marker
  BY <1>1 DEF database
<1>3. Stored(at) # NoHash /\ Linked(Stored(at))
  BY <1>1 DEF Complete, StoredConflict, Existing
<1>4. /\ marker[at] \in Markers /\ block'.hash = Stored(at) /\ Stored(at) \in Hashes
  BY <1>1, <1>3, StoredFacts DEF PInv
<1>5. PlaceTyped' /\ FlagsTyped' /\ Control'
  BY <1>1 DEF PInv, ProcessOK, PlaceTyped, FlagsTyped, Control
<1>6. BlockTyped'
  BY <1>1, <1>4 DEF BlockTyped
<1>7. Following'
  BY <1>1, <1>2, FollowingKept DEF CheckpointStored, Stored, Last
<1>8. Committing'
  BY <1>1, <1>2, <1>3, <1>4 DEF Committing, Linked, Stored
<1>9. Repairing'
  BY <1>1 DEF Repairing
<1> QED
  BY <1>1, <1>5, <1>6, <1>7, <1>8, <1>9, ProcessStep DEF ProcessOK

\* The ancestor is the highest height that the node agrees on.
LEMMA AncestorFoundStep == PInv /\ AncestorFound => PInv'
<1> SUFFICES ASSUME PInv, AncestorFound PROVE PInv'
  OBVIOUS
<1>1. /\ pc = "search" /\ Stored(at) \in BlockAt(at)
      /\ block' = marker[at] /\ at' = at + 1 /\ pc' = "tombstone"
      /\ UNCHANGED <<database, view, mode, required, wanted, todo, tip, end, parent, examined,
                     retried>>
  BY DEF AncestorFound
<1>2. cursor' = cursor /\ marker' = marker
  BY <1>1 DEF database
<1>3. /\ Stored(at) \in Hashes /\ NumberOf[Stored(at)] = at
      /\ marker[at] \in Markers /\ block'.hash = Stored(at)
  BY <1>1, BlockAtFacts, StoredFacts, HeightFacts DEF PInv
<1>4. /\ at \in Nat /\ examined \in 0 .. ReorgDepth - 1 /\ mode = "sync"
      /\ cursor.written /\ at + examined = Last /\ Last \in Nat
  BY <1>1, CursorFacts DEF PInv, ProcessOK, PlaceTyped, Repairing, Control
<1>5. PlaceTyped' /\ FlagsTyped' /\ Control'
  BY <1>1, <1>4 DEF PInv, ProcessOK, PlaceTyped, FlagsTyped, Control
<1>6. BlockTyped'
  BY <1>1, <1>3 DEF BlockTyped
<1>7. Following' /\ Committing'
  BY <1>1 DEF Following, Committing
<1>8. Repairing'
  <2>1. Last' = Last /\ cursor'.written
    BY <1>2, <1>4 DEF Last
  <2>2. at' = NumberOf[block'.hash] + 1 /\ block'.hash \in Hashes
    BY <1>1, <1>3
  <2>3. at' <= Last + 1 /\ Last + 1 - at' < ReorgDepth
    BY <1>1, <1>4, HeightFacts
  <2>4. Stored(at - 1)' = block'.hash
    <3>1. at' - 1 = at
      BY <1>1, <1>4
    <3> QED
      BY <1>2, <1>3, <3>1 DEF Stored
  <2> QED
    BY <1>1, <2>1, <2>2, <2>3, <2>4 DEF Repairing
<1> QED
  BY <1>1, <1>5, <1>6, <1>7, <1>8, ProcessStep DEF ProcessOK

LEMMA SearchDownStep == PInv /\ SearchDown => PInv'
<1> SUFFICES ASSUME PInv, SearchDown PROVE PInv'
  OBVIOUS
<1>1. /\ pc = "search" /\ at > 0 /\ examined + 1 < ReorgDepth
      /\ at' = at - 1 /\ examined' = examined + 1
      /\ UNCHANGED <<database, view, mode, required, wanted, todo, tip, pc, end, parent, block,
                     retried>>
  BY DEF SearchDown
<1>2. /\ at \in Nat /\ examined \in Nat /\ mode = "sync" /\ block = NoMarker
      /\ cursor.written /\ at + examined = Last
  BY <1>1, HeightFacts DEF PInv, ProcessOK, PlaceTyped, Repairing, Control
<1>3. at' \in Nat /\ examined' \in 0 .. ReorgDepth - 1 /\ at' + examined' = Last
  BY <1>1, <1>2, HeightFacts
<1>4. PlaceTyped' /\ FlagsTyped' /\ BlockTyped' /\ Control'
  BY <1>1, <1>3 DEF PInv, ProcessOK, PlaceTyped, FlagsTyped, BlockTyped, Control
<1>5. Following' /\ Committing'
  BY <1>1 DEF Following, Committing
<1>6. Repairing'
  BY <1>1, <1>2, <1>3 DEF Repairing, Last, database
<1> QED
  BY <1>1, <1>4, <1>5, <1>6, ProcessStep DEF ProcessOK

LEMMA NoAncestorStep == PInv /\ NoAncestor => PInv'
<1> SUFFICES ASSUME PInv, NoAncestor PROVE PInv'
  OBVIOUS
<1>1. /\ pc = "search" /\ at = 0 /\ pc' = "tombstone"
      /\ UNCHANGED <<database, view, mode, required, wanted, todo, tip, at, end, parent, block,
                     examined, retried>>
  BY DEF NoAncestor
<1>2. /\ examined \in 0 .. ReorgDepth - 1 /\ mode = "sync" /\ block = NoMarker
      /\ cursor.written /\ at + examined = Last
  BY <1>1 DEF PInv, ProcessOK, PlaceTyped, Repairing, Control
<1>3. PlaceTyped' /\ FlagsTyped' /\ BlockTyped' /\ Control'
  BY <1>1, <1>2 DEF PInv, ProcessOK, PlaceTyped, FlagsTyped, BlockTyped, Control
<1>4. Following' /\ Committing'
  BY <1>1 DEF Following, Committing
<1>5. Repairing'
  <2>1. Last < ReorgDepth
    BY <1>1, <1>2, HeightFacts
  <2> QED
    BY <1>1, <1>2, <2>1 DEF Repairing, Last, database
<1> QED
  BY <1>1, <1>3, <1>4, <1>5, ProcessStep DEF ProcessOK

LEMMA ChangeViewStep ==
  ASSUME PInv, NEW v \in Views, ChangeView(v) PROVE PInv'
<1>1. view' = v /\ UNCHANGED <<database, process>>
  BY DEF ChangeView
<1>2. /\ UNCHANGED <<marker, facts, staged, cursor, failures, holes>>
      /\ UNCHANGED <<mode, pc, required, wanted, todo, tip, at, end, parent, block, examined,
                     retried>>
  BY <1>1 DEF database, process
<1>3. DatabaseOK'
  BY <1>1, DatabaseKept DEF PInv
<1>4. PlaceTyped' /\ FlagsTyped' /\ BlockTyped' /\ Control'
  BY <1>2 DEF PInv, ProcessOK, PlaceTyped, FlagsTyped, BlockTyped, Control
<1>5. Following'
  BY <1>2 DEF PInv, ProcessOK, Following, NextBlock, CheckpointKept, CheckpointStored, Stored, Last
<1>6. Committing' /\ Repairing'
  BY <1>2 DEF PInv, ProcessOK, Committing, Repairing, Linked, Existing, Stored, Last, Row
<1> QED
  BY <1>1, <1>3, <1>4, <1>5, <1>6 DEF PInv, ProcessOK

-----------------------------------------------------------------------------
(* Failure records and rows *)

\* A failure is recorded and the command ends.
LEMMA FailureStep ==
  ASSUME PInv, NEW statuses \in SUBSET {"none", "open", "dead"}, Recorded(statuses),
         UNCHANGED <<marker, facts, staged, cursor, holes, view>>, ProcessOK'
  PROVE  PInv'
<1>1. FailuresTyped'
  BY RecordedTyped DEF PInv
<1>2. DatabaseOK'
  BY <1>1, FailuresChange DEF PInv
<1> QED
  BY <1>2 DEF PInv

LEMMA RefuseStep ==
  ASSUME PInv, NEW h \in Hashes, Refuse(h) PROVE PInv'
<1>1. /\ pc = "block" /\ Recorded({"dead"}) /\ (Idle \/ OnConflict)
      /\ UNCHANGED <<marker, facts, staged, cursor, holes, view>>
  BY DEF Refuse, Due
<1>2. ProcessOK'
  BY <1>1, IdleOK, ConflictOK
<1>3. {"dead"} \in SUBSET {"none", "open", "dead"}
  OBVIOUS
<1> QED
  BY <1>1, <1>2, <1>3, FailureStep

LEMMA FetchStep == PInv /\ (FetchFails \/ TracesMissing) => PInv'
<1> SUFFICES ASSUME PInv, FetchFails \/ TracesMissing PROVE PInv'
  OBVIOUS
<1>1. Recorded({"open", "dead"}) /\ Idle /\ UNCHANGED <<marker, facts, staged, cursor, holes, view>>
  BY DEF FetchFails, TracesMissing
<1>2. {"open", "dead"} \in SUBSET {"none", "open", "dead"}
  OBVIOUS
<1> QED
  BY <1>1, <1>2, IdleOK, FailureStep

\* The rows are staged for a block that may replace only itself.
LEMMA StageFactsStep ==
  ASSUME PInv, NEW h \in Hashes, NEW traces \in BOOLEAN, StageFacts(h, traces) PROVE PInv'
<1> DEFINE row == [hash |-> h, traced |-> traces]
<1>1. /\ pc = "block" /\ h \in BlockAt(at) /\ Accepted(h)
      /\ block' = [hash |-> h, canonical |-> TRUE, traced |-> traces]
      /\ staged' = [staged EXCEPT ![at] = @ \cup {row}] /\ pc' = "staged"
      /\ UNCHANGED <<marker, facts, cursor, failures, holes, view, mode, required, wanted, todo, tip,
                     at, end, parent, examined, retried>>
  BY DEF StageFacts, Due
<1>2. NumberOf[h] = at /\ at \in Heights
  BY <1>1, BlockAtFacts, HeightFacts DEF PInv
<1>3. /\ block' \in Markers /\ block'.hash = h /\ block'.canonical /\ block'.traced = traces
  BY <1>1 DEF Markers, States
<1>4. row \in [hash : Hashes, traced : BOOLEAN]
  OBVIOUS
<1>5. Row' = row
  BY <1>3 DEF Row
<1> HIDE DEF row
<1>6. RowsTyped' /\ row \in staged'[at]
  BY <1>1, <1>2, <1>4 DEF PInv, DatabaseOK, RowsTyped
<1>7. DatabaseOK'
  <2>1. MarkersTyped' /\ CursorTyped' /\ FailuresTyped' /\ (holes \subseteq Heights)'
    BY <1>1 DEF PInv, DatabaseOK, MarkersTyped, CursorTyped, FailuresTyped
  <2>2. MarkersPlaced' /\ CursorPlaced'
    BY <1>1 DEF PInv, DatabaseOK, MarkersPlaced, CursorPlaced
  <2>3. Standing'
    BY <1>1 DEF PInv, DatabaseOK, Standing, CheckpointStored, Stored, Last
  <2> QED
    BY <1>6, <2>1, <2>2, <2>3 DEF DatabaseOK
<1>8. PlaceTyped' /\ FlagsTyped' /\ Control'
  BY <1>1 DEF PInv, ProcessOK, PlaceTyped, FlagsTyped, Control
<1>9. BlockTyped'
  BY <1>3 DEF BlockTyped
<1>10. Following'
  BY <1>1, FollowingKept DEF CheckpointStored, Stored, Last
<1>11. Committing'
  <2>1. Existing \in {NoHash, h} /\ Linked(h)
    BY <1>1 DEF Accepted, Replaces
  <2>2. Existing' = Existing /\ (Linked(block.hash)' <=> Linked(h))
    BY <1>1, <1>3 DEF Existing, Stored, Linked
  <2>3. Row' \in staged'[at']
    BY <1>1, <1>5, <1>6
  <2> QED
    BY <1>1, <1>2, <1>3, <2>1, <2>2, <2>3 DEF Committing
<1>12. Repairing'
  BY <1>1 DEF Repairing
<1> QED
  BY <1>1, <1>7, <1>8, <1>9, <1>10, <1>11, <1>12 DEF PInv, ProcessOK

-----------------------------------------------------------------------------
(* Markers *)

\* A new marker replaces no other block: what was canonical stays so, with its rows.
LEMMA MarkedFacts ==
  ASSUME PInv, pc = "staged", Marked
  PROVE  /\ at \in Heights /\ block.hash \in Hashes /\ NumberOf[block.hash] = at
         /\ MarkersTyped' /\ RowsTyped' /\ MarkersPlaced'
         /\ StoredIn(marker', at) = block.hash
         /\ \A n : Stored(n) # NoHash => StoredIn(marker', n) = Stored(n)
<1>1. /\ block.hash \in Hashes /\ NumberOf[block.hash] = at /\ block.canonical /\ at \in Heights
      /\ Existing \in {NoHash, block.hash} /\ Row \in staged[at] /\ block \in Markers
  BY HeightFacts DEF PInv, ProcessOK, Committing, BlockTyped
<1>2. /\ marker' = [marker EXCEPT ![at] = block]
      /\ facts' = [facts EXCEPT ![at] = {r.traced : r \in {s \in staged[at] : s.hash = block.hash}}]
      /\ staged' = [staged EXCEPT ![at] = {}]
  BY DEF Marked
<1>3. MarkersTyped /\ RowsTyped /\ MarkersPlaced /\ DatabaseOK
  BY DEF PInv, DatabaseOK
<1>4. MarkersTyped'
  BY <1>1, <1>2, <1>3 DEF MarkersTyped
<1> DEFINE rows == {r.traced : r \in {s \in staged[at] : s.hash = block.hash}}
<1>5. rows \in SUBSET BOOLEAN /\ block.traced \in rows
  <2>1. staged[at] \subseteq [hash : Hashes, traced : BOOLEAN]
    BY <1>1, <1>3 DEF RowsTyped
  <2>2. \A s \in staged[at] : s.traced \in BOOLEAN
    BY <2>1
  <2>3. Row.hash = block.hash /\ Row.traced = block.traced
    BY DEF Row
  <2> QED
    BY <1>1, <2>2, <2>3
<1> HIDE DEF rows
<1>6. facts' = [facts EXCEPT ![at] = rows]
  BY <1>2 DEF rows
<1>7. RowsTyped'
  BY <1>1, <1>2, <1>3, <1>5, <1>6 DEF RowsTyped
<1>8. /\ marker'[at] = block /\ facts'[at] = rows
      /\ \A n \in Heights \ {at} : marker'[n] = marker[n] /\ facts'[n] = facts[n]
  BY <1>1, <1>2, <1>3, <1>6 DEF MarkersTyped, RowsTyped
<1>9. MarkersPlaced'
  BY <1>1, <1>3, <1>5, <1>8 DEF MarkersPlaced
<1>10. StoredIn(marker', at) = block.hash
  BY <1>1, <1>8 DEF StoredIn
<1>11. ASSUME NEW n, Stored(n) # NoHash PROVE StoredIn(marker', n) = Stored(n)
  <2>1. CASE n = at
    BY <1>1, <1>10, <1>11, <2>1 DEF Existing, Stored
  <2>2. CASE n # at
    BY <1>8, <1>11, <2>2 DEF Stored, StoredIn
  <2> QED
    BY <2>1, <2>2
<1> QED
  BY <1>1, <1>4, <1>7, <1>9, <1>10, <1>11

LEMMA MarkedOK ==
  ASSUME PInv, pc = "staged", Marked, UNCHANGED <<cursor, holes>>, FailuresTyped'
  PROVE  DatabaseOK'
<1>1. /\ MarkersTyped' /\ RowsTyped' /\ MarkersPlaced'
      /\ \A n : Stored(n) # NoHash => StoredIn(marker', n) = Stored(n)
  BY MarkedFacts
<1>2. CursorTyped' /\ CursorPlaced' /\ (holes \subseteq Heights)'
  BY DEF PInv, DatabaseOK, CursorTyped, CursorPlaced
<1>3. Standing /\ DatabaseOK
  BY DEF PInv, DatabaseOK
<1>4. Last' = Last /\ Last \in Nat
  BY <1>3, CursorFacts DEF Last
<1>5. Standing'
  <2>1. \A n \in holes' : n <= Last'
    BY <1>3, <1>4 DEF Standing
  <2> SUFFICES ASSUME cursor.hash # NoHash
               PROVE  /\ Last \notin holes => StoredIn(marker', Last) = cursor.hash
                      /\ \A n \in (Start .. Last) \ holes :
                           /\ StoredIn(marker', n) # NoHash
                           /\ n > Start /\ n - 1 \notin holes =>
                                ParentOf[StoredIn(marker', n)] = StoredIn(marker', n - 1)
    BY <1>4, <2>1 DEF Standing, CheckpointStored, Stored, StoredIn, Last
  <2>2. Last \notin holes => StoredIn(marker', Last) = cursor.hash
    BY <1>1, <1>3 DEF Standing, CheckpointStored
  <2>3. ASSUME NEW n \in (Start .. Last) \ holes
        PROVE  /\ StoredIn(marker', n) # NoHash
               /\ n > Start /\ n - 1 \notin holes => ParentOf[StoredIn(marker', n)] = StoredIn(marker', n - 1)
    <3>1. Stored(n) # NoHash /\ StoredIn(marker', n) = Stored(n)
      BY <1>1, <1>3, <2>3 DEF Standing
    <3>2. ASSUME n > Start, n - 1 \notin holes
          PROVE  ParentOf[StoredIn(marker', n)] = StoredIn(marker', n - 1)
      <4>1. n \in Nat /\ n - 1 \in (Start .. Last) \ holes
        BY <1>4, <3>2, HeightFacts
      <4>2. Stored(n - 1) # NoHash /\ ParentOf[Stored(n)] = Stored(n - 1)
        BY <1>3, <2>3, <3>2, <4>1 DEF Standing
      <4>3. StoredIn(marker', n - 1) = Stored(n - 1)
        BY <1>1, <4>2
      <4> QED
        BY <3>1, <4>2, <4>3
    <3> QED
      BY <3>1, <3>2
  <2> QED
    BY <2>2, <2>3
<1> QED
  BY <1>1, <1>2, <1>5 DEF DatabaseOK

LEMMA InsertMarkerStep == PInv /\ InsertMarker => PInv'
<1> SUFFICES ASSUME PInv, InsertMarker PROVE PInv'
  OBVIOUS
<1>1. /\ pc = "staged" /\ Marked /\ pc' = "stored"
      /\ UNCHANGED <<cursor, failures, holes, view, mode, required, wanted, todo, tip, at, end,
                     parent, block, examined, retried>>
  BY DEF InsertMarker
<1>2. FailuresTyped'
  BY <1>1 DEF PInv, DatabaseOK, FailuresTyped
<1>3. DatabaseOK'
  BY <1>1, <1>2, MarkedOK
<1>4. /\ block.hash \in Hashes /\ StoredIn(marker', at) = block.hash
      /\ \A n : Stored(n) # NoHash => StoredIn(marker', n) = Stored(n)
  BY <1>1, MarkedFacts
<1>5. PlaceTyped' /\ FlagsTyped' /\ BlockTyped' /\ Control'
  BY <1>1 DEF PInv, ProcessOK, PlaceTyped, FlagsTyped, BlockTyped, Control
<1>6. Following'
  <2>1. ASSUME cursor.hash # NoHash, CheckpointStored PROVE CheckpointStored'
    <3>1. Stored(Last) = cursor.hash /\ StoredIn(marker', Last) = Stored(Last)
      BY <1>4, <2>1 DEF CheckpointStored
    <3> QED
      BY <1>1, <3>1 DEF CheckpointStored, Last, Stored, StoredIn
  <2> QED
    BY <1>1, <2>1, FollowingKept
<1>7. Committing'
  <2>1. Linked(block.hash)
    BY <1>1 DEF PInv, ProcessOK, Committing
  <2> QED
    BY <1>1, <1>4, <2>1 DEF Committing, Linked, Stored, StoredIn
<1>8. Repairing'
  BY <1>1 DEF Repairing
<1> QED
  BY <1>1, <1>3, <1>5, <1>6, <1>7, <1>8 DEF PInv, ProcessOK

LEMMA CommitFailsStep == PInv /\ CommitFails => PInv'
<1> SUFFICES ASSUME PInv, CommitFails PROVE PInv'
  OBVIOUS
<1>1. /\ pc = "staged" /\ (Marked \/ UNCHANGED <<marker, facts, staged>>)
      /\ Recorded({"open", "dead"}) /\ Idle /\ UNCHANGED <<cursor, holes, view>>
  BY DEF CommitFails
<1>2. FailuresTyped'
  <2>1. {"open", "dead"} \in SUBSET {"none", "open", "dead"}
    OBVIOUS
  <2> QED
    BY <1>1, <2>1, RecordedTyped DEF PInv
<1>3. DatabaseOK'
  BY <1>1, <1>2, MarkedOK, FailuresChange DEF PInv
<1> QED
  BY <1>1, <1>3, IdleOK DEF PInv

LEMMA ResolveFailureStep == PInv /\ ResolveFailure => PInv'
<1> SUFFICES ASSUME PInv, ResolveFailure PROVE PInv'
  OBVIOUS
<1>1. /\ pc = "stored" /\ failures' = [failures EXCEPT ![at] = "none"] /\ pc' = "resolved"
      /\ UNCHANGED <<marker, facts, staged, cursor, holes, view, mode, required, wanted, todo, tip,
                     at, end, parent, block, examined, retried>>
  BY DEF ResolveFailure
<1>2. FailuresTyped'
  BY <1>1 DEF PInv, DatabaseOK, FailuresTyped
<1>3. DatabaseOK'
  BY <1>1, <1>2, FailuresChange DEF PInv
<1>4. PlaceTyped' /\ FlagsTyped' /\ BlockTyped' /\ Control'
  BY <1>1 DEF PInv, ProcessOK, PlaceTyped, FlagsTyped, BlockTyped, Control
<1>5. Following'
  BY <1>1, FollowingKept DEF CheckpointStored, Stored, Last
<1>6. Committing' /\ Repairing'
  BY <1>1 DEF PInv, ProcessOK, Committing, Repairing, Linked, Stored
<1> QED
  BY <1>1, <1>3, <1>4, <1>5, <1>6 DEF PInv, ProcessOK

-----------------------------------------------------------------------------
(* The cursor *)

\* What the follower has committed continues the block of its checkpoint.
LEMMA CommittedFacts ==
  ASSUME PInv, pc = "resolved", mode = "sync"
  PROVE  /\ block.hash \in Hashes /\ NumberOf[block.hash] = at /\ Stored(at) = block.hash
         /\ at = NextBlock /\ at \in Nat /\ CheckpointKept
         /\ cursor.hash # NoHash => at = Last + 1 /\ ParentOf[block.hash] = cursor.hash
         /\ (cursor.hash = NoHash /\ at > Start) => FALSE
<1>1. /\ block.hash \in Hashes /\ Stored(at) = block.hash /\ Linked(block.hash)
      /\ at = NextBlock /\ CheckpointKept /\ (cursor.hash # NoHash => parent = cursor.hash)
      /\ DatabaseOK
  BY DEF PInv, ProcessOK, Following, Committing
<1>2. NumberOf[block.hash] = at /\ at \in Nat
  BY <1>1, StoredFacts, HeightFacts
<1>3. cursor.hash # NoHash => at = Last + 1 /\ ParentOf[block.hash] = cursor.hash
  BY <1>1, CursorFacts DEF Linked
<1>4. (cursor.hash = NoHash /\ at > Start) => FALSE
  BY <1>1, CursorFacts, HeightFacts DEF NextBlock
<1> QED
  BY <1>1, <1>2, <1>3, <1>4

LEMMA AdvancedOK ==
  ASSUME PInv, pc = "resolved", Advanced,
         UNCHANGED <<marker, facts, staged, failures, holes>>
  PROVE  /\ DatabaseOK'
         /\ mode = "sync" => /\ cursor'.written /\ cursor'.next = at + 1
                             /\ cursor'.hash = block.hash /\ CheckpointKept'
<1>1. DatabaseOK /\ FailuresTyped'
  BY DEF PInv, DatabaseOK, FailuresTyped
<1>2. CASE mode # "sync"
  BY <1>1, <1>2, FailuresChange DEF Advanced
<1>3. CASE mode = "sync"
  <2>1. cursor' = [written |-> TRUE, next |-> at + 1, hash |-> block.hash]
    BY <1>3 DEF Advanced
  <2>2. /\ block.hash \in Hashes /\ NumberOf[block.hash] = at /\ Stored(at) = block.hash
        /\ at = NextBlock /\ at \in Nat /\ CheckpointKept
        /\ cursor.hash # NoHash => at = Last + 1 /\ ParentOf[block.hash] = cursor.hash
        /\ (cursor.hash = NoHash /\ at > Start) => FALSE
    BY <1>3, CommittedFacts
  <2>3. cursor'.written = TRUE /\ cursor'.next = at + 1 /\ cursor'.hash = block.hash
    BY <2>1
  <2>4. block.hash # NoHash /\ Last' = at
    BY <2>2, <2>3, HeightFacts DEF Last
  <2>5. CursorTyped' /\ CursorPlaced'
    <3>1. at + 1 \in Nat /\ block.hash \in States
      BY <2>2 DEF States
    <3>2. CursorTyped'
      BY <2>1, <3>1 DEF CursorTyped
    <3>3. CursorPlaced'
      BY <2>2, <2>3, <2>4 DEF CursorPlaced
    <3> QED
      BY <3>2, <3>3
  <2>6. MarkersTyped' /\ RowsTyped' /\ (holes \subseteq Heights)' /\ MarkersPlaced'
    BY <1>1 DEF DatabaseOK, MarkersTyped, RowsTyped, MarkersPlaced
  <2>7. StoredIn(marker', at) = block.hash /\ \A n : StoredIn(marker', n) = Stored(n)
    BY <2>2 DEF Stored, StoredIn
  <2>8. CheckpointStored'
    BY <2>3, <2>4, <2>7 DEF CheckpointStored, Stored, StoredIn
  <2>9. Standing'
    <3>1. Last \in Nat /\ Last <= at /\ Standing /\ holes \subseteq Nat
      <4>1. Last \in Nat /\ (cursor.hash = NoHash => Last = 0)
        BY <1>1, CursorFacts
      <4>2. Last <= at
        BY <2>2, <4>1
      <4> QED
        BY <1>1, <4>1, <4>2, HeightFacts DEF DatabaseOK
    <3>2. \A n \in holes' : n <= Last'
      <4>1. \A n \in holes : n \in Nat /\ n <= Last
        BY <3>1 DEF Standing
      <4> QED
        BY <2>2, <2>4, <3>1, <4>1
    <3>3. ASSUME NEW n \in (Start .. at) \ holes
          PROVE  /\ Stored(n) # NoHash
                 /\ n > Start /\ n - 1 \notin holes => ParentOf[Stored(n)] = Stored(n - 1)
      <4>1. n \in Nat /\ n >= Start /\ n <= at /\ n \notin holes
        BY <2>2, <3>3, HeightFacts
      <4>2. CASE n = at
        <5>1. n > Start => cursor.hash # NoHash /\ n - 1 = Last
          BY <2>2, <3>1, <4>2
        <5>2. n > Start => Stored(n - 1) = cursor.hash
          BY <2>2, <5>1 DEF CheckpointKept, CheckpointStored
        <5> QED
          BY <2>2, <2>4, <4>2, <5>1, <5>2
      <4>3. CASE n # at
        <5>1. cursor.hash # NoHash /\ n <= Last
          BY <2>2, <3>1, <4>1, <4>3, HeightFacts
        <5>2. n \in (Start .. Last) \ holes
          BY <3>1, <4>1, <5>1, HeightFacts
        <5> QED
          BY <3>1, <5>1, <5>2 DEF Standing
      <4> QED
        BY <4>2, <4>3
    <3> QED
      BY <2>4, <2>7, <2>8, <3>2, <3>3 DEF Standing, Stored, StoredIn
  <2> QED
    BY <1>1, <2>3, <2>5, <2>6, <2>8, <2>9 DEF DatabaseOK, CheckpointKept
<1> QED
  BY <1>2, <1>3

LEMMA NextHeightStep == PInv /\ NextHeight => PInv'
<1> SUFFICES ASSUME PInv, NextHeight PROVE PInv'
  OBVIOUS
<1>1. /\ pc = "resolved" /\ Advanced
      /\ at' = at + 1 /\ parent' = block.hash /\ pc' = "block" /\ block' = NoMarker
      /\ UNCHANGED <<marker, facts, staged, failures, holes, view, mode, required, wanted, todo,
                     tip, end, examined, retried>>
  BY DEF NextHeight
<1>2. /\ DatabaseOK'
      /\ mode = "sync" => /\ cursor'.written /\ cursor'.next = at + 1
                          /\ cursor'.hash = block.hash /\ CheckpointKept'
  BY <1>1, AdvancedOK
<1>3. PlaceTyped'
  <2>1. at' \in Nat /\ parent' \in States
    BY <1>1 DEF PInv, ProcessOK, PlaceTyped, BlockTyped, Markers
  <2> QED
    BY <1>1, <2>1 DEF PInv, ProcessOK, PlaceTyped
<1>4. FlagsTyped' /\ BlockTyped' /\ Control'
  BY <1>1, NoMarkerTyped DEF PInv, ProcessOK, FlagsTyped, BlockTyped, Control
<1>5. Following'
  BY <1>1, <1>2 DEF Following, NextBlock
<1>6. Committing' /\ Repairing'
  BY <1>1 DEF Committing, Repairing
<1> QED
  BY <1>1, <1>2, <1>3, <1>4, <1>5, <1>6 DEF PInv, ProcessOK

LEMMA RangeDoneStep == PInv /\ RangeDone => PInv'
<1> SUFFICES ASSUME PInv, RangeDone PROVE PInv'
  OBVIOUS
<1>1. pc = "resolved" /\ Advanced /\ UNCHANGED <<marker, facts, staged, failures, holes, view>>
  BY DEF RangeDone
<1>2. DatabaseOK'
  BY <1>1, AdvancedOK
<1>3. ProcessOK /\ PlaceTyped /\ FlagsTyped
  BY DEF PInv, ProcessOK
<1>4. ProcessOK'
  <2>1. CASE Idle
    BY <2>1, IdleOK
  <2>2. CASE mode = "sync" /\ Again
    <3>1. required' = required
      BY <2>2 DEF Again
    <3> QED
      BY <1>3, <2>2, <3>1, AgainOK
  <2>3. CASE /\ mode = "repair" /\ pc' = "next" /\ at' = 0 /\ end' = 0 /\ parent' = NoHash
             /\ block' = NoMarker
             /\ UNCHANGED <<mode, required, wanted, todo, tip, examined, retried>>
    <3>1. PlaceTyped' /\ FlagsTyped' /\ Control'
      BY <1>3, <2>3 DEF PlaceTyped, FlagsTyped, Control, States
    <3>2. BlockTyped'
      BY <2>3, NoMarkerTyped DEF BlockTyped
    <3> QED
      BY <2>3, <3>1, <3>2, PlainOK
  <2>4. \/ Idle
        \/ mode = "sync" /\ Again
        \/ /\ mode = "repair" /\ pc' = "next" /\ at' = 0 /\ end' = 0 /\ parent' = NoHash
           /\ block' = NoMarker
           /\ UNCHANGED <<mode, required, wanted, todo, tip, examined, retried>>
    BY DEF RangeDone
  <2> QED
    BY <2>1, <2>2, <2>3, <2>4
<1> QED
  BY <1>1, <1>2, <1>4 DEF PInv

-----------------------------------------------------------------------------
(* Tombstones *)

LEMMA TombstoneFacts ==
  ASSUME DatabaseOK, PlaceTyped, NEW n \in Heights, Tombstone(n)
  PROVE  /\ n \in Nat /\ at <= n /\ n <= Last /\ Last \in Nat /\ at \in Nat
         /\ marker'[n].canonical = FALSE /\ marker'[n] \in Markers
         /\ marker' \in [Heights -> Markers]
         /\ \A m \in Heights \ {n} : marker'[m] = marker[m]
         /\ StoredIn(marker', n) = NoHash
         /\ \A m : m # n => StoredIn(marker', m) = Stored(m)
<1>1. MarkersTyped /\ at \in Nat /\ Last \in Nat /\ n \in Nat
  BY CursorFacts, HeightFacts DEF DatabaseOK, PlaceTyped
<1>2. n \in at .. Last /\ marker' = [marker EXCEPT ![n].canonical = FALSE]
  BY DEF Tombstone, Orphans
<1>3. at <= n /\ n <= Last
  BY <1>1, <1>2
<1> DEFINE gone == [marker[n] EXCEPT !.canonical = FALSE]
<1>4. gone \in Markers /\ gone.canonical = FALSE
  BY <1>1 DEF MarkersTyped, Markers
<1> HIDE DEF gone
<1>5. marker' = [marker EXCEPT ![n] = gone]
  BY <1>1, <1>2 DEF gone, MarkersTyped
<1>6. /\ marker'[n] = gone /\ marker' \in [Heights -> Markers]
      /\ \A m \in Heights \ {n} : marker'[m] = marker[m]
  BY <1>1, <1>4, <1>5 DEF MarkersTyped
<1>7. /\ StoredIn(marker', n) = NoHash
      /\ \A m : m # n => StoredIn(marker', m) = Stored(m)
  BY <1>4, <1>6 DEF StoredIn, Stored
<1> QED
  BY <1>1, <1>3, <1>4, <1>6, <1>7

\* A tombstone is a hole at or above the height the repair starts from.
LEMMA TombstoneStep ==
  ASSUME PInv, NEW n \in Heights, Tombstone(n) PROVE PInv'
<1>1. /\ pc = "tombstone" /\ facts' = [facts EXCEPT ![n] = {}]
      /\ staged' = [staged EXCEPT ![n] = {}] /\ holes' = holes \cup {n}
      /\ UNCHANGED <<cursor, failures, view, mode, pc, required, wanted, todo, tip, at, end, parent,
                     block, examined, retried>>
  BY DEF Tombstone, process
<1>2. DatabaseOK /\ ProcessOK /\ PlaceTyped
  BY DEF PInv, ProcessOK
<1>3. /\ n \in Nat /\ at <= n /\ n <= Last /\ Last \in Nat /\ at \in Nat
      /\ marker'[n].canonical = FALSE
      /\ marker' \in [Heights -> Markers]
      /\ \A m \in Heights \ {n} : marker'[m] = marker[m]
      /\ \A m : m # n => StoredIn(marker', m) = Stored(m)
  BY <1>2, TombstoneFacts
<1>4. Last' = Last
  BY <1>1 DEF Last
<1>5. DatabaseOK'
  <2>1. MarkersTyped' /\ CursorTyped' /\ FailuresTyped' /\ CursorPlaced' /\ (holes \subseteq Heights)'
    BY <1>1, <1>2, <1>3 DEF DatabaseOK, MarkersTyped, CursorTyped, FailuresTyped, CursorPlaced
  <2>2. RowsTyped'
    BY <1>1, <1>2 DEF DatabaseOK, RowsTyped
  <2>3. MarkersPlaced'
    <3>1. \A m \in Heights \ {n} : facts'[m] = facts[m]
      BY <1>1, <1>2 DEF DatabaseOK, RowsTyped
    <3> QED
      BY <1>2, <1>3, <3>1 DEF DatabaseOK, MarkersPlaced
  <2>4. Standing'
    <3>1. Standing
      BY <1>2 DEF DatabaseOK
    <3>2. \A m \in holes' : m <= Last'
      BY <1>1, <1>3, <1>4, <3>1 DEF Standing
    <3> SUFFICES ASSUME cursor.hash # NoHash
                 PROVE  /\ Last \notin holes' => StoredIn(marker', Last) = cursor.hash
                        /\ \A m \in (Start .. Last) \ holes' :
                             /\ StoredIn(marker', m) # NoHash
                             /\ m > Start /\ m - 1 \notin holes' =>
                                  ParentOf[StoredIn(marker', m)] = StoredIn(marker', m - 1)
      BY <1>1, <1>4, <3>2 DEF Standing, CheckpointStored, Stored, StoredIn, Last
    <3>3. Last \notin holes' => StoredIn(marker', Last) = cursor.hash
      BY <1>1, <1>3, <3>1 DEF Standing, CheckpointStored
    <3>4. ASSUME NEW m \in (Start .. Last) \ holes'
          PROVE  /\ StoredIn(marker', m) # NoHash
                 /\ m > Start /\ m - 1 \notin holes' =>
                      ParentOf[StoredIn(marker', m)] = StoredIn(marker', m - 1)
      <4>1. m \in (Start .. Last) \ holes /\ m # n
        BY <1>1, <3>4
      <4>2. /\ Stored(m) # NoHash
            /\ m > Start /\ m - 1 \notin holes => ParentOf[Stored(m)] = Stored(m - 1)
        BY <3>1, <4>1 DEF Standing
      <4>3. m - 1 \notin holes' => m - 1 \notin holes /\ m - 1 # n
        BY <1>1
      <4> QED
        BY <1>3, <4>1, <4>2, <4>3
    <3> QED
      BY <3>3, <3>4
  <2> QED
    BY <2>1, <2>2, <2>3, <2>4 DEF DatabaseOK
<1>6. PlaceTyped' /\ FlagsTyped' /\ BlockTyped' /\ Control' /\ Following' /\ Committing'
  BY <1>1, <1>2 DEF ProcessOK, PlaceTyped, FlagsTyped, BlockTyped, Control, Following, Committing
<1>7. Repairing'
  <2>1. StoredIn(marker', at - 1) = Stored(at - 1)
    <3>1. at - 1 # n
      BY <1>3
    <3> QED
      BY <1>3, <3>1
  <2> QED
    BY <1>1, <1>2, <1>4, <2>1 DEF ProcessOK, Repairing, Stored, StoredIn
<1> QED
  BY <1>1, <1>5, <1>6, <1>7 DEF PInv, ProcessOK

-----------------------------------------------------------------------------
(* The repair of a reorganisation ends *)

\* Above the block the cursor goes back to, no history counts any more.
LEMMA RewindCursorStep == PInv /\ RewindCursor => PInv'
<1> SUFFICES ASSUME PInv, RewindCursor PROVE PInv'
  OBVIOUS
<1>1. /\ pc = "tombstone"
      /\ cursor' = [written |-> TRUE, next |-> at, hash |-> block.hash]
      /\ holes' = {n \in holes : n < at}
      /\ pc' = "plan" /\ at' = 0 /\ block' = NoMarker /\ examined' = 0
      /\ UNCHANGED <<marker, facts, staged, failures, view, mode, required, wanted, todo, tip, end,
                     parent, retried>>
  BY DEF RewindCursor
<1>2. cursor'.written = TRUE /\ cursor'.next = at /\ cursor'.hash = block.hash
  BY <1>1
<1>3. /\ DatabaseOK /\ ProcessOK /\ at \in Nat /\ block.hash \in States /\ mode = "sync"
      /\ Repairing
  BY <1>1 DEF PInv, ProcessOK, PlaceTyped, BlockTyped, Markers, Control
<1>4. CursorTyped'
  BY <1>1, <1>3 DEF CursorTyped
<1>5. /\ MarkersTyped' /\ RowsTyped' /\ FailuresTyped' /\ MarkersPlaced'
      /\ (holes \subseteq Heights)'
  BY <1>1, <1>3 DEF DatabaseOK, MarkersTyped, RowsTyped, FailuresTyped, MarkersPlaced
<1>6. \A n : StoredIn(marker', n) = Stored(n)
  BY <1>1 DEF Stored, StoredIn
<1>7. \A n \in holes : n \in Nat
  BY <1>3, HeightFacts DEF DatabaseOK
<1>8. CursorPlaced' /\ CheckpointKept' /\ Standing'
  <2>1. CASE at = 0 /\ block = NoMarker
    <3>1. cursor'.hash = NoHash /\ holes' = {}
      BY <1>1, <1>2, <1>7, <2>1, NoMarkerTyped
    <3> QED
      BY <1>2, <2>1, <3>1 DEF CursorPlaced, CheckpointKept, Standing
  <2>2. CASE /\ block.hash \in Hashes /\ at = NumberOf[block.hash] + 1
             /\ at <= Last + 1 /\ Stored(at - 1) = block.hash
    <3>1. /\ block.hash # NoHash /\ NumberOf[block.hash] \in Nat /\ Last' = at - 1
          /\ at - 1 \in Nat /\ Last \in Nat
      BY <1>2, <1>3, <2>2, HeightFacts, CursorFacts DEF Last
    <3>2. CursorPlaced'
      BY <1>2, <2>2, <3>1 DEF CursorPlaced
    <3>3. CheckpointStored'
      BY <1>2, <1>6, <2>2, <3>1 DEF CheckpointStored, Stored, StoredIn
    <3>4. \A n \in holes' : n <= Last'
      BY <1>1, <1>3, <1>7, <3>1
    <3>5. ASSUME NEW n \in (Start .. at - 1) \ holes'
          PROVE  /\ Stored(n) # NoHash
                 /\ n > Start /\ n - 1 \notin holes' => ParentOf[Stored(n)] = Stored(n - 1)
      <4>1. n \in Nat /\ n >= Start /\ n <= at - 1 /\ n \notin holes
        BY <1>1, <1>3, <3>1, <3>5, HeightFacts
      <4>2. n - 1 \notin holes' => n - 1 \notin holes
        BY <1>1, <1>3, <4>1
      <4>3. CASE cursor.hash # NoHash
        <5>1. n \in (Start .. Last) \ holes
          BY <1>3, <2>2, <3>1, <4>1, HeightFacts
        <5> QED
          BY <1>3, <4>2, <4>3, <5>1 DEF DatabaseOK, Standing
      <4>4. CASE cursor.hash = NoHash
        <5>1. n = at - 1 /\ n = 0
          BY <1>3, <2>2, <3>1, <4>1, <4>4, CursorFacts
        <5>2. Start \in Nat /\ ~(n > Start)
          BY <5>1, HeightFacts
        <5> QED
          BY <2>2, <3>1, <5>1, <5>2
      <4> QED
        BY <4>3, <4>4
    <3>6. Standing'
      BY <1>2, <1>6, <3>1, <3>3, <3>4, <3>5 DEF Standing, Stored, StoredIn
    <3> QED
      BY <3>2, <3>3, <3>6 DEF CheckpointKept
  <2> QED
    BY <1>1, <1>3, <2>1, <2>2 DEF Repairing
<1>9. DatabaseOK'
  BY <1>4, <1>5, <1>8 DEF DatabaseOK
<1>10. PlaceTyped' /\ FlagsTyped' /\ Control'
  BY <1>1, <1>3, HeightFacts DEF ProcessOK, PlaceTyped, FlagsTyped, Control
<1>11. BlockTyped'
  BY <1>1, NoMarkerTyped DEF BlockTyped
<1>12. Following' /\ Committing' /\ Repairing'
  BY <1>1, <1>8 DEF Following, Committing, Repairing
<1> QED
  BY <1>1, <1>9, <1>10, <1>11, <1>12 DEF PInv, ProcessOK

-----------------------------------------------------------------------------
(* Every step *)

LEMMA ErrorsStep == PInv /\ Errors => PInv'
<1>1. PInv /\ Crash => PInv'
  BY IdleStep DEF Crash
<1> QED
  BY <1>1, FetchStep, CommitFailsStep DEF Errors

LEMMA OperatorStep == PInv /\ Operator => PInv'
<1> SUFFICES ASSUME PInv, NEW traces \in CommandTraces,
                    \/ \E first, last \in Heights :
                         \/ \E m \in {"range", "replay"} : StartRange(m, traces, first, last)
                         \/ \E dead \in BOOLEAN : StartRepair(first, last, traces, dead)
                    \/ \E h \in Hashes : StartReplayOf(h, traces)
             PROVE  PInv'
  BY DEF Operator
<1>1. traces \in BOOLEAN
  BY BscAssumption
<1>2. CASE \E h \in Hashes : StartReplayOf(h, traces)
  BY <1>1, <1>2, StartReplayOfStep
<1>3. ASSUME NEW first \in Heights, NEW last \in Heights, NEW m \in {"range", "replay"},
             StartRange(m, traces, first, last)
      PROVE  PInv'
  BY <1>1, <1>3, StartRangeStep
<1>4. ASSUME NEW first \in Heights, NEW last \in Heights, NEW dead \in BOOLEAN,
             StartRepair(first, last, traces, dead)
      PROVE  PInv'
  BY <1>1, <1>4, StartRepairStep
<1> QED
  BY <1>2, <1>3, <1>4

LEMMA WorkStep == PInv /\ Work => PInv'
<1> SUFFICES ASSUME PInv, Work PROVE PInv'
  OBVIOUS
<1>1. CASE \/ RepairNext \/ ReadFinalized \/ CheckpointAgrees \/ CheckpointReorganised
  BY <1>1, RepairNextStep, ReadFinalizedStep, CheckpointAgreesStep, CheckpointReorganisedStep
<1>2. CASE \/ RepairDone \/ CheckpointBroken \/ NodeFails \/ MeetUnwanted \/ DepthExceeded
  BY <1>2, IdleStep DEF RepairDone, CheckpointBroken, NodeFails, MeetUnwanted, DepthExceeded
<1>3. CASE FetchFails \/ InsertMarker \/ ResolveFailure \/ NextHeight \/ RangeDone
  BY <1>3, FetchStep, InsertMarkerStep, ResolveFailureStep, NextHeightStep, RangeDoneStep
<1>4. CASE PlanBatch \/ CaughtUp \/ MeetConflict \/ Skip
  BY <1>4, PlanBatchStep, CaughtUpStep, MeetConflictStep, SkipStep
<1>5. CASE AncestorFound \/ SearchDown \/ NoAncestor \/ RewindCursor
  BY <1>5, AncestorFoundStep, SearchDownStep, NoAncestorStep, RewindCursorStep
<1>6. ASSUME NEW h \in Hashes, Refuse(h) \/ \E traces \in BOOLEAN : StageFacts(h, traces)
      PROVE  PInv'
  BY <1>6, RefuseStep, StageFactsStep
<1>7. ASSUME NEW n \in Heights, Requeue(n) \/ Tombstone(n) PROVE PInv'
  BY <1>7, RequeueStep, TombstoneStep
<1> QED
  BY <1>1, <1>2, <1>3, <1>4, <1>5, <1>6, <1>7 DEF Work

\* The bounds are in the guards.
LEMMA UsedStep == UsedTyped /\ Next => UsedTyped'
<1> SUFFICES ASSUME UsedTyped, Next PROVE UsedTyped'
  OBVIOUS
<1>1. /\ used.errors \in 0 .. MaxErrors /\ used.commands \in 0 .. MaxCommands
      /\ used.changes \in 0 .. MaxChanges
      /\ MaxErrors \in Nat /\ MaxCommands \in Nat /\ MaxChanges \in Nat
  BY BscAssumption DEF UsedTyped
<1>2. CASE UNCHANGED used
  BY <1>2 DEF UsedTyped
<1>3. CASE used.errors < MaxErrors /\ used' = [used EXCEPT !.errors = @ + 1]
  <2>1. used.errors + 1 \in 0 .. MaxErrors
    BY <1>1, <1>3
  <2> QED
    BY <1>3, <2>1 DEF UsedTyped
<1>4. CASE used.commands < MaxCommands /\ used' = [used EXCEPT !.commands = @ + 1]
  <2>1. used.commands + 1 \in 0 .. MaxCommands
    BY <1>1, <1>4
  <2> QED
    BY <1>4, <2>1 DEF UsedTyped
<1>5. CASE used.changes < MaxChanges /\ used' = [used EXCEPT !.changes = @ + 1]
  <2>1. used.changes + 1 \in 0 .. MaxChanges
    BY <1>1, <1>5
  <2> QED
    BY <1>5, <2>1 DEF UsedTyped
<1> QED
  BY <1>2, <1>3, <1>4, <1>5 DEF Next

LEMMA NextStep == IInv /\ Next => IInv'
<1> SUFFICES ASSUME IInv, Next PROVE IInv'
  OBVIOUS
<1>0. PInv /\ UsedTyped
  BY DEF IInv
<1>1. StartSync \/ Work => PInv'
  BY <1>0, StartSyncStep, WorkStep
<1>2. Errors \/ Operator => PInv'
  BY <1>0, ErrorsStep, OperatorStep
<1>3. (\E v \in Views : ChangeView(v)) => PInv'
  BY <1>0, ChangeViewStep
<1>4. PInv'
  BY <1>1, <1>2, <1>3 DEF Next
<1> QED
  BY <1>0, <1>4, UsedStep DEF IInv

LEMMA StutterStep == IInv /\ UNCHANGED vars => IInv'
<1> SUFFICES ASSUME IInv, UNCHANGED <<database, view, process, used>> PROVE IInv'
  BY DEF vars
<1>0. PInv /\ UsedTyped
  BY DEF IInv
<1>1. UNCHANGED <<marker, cursor>>
      /\ UNCHANGED <<facts, staged, failures, holes>>
      /\ UNCHANGED <<mode, pc, required, wanted, todo, tip, at, end, parent, block, examined, retried>>
  BY DEF database, process
<1>2. PlaceTyped' /\ FlagsTyped' /\ BlockTyped' /\ Control'
  BY <1>0, <1>1 DEF PInv, ProcessOK, PlaceTyped, FlagsTyped, BlockTyped, Control
<1>3. Following' /\ Committing' /\ Repairing'
  BY <1>0, <1>1 DEF PInv, ProcessOK, Following, Committing, Repairing, NextBlock, CheckpointKept,
              CheckpointStored, Stored, Existing, Linked, Row, Last
<1>4. PInv'
  BY <1>0, <1>2, <1>3, ProcessStep DEF ProcessOK
<1> QED
  BY <1>0, <1>4 DEF IInv, UsedTyped

LEMMA InitOK == Init => IInv
<1> SUFFICES ASSUME Init PROVE IInv
  OBVIOUS
<1>1. MarkersTyped /\ RowsTyped /\ FailuresTyped /\ holes \subseteq Heights
  BY NoMarkerTyped DEF Init, MarkersTyped, RowsTyped, FailuresTyped
<1>2. cursor.written = FALSE /\ cursor.hash = NoHash /\ cursor.next = 0 /\ holes = {}
  BY DEF Init, NoCursor
<1>3. CursorTyped
  BY DEF Init, NoCursor, CursorTyped, States
<1>4. CursorPlaced /\ Standing
  BY <1>2 DEF CursorPlaced, Standing
<1>5. MarkersPlaced
  BY NoMarkerTyped DEF Init, MarkersPlaced
<1>6. PlaceTyped /\ FlagsTyped /\ BlockTyped
  <2>1. /\ mode = "none" /\ pc = "none" /\ wanted = NoHash /\ parent = NoHash /\ todo = {}
        /\ tip = 0 /\ at = 0 /\ end = 0 /\ examined = 0
    BY DEF Init
  <2>2. PlaceTyped
    BY <2>1, HeightFacts DEF PlaceTyped, States
  <2>3. FlagsTyped
    BY DEF Init, FlagsTyped
  <2>4. BlockTyped
    BY NoMarkerTyped DEF Init, BlockTyped
  <2> QED
    BY <2>2, <2>3, <2>4
<1>7. Control /\ Following /\ Committing /\ Repairing
  BY DEF Init, Control, Following, Committing, Repairing
<1>8. UsedTyped
  BY BscAssumption DEF Init, UsedTyped
<1>9. view \in Views
  BY DEF Init
<1> QED
  BY <1>1, <1>3, <1>4, <1>5, <1>6, <1>7, <1>8, <1>9 DEF IInv, PInv, DatabaseOK, ProcessOK

\* At every place of every command, and between commands, the state is the one the
\* next insert, read or restart relies on.
THEOREM InvariantHolds == Spec => []IInv
<1>1. IInv /\ [Next]_vars => IInv'
  BY NextStep, StutterStep
<1> QED
  BY InitOK, <1>1, PTL DEF Spec

\* Readers and the next batch find a chain below the checkpoint, unless a repair was
\* cut off before its cursor, and the rows of every canonical block.
THEOREM ChainStands == Spec => []Consistent
<1>1. IInv => Consistent
  <2> SUFFICES ASSUME IInv PROVE Consistent
    OBVIOUS
  <2>1. TypeOK
    BY DEF IInv, PInv, DatabaseOK, ProcessOK, MarkersTyped, RowsTyped, CursorTyped, FailuresTyped,
           PlaceTyped, FlagsTyped, BlockTyped, UsedTyped, Markers, States, TypeOK
  <2>2. CheckpointStands
    BY DEF IInv, PInv, DatabaseOK, Standing, CheckpointStands
  <2>3. EvidenceComplete
    BY StoredFacts DEF IInv, PInv, EvidenceComplete
  <2> QED
    BY <2>1, <2>2, <2>3 DEF Consistent
<1> QED
  BY InvariantHolds, <1>1, PTL

-----------------------------------------------------------------------------
(* The history of markers, cursor and failure records *)

\* The steps that write more than rows: a marker, a tombstone, failure records, or
\* the cursor, one kind at a time.
LEMMA StepCases ==
  ASSUME Next
  PROVE  \/ UNCHANGED <<marker, cursor, failures>>
         \/ UNCHANGED <<marker, cursor>> /\ Recorded({"open", "dead"})
         \/ UNCHANGED <<marker, cursor>> /\ \E n \in Heights : Requeue(n)
         \/ UNCHANGED <<marker, cursor>> /\ ResolveFailure
         \/ /\ pc = "staged" /\ Marked /\ UNCHANGED cursor
            /\ UNCHANGED failures \/ Recorded({"open", "dead"})
         \/ UNCHANGED <<cursor, failures>> /\ \E n \in Heights : Tombstone(n)
         \/ UNCHANGED <<marker, failures>> /\ pc = "resolved" /\ Advanced
         \/ UNCHANGED <<marker, failures>> /\ RewindCursor
<1> DEFINE Goal == \/ UNCHANGED <<marker, cursor, failures>>
                   \/ UNCHANGED <<marker, cursor>> /\ Recorded({"open", "dead"})
                   \/ UNCHANGED <<marker, cursor>> /\ \E n \in Heights : Requeue(n)
                   \/ UNCHANGED <<marker, cursor>> /\ ResolveFailure
                   \/ /\ pc = "staged" /\ Marked /\ UNCHANGED cursor
                      /\ UNCHANGED failures \/ Recorded({"open", "dead"})
                   \/ UNCHANGED <<cursor, failures>> /\ \E n \in Heights : Tombstone(n)
                   \/ UNCHANGED <<marker, failures>> /\ pc = "resolved" /\ Advanced
                   \/ UNCHANGED <<marker, failures>> /\ RewindCursor
<1>1. UNCHANGED database => Goal
  BY DEF database
<1>2. StartSync \/ Operator \/ (\E v \in Views : ChangeView(v)) => UNCHANGED database
  BY DEF StartSync, Operator, ChangeView, StartRange, StartRepair, StartReplayOf
<1>3. FetchFails \/ TracesMissing => Goal
  BY DEF FetchFails, TracesMissing
<1>4. Errors => Goal
  BY <1>1, <1>3 DEF Errors, Crash, CommitFails
<1>5. Work => Goal
  <2>1. \/ RepairNext \/ RepairDone \/ ReadFinalized \/ CheckpointAgrees \/ CheckpointBroken
        \/ CheckpointReorganised \/ NodeFails \/ PlanBatch \/ CaughtUp
        => UNCHANGED database
    BY DEF RepairNext, RepairDone, ReadFinalized, CheckpointAgrees, CheckpointBroken,
           CheckpointReorganised, NodeFails, PlanBatch, CaughtUp
  <2>2. \/ MeetConflict \/ MeetUnwanted \/ Skip \/ AncestorFound \/ SearchDown \/ NoAncestor
        \/ DepthExceeded
        => UNCHANGED database
    BY DEF MeetConflict, MeetUnwanted, Skip, AncestorFound, SearchDown, NoAncestor, DepthExceeded
  <2>3. InsertMarker \/ ResolveFailure \/ RewindCursor => Goal
    BY DEF InsertMarker, ResolveFailure, RewindCursor
  <2>4. NextHeight \/ RangeDone => Goal
    BY DEF NextHeight, RangeDone
  <2>5. ASSUME NEW h \in Hashes, Refuse(h) \/ \E traces \in BOOLEAN : StageFacts(h, traces)
        PROVE  Goal
    <3>1. Refuse(h) => UNCHANGED <<marker, cursor>> /\ Recorded({"open", "dead"})
      BY DEF Refuse, Recorded
    <3>2. (\E traces \in BOOLEAN : StageFacts(h, traces)) => UNCHANGED <<marker, cursor, failures>>
      BY DEF StageFacts
    <3> QED
      BY <2>5, <3>1, <3>2
  <2>6. ASSUME NEW n \in Heights, Requeue(n) \/ Tombstone(n) PROVE Goal
    BY <2>6 DEF Requeue, Tombstone
  <2> HIDE DEF Goal
  <2> QED
    BY <1>1, <1>3, <2>1, <2>2, <2>3, <2>4, <2>5, <2>6 DEF Work
<1> HIDE DEF Goal
<1>6. Goal
  BY <1>1, <1>2, <1>4, <1>5 DEF Next
<1> QED
  BY <1>6 DEF Goal

\* The cursor goes on by one block, to a child, or back to a canonical block.
LEMMA CursorStep ==
  ASSUME PInv, Next, cursor' # cursor, cursor.written
  PROVE  \/ /\ cursor'.next = cursor.next + 1
            /\ cursor.hash # NoHash => ParentOf[cursor'.hash] = cursor.hash
         \/ /\ cursor'.next <= cursor.next /\ cursor.next - cursor'.next <= ReorgDepth
            /\ cursor'.hash # NoHash => cursor'.next = NumberOf[cursor'.hash] + 1
            /\ cursor'.hash = NoHash => cursor'.next = 0
<1>1. (pc = "resolved" /\ Advanced) \/ RewindCursor
  BY StepCases
<1>2. CASE pc = "resolved" /\ Advanced
  <2>1. /\ mode = "sync" /\ cursor.next = at
        /\ cursor' = [written |-> TRUE, next |-> at + 1, hash |-> block.hash]
    BY <1>2 DEF Advanced
  <2>2. cursor'.next = at + 1 /\ cursor'.hash = block.hash
    BY <2>1
  <2> QED
    BY <1>2, <2>1, <2>2, CommittedFacts
<1>3. CASE RewindCursor
  <2>1. pc = "tombstone" /\ cursor' = [written |-> TRUE, next |-> at, hash |-> block.hash]
    BY <1>3 DEF RewindCursor
  <2>2. cursor'.next = at /\ cursor'.hash = block.hash
    BY <2>1
  <2>3. DatabaseOK /\ Repairing /\ at \in Nat
    BY DEF PInv, ProcessOK, PlaceTyped
  <2>4. CASE at = 0 /\ block = NoMarker /\ Last < ReorgDepth
    <3>1. block.hash = NoHash
      BY <2>4, NoMarkerTyped
    <3>2. cursor.next \in Nat /\ cursor.next <= Last + 1 /\ Last \in Nat
      BY <2>3, CursorFacts
    <3> QED
      BY <2>2, <2>4, <3>1, <3>2, HeightFacts
  <2>5. CASE /\ block.hash \in Hashes /\ at = NumberOf[block.hash] + 1
             /\ at <= Last + 1 /\ Last + 1 - at < ReorgDepth
    <3>1. block.hash # NoHash /\ NumberOf[block.hash] \in Nat
      BY <2>5, HeightFacts
    <3>2. CASE cursor.hash # NoHash
      BY <2>2, <2>3, <2>5, <3>1, <3>2, CursorFacts, HeightFacts
    <3>3. CASE cursor.hash = NoHash
      BY <2>2, <2>3, <2>5, <3>1, <3>3, CursorFacts
    <3> QED
      BY <3>2, <3>3
  <2> QED
    BY <2>1, <2>3, <2>4, <2>5 DEF Repairing
<1> QED
  BY <1>1, <1>2, <1>3

\* A canonical block stays, or a tombstone covers it.
LEMMA HashesStep ==
  ASSUME PInv, Next, NEW n \in Heights, Stored(n) # NoHash
  PROVE  StoredIn(marker', n) \in {Stored(n), NoHash}
<1>1. \/ UNCHANGED marker
      \/ pc = "staged" /\ Marked
      \/ \E m \in Heights : Tombstone(m)
  BY StepCases
<1>2. CASE UNCHANGED marker
  BY <1>2 DEF Stored, StoredIn
<1>3. CASE pc = "staged" /\ Marked
  BY <1>3, MarkedFacts
<1>4. ASSUME NEW m \in Heights, Tombstone(m)
      PROVE  StoredIn(marker', n) \in {Stored(n), NoHash}
  <2>1. DatabaseOK /\ PlaceTyped
    BY DEF PInv, ProcessOK
  <2>2. /\ StoredIn(marker', m) = NoHash
        /\ \A k : k # m => StoredIn(marker', k) = Stored(k)
    BY <1>4, <2>1, TombstoneFacts
  <2> QED
    BY <2>2
<1> QED
  BY <1>1, <1>2, <1>3, <1>4

\* A failure record is settled after the marker of its height.
LEMMA ResolvedStep ==
  ASSUME PInv, Next, NEW n \in Heights, failures[n] # "none", failures'[n] = "none"
  PROVE  Stored(n) # NoHash
<1>1. failures \in [Heights -> {"none", "open", "dead"}]
  BY DEF PInv, DatabaseOK, FailuresTyped
<1>2. ~Recorded({"open", "dead"})
  BY <1>1 DEF Recorded
<1>3. \A m \in Heights : ~Requeue(m)
  BY <1>1 DEF Requeue
<1>4. ResolveFailure
  BY <1>2, <1>3, StepCases
<1>5. n = at /\ pc = "stored"
  BY <1>1, <1>4 DEF ResolveFailure
<1>6. block.hash \in Hashes /\ Stored(at) = block.hash
  BY <1>5 DEF PInv, ProcessOK, Committing
<1> QED
  BY <1>5, <1>6, HeightFacts

\* The cursor follows chains and goes back within the bound, no canonical block is
\* replaced by another one, and a failure record is settled for a canonical height.
THEOREM HistoryByRule == Spec => HistoryChangesByRule
<1> DEFINE CursorRule ==
             (cursor' # cursor /\ cursor.written) =>
               \/ /\ cursor'.next = cursor.next + 1
                  /\ cursor.hash # NoHash => ParentOf[cursor'.hash] = cursor.hash
               \/ /\ cursor'.next <= cursor.next /\ cursor.next - cursor'.next <= ReorgDepth
                  /\ cursor'.hash # NoHash => cursor'.next = NumberOf[cursor'.hash] + 1
                  /\ cursor'.hash = NoHash => cursor'.next = 0
           HashesRule ==
             \A n \in Heights :
               (Stored(n) # NoHash /\ Stored(n)' # Stored(n)) => Stored(n)' = NoHash
           ResolvedRule ==
             \A n \in Heights :
               (failures[n] # "none" /\ failures'[n] = "none") => Stored(n) # NoHash
<1>1. IInv /\ [Next]_vars => [CursorRule]_vars
  BY CursorStep DEF IInv
<1>2. IInv /\ [Next]_vars => [HashesRule]_vars
  <2> SUFFICES ASSUME PInv, Next PROVE HashesRule
    BY DEF IInv
  <2>1. \A n : Stored(n)' = StoredIn(marker', n)
    BY DEF Stored, StoredIn
  <2> QED
    BY <2>1, HashesStep
<1>3. IInv /\ [Next]_vars => [ResolvedRule]_vars
  BY ResolvedStep DEF IInv
<1>4. CursorFollowsChain <=> [][CursorRule]_vars
  BY DEF CursorFollowsChain
<1>5. HashesStand <=> [][HashesRule]_vars
  BY DEF HashesStand
<1>6. ResolvedIsCommitted <=> [][ResolvedRule]_vars
  BY DEF ResolvedIsCommitted
<1> QED
  BY InvariantHolds, <1>1, <1>2, <1>3, <1>4, <1>5, <1>6, PTL DEF Spec, HistoryChangesByRule

-----------------------------------------------------------------------------
(* How a block is fetched from several nodes: module BscRpc *)

Call == [start : F!Nodes, attempt : Nat \ {0}]

Fields == {"at", "calls", "body", "left", "receipts", "traces", "traced", "why", "asked"}

IsFetch(f) == f = [x \in Fields |-> f[x]]

AreCalls(cs) ==
  cs = [k \in DOMAIN cs |-> cs[k]] /\ \A k \in DOMAIN cs : cs[k] \in Call

\* The traces that a fetch has are all of one fork.
OneTraced(f) == f.traced => \E b \in DOMAIN BscForks : f.traces = F!TracesOf(b)

\* The fetch has a body when it asks for more, and what it ends with is settled.
FetchFits(f, m) ==
  /\ IsFetch(f) /\ AreCalls(f.calls) /\ IsFiniteSet(f.receipts) /\ OneTraced(f)
  /\ \A key \in DOMAIN f.calls : f.at = "calls" /\ (key = F!Block \/ f.body \in DOMAIN BscForks)
  /\ f.at = "prepared" =>
        /\ f.receipts = F!ReceiptsOf(f.body)
        /\ f.traced => \E twin \in DOMAIN BscForks :
                           f.traces = F!TracesOf(twin) /\ F!Twins(f.body, twin)
        /\ m.traces # "disabled" /\ ~f.traced => f.asked = F!Nodes
        /\ m.traces = "required" => f.traced
  /\ f.at = "failed" /\ f.why \in {"unsupported", "transient"} => f.asked = F!Nodes

\* The start has looked at the nodes one after the other.
Started ==
  /\ probed \in Nat
  /\ stage = "probe" => probed < Endpoints
  /\ stage = "run" => probed = Endpoints
  /\ \A n \in F!Nodes : n < probed => F!Required \subseteq able[n]

NodesServe == serves \in [F!Nodes -> DOMAIN BscForks \cup {"none"}]

FetchInv == Started /\ NodesServe /\ FetchFits(fetch, configuration)

LEMMA FiniteThere == \A S : F!Cardinality(S) = Cardinality(S) /\ F!IsFiniteSet(S) = IsFiniteSet(S)
BY DEF F!Cardinality, Cardinality, F!IsFiniteSet, IsFiniteSet

\* A call that has made all its attempts has asked every node.
LEMMA EveryNodeAsked ==
  ASSUME NEW call \in Call, F!LastAttempt(call)
  PROVE  F!Asked(call) = F!Nodes
<1> DEFINE s == call.start
           k == call.attempt
<1>1. s \in Int /\ 0 <= s /\ s < Endpoints /\ k \in Nat /\ k >= Endpoints /\ Endpoints \in Nat \ {0}
  BY FetchAssumption DEF Call, F!LastAttempt, F!Nodes
<1>2. F!Asked(call) = {(s + a - 1) % Endpoints : a \in 1 .. k}
  BY DEF F!Asked, F!NodeOf
<1>3. F!Nodes = 0 .. Endpoints - 1
  BY DEF F!Nodes
<1> HIDE DEF s, k
<1>4. \A a \in 1 .. k : (s + a - 1) % Endpoints \in 0 .. Endpoints - 1
  <2> SUFFICES ASSUME NEW a \in 1 .. k
               PROVE  (s + a - 1) % Endpoints \in 0 .. Endpoints - 1
    OBVIOUS
  <2>1. s + a - 1 \in Int
    BY <1>1
  <2> QED
    BY <2>1, <1>1
<1>5. ASSUME NEW n \in 0 .. Endpoints - 1
      PROVE  \E a \in 1 .. k : (s + a - 1) % Endpoints = n
  <2>1. CASE n >= s
    <3>1. n - s + 1 \in 1 .. k /\ s + (n - s + 1) - 1 = n
      BY <2>1, <1>1
    <3>2. n % Endpoints = n
      BY <1>1
    <3> QED
      BY <3>1, <3>2
  <2>2. CASE n < s
    <3>1. n + Endpoints - s + 1 \in 1 .. k /\ s + (n + Endpoints - s + 1) - 1 = n + Endpoints
      BY <2>2, <1>1
    <3>2. (n + Endpoints) % Endpoints = n
      BY <1>1
    <3> QED
      BY <3>1, <3>2
  <2> QED
    BY <2>1, <2>2, <1>1
<1> QED
  BY <1>2, <1>3, <1>4, <1>5

LEMMA ReceiptsCounted ==
  ASSUME NEW b \in DOMAIN BscForks
  PROVE  /\ F!ReceiptsOf(b) = {F!Receipt(b, i) : i \in DOMAIN BscForks[b]}
         /\ IsFiniteSet(F!ReceiptsOf(b)) /\ Cardinality(F!ReceiptsOf(b)) = Len(BscForks[b])
<1> DEFINE n == Len(BscForks[b])
           f == [i \in 1 .. n |-> F!Receipt(b, i)]
           T == F!ReceiptsOf(b)
<1>1. n \in Nat /\ DOMAIN BscForks[b] = 1 .. n
  BY FetchAssumption
<1>2. IsFiniteSet(1 .. n) /\ Cardinality(1 .. n) = n
  BY <1>1, FS_Interval
<1>3. T = {F!Receipt(b, i) : i \in 1 .. n}
  BY <1>1 DEF F!ReceiptsOf
<1>4. \A i \in 1 .. n : F!Receipt(b, i).index = i
  BY DEF F!Receipt
<1>5. \A i, j \in 1 .. n : F!Receipt(b, i) = F!Receipt(b, j) => i = j
  BY <1>4
<1>6. f \in [1 .. n -> T] /\ (\A i, j \in 1 .. n : f[i] = f[j] => i = j)
      /\ (\A t \in T : \E i \in 1 .. n : f[i] = t)
  BY <1>3, <1>5
<1> HIDE DEF f, T, n
<1>7. f \in Bijection(1 .. n, T)
  <2>1. f \in Injection(1 .. n, T)
    BY <1>6 DEF Injection, IsInjective
  <2>2. f \in Surjection(1 .. n, T)
    BY <1>6 DEF Surjection
  <2> QED
    BY <2>1, <2>2 DEF Bijection
<1>8. IsFiniteSet(T) /\ Cardinality(T) = n
  BY <1>2, <1>7, FS_Bijection DEF ExistsBijection
<1> QED
  BY <1>1, <1>3, <1>8 DEF T, n

\* As many receipts as transactions, each of this block: these and no others.
LEMMA ReceiptsAreAll ==
  ASSUME NEW b \in DOMAIN BscForks, NEW rs, IsFiniteSet(rs), F!ReceiptsFit(b, rs)
  PROVE  rs = F!ReceiptsOf(b)
<1>1. F!ReceiptsOf(b) \subseteq rs
  BY ReceiptsCounted DEF F!ReceiptsFit
<1>2. Cardinality(rs) = Len(BscForks[b])
  BY FiniteThere DEF F!ReceiptsFit
<1> QED
  BY <1>1, <1>2, ReceiptsCounted, FS_Subset

\* A set that another one is mapped onto is no larger.
LEMMA MappedIsNoLarger ==
  ASSUME NEW S, IsFiniteSet(S), NEW T, NEW f \in [S -> T], \A t \in T : \E x \in S : f[x] = t
  PROVE  IsFiniteSet(T) /\ Cardinality(T) <= Cardinality(S)
<1>1. f \in Surjection(S, T)
  BY DEF Surjection
<1> QED
  BY <1>1, FS_Surjection

LEMMA TransactionsCounted ==
  ASSUME NEW b \in DOMAIN BscForks
  PROVE  LET T == F!Members(F!Transactions(b))
         IN  /\ T = {BscForks[b][i].tx : i \in DOMAIN BscForks[b]}
             /\ IsFiniteSet(T) /\ Cardinality(T) = Len(BscForks[b])
<1> DEFINE n == Len(BscForks[b])
           T == F!Members(F!Transactions(b))
           f == [i \in 1 .. n |-> BscForks[b][i].tx]
<1>1. n \in Nat /\ DOMAIN BscForks[b] = 1 .. n
  BY FetchAssumption
<1>0. \A i, j \in 1 .. n : BscForks[b][i].tx = BscForks[b][j].tx => i = j
  BY <1>1, FetchAssumption
<1>2. IsFiniteSet(1 .. n) /\ Cardinality(1 .. n) = n
  BY <1>1, FS_Interval
<1>3. T = {BscForks[b][i].tx : i \in 1 .. n}
  BY <1>1 DEF F!Members, F!Transactions
<1>4. f \in [1 .. n -> T] /\ (\A i, j \in 1 .. n : f[i] = f[j] => i = j)
      /\ (\A t \in T : \E i \in 1 .. n : f[i] = t)
  BY <1>0, <1>3
<1> HIDE DEF f, T, n
<1>5. f \in Bijection(1 .. n, T)
  BY <1>4 DEF Bijection, Injection, IsInjective, Surjection
<1>6. IsFiniteSet(T) /\ Cardinality(T) = n
  BY <1>2, <1>5, FS_Bijection DEF ExistsBijection
<1> QED
  BY <1>1, <1>3, <1>6 DEF T, n

\* Traces that pass are of a fork with the same transactions: each of the block's
\* has one, and there are no more of them than the block has transactions.
LEMMA TracesAreATwins ==
  ASSUME NEW body \in DOMAIN BscForks, NEW twin \in DOMAIN BscForks,
         F!TracesFit(body, F!TracesOf(twin))
  PROVE  F!Twins(body, twin)
<1> DEFINE ts == F!TracesOf(twin)
           B == F!Members(F!Transactions(body))
           T == F!Members(F!Transactions(twin))
           m == Len(BscForks[twin])
           g == [i \in 1 .. m |-> [tx |-> BscForks[twin][i].tx, success |-> BscForks[twin][i].traced]]
           f == [t \in ts |-> t.tx]
<1>1. m \in Nat /\ DOMAIN BscForks[twin] = 1 .. m
      /\ \A i, j \in 1 .. m : BscForks[twin][i].tx = BscForks[twin][j].tx => i = j
  BY FetchAssumption
<1>2. /\ B = {BscForks[body][i].tx : i \in DOMAIN BscForks[body]}
      /\ IsFiniteSet(B) /\ Cardinality(B) = Len(BscForks[body])
      /\ T = {BscForks[twin][i].tx : i \in 1 .. m}
      /\ IsFiniteSet(T) /\ Cardinality(T) = m
  BY <1>1, TransactionsCounted
<1>3. ts = {[tx |-> BscForks[twin][i].tx, success |-> BscForks[twin][i].traced] : i \in 1 .. m}
  BY <1>1 DEF F!TracesOf, F!Members
<1>4. \A b \in F!Members(BscForks[body]) : \E t \in ts : t.tx = b.tx /\ (b.success => t.success)
  BY DEF F!TracesFit
<1>5. \A i \in DOMAIN BscForks[body] :
        \E j \in 1 .. m : /\ BscForks[twin][j].tx = BscForks[body][i].tx
                          /\ BscForks[body][i].success => BscForks[twin][j].traced
  <2> SUFFICES ASSUME NEW i \in DOMAIN BscForks[body]
               PROVE  \E j \in 1 .. m : /\ BscForks[twin][j].tx = BscForks[body][i].tx
                                        /\ BscForks[body][i].success => BscForks[twin][j].traced
    OBVIOUS
  <2> HIDE DEF ts, B, T, m
  <2>1. BscForks[body][i] \in F!Members(BscForks[body])
    BY DEF F!Members
  <2>2. PICK t \in ts : t.tx = BscForks[body][i].tx /\ (BscForks[body][i].success => t.success)
    BY <1>4, <2>1
  <2>3. PICK j \in 1 .. m : t = [tx |-> BscForks[twin][j].tx, success |-> BscForks[twin][j].traced]
    BY <1>3, <2>2
  <2>4. t.tx = BscForks[twin][j].tx /\ t.success = BscForks[twin][j].traced
    BY <2>3
  <2> QED
    BY <2>2, <2>4
<1> HIDE DEF ts, B, T, m
<1>6. IsFiniteSet(ts) /\ Cardinality(ts) = Cardinality(B)
  <2>1. IsFiniteSet(1 .. m)
    BY <1>1, FS_Interval
  <2>2. g \in [1 .. m -> ts] /\ \A t \in ts : \E i \in 1 .. m : g[i] = t
    BY <1>3
  <2> HIDE DEF g
  <2>3. IsFiniteSet(ts)
    BY <2>1, <2>2, MappedIsNoLarger
  <2>4. Cardinality(ts) = Len(BscForks[body])
    BY FiniteThere DEF F!TracesFit, ts
  <2> QED
    BY <1>2, <2>3, <2>4
<1>7. Cardinality(T) <= Cardinality(ts)
  <2>1. \A t \in ts : t.tx \in T
    BY <1>2, <1>3
  <2>2. ASSUME NEW t \in T PROVE \E x \in ts : x.tx = t
    <3>1. PICK i \in 1 .. m : t = BscForks[twin][i].tx
      BY <1>2
    <3> DEFINE x == [tx |-> BscForks[twin][i].tx, success |-> BscForks[twin][i].traced]
    <3>2. x \in ts /\ x.tx = t
      BY <1>3, <3>1
    <3> QED
      BY <3>2
  <2>3. f \in [ts -> T] /\ \A t \in T : \E x \in ts : f[x] = t
    BY <2>1, <2>2
  <2> HIDE DEF f
  <2> QED
    BY <1>6, <2>3, MappedIsNoLarger
<1>8. ASSUME NEW x \in B PROVE x \in T
  <2>1. PICK i \in DOMAIN BscForks[body] : x = BscForks[body][i].tx
    BY <1>2
  <2>2. PICK j \in 1 .. m : BscForks[twin][j].tx = BscForks[body][i].tx
    BY <1>5, Zenon
  <2> QED
    BY <1>2, <2>1, <2>2
<1>9. T = B
  <2>1. Cardinality(B) <= Cardinality(T)
    BY <1>2, <1>8, FS_Subset, Zenon
  <2>2. Cardinality(B) \in Nat /\ Cardinality(T) \in Nat
    BY <1>2, FS_CardinalityType
  <2>3. Cardinality(B) = Cardinality(T)
    BY <1>6, <1>7, <2>1, <2>2
  <2> QED
    BY <1>2, <1>8, <2>3, FS_Subset
<1>10. \A b \in F!Members(BscForks[body]), t \in F!Members(BscForks[twin]) :
         b.tx = t.tx /\ b.success => t.traced
  <2> SUFFICES ASSUME NEW i \in DOMAIN BscForks[body], NEW k \in 1 .. m,
                      BscForks[body][i].tx = BscForks[twin][k].tx, BscForks[body][i].success
               PROVE  BscForks[twin][k].traced
    BY <1>1 DEF F!Members, m
  <2>1. PICK j \in 1 .. m : BscForks[twin][j].tx = BscForks[body][i].tx /\ BscForks[twin][j].traced
    BY <1>5, Zenon
  <2>2. j = k
    BY <1>1, <2>1, Zenon
  <2> QED
    BY <2>1, <2>2
<1> QED
  BY <1>9, <1>10 DEF F!Twins, B, T

-----------------------------------------------------------------------------
(* What a fetch goes on with *)

Elsewhere == <<configuration, able, serves, stage, probed>>

\* The fetch is another one; its calls and its end fit.
LEMMA FetchMoves ==
  ASSUME FetchInv, UNCHANGED Elsewhere, FetchFits(fetch', configuration)
  PROVE  FetchInv'
<1>1. UNCHANGED <<configuration, able, serves, stage, probed>>
  BY DEF Elsewhere
<1>2. Started'
  BY <1>1 DEF FetchInv, Started, F!Required, F!Nodes
<1>3. NodesServe'
  BY <1>1 DEF FetchInv, NodesServe, F!Nodes
<1> QED
  BY <1>1, <1>2, <1>3 DEF FetchInv

\* It opens calls, each of them with a node to begin with.
LEMMA OpensFits ==
  ASSUME FetchInv, NEW f, IsFetch(f), IsFiniteSet(f.receipts), OneTraced(f), NEW keys,
         \A key \in keys : key = F!Block \/ f.body \in DOMAIN BscForks, F!Opens(f, keys), UNCHANGED Elsewhere
  PROVE  FetchInv'
<1>1. PICK cs \in F!Opened(keys) : fetch' = [f EXCEPT !.at = "calls", !.calls = cs]
  BY DEF F!Opens
<1> DEFINE g == [f EXCEPT !.at = "calls", !.calls = cs]
<1>2. DOMAIN cs = keys /\ AreCalls(cs)
  BY DEF F!Opened, AreCalls, Call
<1>3. IsFetch(g) /\ g.at = "calls" /\ g.calls = cs /\ g.body = f.body /\ g.receipts = f.receipts
      /\ g.traces = f.traces /\ g.traced = f.traced
  BY DEF IsFetch, Fields
<1>4. fetch' = g
  BY <1>1
<1> HIDE DEF g
<1>5. FetchFits(g, configuration)
  BY <1>2, <1>3 DEF FetchFits, OneTraced
<1> QED
  BY <1>4, <1>5, FetchMoves

\* It ends: with a whole block, or refused.
LEMMA EndsFits ==
  ASSUME FetchInv, NEW f, IsFetch(f), IsFiniteSet(f.receipts), OneTraced(f), f.body \in DOMAIN BscForks,
         configuration.traces # "disabled" /\ ~f.traced => f.asked = F!Nodes,
         configuration.traces = "required" => f.traced,
         fetch' = F!Ends(f), UNCHANGED Elsewhere
  PROVE  FetchInv'
<1> DEFINE place == IF F!ReceiptsFit(f.body, f.receipts) /\ (f.traced => F!TracesFit(f.body, f.traces))
                    THEN "prepared" ELSE "refused"
           g == [f EXCEPT !.calls = <<>>, !.at = place]
<1>1. place \in {"prepared", "refused"}
      /\ (place = "prepared" => /\ F!ReceiptsFit(f.body, f.receipts)
                                /\ f.traced => F!TracesFit(f.body, f.traces))
  OBVIOUS
<1>2. fetch' = g
  BY DEF F!Ends
<1> HIDE DEF place
<1>3. IsFetch(g) /\ g.at = place /\ g.calls = <<>> /\ g.body = f.body /\ g.receipts = f.receipts
      /\ g.traces = f.traces /\ g.traced = f.traced /\ g.asked = f.asked
  BY DEF IsFetch, Fields
<1>4. AreCalls(<<>>) /\ DOMAIN <<>> = {}
  BY DEF AreCalls
<1>5. place = "prepared" => f.receipts = F!ReceiptsOf(f.body)
  BY <1>1, ReceiptsAreAll
<1>6. place = "prepared" /\ f.traced =>
        \E twin \in DOMAIN BscForks : f.traces = F!TracesOf(twin) /\ F!Twins(f.body, twin)
  BY <1>1, TracesAreATwins DEF OneTraced
<1> HIDE DEF g
<1>7. FetchFits(g, configuration)
  BY <1>1, <1>3, <1>4, <1>5, <1>6 DEF FetchFits, OneTraced
<1> QED
  BY <1>2, <1>7, FetchMoves

LEMMA TracesNext ==
  ASSUME FetchInv, NEW f, IsFetch(f), IsFiniteSet(f.receipts), OneTraced(f), f.body \in DOMAIN BscForks,
         F!GoesToTraces(f), UNCHANGED Elsewhere
  PROVE  FetchInv'
<1>1. CASE configuration.traces = "disabled"
  BY <1>1, EndsFits DEF F!GoesToTraces
<1>2. CASE configuration.traces # "disabled"
  BY <1>2, OpensFits DEF F!GoesToTraces
<1> QED
  BY <1>1, <1>2

LEMMA ReceiptsNext ==
  ASSUME FetchInv, NEW f, IsFetch(f), IsFiniteSet(f.receipts), OneTraced(f), f.body \in DOMAIN BscForks,
         NEW rest, F!GoesToReceipts(f, rest), UNCHANGED Elsewhere
  PROVE  FetchInv'
<1> DEFINE g == [f EXCEPT !.left = rest]
<1>1. IsFetch(g) /\ g.receipts = f.receipts /\ g.body = f.body /\ OneTraced(g)
  BY DEF IsFetch, Fields, OneTraced
<1>2. \/ rest = <<>> /\ F!GoesToTraces(g)
      \/ F!Opens(g, {F!ReceiptFor(tx) : tx \in F!Members(F!First(rest))})
  BY DEF F!GoesToReceipts
<1> HIDE DEF g
<1> QED
  BY <1>1, <1>2, TracesNext, OpensFits

LEMMA FailsFits ==
  ASSUME FetchInv, NEW why, NEW asked,
         why \in {"unsupported", "transient"} => asked = F!Nodes,
         F!Fails(why, asked), UNCHANGED Elsewhere
  PROVE  FetchInv'
<1> DEFINE g == [fetch EXCEPT !.at = "failed", !.calls = <<>>, !.why = why, !.asked = asked]
<1>1. IsFetch(fetch) /\ IsFiniteSet(fetch.receipts) /\ OneTraced(fetch)
  BY DEF FetchInv, FetchFits
<1>2. IsFetch(g) /\ g.at = "failed" /\ g.calls = <<>> /\ g.receipts = fetch.receipts
      /\ g.traces = fetch.traces /\ g.traced = fetch.traced /\ g.why = why /\ g.asked = asked
  BY <1>1 DEF IsFetch, Fields
<1>3. AreCalls(<<>>) /\ DOMAIN <<>> = {}
  BY DEF AreCalls
<1>4. fetch' = g
  BY DEF F!Fails
<1> HIDE DEF g
<1>5. FetchFits(g, configuration)
  BY <1>1, <1>2, <1>3 DEF FetchFits, OneTraced
<1> QED
  BY <1>4, <1>5, FetchMoves

-----------------------------------------------------------------------------
(* The steps *)

LEMMA FetchInit == F!Init => FetchInv
<1> SUFFICES ASSUME F!Init
             PROVE  FetchInv
  OBVIOUS
<1>1. Started
  BY FetchAssumption DEF F!Init, Started, F!Nodes
<1>2. NodesServe
  BY DEF F!Init, NodesServe
<1>3. IsFetch(F!Fresh) /\ F!Fresh.at = "idle" /\ F!Fresh.calls = <<>> /\ F!Fresh.receipts = {}
      /\ F!Fresh.traced = FALSE
  BY DEF IsFetch, Fields, F!Fresh
<1>4. AreCalls(<<>>) /\ DOMAIN <<>> = {}
  BY DEF AreCalls
<1>5. IsFiniteSet({})
  BY FS_EmptySet
<1>6. FetchFits(F!Fresh, configuration)
  BY <1>3, <1>4, <1>5 DEF FetchFits, OneTraced
<1> QED
  BY <1>1, <1>2, <1>6 DEF F!Init, FetchInv

LEMMA MoveStep ==
  ASSUME FetchInv, F!Move
  PROVE  FetchInv'
<1>1. UNCHANGED <<configuration, able, stage, probed, fetch>>
  BY DEF F!Move
<1>2. NodesServe'
  BY DEF F!Move, FetchInv, NodesServe, F!Nodes
<1>3. Started'
  BY <1>1 DEF FetchInv, Started, F!Required, F!Nodes
<1> QED
  BY <1>1, <1>2, <1>3 DEF FetchInv

LEMMA ProbeStep ==
  ASSUME FetchInv, F!Probe
  PROVE  FetchInv'
<1>1. UNCHANGED configuration /\ UNCHANGED able /\ UNCHANGED serves /\ UNCHANGED fetch /\ stage = "probe"
  BY DEF F!Probe
<1>2. probed \in Nat /\ probed < Endpoints /\ Endpoints \in Nat
  BY <1>1, FetchAssumption DEF FetchInv, Started
<1>3. UNCHANGED F!Required
  BY <1>1 DEF F!Required
<1> DEFINE Able(n) == F!Required \subseteq able[n]
<1>4. \A n \in F!Nodes : n < probed => Able(n)
  BY DEF FetchInv, Started
<1>5. F!Accepts(probed) => Able(probed)
  BY DEF F!Accepts
<1>6. \A n : Able(n)' <=> Able(n)
  BY <1>1, <1>3
<1>7. \A n \in F!Nodes : n \in Nat
  BY <1>2 DEF F!Nodes
<1>8. \/ /\ F!Accepts(probed) /\ probed' = probed + 1
         /\ stage' = IF probed + 1 = Endpoints THEN "run" ELSE "probe"
      \/ stage' = "stopped" /\ probed' = probed
  BY DEF F!Probe
<1> HIDE DEF Able
<1>9. \A n \in F!Nodes : n < probed' => Able(n)
  BY <1>2, <1>4, <1>5, <1>7, <1>8
<1>10. /\ probed' \in Nat /\ (stage' = "probe" => probed' < Endpoints)
       /\ stage' = "run" => probed' = Endpoints
  BY <1>2, <1>8
<1>11. \A n \in F!Nodes : n < probed' => Able(n)'
  BY <1>6, <1>9
<1>12. Started'
  BY <1>10, <1>11 DEF Started, F!Nodes, Able
<1>13. NodesServe'
  BY <1>1 DEF FetchInv, NodesServe, F!Nodes
<1> QED
  BY <1>1, <1>12, <1>13 DEF FetchInv

LEMMA TheFetch ==
  ASSUME FetchInv
  PROVE  /\ IsFetch(fetch) /\ IsFiniteSet(fetch.receipts) /\ AreCalls(fetch.calls) /\ OneTraced(fetch)
         /\ \A key \in DOMAIN fetch.calls :
               fetch.at = "calls" /\ (key = F!Block \/ fetch.body \in DOMAIN BscForks)
BY DEF FetchInv, FetchFits

LEMMA StartFetchStep ==
  ASSUME FetchInv, F!StartFetch
  PROVE  FetchInv'
BY TheFetch, OpensFits DEF F!StartFetch, Elsewhere

LEMMA FailOverStep ==
  ASSUME FetchInv, NEW key, F!FailOver(key)
  PROVE  FetchInv'
<1>1. UNCHANGED Elsewhere /\ key \in DOMAIN fetch.calls
      /\ fetch' = [fetch EXCEPT !.calls[key].attempt = @ + 1]
  BY DEF F!FailOver, F!Wrong, Elsewhere
<1> DEFINE call == fetch.calls[key]
           next == [call EXCEPT !.attempt = @ + 1]
           cs == [fetch.calls EXCEPT ![key] = next]
           g == [fetch EXCEPT !.calls = cs]
<1>2. call \in Call
  BY <1>1, TheFetch DEF AreCalls
<1>3. call.attempt + 1 \in Nat \ {0}
  BY <1>2 DEF Call
<1>4. next \in Call
  BY <1>2, <1>3 DEF Call
<1>5. fetch' = g
  BY <1>1
<1> HIDE DEF next, call
<1>6. AreCalls(cs) /\ DOMAIN cs = DOMAIN fetch.calls
  BY <1>1, <1>4, TheFetch DEF AreCalls
<1> HIDE DEF cs
<1>7. IsFetch(g) /\ g.calls = cs /\ \A x \in Fields \ {"calls"} : g[x] = fetch[x]
  BY TheFetch DEF IsFetch, Fields
<1>8. g.at = fetch.at /\ g.body = fetch.body /\ g.receipts = fetch.receipts /\ g.traced = fetch.traced
      /\ g.traces = fetch.traces /\ g.why = fetch.why /\ g.asked = fetch.asked
  BY <1>7 DEF Fields
<1> HIDE DEF g
<1>9. FetchFits(g, configuration)
  BY <1>6, <1>7, <1>8 DEF FetchInv, FetchFits, OneTraced
<1> QED
  BY <1>1, <1>5, <1>9, FetchMoves

LEMMA CallFailsStep ==
  ASSUME FetchInv, NEW key, F!CallFails(key)
  PROVE  FetchInv'
<1>1. PICK why \in {"unsupported", "transient", "broken"} :
         /\ F!Wrong(key, why)
         /\ why # "broken" => F!LastAttempt(fetch.calls[key])
         /\ F!Fails(why, F!Asked(fetch.calls[key]))
  BY DEF F!CallFails
<1>2. UNCHANGED Elsewhere /\ key \in DOMAIN fetch.calls
  BY <1>1 DEF F!CallFails, F!Wrong, Elsewhere
<1>3. fetch.calls[key] \in Call
  BY <1>2, TheFetch DEF AreCalls
<1>4. why # "broken" => F!Asked(fetch.calls[key]) = F!Nodes
  BY <1>1, <1>3, EveryNodeAsked
<1> QED
  BY <1>1, <1>2, <1>4, FailsFits

LEMMA DoWithoutStep ==
  ASSUME FetchInv, NEW key, F!DoWithout(key)
  PROVE  FetchInv'
<1>1. /\ UNCHANGED Elsewhere /\ key \in DOMAIN fetch.calls
      /\ F!LastAttempt(fetch.calls[key])
      /\ <<key, "auto">> \in {<<F!BlockReceipts, configuration.receipts>>,
                              <<F!Traces, configuration.traces>>}
  BY DEF F!DoWithout, F!Wrong, F!DoneWithout, Elsewhere
<1>2. F!Asked(fetch.calls[key]) = F!Nodes
  BY <1>1, TheFetch, EveryNodeAsked DEF AreCalls
<1>3. F!BlockReceipts # F!Block /\ F!Traces # F!Block /\ F!Traces # F!BlockReceipts
  BY DEF F!BlockReceipts, F!Block, F!Traces
<1>4. fetch.body \in DOMAIN BscForks
  BY <1>1, <1>3, TheFetch
<1>5. CASE key = F!Traces
  <2> DEFINE f == [fetch EXCEPT !.asked = F!Asked(fetch.calls[key])]
  <2>1. fetch' = F!Ends(f)
    BY <1>5 DEF F!DoWithout
  <2>2. IsFetch(f) /\ f.receipts = fetch.receipts /\ f.body = fetch.body /\ f.asked = F!Nodes
        /\ OneTraced(f)
    BY <1>2, TheFetch DEF IsFetch, Fields, OneTraced
  <2>3. configuration.traces = "auto"
    BY <1>1, <1>3, <1>5
  <2> HIDE DEF f
  <2> QED
    BY <1>1, <1>4, <2>1, <2>2, <2>3, TheFetch, EndsFits
<1>6. CASE key # F!Traces
  BY <1>1, <1>4, <1>6, TheFetch, ReceiptsNext DEF F!DoWithout
<1> QED
  BY <1>5, <1>6

LEMMA NullStep ==
  ASSUME FetchInv, NEW key, F!Unavailable(key), UNCHANGED Elsewhere
  PROVE  FetchInv'
<1>1. "null" \notin {"unsupported", "transient"}
  OBVIOUS
<1> QED
  BY <1>1, FailsFits DEF F!Unavailable

LEMMA NodeServes ==
  ASSUME FetchInv, NEW key \in DOMAIN fetch.calls
  PROVE  serves[F!NodeOf(fetch.calls[key], fetch.calls[key].attempt)] \in DOMAIN BscForks \cup {"none"}
<1>1. fetch.calls[key] \in Call
  BY TheFetch DEF AreCalls
<1>2. Endpoints \in Nat \ {0} /\ fetch.calls[key].start + fetch.calls[key].attempt - 1 \in Int
  BY <1>1, FetchAssumption DEF Call, F!Nodes
<1>3. F!NodeOf(fetch.calls[key], fetch.calls[key].attempt) \in F!Nodes
  BY <1>2 DEF F!NodeOf, F!Nodes
<1> QED
  BY <1>3 DEF FetchInv, NodesServe

LEMMA BlockReturnsStep ==
  ASSUME FetchInv, F!BlockReturns
  PROVE  FetchInv'
<1> DEFINE there == serves[F!NodeOf(fetch.calls[F!Block], fetch.calls[F!Block].attempt)]
           f == [fetch EXCEPT !.body = there]
<1>1. /\ UNCHANGED Elsewhere /\ F!Block \in DOMAIN fetch.calls
      /\ IF there = "none" THEN F!Unavailable(F!Block)
         ELSE IF configuration.receipts = "transaction" THEN F!GoesToReceipts(f, F!Transactions(there))
              ELSE F!Opens(f, {F!BlockReceipts})
  BY DEF F!BlockReturns, F!Returns, Elsewhere
<1>2. there \in DOMAIN BscForks \cup {"none"}
  BY <1>1, NodeServes
<1>3. IsFetch(f) /\ f.receipts = fetch.receipts /\ f.body = there /\ OneTraced(f)
  BY TheFetch DEF IsFetch, Fields, OneTraced
<1> HIDE DEF f, there
<1>4. CASE there = "none"
  BY <1>1, <1>4, NullStep
<1>5. CASE there # "none" /\ F!GoesToReceipts(f, F!Transactions(there))
  BY <1>1, <1>2, <1>3, <1>5, TheFetch, ReceiptsNext
<1>6. CASE there # "none" /\ F!Opens(f, {F!BlockReceipts})
  BY <1>1, <1>2, <1>3, <1>6, TheFetch, OpensFits
<1> QED
  BY <1>1, <1>4, <1>5, <1>6

LEMMA BlockReceiptsReturnStep ==
  ASSUME FetchInv, F!BlockReceiptsReturn
  PROVE  FetchInv'
<1> DEFINE key == F!BlockReceipts
           there == serves[F!NodeOf(fetch.calls[key], fetch.calls[key].attempt)]
           f == [fetch EXCEPT !.receipts = F!ReceiptsOf(there)]
<1>1. /\ UNCHANGED Elsewhere /\ key \in DOMAIN fetch.calls
      /\ IF there = "none" THEN F!Unavailable(key) ELSE F!GoesToTraces(f)
  BY DEF F!BlockReceiptsReturn, F!Returns, Elsewhere
<1>2. there \in DOMAIN BscForks \cup {"none"}
  BY <1>1, NodeServes
<1>3. fetch.body \in DOMAIN BscForks
  BY <1>1, TheFetch DEF F!BlockReceipts, F!Block
<1>4. IsFetch(f) /\ f.receipts = F!ReceiptsOf(there) /\ f.body = fetch.body /\ OneTraced(f)
  BY TheFetch DEF IsFetch, Fields, OneTraced
<1> HIDE DEF f, there, key
<1>5. CASE there = "none"
  BY <1>1, <1>5, NullStep
<1>6. CASE there # "none"
  <2>1. IsFiniteSet(f.receipts)
    BY <1>2, <1>4, <1>6, ReceiptsCounted
  <2> QED
    BY <1>1, <1>3, <1>4, <1>6, <2>1, TracesNext
<1> QED
  BY <1>5, <1>6

LEMMA ReceiptReturnsStep ==
  ASSUME FetchInv, NEW tx, F!ReceiptReturns(tx)
  PROVE  FetchInv'
<1> DEFINE key == F!ReceiptFor(tx)
           there == serves[F!NodeOf(fetch.calls[key], fetch.calls[key].attempt)]
           rs == fetch.receipts \cup {r \in F!ReceiptsOf(there) : r.tx = tx}
           f == [fetch EXCEPT !.receipts = rs]
           open == DOMAIN fetch.calls \ {key}
           cs == [k \in open |-> fetch.calls[k]]
<1>1. /\ UNCHANGED Elsewhere /\ key \in DOMAIN fetch.calls
      /\ IF there = "none" \/ tx \notin F!Members(F!Transactions(there)) THEN F!Unavailable(key)
         ELSE IF open = {}
              THEN F!GoesToReceipts(f, SubSeq(f.left, Len(F!First(f.left)) + 1, Len(f.left)))
              ELSE fetch' = [f EXCEPT !.calls = cs]
  BY DEF F!ReceiptReturns, F!Returns, Elsewhere
<1>2. there \in DOMAIN BscForks \cup {"none"}
  BY <1>1, NodeServes
<1>3. fetch.body \in DOMAIN BscForks
  BY <1>1, TheFetch DEF F!ReceiptFor, F!Block
<1>4. IsFetch(f) /\ f.receipts = rs /\ f.body = fetch.body /\ f.calls = fetch.calls /\ f.at = fetch.at
      /\ f.traced = fetch.traced /\ f.why = fetch.why /\ f.asked = fetch.asked /\ OneTraced(f)
  BY TheFetch DEF IsFetch, Fields, OneTraced
<1>5. there \in DOMAIN BscForks => IsFiniteSet(rs)
  <2> SUFFICES ASSUME there \in DOMAIN BscForks
               PROVE  IsFiniteSet(rs)
    OBVIOUS
  <2>1. IsFiniteSet(F!ReceiptsOf(there))
    BY ReceiptsCounted
  <2>2. {r \in F!ReceiptsOf(there) : r.tx = tx} \in SUBSET F!ReceiptsOf(there)
    OBVIOUS
  <2>3. IsFiniteSet({r \in F!ReceiptsOf(there) : r.tx = tx})
    BY <2>1, <2>2, FS_Subset
  <2> QED
    BY <2>3, TheFetch, FS_Union
<1>6. AreCalls(cs) /\ DOMAIN cs = open
  BY TheFetch DEF AreCalls
<1> HIDE DEF f, cs, rs, there, key
<1>7. CASE F!Unavailable(key)
  BY <1>1, <1>7, NullStep
<1>8. CASE there # "none"
           /\ F!GoesToReceipts(f, SubSeq(f.left, Len(F!First(f.left)) + 1, Len(f.left)))
  BY <1>1, <1>2, <1>3, <1>4, <1>5, <1>8, ReceiptsNext
<1>9. CASE there # "none" /\ fetch' = [f EXCEPT !.calls = cs]
  <2> DEFINE g == [f EXCEPT !.calls = cs]
  <2>1. IsFetch(g) /\ g.calls = cs /\ g.receipts = f.receipts /\ g.body = f.body /\ g.at = f.at
        /\ g.traced = f.traced /\ g.why = f.why /\ g.asked = f.asked /\ OneTraced(g)
    BY <1>4 DEF IsFetch, Fields, OneTraced
  <2> HIDE DEF g
  <2>2. fetch.at = "calls"
    BY <1>1, TheFetch
  <2>3. FetchFits(g, configuration)
    BY <1>2, <1>3, <1>4, <1>5, <1>6, <1>9, <2>1, <2>2 DEF FetchFits
  <2> QED
    BY <1>1, <1>9, <2>3, FetchMoves DEF g
<1> QED
  BY <1>1, <1>7, <1>8, <1>9

LEMMA TracesReturnStep ==
  ASSUME FetchInv, F!TracesReturn
  PROVE  FetchInv'
<1> DEFINE key == F!Traces
           there == serves[F!NodeOf(fetch.calls[key], fetch.calls[key].attempt)]
           ts == F!TracesOf(there)
           f == [fetch EXCEPT !.traces = ts, !.traced = TRUE]
<1>1. /\ UNCHANGED Elsewhere /\ key \in DOMAIN fetch.calls
      /\ IF there = "none" THEN F!Unavailable(key) ELSE fetch' = F!Ends(f)
  BY DEF F!TracesReturn, F!Returns, Elsewhere
<1>2. fetch.body \in DOMAIN BscForks
  BY <1>1, TheFetch DEF F!Traces, F!Block
<1> HIDE DEF ts
<1>3. IsFetch(f) /\ f.receipts = fetch.receipts /\ f.body = fetch.body /\ f.traced = TRUE /\ f.traces = ts
  BY TheFetch DEF IsFetch, Fields
<1>4. there \in DOMAIN BscForks \cup {"none"}
  BY <1>1, NodeServes
<1> HIDE DEF f, there, key
<1>5. CASE F!Unavailable(key)
  BY <1>1, <1>5, NullStep
<1>6. CASE there # "none" /\ fetch' = F!Ends(f)
  <2>1. OneTraced(f)
    BY <1>3, <1>4, <1>6 DEF OneTraced, ts
  <2> QED
    BY <1>1, <1>2, <1>3, <1>6, <2>1, TheFetch, EndsFits
<1> QED
  BY <1>1, <1>5, <1>6

LEMMA FetchAnyStep == FetchInv /\ [F!Next]_(F!vars) => FetchInv'
<1> SUFFICES ASSUME FetchInv, [F!Next]_(F!vars)
             PROVE  FetchInv'
  OBVIOUS
<1>1. CASE UNCHANGED F!vars
  <2>1. UNCHANGED Elsewhere /\ UNCHANGED fetch
    BY <1>1 DEF F!vars, Elsewhere
  <2>2. FetchFits(fetch, configuration)
    BY DEF FetchInv
  <2> QED
    BY <2>1, <2>2, FetchMoves
<1>2. CASE F!Next
  <2>1. CASE F!Move \/ F!Probe \/ F!StartFetch
    BY <2>1, MoveStep, ProbeStep, StartFetchStep
  <2>2. CASE F!BlockReturns \/ F!BlockReceiptsReturn \/ F!TracesReturn
    BY <2>2, BlockReturnsStep, BlockReceiptsReturnStep, TracesReturnStep
  <2>3. ASSUME NEW key, F!FailOver(key) \/ F!CallFails(key) \/ F!DoWithout(key)
        PROVE  FetchInv'
    BY <2>3, FailOverStep, CallFailsStep, DoWithoutStep
  <2>4. ASSUME NEW key, F!ReceiptReturns(key[2])
        PROVE  FetchInv'
    BY <2>4, ReceiptReturnsStep
  <2> QED
    BY <1>2, <2>1, <2>2, <2>3, <2>4 DEF F!Next
<1> QED
  BY <1>1, <1>2

LEMMA FetchInvHolds == FetchInv => F!FetchesHold
<1> SUFFICES ASSUME FetchInv
             PROVE  F!FetchesHold
  OBVIOUS
<1>1. FetchFits(fetch, configuration)
  BY DEF FetchInv
<1>2. F!PreparedIsOneBlock
  BY <1>1 DEF FetchFits, F!PreparedIsOneBlock
<1>3. F!FailoverGoesRound
  BY <1>1 DEF FetchFits, F!FailoverGoesRound
<1>4. \A n \in F!Nodes : n < Endpoints
  BY FetchAssumption DEF F!Nodes
<1>5. F!RequiredIsServed
  BY <1>1, <1>4 DEF FetchInv, FetchFits, Started, F!RequiredIsServed
<1> QED
  BY <1>2, <1>3, <1>5 DEF F!FetchesHold

\* What a fetch hands on is a block with all the receipts of its fork and the
\* traces of that fork or of a twin; while nodes fail to answer, it gives up or
\* does without traces only when it has asked all of them (a null or a broken
\* answer is one, and ends it); and what the configuration requires is served
\* by each node, for any number of nodes, attempts and receipts at once
\* (rpc.rs, call_value and block_with_receipts).
THEOREM BlocksAreFetchedWhole == ChainsSpec => []FetchesHold
<1>1. ChainsInit => FetchInv
  BY FetchInit DEF ChainsInit
<1>2. [ChainsNext]_chainVars => [F!Next]_(F!vars)
  BY DEF ChainsNext, chainVars, fetchVars, F!vars
<1>3. FetchInv => FetchesHold
  BY FetchInvHolds DEF FetchesHold
<1> QED
  BY <1>1, <1>2, <1>3, FetchAnyStep, PTL DEF ChainsSpec
=============================================================================
