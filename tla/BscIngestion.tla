----------------------------- MODULE BscIngestion -----------------------------
(***************************************************************************)
(* The canonical ingestion of the BSC service: the follower with its       *)
(* cursor and its reorganisation repair, and the operator's range, replay  *)
(* and repair commands.                                                    *)
(*                                                                         *)
(* There is no fence here: the newest marker of a height decides alone     *)
(* whether the height is canonical, so every insert is visible at once.    *)
(* A reorganisation is one tombstone per block and then the cursor.        *)
(*                                                                         *)
(* Abstractions.  One process writes at a time.  Revisions are per height: *)
(* a commit or a tombstone takes the newest marker's plus one, and facts   *)
(* are visible at the newest marker's only.  So two sets per height stand  *)
(* for them: rows of the newest marker, and rows already staged for the    *)
(* next one.  A row keeps the block and whether the extraction had traces, *)
(* the one thing two extractions of a block differ in here.  Blocks of a   *)
(* range are fetched one by one (BSC_BLOCK_FETCH_CONCURRENCY = 1): the     *)
(* checks that decide use the order of commits only.  The node, failover   *)
(* included, serves one finalized branch per call and may change it before *)
(* the next.  "none" is a failure record that is absent or resolved.       *)
(***************************************************************************)
EXTENDS Integers, FiniteSets

CONSTANTS
  Hashes, NoHash,      \* block hashes; an absent one
  NumberOf, ParentOf,  \* header fields the hash commits to
  Down,                \* the node does not answer
  Views,               \* finalized heads the node may serve, perhaps Down
  Start,               \* BSC_INGEST_START_BLOCK
  BatchSize,           \* BSC_INGEST_BATCH_SIZE
  ReorgDepth,          \* BSC_REORG_MAX_DEPTH
  FollowerTraces,      \* BSC_TRACE_MODE of the follower: required (TRUE), auto (FALSE)
  CommandTraces,       \* trace modes of the operator's commands
  MaxErrors, MaxCommands, MaxChanges  \* bounds on errors, operator commands and
                                      \* changes of the node's branch (TLC only)

ASSUME BscAssumption ==
  /\ NoHash \notin Hashes /\ Down \notin Hashes
  /\ NumberOf \in [Hashes -> Nat]
  /\ ParentOf \in [Hashes -> Hashes \cup {NoHash}]
  /\ \A h \in Hashes :
       IF ParentOf[h] = NoHash THEN NumberOf[h] = 0 ELSE NumberOf[h] = NumberOf[ParentOf[h]] + 1
  /\ Views \subseteq Hashes \cup {Down}
  /\ Start \in Nat /\ BatchSize \in Nat \ {0} /\ ReorgDepth \in Nat \ {0}
  /\ FollowerTraces \in BOOLEAN /\ CommandTraces \subseteq BOOLEAN
  /\ MaxErrors \in Nat /\ MaxCommands \in Nat /\ MaxChanges \in Nat

VARIABLES
  marker,    \* newest row of ingested_blocks, by height
  facts,     \* traced flags of the rows with that marker's revision and hash
  staged,    \* rows with the revision after it
  cursor,    \* sync_state
  failures,  \* status of the failure record, by height
  holes,     \* history: heights tombstoned by a repair that did not rewind the cursor
  view,      \* head of the finalized branch the node serves
  mode,      \* the command that runs: none, sync, range, replay or repair
  pc,        \* where it is
  required,  \* its trace mode: is a block without traces incomplete?
  wanted,    \* the hash replay --hash asked for
  todo,      \* heights the repair has still to work on
  tip,       \* finalized height sync_once read
  at, end,   \* the height it works on and the end of its range
  parent,    \* previous_hash
  block,     \* the block it commits, or the ancestor it found
  examined,  \* heights the search for the ancestor has looked at
  retried,   \* sync_once repaired a conflict
  used       \* errors, commands and changes so far

database == <<marker, facts, staged, cursor, failures, holes>>
process == <<mode, pc, required, wanted, todo, tip, at, end, parent, block, examined, retried>>
vars == <<database, view, process, used>>

-----------------------------------------------------------------------------
(* Chains, markers and the cursor *)

Heights == {NumberOf[h] : h \in Hashes}

Chain[h \in Hashes \cup {NoHash}] == IF h = NoHash THEN {} ELSE {h} \cup Chain[ParentOf[h]]

\* The block the node serves at a height, if it serves one.
BlockAt(n) == IF view = Down THEN {} ELSE {h \in Chain[view] : NumberOf[h] = n}

Finalized(n) == view # Down /\ n <= NumberOf[view]

NoMarker == [hash |-> NoHash, canonical |-> FALSE, traced |-> FALSE]

\* canonical_block(n): its hash.
Stored(n) == IF n \in Heights /\ marker[n].canonical THEN marker[n].hash ELSE NoHash

Complete(n, traces) == Stored(n) # NoHash /\ (traces => marker[n].traced)

NoCursor == [written |-> FALSE, next |-> 0, hash |-> NoHash]

\* last_finalized_block, 0 when there is no hash.
Last == IF cursor.hash = NoHash THEN 0 ELSE NumberOf[cursor.hash]

NextBlock == IF cursor.written THEN cursor.next ELSE Start

Lower(m, n) == IF m < n THEN m ELSE n

Lowest(set) == CHOOSE n \in set : \A m \in set : n <= m

-----------------------------------------------------------------------------
(* Starting and stopping *)

Idle ==
  /\ mode' = "none" /\ pc' = "none" /\ required' = FALSE /\ wanted' = NoHash /\ todo' = {}
  /\ tip' = 0 /\ at' = 0 /\ end' = 0 /\ parent' = NoHash /\ block' = NoMarker
  /\ examined' = 0 /\ retried' = FALSE

Init ==
  /\ marker = [n \in Heights |-> NoMarker]
  /\ facts = [n \in Heights |-> {}] /\ staged = [n \in Heights |-> {}]
  /\ cursor = NoCursor /\ failures = [n \in Heights |-> "none"] /\ holes = {}
  /\ view \in Views
  /\ mode = "none" /\ pc = "none" /\ required = FALSE /\ wanted = NoHash /\ todo = {}
  /\ tip = 0 /\ at = 0 /\ end = 0 /\ parent = NoHash /\ block = NoMarker
  /\ examined = 0 /\ retried = FALSE
  /\ used = [errors |-> 0, commands |-> 0, changes |-> 0]

\* The process dies, or an error that leaves no failure record ends the command.
Crash ==
  /\ mode # "none"
  /\ Idle
  /\ UNCHANGED <<database, view>>

\* process_range begins: its end must be finalized.
ProcessRange(first, last) ==
  /\ first <= last /\ Finalized(last)
  /\ at' = first /\ end' = last /\ parent' = Stored(first - 1) /\ pc' = "block"

StartSync ==
  /\ mode = "none"
  /\ mode' = "sync" /\ pc' = "begin" /\ required' = FollowerTraces
  /\ UNCHANGED <<database, view, wanted, todo, tip, at, end, parent, block, examined, retried>>

\* bsc_ingest --mode range, and bsc_replay with a range.
StartRange(m, traces, first, last) ==
  /\ mode = "none" /\ m \in {"range", "replay"}
  /\ ProcessRange(first, last)
  /\ mode' = m /\ required' = traces
  /\ UNCHANGED <<database, view, wanted, todo, tip, block, examined, retried>>

\* bsc_replay --hash: the node knows the block, perhaps from a branch it left.
StartReplayOf(h, traces) ==
  /\ mode = "none"
  /\ ProcessRange(NumberOf[h], NumberOf[h])
  /\ mode' = "replay" /\ wanted' = h /\ required' = traces
  /\ UNCHANGED <<database, view, todo, tip, block, examined, retried>>

\* bsc_repair: gaps and open failures, dead ones on request.
StartRepair(first, last, traces, dead) ==
  /\ mode = "none" /\ Finalized(last)
  /\ LET gaps == {n \in first .. last : ~Complete(n, traces)}
         pending == {n \in first .. last : failures[n] = "open"}
         lost == {n \in first .. last : failures[n] = "dead"}
     IN todo' = IF dead THEN gaps \cup pending \cup lost ELSE (gaps \cup pending) \ lost
  /\ mode' = "repair" /\ pc' = "next" /\ required' = traces
  /\ UNCHANGED <<database, view, wanted, tip, at, end, parent, block, examined, retried>>

Requeue(n) ==
  /\ pc = "next" /\ n \in todo /\ failures[n] = "dead"
  /\ failures' = [failures EXCEPT ![n] = "open"]
  /\ UNCHANGED <<marker, facts, staged, cursor, holes, view, process>>

RepairNext ==
  /\ pc = "next" /\ todo # {} /\ \A n \in todo : failures[n] # "dead"
  /\ ProcessRange(Lowest(todo), Lowest(todo))
  /\ todo' = todo \ {Lowest(todo)}
  /\ UNCHANGED <<database, view, mode, required, wanted, tip, block, examined, retried>>

RepairDone ==
  /\ pc = "next" /\ todo = {}
  /\ Idle
  /\ UNCHANGED <<database, view>>

-----------------------------------------------------------------------------
(* sync_once *)

ReadFinalized ==
  /\ pc = "begin" /\ view # Down
  /\ tip' = NumberOf[view] /\ pc' = "verify"
  /\ UNCHANGED <<database, view, mode, required, wanted, todo, at, end, parent, block, examined,
                 retried>>

\* The checkpoint's marker is there and has its hash.
CheckpointStored == Stored(Last) = cursor.hash

CheckpointAgrees ==
  /\ pc = "verify"
  /\ (cursor.hash # NoHash) => (CheckpointStored /\ cursor.hash \in BlockAt(Last))
  /\ pc' = "plan"
  /\ UNCHANGED <<database, view, mode, required, wanted, todo, tip, at, end, parent, block,
                 examined, retried>>

\* CheckpointMarkerMissing, CheckpointHashMismatch
CheckpointBroken ==
  /\ pc = "verify" /\ cursor.hash # NoHash /\ ~CheckpointStored
  /\ Idle
  /\ UNCHANGED <<database, view>>

\* repair_reorg: look for the ancestor from a height downwards.
Search(n) ==
  /\ pc' = "search" /\ at' = n /\ examined' = 0
  /\ end' = 0 /\ parent' = NoHash /\ block' = NoMarker

CheckpointReorganised ==
  /\ pc = "verify" /\ cursor.hash # NoHash /\ CheckpointStored
  /\ BlockAt(Last) # {} /\ cursor.hash \notin BlockAt(Last)
  /\ Search(Last)
  /\ UNCHANGED <<database, view, mode, required, wanted, todo, tip, retried>>

\* Mutant: the batch begins a block too late.
PlanBatchLate ==
  /\ pc = "plan" /\ NextBlock + 1 <= tip
  /\ ProcessRange(NextBlock + 1, Lower(NextBlock + BatchSize - 1, tip))
  /\ UNCHANGED <<database, view, mode, required, wanted, todo, tip, block, examined, retried>>

PlanBatch ==
  /\ pc = "plan" /\ NextBlock <= tip
  /\ ProcessRange(NextBlock, Lower(NextBlock + BatchSize - 1, tip))
  /\ UNCHANGED <<database, view, mode, required, wanted, todo, tip, block, examined, retried>>

\* The next sync_once of a follower, which starts afresh.
Again ==
  /\ pc' = "begin" /\ tip' = 0 /\ at' = 0 /\ end' = 0 /\ parent' = NoHash /\ block' = NoMarker
  /\ examined' = 0 /\ retried' = FALSE
  /\ UNCHANGED <<mode, required, wanted, todo>>

CaughtUp ==
  /\ pc = "plan" /\ NextBlock > tip
  /\ Again \/ Idle
  /\ UNCHANGED <<database, view>>

-----------------------------------------------------------------------------
(* One block of a range *)

Existing == Stored(at)

Linked(h) == parent = NoHash \/ ParentOf[h] = parent

Forced == mode \in {"replay", "repair"}

\* The stored block does not continue the block before it.
StoredConflict == Existing # NoHash /\ ~Linked(Existing)

StoredUnwanted == Existing # NoHash /\ wanted # NoHash /\ Existing # wanted

\* A conflict ends the command, but the first of a sync_once is repaired.
OnConflict ==
  IF mode = "sync" /\ ~retried /\ cursor.written
  THEN /\ Search(Lower(Last, at)) /\ retried' = TRUE
       /\ UNCHANGED <<mode, required, wanted, todo, tip>>
  ELSE Idle

MeetConflict ==
  /\ pc = "block" /\ StoredConflict
  /\ OnConflict
  /\ UNCHANGED <<database, view>>

MeetUnwanted ==
  /\ pc = "block" /\ ~StoredConflict /\ StoredUnwanted
  /\ Idle
  /\ UNCHANGED <<database, view>>

Skip ==
  /\ pc = "block" /\ ~StoredConflict /\ ~StoredUnwanted
  /\ Complete(at, required) /\ ~Forced
  /\ block' = marker[at] /\ pc' = "stored"
  /\ UNCHANGED <<database, view, mode, required, wanted, todo, tip, at, end, parent, examined,
                 retried>>

Due == pc = "block" /\ ~StoredConflict /\ ~StoredUnwanted /\ (Forced \/ ~Complete(at, required))

Replaces(h) == Existing # NoHash /\ h # Existing

Unwanted(h) == wanted # NoHash /\ h # wanted

\* Mutant: the parent of a fetched block is not compared.
AcceptedUnlinked(h) == ~Replaces(h) /\ ~Unwanted(h)

Accepted(h) == ~Replaces(h) /\ ~Unwanted(h) /\ Linked(h)

\* record_failure: the attempts that are left, or an error that is not retryable,
\* decide between open and dead.
Recorded(statuses) == \E s \in statuses : failures' = [failures EXCEPT ![at] = s]

\* commit_prepared_block refuses the block.
Refuse(h) ==
  /\ Due /\ h \in BlockAt(at) /\ ~Accepted(h)
  /\ Recorded({"dead"})
  /\ IF Unwanted(h) /\ ~Replaces(h) THEN Idle ELSE OnConflict
  /\ UNCHANGED <<marker, facts, staged, cursor, holes, view>>

FetchFails ==
  /\ Due /\ BlockAt(at) = {}
  /\ Recorded({"open", "dead"})
  /\ Idle
  /\ UNCHANGED <<marker, facts, staged, cursor, holes, view>>

\* The node has no traces of the block.
TracesMissing ==
  /\ Due /\ required
  /\ Recorded({"open", "dead"})
  /\ Idle
  /\ UNCHANGED <<marker, facts, staged, cursor, holes, view>>

\* The inserts of the facts, with the revision after the newest marker.
StageFacts(h, traces) ==
  /\ Due /\ h \in BlockAt(at) /\ Accepted(h) /\ (required => traces)
  /\ block' = [hash |-> h, canonical |-> TRUE, traced |-> traces]
  /\ staged' = [staged EXCEPT ![at] = @ \cup {[hash |-> h, traced |-> traces]}]
  /\ pc' = "staged"
  /\ UNCHANGED <<marker, facts, cursor, failures, holes, view, mode, required, wanted, todo, tip,
                 at, end, parent, examined, retried>>

\* A new marker makes the rows staged for its revision the rows of the height.
Marked ==
  /\ marker' = [marker EXCEPT ![at] = block]
  /\ facts' = [facts EXCEPT ![at] = {r.traced : r \in {s \in staged[at] : s.hash = block.hash}}]
  /\ staged' = [staged EXCEPT ![at] = {}]

InsertMarker ==
  /\ pc = "staged"
  /\ Marked
  /\ pc' = "stored"
  /\ UNCHANGED <<cursor, failures, holes, view, mode, required, wanted, todo, tip, at, end, parent,
                 block, examined, retried>>

\* An insert fails, perhaps after it was applied.
CommitFails ==
  /\ pc = "staged"
  /\ Marked \/ UNCHANGED <<marker, facts, staged>>
  /\ Recorded({"open", "dead"})
  /\ Idle
  /\ UNCHANGED <<cursor, holes, view>>

ResolveFailure ==
  /\ pc = "stored"
  /\ failures' = [failures EXCEPT ![at] = "none"]
  /\ pc' = "resolved"
  /\ UNCHANGED <<marker, facts, staged, cursor, holes, view, mode, required, wanted, todo, tip, at,
                 end, parent, block, examined, retried>>

\* advance_checkpoint takes the next block only.
Advanced ==
  IF mode = "sync"
  THEN /\ cursor.written => cursor.next = at
       /\ cursor' = [written |-> TRUE, next |-> at + 1, hash |-> block.hash]
  ELSE UNCHANGED cursor

NextHeight ==
  /\ pc = "resolved" /\ at < end
  /\ Advanced
  /\ at' = at + 1 /\ parent' = block.hash /\ pc' = "block" /\ block' = NoMarker
  /\ UNCHANGED <<marker, facts, staged, failures, holes, view, mode, required, wanted, todo, tip,
                 end, examined, retried>>

RangeDone ==
  /\ pc = "resolved" /\ at = end
  /\ Advanced
  /\ CASE mode = "sync" -> Again \/ Idle
       [] mode = "repair" -> /\ pc' = "next" /\ at' = 0 /\ end' = 0 /\ parent' = NoHash
                             /\ block' = NoMarker
                             /\ UNCHANGED <<mode, required, wanted, todo, tip, examined, retried>>
       [] OTHER -> Idle
  /\ UNCHANGED <<marker, facts, staged, failures, holes, view>>

-----------------------------------------------------------------------------
(* repair_reorg *)

AncestorFound ==
  /\ pc = "search" /\ Stored(at) \in BlockAt(at)
  /\ block' = marker[at] /\ at' = at + 1 /\ pc' = "tombstone"
  /\ UNCHANGED <<database, view, mode, required, wanted, todo, tip, end, parent, examined, retried>>

Differs == Stored(at) = NoHash \/ (BlockAt(at) # {} /\ Stored(at) \notin BlockAt(at))

SearchDown ==
  /\ pc = "search" /\ Differs /\ at > 0 /\ examined + 1 < ReorgDepth
  /\ at' = at - 1 /\ examined' = examined + 1
  /\ UNCHANGED <<database, view, mode, required, wanted, todo, tip, pc, end, parent, block, retried>>

\* Height 0 differs too: everything goes.
NoAncestor ==
  /\ pc = "search" /\ Differs /\ at = 0
  /\ pc' = "tombstone"
  /\ UNCHANGED <<database, view, mode, required, wanted, todo, tip, at, end, parent, block,
                 examined, retried>>

DepthExceeded ==
  /\ pc = "search" /\ Differs /\ at > 0 /\ examined + 1 >= ReorgDepth
  /\ Idle
  /\ UNCHANGED <<database, view>>

\* invalidate_range: what is still canonical from repair_from up to the checkpoint.
Orphans == {n \in at .. Last : Stored(n) # NoHash}

Tombstone(n) ==
  /\ pc = "tombstone" /\ n \in Orphans /\ n = Lowest(Orphans)
  /\ marker' = [marker EXCEPT ![n].canonical = FALSE]
  /\ facts' = [facts EXCEPT ![n] = {}] /\ staged' = [staged EXCEPT ![n] = {}]
  /\ holes' = holes \cup {n}
  /\ UNCHANGED <<cursor, failures, view, process>>

\* Mutant: the cursor is set to the ancestor, not to the block after it.
RewindToAncestor ==
  /\ pc = "tombstone" /\ Orphans = {}
  /\ cursor' = [written |-> TRUE, next |-> at - 1, hash |-> block.hash]
  /\ holes' = {n \in holes : n < at}
  /\ pc' = "plan" /\ at' = 0 /\ block' = NoMarker /\ examined' = 0
  /\ UNCHANGED <<marker, facts, staged, failures, view, mode, required, wanted, todo, tip, end,
                 parent, retried>>

RewindCursor ==
  /\ pc = "tombstone" /\ Orphans = {}
  /\ cursor' = [written |-> TRUE, next |-> at, hash |-> block.hash]
  /\ holes' = {n \in holes : n < at}
  /\ pc' = "plan" /\ at' = 0 /\ block' = NoMarker /\ examined' = 0
  /\ UNCHANGED <<marker, facts, staged, failures, view, mode, required, wanted, todo, tip, end,
                 parent, retried>>

-----------------------------------------------------------------------------

\* The finalized branch grows, or the node, or another node, serves another one.
ChangeView(v) ==
  /\ v # view
  /\ view' = v
  /\ UNCHANGED <<database, process>>

\* The command ends: a call is not answered, or a range is not finalized any more.
NodeFails ==
  /\ \/ pc = "begin" /\ view = Down
     \/ pc = "verify" /\ cursor.hash # NoHash /\ CheckpointStored /\ BlockAt(Last) = {}
     \/ pc = "plan" /\ NextBlock <= tip /\ ~Finalized(Lower(NextBlock + BatchSize - 1, tip))
     \/ pc = "next" /\ todo # {} /\ ~Finalized(Lowest(todo))
     \/ pc = "search" /\ Stored(at) # NoHash /\ BlockAt(at) = {}
  /\ Idle
  /\ UNCHANGED <<database, view>>

Work ==
  \/ RepairNext \/ RepairDone
  \/ ReadFinalized \/ CheckpointAgrees \/ CheckpointBroken
  \/ CheckpointReorganised \/ NodeFails \/ FetchFails \/ PlanBatch \/ CaughtUp
  \/ MeetConflict \/ MeetUnwanted \/ Skip \/ InsertMarker \/ ResolveFailure \/ NextHeight
  \/ RangeDone
  \/ \E h \in Hashes : Refuse(h) \/ \E traces \in BOOLEAN : StageFacts(h, traces)
  \/ AncestorFound \/ SearchDown \/ NoAncestor \/ DepthExceeded \/ RewindCursor
  \/ \E n \in Heights : Requeue(n) \/ Tombstone(n)

Errors == TracesMissing \/ CommitFails \/ Crash

Operator ==
  \E traces \in CommandTraces :
    \/ \E first, last \in Heights :
         \/ \E m \in {"range", "replay"} : StartRange(m, traces, first, last)
         \/ \E dead \in BOOLEAN : StartRepair(first, last, traces, dead)
    \/ \E h \in Hashes : StartReplayOf(h, traces)

Next ==
  \/ (StartSync \/ Work) /\ UNCHANGED used
  \/ /\ used.errors < MaxErrors /\ used' = [used EXCEPT !.errors = @ + 1]
     /\ Errors
  \/ /\ used.commands < MaxCommands /\ used' = [used EXCEPT !.commands = @ + 1]
     /\ Operator
  \/ /\ used.changes < MaxChanges /\ used' = [used EXCEPT !.changes = @ + 1]
     /\ \E v \in Views : ChangeView(v)

Spec == Init /\ [][Next]_vars

\* The follower's container is restarted whenever it ends (restart: unless-stopped).
FairSpec == Spec /\ WF_vars(StartSync /\ UNCHANGED used) /\ WF_vars(Work /\ UNCHANGED used)

-----------------------------------------------------------------------------
(* Properties *)

TypeOK ==
  /\ marker \in [Heights -> [hash : Hashes \cup {NoHash}, canonical : BOOLEAN, traced : BOOLEAN]]
  /\ facts \in [Heights -> SUBSET BOOLEAN]
  /\ staged \in [Heights -> SUBSET [hash : Hashes, traced : BOOLEAN]]
  /\ cursor \in [written : BOOLEAN, next : Nat, hash : Hashes \cup {NoHash}]
  /\ failures \in [Heights -> {"none", "open", "dead"}]
  /\ holes \subseteq Heights
  /\ view \in Views
  /\ mode \in {"none", "sync", "range", "replay", "repair"}
  /\ pc \in {"none", "begin", "verify", "plan", "next", "block", "staged", "stored", "resolved",
             "search", "tombstone"}
  /\ required \in BOOLEAN /\ retried \in BOOLEAN
  /\ wanted \in Hashes \cup {NoHash} /\ parent \in Hashes \cup {NoHash}
  /\ todo \subseteq Heights
  /\ used \in [errors : 0 .. MaxErrors, commands : 0 .. MaxCommands, changes : 0 .. MaxChanges]
  /\ tip \in Nat /\ at \in Nat /\ end \in Nat /\ examined \in 0 .. ReorgDepth - 1
  /\ block \in [hash : Hashes \cup {NoHash}, canonical : BOOLEAN, traced : BOOLEAN]

\* Unless a repair was cut off between tombstones and cursor, the checkpoint names a
\* canonical block and the canonical blocks from the start to it are one chain.
CheckpointStands ==
  (holes = {} /\ cursor.hash # NoHash) =>
    /\ CheckpointStored
    /\ \A n \in Start .. Last :
         Stored(n) # NoHash /\ (n > Start => ParentOf[Stored(n)] = Stored(n - 1))

\* A canonical block has the rows its marker counts.
EvidenceComplete == \A n \in Heights : Stored(n) # NoHash => marker[n].traced \in facts[n]

\* A canonical block has those rows only: none that an interrupted attempt staged
\* before the marker bound them to its revision.
EvidenceCommitted == \A n \in Heights : Stored(n) # NoHash => facts[n] = {marker[n].traced}

\* What readers and the next batch rely on: a chain below the checkpoint, and the rows
\* of every canonical block.
Consistent == TypeOK /\ CheckpointStands /\ EvidenceComplete

\* The cursor advances to a child of its block, and goes back, within the bound, to a
\* block that is canonical.
CursorFollowsChain ==
  [][(cursor' # cursor /\ cursor.written) =>
       \/ /\ cursor'.next = cursor.next + 1
          /\ cursor.hash # NoHash => ParentOf[cursor'.hash] = cursor.hash
       \/ /\ cursor'.next <= cursor.next /\ cursor.next - cursor'.next <= ReorgDepth
          /\ cursor'.hash # NoHash => cursor'.next = NumberOf[cursor'.hash] + 1
          /\ cursor'.hash = NoHash => cursor'.next = 0]_vars

\* A canonical block is never replaced by another one without a tombstone.
HashesStand ==
  [][\A n \in Heights :
       (Stored(n) # NoHash /\ Stored(n)' # Stored(n)) => Stored(n)' = NoHash]_vars

\* A failure record is settled only while its height is canonical.
ResolvedIsCommitted ==
  [][\A n \in Heights : (failures[n] # "none" /\ failures'[n] = "none") => Stored(n) # NoHash]_vars

\* The history of cursor, markers and failure records: each changes by the rule for it.
HistoryChangesByRule == CursorFollowsChain /\ HashesStand /\ ResolvedIsCommitted

\* The node serves one branch and the operator lets the follower work; the errors
\* have an end by their bound.
Quiet(v) == <>[](view = v /\ mode \in {"none", "sync"})

Reached(v) == cursor.written /\ cursor.next > NumberOf[v]

\* The checkpoint's block is gone, or a canonical block is not on the node's branch.
NeedsOperator(v) ==
  \/ cursor.hash # NoHash /\ ~CheckpointStored
  \/ \E n \in Heights : Stored(n) # NoHash /\ Stored(n) \notin Chain[v]

\* The follower reaches the finalized head, unless the operator is needed for good.
CatchesUp ==
  \A v \in Views \ {Down} : Quiet(v) => <>[]Reached(v) \/ <>[]NeedsOperator(v)

\* Restarts are idempotent: the follower reaches the head of any branch whose
\* reorganisation is within the bound.
RestartsRecover == \A v \in Views \ {Down} : Quiet(v) => <>[]Reached(v)
=============================================================================
