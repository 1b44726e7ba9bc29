------------------------- MODULE EthereumIngestion -------------------------
(***************************************************************************)
(* Ingestion of finalized Ethereum blocks (dockerizd_ethereum):            *)
(* ethereum/ingestion.rs drives it, ethereum/client.rs fetches a block and *)
(* storage/writer.rs writes it.  A block is a list of inserts, the         *)
(* completion marker next to last and the checkpoint last.  The follower   *)
(* and an operator's `range` command are two processes that share the      *)
(* tables and no lock.                                                     *)
(***************************************************************************)
EXTENDS Naturals, FiniteSets, FiniteSetsExt, Sequences

CONSTANTS
    Branches,   \* the chains a node may serve: sequences of blocks of equal length
    Start,      \* ETH_START_BLOCK
    TraceMode,  \* ETH_TRACE_MODE: "disabled", "auto" or "required"
    MaxReorgs,  \* bound: how often a served block is replaced (only the `safe` tag allows it)
    MaxFaults,  \* bound: failing calls, failing inserts and crashes
    MaxCommands \* bound: operator commands with an explicit height

Height == Len(CHOOSE b \in Branches : TRUE)
Heights == 1 .. Height
Blocks == UNION {{b[h] : h \in Heights} : b \in Branches}
ParentOf(block) == LET b == CHOOSE b \in Branches : \E h \in Heights : b[h] = block
                       h == CHOOSE h \in Heights : b[h] = block
                   IN IF h = 1 THEN "genesis" ELSE b[h - 1]

Processes == {"follower", "range"}
None == "none"

\* A hash commits to the height and to all blocks before.
ASSUME ChainsShareHeights ==
    /\ Branches # {} /\ \A b \in Branches : DOMAIN b = 1 .. Len(b) /\ Len(b) \in Nat
    /\ \A b, c \in Branches : Len(b) = Len(c)
    /\ \A b, c \in Branches, h, g \in Heights : b[h] = c[g] =>
          h = g /\ \A i \in 1 .. h : b[i] = c[i]
    /\ None \notin Blocks
    /\ Start \in Heights
    /\ TraceMode \in {"disabled", "auto", "required"}
    /\ MaxReorgs \in Nat /\ MaxFaults \in Nat
NoMark == [block |-> None, traces |-> FALSE, at |-> 0]
NoCheckpoint == [height |-> 0, block |-> None, at |-> 0]
NoStart == 0  \* `follow` without --start-block

\* The tables of one block, in the order of the inserts.  The other tables
\* that persist_block fills go with "transactions".
Tables == <<"transactions", "address_relationships">>

\* What a table holds of a block: traces add the internal transfers.
RowsOf(table, block, traces) ==
    {[table |-> table, block |-> block, part |-> "receipts"]}
      \cup IF table = "address_relationships" /\ traces
           THEN {[table |-> table, block |-> block, part |-> "traces"]} ELSE {}
TableRows(table) == UNION {RowsOf(table, b, TRUE) : b \in Blocks}
AllRows == UNION {TableRows(Tables[i]) : i \in DOMAIN Tables}

VARIABLES
    node,       \* [branch, head]: what the node serves; `head` has the finality tag
    rows,       \* rows of the block-scoped tables
    marker,     \* newest "complete" row of ingested_blocks by height
    checkpoint, \* newest row of sync_state
    proc,       \* the two processes
    moves,      \* history: number of served blocks' replacements
    faults,     \* history: number of faults
    requested   \* history: first heights of the operator's commands

vars == <<node, rows, marker, checkpoint, proc, moves, faults, requested>>

Off == [pc |-> "off", height |-> 0, last |-> 0, block |-> None, traces |-> FALSE,
        at |-> 0, table |-> 0]

TypeOK ==
    /\ node \in [branch : Branches, head : 0 .. Height]
    /\ rows \subseteq AllRows
    /\ marker \in [Heights -> [block : Blocks \cup {None}, traces : BOOLEAN, at : Nat]]
    /\ checkpoint \in [height : 0 .. Height, block : Blocks \cup {None}, at : Nat]
    /\ \A p \in Processes :
          /\ proc[p].pc \in {"off", "head", "check", "fetch", "validate", "write",
                             "mark", "read", "advance"}
          /\ proc[p].height \in 0 .. Height + 1
          /\ proc[p].pc # "off" => proc[p].height > 0
    /\ moves \in 0 .. MaxReorgs
    /\ faults \in 0 .. MaxFaults
    /\ requested \subseteq Heights

Init ==
    /\ node \in [branch : Branches, head : {0}]
    /\ rows = {}
    /\ marker = [h \in Heights |-> NoMark]
    /\ checkpoint = NoCheckpoint
    /\ proc = [p \in Processes |-> Off]
    /\ moves = 0
    /\ faults = 0
    /\ requested = {}

-----------------------------------------------------------------------------
(* The node *)

HeadGrows ==
    /\ node.head < Height
    /\ node' = [node EXCEPT !.head = @ + 1]
    /\ UNCHANGED <<rows, marker, checkpoint, proc, moves, faults, requested>>

\* The node replaces blocks it has served.  Below a finalized head that cannot
\* happen; below a `safe` head (ETH_FINALITY_TAG) it can.
BranchChanges(branch) ==
    /\ \E h \in 1 .. node.head : branch[h] # node.branch[h]
    /\ moves < MaxReorgs
    /\ moves' = moves + 1
    /\ node' = [node EXCEPT !.branch = branch]
    /\ UNCHANGED <<rows, marker, checkpoint, proc, faults, requested>>

-----------------------------------------------------------------------------
(* Commands *)

Mutant_FollowStart == IF checkpoint = NoCheckpoint THEN Start ELSE checkpoint.height + 2

FollowStart == IF checkpoint = NoCheckpoint THEN Start ELSE checkpoint.height + 1

\* `follow`, as the service runs it, or with --start-block.
StartFollow(start) ==
    /\ proc["follower"].pc = "off"
    /\ start # NoStart => Cardinality(requested) < MaxCommands
    /\ proc' = [proc EXCEPT !["follower"] =
                  [Off EXCEPT !.pc = "head",
                              !.height = IF start = NoStart THEN FollowStart ELSE start]]
    /\ requested' = requested \cup ({start} \ {NoStart})
    /\ UNCHANGED <<node, rows, marker, checkpoint, moves, faults>>

\* `range` checks its upper end against the finalized head once.
StartRange(from, to) ==
    /\ proc["range"].pc = "off"
    /\ Cardinality(requested) < MaxCommands
    /\ from <= to /\ to <= node.head
    /\ proc' = [proc EXCEPT !["range"] =
                  [Off EXCEPT !.pc = "check", !.height = from, !.last = to]]
    /\ requested' = requested \cup {from}
    /\ UNCHANGED <<node, rows, marker, checkpoint, moves, faults>>

\* The follower reads the head and goes on, or sleeps and asks again.
ReadHead ==
    /\ proc["follower"].pc = "head"
    /\ proc["follower"].height <= node.head
    /\ proc' = [proc EXCEPT !["follower"].pc = "check"]
    /\ UNCHANGED <<node, rows, marker, checkpoint, moves, faults, requested>>

\* What follows a block that is complete, or was already.
NextBlock(p) ==
    IF p = "range" /\ proc[p].height = proc[p].last
    THEN Off
    ELSE [Off EXCEPT !.pc = IF p = "range" THEN "check" ELSE "head",
                     !.height = proc[p].height + 1, !.last = proc[p].last]

-----------------------------------------------------------------------------
(* One block *)

Complete(h) == marker[h] # NoMark /\ (TraceMode = "required" => marker[h].traces)

Check(p) ==
    /\ proc[p].pc = "check"
    /\ proc' = [proc EXCEPT ![p] = IF Complete(@.height) THEN NextBlock(p)
                                   ELSE [@ EXCEPT !.pc = "fetch"]]
    /\ UNCHANGED <<node, rows, marker, checkpoint, moves, faults, requested>>

TraceOutcomes == CASE TraceMode = "disabled" -> {FALSE}
                   [] TraceMode = "auto"     -> BOOLEAN
                   [] TraceMode = "required" -> {TRUE}

\* Timestamps decide between rows of one key.  They are taken at extraction,
\* so an insert that is delayed may come after a newer one.  Only their order
\* matters, to a process that holds a block: the clock restarts at a fetch
\* when no other process does.
Now == 1 + Max({marker[h].at : h \in Heights} \cup {proc[p].at : p \in Processes}
                 \cup {checkpoint.at})

\* Block, receipts and traces of a height, and their extraction.
Fetch(p) ==
    LET alone == \A q \in Processes : proc[q].at = 0
    IN /\ proc[p].pc = "fetch"
       /\ proc[p].height <= node.head
       /\ \E traces \in TraceOutcomes :
             proc' = [proc EXCEPT ![p] =
                        [@ EXCEPT !.pc = "validate", !.block = node.branch[proc[p].height],
                                  !.traces = traces, !.at = IF alone THEN 1 ELSE Now]]
       /\ marker' = IF alone THEN [h \in Heights |-> [marker[h] EXCEPT !.at = 0]] ELSE marker
       /\ checkpoint' = IF alone THEN [checkpoint EXCEPT !.at = 0] ELSE checkpoint
       /\ UNCHANGED <<node, rows, moves, faults, requested>>

\* validate_chain_continuity: the stored block of this height, then its parent.
Continues(h, block) ==
    /\ marker[h] # NoMark => marker[h].block = block
    /\ h > 1 /\ marker[h - 1] # NoMark => marker[h - 1].block = ParentOf(block)

Validate(p) ==
    /\ proc[p].pc = "validate"
    /\ Continues(proc[p].height, proc[p].block)
    /\ proc' = [proc EXCEPT ![p].pc = "write", ![p].table = 1]
    /\ UNCHANGED <<node, rows, marker, checkpoint, moves, faults, requested>>

\* A conflict ends the command.
Conflict(p) ==
    /\ proc[p].pc = "validate"
    /\ ~Continues(proc[p].height, proc[p].block)
    /\ proc' = [proc EXCEPT ![p] = Off]
    /\ UNCHANGED <<node, rows, marker, checkpoint, moves, faults, requested>>

Mutant_WriteTable(p) ==
    /\ proc[p].pc = "write"
    /\ rows' = rows \cup RowsOf(Tables[proc[p].table], proc[p].block, proc[p].traces)
    /\ proc' = [proc EXCEPT ![p].pc = "mark"]
    /\ UNCHANGED <<node, marker, checkpoint, moves, faults, requested>>

WriteTable(p) ==
    /\ proc[p].pc = "write"
    /\ rows' = rows \cup RowsOf(Tables[proc[p].table], proc[p].block, proc[p].traces)
    /\ proc' = [proc EXCEPT ![p] = IF @.table < Len(Tables)
                                   THEN [@ EXCEPT !.table = proc[p].table + 1]
                                   ELSE [@ EXCEPT !.pc = "mark"]]
    /\ UNCHANGED <<node, marker, checkpoint, moves, faults, requested>>

\* ReplacingMergeTree(updated_at): the row with the newest timestamp stays.
Mark(p) ==
    LET h == proc[p].height
        row == [block |-> proc[p].block, traces |-> proc[p].traces, at |-> proc[p].at]
    IN /\ proc[p].pc = "mark"
       /\ marker' = [marker EXCEPT ![h] = IF @.at > row.at THEN @ ELSE row]
       /\ proc' = [proc EXCEPT ![p].pc = "read"]
       /\ UNCHANGED <<node, rows, checkpoint, moves, faults, requested>>

\* The checkpoint is read, compared, and then inserted.
ReadCheckpoint(p) ==
    LET forward == checkpoint = NoCheckpoint \/ proc[p].height >= checkpoint.height
    IN /\ proc[p].pc = "read"
       /\ proc' = [proc EXCEPT ![p] = IF forward THEN [@ EXCEPT !.pc = "advance"]
                                      ELSE NextBlock(p)]
       /\ UNCHANGED <<node, rows, marker, checkpoint, moves, faults, requested>>

Advance(p) ==
    LET row == [height |-> proc[p].height, block |-> proc[p].block, at |-> proc[p].at]
    IN /\ proc[p].pc = "advance"
       /\ checkpoint' = IF checkpoint.at > row.at THEN checkpoint ELSE row
       /\ proc' = [proc EXCEPT ![p] = NextBlock(p)]
       /\ UNCHANGED <<node, rows, marker, moves, faults, requested>>

-----------------------------------------------------------------------------
(* Faults *)

\* An insert that fails may have been committed.
InFlight(p) ==
    IF proc[p].pc = "write"
    THEN RowsOf(Tables[proc[p].table], proc[p].block, proc[p].traces) ELSE {}

Mutant_Fail(p) ==
    /\ proc[p].pc # "off"
    /\ faults < MaxFaults
    /\ rows' \in {rows, rows \cup InFlight(p)}
    /\ proc' = [proc EXCEPT ![p] = NextBlock(p)]
    /\ faults' = faults + 1
    /\ UNCHANGED <<node, marker, checkpoint, moves, requested>>

\* A call or an insert fails, or the process does: the command ends.  (What
\* record_failure writes is read by people only.)
Fail(p) ==
    /\ proc[p].pc # "off"
    /\ faults < MaxFaults
    /\ rows' \in {rows, rows \cup InFlight(p)}
    /\ proc' = [proc EXCEPT ![p] = Off]
    /\ faults' = faults + 1
    /\ UNCHANGED <<node, marker, checkpoint, moves, requested>>

-----------------------------------------------------------------------------
Step(p) ==
    \/ Check(p) \/ Fetch(p) \/ Validate(p) \/ Conflict(p) \/ WriteTable(p)
    \/ Mark(p) \/ ReadCheckpoint(p) \/ Advance(p)

Next ==
    \/ HeadGrows
    \/ \E branch \in Branches : BranchChanges(branch)
    \/ \E start \in Heights \cup {NoStart} : StartFollow(start)
    \/ \E from, to \in Heights : StartRange(from, to)
    \/ ReadHead
    \/ \E p \in Processes : Step(p) \/ Fail(p)

\* The service is restarted whenever it stops (docker-compose.yml:52) and its
\* calls have deadlines.  Nobody has to run an operator's command.
Fairness ==
    /\ WF_vars(StartFollow(NoStart))
    /\ WF_vars(ReadHead \/ Step("follower"))

Spec == Init /\ [][Next]_vars /\ Fairness

-----------------------------------------------------------------------------
(* Properties *)

\* The completion marker is last: whenever a reader finds a height complete,
\* all rows of the marked block are there, with the internal transfers if the
\* marker says so - whatever failed before, and with two writers.
MarkedIsWhole ==
    \A h \in Heights : marker[h] # NoMark =>
       \A i \in DOMAIN Tables : RowsOf(Tables[i], marker[h].block, marker[h].traces) \subseteq rows

\* A height below the checkpoint that is not complete was skipped by an
\* operator's explicit height, never by a crash, a failure or a restart.
GapsAreRequested ==
    checkpoint # NoCheckpoint =>
       \A h \in Start .. checkpoint.height : marker[h] = NoMark =>
          \E r \in requested : h < r /\ r <= checkpoint.height

\* Complete heights link to each other and the checkpoint names a complete
\* block: when the node never replaces a served block, whatever the operator
\* runs beside the follower; and when it does, as long as the follower is alone.
LinkedHistory ==
    moves = 0 \/ requested = {} =>
       /\ \A h \in Heights \ {1} : marker[h] # NoMark /\ marker[h - 1] # NoMark =>
             marker[h - 1].block = ParentOf(marker[h].block)
       /\ checkpoint # NoCheckpoint => marker[checkpoint.height].block = checkpoint.block

\* What a reader finds complete: well-formed rows, whole blocks, one linked chain.
Consistent == TypeOK /\ MarkedIsWhole /\ LinkedHistory

\* The follower completes every served height from its start on, unless an
\* operator's command jumped over it or the node replaced a stored block, for
\* which the code has no way out.
CatchesUp ==
    \A h \in Heights : h >= Start /\ h <= node.head ~>
       \/ marker[h] # NoMark
       \/ \E r \in requested : h < r
       \/ \E g \in Heights : marker[g] # NoMark /\ marker[g].block # node.branch[g]
=============================================================================
