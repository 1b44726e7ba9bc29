---------------------------- MODULE TronIngestion ----------------------------
(***************************************************************************)
(* Ingestion of solid TRON blocks (dockerizd_tron/app): the loop of        *)
(* tasks/fetch_loop.rs in SYNC_MODE auto and the operator's                *)
(* tron_replay_blocks are two processes over services/tron/fetcher.rs,     *)
(* the block journal of ingestion_state.rs and the row batchers of         *)
(* batcher/generic.rs.  A batcher is a buffer that a timer, a full buffer  *)
(* and the end of a block flush; a flush is an insert of a copy of the     *)
(* buffer, then the removal of what was copied.                            *)
(***************************************************************************)
EXTENDS Naturals, FiniteSets, Sequences

CONSTANTS
    TxsOf,      \* sequence: the transactions of the block at each height
    Start,      \* TRON_START_BLOCK
    TotalTxs,   \* TOTAL_TRON_TXS: transactions of one pass, 0 for no limit
    MaxFaults,  \* bound: failing transactions, calls and inserts, crashes, and blocks
                \* that the node replaces
    MaxReplays, \* bound: replays of the operator
    MaxReplayed \* bound: transactions of a block that is replayed

Heights == DOMAIN TxsOf
Processes == {"loop", "replay"}
Tables == <<"transactions", "address_relationships">>
TableNames == {Tables[i] : i \in DOMAIN Tables}

\* The first block has number 1: height 0 stands for "no block" in a pass.
ASSUME TronAssumption ==
    /\ DOMAIN TxsOf = 1 .. Len(TxsOf) /\ Len(TxsOf) \in Nat
    /\ \A h \in Heights : IsFiniteSet(TxsOf[h])
    /\ Start \in Nat \ {0} /\ TotalTxs \in Nat
    /\ MaxFaults \in Nat /\ MaxReplays \in Nat

\* Blocks of a height are told apart by their number of replacements.
RowsOf(h, version, txs) == {[height |-> h, version |-> version, tx |-> t] : t \in txs}
NoMark == [status |-> "NONE", version |-> 0]

VARIABLES
    node,       \* [head, version]: the solid head and the served block by height
    tables,     \* rows by table
    journal,    \* newest row of ingested_blocks by height
    checkpoint, \* rows of sync_state in its newest second: a read returns any of them
    failures,   \* open rows of ingestion_failures: <<height, stage>>
    buffer,     \* rows of each batcher of each process
    inflight,   \* the copy a flush is inserting, {} when no flush runs
    proc,       \* the two processes
    budget      \* history: [faults, replays]

vars == <<node, tables, journal, checkpoint, failures, buffer, inflight, proc, budget>>

Off == [pc |-> "off", height |-> 0, first |-> 0, last |-> 0, version |-> 0,
        count |-> 0, txs |-> {}, failed |-> FALSE, table |-> 0]

AllRows == UNION {RowsOf(h, v, TxsOf[h]) : h \in Heights, v \in 0 .. MaxFaults}

TypeOK ==
    /\ node.head \in 0 .. Len(TxsOf) /\ node.version \in [Heights -> 0 .. MaxFaults]
    /\ tables \in [TableNames -> SUBSET AllRows]
    /\ journal \in [Heights -> [status : {"NONE", "PROCESSING", "FAILED", "COMPLETE"},
                                version : 0 .. MaxFaults]]
    /\ checkpoint \subseteq Heights
    /\ failures \subseteq Heights \X {"FETCH_BLOCK", "CANONICALITY", "PROCESS_TX", "FLUSH"}
    /\ buffer \in [Processes -> [TableNames -> SUBSET AllRows]]
    /\ inflight \in [Processes -> [TableNames -> SUBSET AllRows]]
    /\ \A p \in Processes : proc[p].pc \in
          {"off", "begin", "fetch", "decide", "process", "flush", "flushing", "fail",
           "mark", "resolve", "save", "end"}

Empty == [t \in TableNames |-> {}]

Init ==
    /\ node = [head |-> 0, version |-> [h \in Heights |-> 0]]
    /\ tables = Empty
    /\ journal = [h \in Heights |-> NoMark]
    /\ checkpoint = {}
    /\ failures = {}
    /\ buffer = [p \in Processes |-> Empty]
    /\ inflight = [p \in Processes |-> Empty]
    /\ proc = [p \in Processes |-> Off]
    /\ budget = [faults |-> 0, replays |-> 0]

Stored == <<tables, journal, checkpoint, failures>>
Batchers == <<buffer, inflight>>
Goto(p, pc) == proc' = [proc EXCEPT ![p].pc = pc]
Fault == budget.faults < MaxFaults /\ budget' = [budget EXCEPT !.faults = @ + 1]

-----------------------------------------------------------------------------
(* The node *)

HeadGrows ==
    /\ node.head < Len(TxsOf)
    /\ node' = [node EXCEPT !.head = @ + 1]
    /\ UNCHANGED <<Stored, Batchers, proc, budget>>

\* A solid block should never change; the code checks it nevertheless.
BlockChanges(h) ==
    /\ h <= node.head
    /\ Fault
    /\ node' = [node EXCEPT !.version[h] = @ + 1]
    /\ UNCHANGED <<Stored, Batchers, proc>>

-----------------------------------------------------------------------------
(* Passes over a range *)

Mutant_NextBlocks == IF checkpoint = {} THEN {Start} ELSE {h + 2 : h \in checkpoint}

\* get_last_synced_block: argMax over rows whose clock counts seconds.
NextBlocks == IF checkpoint = {} THEN {Start} ELSE {h + 1 : h \in checkpoint}

StartLoop ==
    /\ proc["loop"].pc = "off"
    /\ \E first \in NextBlocks :
          proc' = [proc EXCEPT !["loop"] = [Off EXCEPT !.pc = "begin", !.first = first]]
    /\ UNCHANGED <<node, Stored, Batchers, budget>>

\* A replay is a process of its own, with batchers of its own.
StartReplay(from, to) ==
    /\ proc["replay"].pc = "off"
    /\ budget.replays < MaxReplays
    /\ from <= to
    /\ \A h \in from .. to : Cardinality(TxsOf[h]) <= MaxReplayed
    /\ proc' = [proc EXCEPT !["replay"] =
                  [Off EXCEPT !.pc = "begin", !.first = from, !.last = to]]
    /\ budget' = [budget EXCEPT !.replays = @ + 1]
    /\ buffer' = [buffer EXCEPT !["replay"] = Empty]
    /\ inflight' = [inflight EXCEPT !["replay"] = Empty]
    /\ UNCHANGED <<node, Stored>>

\* A replay whose end the node has not reached is refused.
BeginPass(p) ==
    /\ proc[p].pc = "begin"
    /\ proc' = [proc EXCEPT ![p] =
                  IF p = "replay" /\ proc[p].last > node.head THEN Off
                  ELSE [Off EXCEPT !.pc = "fetch", !.first = proc[p].first,
                                   !.height = proc[p].first,
                                   !.last = IF p = "loop" THEN node.head ELSE proc[p].last]]
    /\ UNCHANGED <<node, Stored, Batchers, budget>>

PassOver(p) ==
    proc[p].height > proc[p].last \/ (p = "loop" /\ TotalTxs > 0 /\ proc[p].count >= TotalTxs)

Fetch(p) ==
    /\ proc[p].pc = "fetch"
    /\ proc' = [proc EXCEPT ![p] =
                  IF PassOver(p) THEN [@ EXCEPT !.pc = "flush", !.table = 1, !.txs = {}, !.height = 0]
                  ELSE [@ EXCEPT !.pc = "decide", !.version = node.version[proc[p].height]]]
    /\ UNCHANGED <<node, Stored, Batchers, budget>>

\* The end of a pass: the loop reads the checkpoint again.
EndPass(p) ==
    /\ proc[p].pc = "end"
    /\ \E first \in NextBlocks :
          proc' = [proc EXCEPT ![p] =
                     IF p = "replay" THEN Off
                     ELSE [Off EXCEPT !.pc = "begin",
                                      !.first = IF checkpoint = {} THEN proc[p].first ELSE first]]
    /\ UNCHANGED <<node, Stored, Batchers, budget>>

\* An error ends the pass.  The loop retries it from its first block.
Abandon(p) ==
    IF p = "replay" THEN Off ELSE [Off EXCEPT !.pc = "begin", !.first = proc[p].first]

-----------------------------------------------------------------------------
(* One block *)

Conflicts(p) == LET mark == journal[proc[p].height]
                IN mark # NoMark /\ mark.version # proc[p].version

Skips(p) == LET mark == journal[proc[p].height]
            IN p # "replay" /\ mark.status = "COMPLETE" /\ mark.version = proc[p].version

\* The evidence of the store wins: the command ends, the loop's process too.
RefuseBlock(p) ==
    /\ proc[p].pc = "decide"
    /\ Conflicts(p)
    /\ failures' = failures \cup {<<proc[p].height, "CANONICALITY">>}
    /\ proc' = [proc EXCEPT ![p] = Off]
    /\ buffer' = [buffer EXCEPT ![p] = Empty]
    /\ inflight' = [inflight EXCEPT ![p] = Empty]
    /\ UNCHANGED <<node, tables, journal, checkpoint, budget>>

SkipBlock(p) ==
    /\ proc[p].pc = "decide"
    /\ Skips(p)
    /\ Goto(p, "resolve")
    /\ UNCHANGED <<node, Stored, Batchers, budget>>

\* The block is PROCESSING even when the limit of the pass then stops it; a
\* block without transactions is complete at once.
TakeBlock(p) ==
    LET txs == TxsOf[proc[p].height]
        tooMany == /\ p = "loop" /\ TotalTxs > 0 /\ proc[p].count > 0
                   /\ proc[p].count + Cardinality(txs) > TotalTxs
    IN /\ proc[p].pc = "decide"
       /\ ~Conflicts(p) /\ ~Skips(p)
       /\ journal' = [journal EXCEPT ![proc[p].height] =
                        [status |-> "PROCESSING", version |-> proc[p].version]]
       /\ proc' = [proc EXCEPT ![p] =
                     CASE txs = {}  -> [@ EXCEPT !.pc = "mark"]
                       [] txs # {} /\ tooMany -> [@ EXCEPT !.pc = "flush", !.table = 1, !.height = 0]
                       [] OTHER     -> [@ EXCEPT !.pc = "process", !.txs = txs,
                                                 !.count = proc[p].count + Cardinality(txs)]]
       /\ UNCHANGED <<node, tables, checkpoint, failures, Batchers, budget>>

\* Transactions are processed in any order; each pushes its rows.
ProcessTx(p, tx) ==
    LET rows == RowsOf(proc[p].height, proc[p].version, {tx})
    IN /\ proc[p].pc = "process" /\ tx \in proc[p].txs
       /\ proc' = [proc EXCEPT ![p].txs = @ \ {tx}]
       /\ buffer' = [buffer EXCEPT ![p] = [t \in TableNames |-> @[t] \cup rows]]
       /\ UNCHANGED <<node, Stored, inflight, budget>>

\* A transaction that fails may have pushed the rows of the first tables.
TxFails(p, tx) ==
    LET rows == RowsOf(proc[p].height, proc[p].version, {tx})
    IN /\ proc[p].pc = "process" /\ tx \in proc[p].txs
       /\ Fault
       /\ proc' = [proc EXCEPT ![p].txs = @ \ {tx}, ![p].failed = TRUE]
       /\ buffer' \in {buffer, [buffer EXCEPT ![p]["transactions"] = @ \cup rows]}
       /\ UNCHANGED <<node, Stored, inflight>>

Mutant_BlockProcessed(p) ==
    /\ proc[p].pc = "process" /\ proc[p].txs = {}
    /\ proc' = [proc EXCEPT ![p].pc = "flush", ![p].table = 1]
    /\ UNCHANGED <<node, Stored, Batchers, budget>>

\* All are through: failures are recorded, then the batchers are flushed.
BlockProcessed(p) ==
    /\ proc[p].pc = "process" /\ proc[p].txs = {}
    /\ failures' = IF proc[p].failed THEN failures \cup {<<proc[p].height, "PROCESS_TX">>}
                   ELSE failures
    /\ proc' = [proc EXCEPT ![p].pc = "flush", ![p].table = 1]
    /\ UNCHANGED <<node, tables, journal, checkpoint, Batchers, budget>>

-----------------------------------------------------------------------------
(* Batchers *)

BeginFlush(p, t) ==
    /\ inflight[p][t] = {} /\ buffer[p][t] # {}
    /\ inflight' = [inflight EXCEPT ![p][t] = buffer[p][t]]
    /\ UNCHANGED <<node, Stored, buffer, budget>>

\* The timer of the batcher, which runs as long as the process, or a push
\* that fills the buffer.
FlushInBackground(p, t) ==
    /\ proc[p].pc # "off"
    /\ BeginFlush(p, t)
    /\ UNCHANGED proc

Mutant_Remaining(p, t) == {}

\* Only what the insert held leaves the buffer.
Remaining(p, t) == buffer[p][t] \ inflight[p][t]

FlushEnds(p, t) ==
    /\ inflight[p][t] # {}
    /\ tables' = [tables EXCEPT ![t] = @ \cup inflight[p][t]]
    /\ buffer' = [buffer EXCEPT ![p][t] = Remaining(p, t)]
    /\ inflight' = [inflight EXCEPT ![p][t] = {}]
    /\ proc' = IF proc[p].pc = "flushing" /\ Tables[proc[p].table] = t
               THEN [proc EXCEPT ![p].pc = "flush", ![p].table = @ + 1] ELSE proc
    /\ UNCHANGED <<node, journal, checkpoint, failures, budget>>

\* The insert fails, applied or not: the rows stay in the buffer.  When the
\* block waits for this flush, the block fails.
FlushFails(p, t) ==
    LET awaited == proc[p].pc = "flushing" /\ Tables[proc[p].table] = t
    IN /\ inflight[p][t] # {}
       /\ Fault
       /\ tables' \in {tables, [tables EXCEPT ![t] = @ \cup inflight[p][t]]}
       /\ inflight' = [inflight EXCEPT ![p][t] = {}]
       /\ proc' = IF ~awaited THEN proc
                  ELSE IF proc[p].height = 0 THEN [proc EXCEPT ![p] = Abandon(p)]
                  ELSE [proc EXCEPT ![p].pc = "fail"]
       /\ failures' = IF awaited /\ proc[p].height # 0
                      THEN failures \cup {<<proc[p].height, "FLUSH">>} ELSE failures
       /\ UNCHANGED <<node, journal, checkpoint, buffer>>

\* flush_batches: table by table, each behind the flush that is under way.
FlushTable(p) ==
    /\ proc[p].pc = "flush" /\ proc[p].table <= Len(Tables)
    /\ LET t == Tables[proc[p].table]
       IN \/ BeginFlush(p, t) /\ Goto(p, "flushing")
          \/ /\ buffer[p][t] = {} /\ inflight[p][t] = {}
             /\ proc' = [proc EXCEPT ![p].table = @ + 1]
             /\ UNCHANGED <<node, Stored, Batchers, budget>>

Flushed(p) ==
    /\ proc[p].pc = "flush" /\ proc[p].table > Len(Tables)
    /\ Goto(p, CASE proc[p].height = 0 -> "end"
                 [] proc[p].height # 0 /\ proc[p].failed  -> "fail"
                 [] proc[p].height # 0 /\ ~proc[p].failed -> "mark")
    /\ UNCHANGED <<node, Stored, Batchers, budget>>

-----------------------------------------------------------------------------
(* The journal *)

Write(h, status, version) ==
    journal' = [journal EXCEPT ![h] = [status |-> status, version |-> version]]

MarkFailed(p) ==
    /\ proc[p].pc = "fail"
    /\ Write(proc[p].height, "FAILED", proc[p].version)
    /\ proc' = [proc EXCEPT ![p] = Abandon(p)]
    /\ UNCHANGED <<node, tables, checkpoint, failures, Batchers, budget>>

MarkComplete(p) ==
    /\ proc[p].pc = "mark"
    /\ Write(proc[p].height, "COMPLETE", proc[p].version)
    /\ Goto(p, "resolve")
    /\ UNCHANGED <<node, tables, checkpoint, failures, Batchers, budget>>

NextOf(p) == [proc[p] EXCEPT !.pc = "fetch", !.height = @ + 1, !.failed = FALSE, !.table = 0]

ResolveFailures(p) ==
    /\ proc[p].pc = "resolve"
    /\ failures' = {f \in failures : f[1] # proc[p].height}
    /\ proc' = [proc EXCEPT ![p] = IF p = "loop" THEN [@ EXCEPT !.pc = "save"] ELSE NextOf(p)]
    /\ UNCHANGED <<node, tables, journal, checkpoint, Batchers, budget>>

\* Rows of one second are equally new.
SaveCheckpoint(p) ==
    /\ proc[p].pc = "save"
    /\ checkpoint' \in {{proc[p].height}, checkpoint \cup {proc[p].height}}
    /\ proc' = [proc EXCEPT ![p] = NextOf(p)]
    /\ UNCHANGED <<node, tables, journal, failures, Batchers, budget>>

-----------------------------------------------------------------------------
(* Faults *)

\* A call to the node or to the store fails.  At the start of a block that is
\* recorded, if the store takes the record.  The batchers keep their rows,
\* unless the process ends with its command.
CallFails(p) ==
    /\ proc[p].pc \in {"begin", "fetch", "decide", "process", "fail", "mark", "resolve", "save"}
    /\ Fault
    /\ proc' = [proc EXCEPT ![p] = Abandon(p)]
    /\ buffer' = IF p = "replay" THEN [buffer EXCEPT ![p] = Empty] ELSE buffer
    /\ inflight' = IF p = "replay" THEN [inflight EXCEPT ![p] = Empty] ELSE inflight
    /\ failures' \in {failures} \cup
          CASE proc[p].pc = "fetch" /\ proc[p].height \in Heights
                  -> {failures \cup {<<proc[p].height, "FETCH_BLOCK">>}}
            [] proc[p].pc = "decide" -> {failures \cup {<<proc[p].height, "CANONICALITY">>}}
            [] OTHER -> {}
    /\ UNCHANGED <<node, tables, journal, checkpoint>>

\* What a dying process was inserting may have been applied.
Crash(p) ==
    /\ proc[p].pc # "off"
    /\ Fault
    /\ proc' = [proc EXCEPT ![p] = Off]
    /\ tables' \in {tables, [t \in TableNames |-> tables[t] \cup inflight[p][t]]}
    /\ buffer' = [buffer EXCEPT ![p] = Empty]
    /\ inflight' = [inflight EXCEPT ![p] = Empty]
    /\ UNCHANGED <<node, journal, checkpoint, failures>>

-----------------------------------------------------------------------------
Step(p) ==
    \/ BeginPass(p) \/ Fetch(p) \/ EndPass(p) \/ RefuseBlock(p) \/ SkipBlock(p)
    \/ TakeBlock(p) \/ (\E tx \in proc[p].txs : ProcessTx(p, tx)) \/ BlockProcessed(p)
    \/ FlushTable(p) \/ Flushed(p) \/ (\E t \in TableNames : FlushEnds(p, t))
    \/ MarkFailed(p) \/ MarkComplete(p) \/ ResolveFailures(p) \/ SaveCheckpoint(p)

Next ==
    \/ HeadGrows
    \/ \E h \in Heights : BlockChanges(h)
    \/ StartLoop
    \/ \E from, to \in Heights : StartReplay(from, to)
    \/ \E p \in Processes :
          \/ Step(p) \/ CallFails(p) \/ Crash(p)
          \/ \E tx \in proc[p].txs : TxFails(p, tx)
          \/ \E t \in TableNames : FlushInBackground(p, t) \/ FlushFails(p, t)

\* The service restarts (docker-compose.yml:42) and its calls have deadlines;
\* a replay that was started runs on.
Fairness == WF_vars(StartLoop) /\ \A p \in Processes : WF_vars(Step(p))

Spec == Init /\ [][Next]_vars /\ Fairness

-----------------------------------------------------------------------------
(* Properties *)

\* A block that the journal calls COMPLETE, which is what the views show, has
\* the rows of all its transactions in all tables, although rows travel in
\* batches that are shared by blocks, flushed in the background and retried.
CompleteIsWhole ==
    \A h \in Heights : journal[h].status = "COMPLETE" =>
       \A t \in TableNames : RowsOf(h, journal[h].version, TxsOf[h]) \subseteq tables[t]

\* What a reader finds COMPLETE, over well-formed tables and buffers.
Consistent == TypeOK /\ CompleteIsWhole

\* Up to the newest checkpoint a read may return, every block is COMPLETE,
\* unless a replay reopened it.  A FAILED block has an open failure that says
\* why, unless a replay ran beside the loop.
JournalExplains ==
    budget.replays = 0 =>
       /\ \A c \in checkpoint, h \in Heights : h \in Start .. c => journal[h].status = "COMPLETE"
       /\ \A h \in Heights : journal[h].status = "FAILED" => \E f \in failures : f[1] = h

\* Every solid block becomes COMPLETE and its failures are settled, unless a
\* replay reopened a block or the node serves another one than it served.
CatchesUp ==
    \A h \in Heights : h >= Start /\ h <= node.head ~>
       \/ journal[h].status = "COMPLETE" /\ \A f \in failures : f[1] # h
       \/ budget.replays > 0
       \/ \E g \in Heights : node.version[g] > 0
=============================================================================
