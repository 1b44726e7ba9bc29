------------------------ MODULE TronIngestionProofs ------------------------
(***************************************************************************)
(* Proofs about the ingestion of TRON blocks, for every sequence of blocks *)
(* and every bound: a block that readers are shown is whole (SafeInv), and *)
(* without replays the checkpoint and the failure records tell the truth   *)
(* about the journal (JournalInv).                                         *)
(*                                                                         *)
(* The last parts are about what is made of the stored blocks, module      *)
(* TronIntelligence, for every set of labels, candidates and commands:     *)
(* readers see what was decided last (ReviewInv, LatestInv, CountInv), and *)
(* a cursor of the discovery stands for blocks that it has read            *)
(* (CursorInv).                                                            *)
(***************************************************************************)
EXTENDS TronIngestion, ChainServices, FiniteSetTheorems, TLAPS

-----------------------------------------------------------------------------
(* The inductive invariant *)

Places == {"off", "begin", "fetch", "decide", "process", "flush", "flushing", "fail",
           "mark", "resolve", "save", "end"}
InBlock == {"decide", "process", "fail", "mark", "resolve", "save"}
Flushes == {"flush", "flushing"}
AllTxs == UNION {TxsOf[h] : h \in Heights}

Pass == [pc : Places, height : Nat, first : Nat, last : 0 .. Len(TxsOf),
         version : 0 .. MaxFaults, count : Nat, txs : SUBSET AllTxs,
         failed : BOOLEAN, table : Nat]

TypeInv ==
    /\ TypeOK
    /\ node \in [head : 0 .. Len(TxsOf), version : [Heights -> 0 .. MaxFaults]]
    /\ budget \in [faults : 0 .. MaxFaults, replays : 0 .. MaxReplays]
    /\ \A h \in Heights : node.version[h] <= budget.faults
    /\ proc \in [Processes -> Pass]

\* What a process knows of the block it is at.
PlaceInv(p) ==
    /\ proc[p].pc # "off" => proc[p].first # 0
    /\ proc[p].pc = "fetch" => proc[p].height # 0
    /\ proc[p].pc \in InBlock => proc[p].height \in Heights
    /\ proc[p].pc \in Flushes => proc[p].height \in Heights \cup {0}
    /\ proc[p].pc = "process" => proc[p].txs \subseteq TxsOf[proc[p].height]
    /\ proc[p].pc = "flush" => proc[p].table \in 1 .. 3
    /\ proc[p].pc = "flushing" =>
          /\ proc[p].table \in 1 .. 2
          /\ buffer[p][Tables[proc[p].table]] = inflight[p][Tables[proc[p].table]]

BlockRows(p) == RowsOf(proc[p].height, proc[p].version, TxsOf[proc[p].height])

\* Every row of the block that is through is stored or in the buffer, and in
\* the tables that were flushed it is stored.
RowsInv(p) ==
    /\ proc[p].pc = "process" /\ ~proc[p].failed => \A t \in TableNames :
          RowsOf(proc[p].height, proc[p].version, TxsOf[proc[p].height] \ proc[p].txs)
             \subseteq tables[t] \cup buffer[p][t]
    /\ proc[p].pc \in Flushes /\ proc[p].height # 0 /\ ~proc[p].failed =>
          /\ \A t \in TableNames : BlockRows(p) \subseteq tables[t] \cup buffer[p][t]
          /\ \A i \in 1 .. 2 : i < proc[p].table => BlockRows(p) \subseteq tables[Tables[i]]
    /\ proc[p].pc = "mark" => \A t \in TableNames : BlockRows(p) \subseteq tables[t]

SafeInv == TypeInv /\ CompleteIsWhole /\ \A p \in Processes : PlaceInv(p) /\ RowsInv(p)

-----------------------------------------------------------------------------
(* Lemmas about the operators *)

\* The two tables of a batch, in the order of their flushes.
LEMMA TwoTables ==
  /\ Tables[1] = "transactions" /\ Tables[2] = "address_relationships"
  /\ Len(Tables) = 2 /\ DOMAIN Tables = 1 .. 2
  /\ TableNames = {"transactions", "address_relationships"}
BY DEF Tables, TableNames

\* The rows a transaction pushes are well-formed.
LEMMA RowsTyped ==
  ASSUME NEW h \in Heights, NEW v \in 0 .. MaxFaults, NEW txs \in SUBSET TxsOf[h]
  PROVE  RowsOf(h, v, txs) \subseteq AllRows
<1>1. RowsOf(h, v, txs) \subseteq RowsOf(h, v, TxsOf[h])
  BY DEF RowsOf
<1> QED
  BY <1>1 DEF AllRows

\* A process that takes no step keeps what it knows: tables only grow.
LEMMA OtherStable ==
  ASSUME NEW q \in Processes, PlaceInv(q), RowsInv(q),
         proc'[q] = proc[q], buffer'[q] = buffer[q], inflight'[q] = inflight[q],
         \A t \in TableNames : tables[t] \subseteq tables'[t]
  PROVE  PlaceInv(q)' /\ RowsInv(q)'
<1>1. PlaceInv(q)'
  BY DEF PlaceInv
<1>2. \A i \in 1 .. 2 : tables[Tables[i]] \subseteq tables'[Tables[i]]
  BY TwoTables
<1>3. RowsInv(q)'
  BY <1>2 DEF RowsInv, BlockRows
<1> QED
  BY <1>1, <1>3

\* A block that is shown stays whole while its journal row is the newest.
LEMMA WholeStable ==
  ASSUME CompleteIsWhole, journal' = journal,
         \A t \in TableNames : tables[t] \subseteq tables'[t]
  PROVE  CompleteIsWhole'
BY DEF CompleteIsWhole

\* What the other variables keep, they keep well-formed.
LEMMA TypeStable ==
  ASSUME TypeInv, UNCHANGED <<node, tables, journal, checkpoint, buffer, inflight, budget>>,
         failures' = failures, proc' \in [Processes -> Pass]
  PROVE  TypeInv'
<1>1. \A p \in Processes : proc'[p].pc \in Places
  BY DEF Pass
<1> QED
  BY <1>1 DEF TypeInv, TypeOK, Places

\* A step that changes nothing but the place of a process.
LEMMA MoveSafe ==
  ASSUME SafeInv, NEW p \in Processes, NEW s \in Pass,
         proc' = [proc EXCEPT ![p] = s],
         UNCHANGED <<node, Stored, Batchers, budget>>,
         PlaceInv(p)', RowsInv(p)'
  PROVE  SafeInv'
<1>1. proc' \in [Processes -> Pass]
  BY DEF SafeInv, TypeInv
<1>2. TypeInv'
  BY <1>1, TypeStable DEF SafeInv, Stored, Batchers
<1>3. CompleteIsWhole'
  BY WholeStable DEF SafeInv, Stored
<1>4. ASSUME NEW q \in Processes \ {p} PROVE PlaceInv(q)' /\ RowsInv(q)'
  BY <1>4, OtherStable DEF SafeInv, TypeInv, Stored, Batchers
<1> QED
  BY <1>2, <1>3, <1>4 DEF SafeInv

-----------------------------------------------------------------------------
(* Passes *)

\* Between two blocks a process knows nothing but where its pass began.
LEMMA IdleSafe ==
  ASSUME SafeInv, NEW p \in Processes, NEW s \in Pass,
         proc' = [proc EXCEPT ![p] = s],
         UNCHANGED <<node, Stored, Batchers, budget>>,
         \/ s.pc = "off"
         \/ s.pc \in {"begin", "end"} /\ s.first # 0
         \/ s.pc = "fetch" /\ s.first # 0 /\ s.height # 0
         \/ s.pc = "flush" /\ s.first # 0 /\ s.table = 1 /\ s.height = 0
  PROVE  SafeInv'
<1>1. PlaceInv(p)' /\ RowsInv(p)'
  BY DEF SafeInv, TypeInv, PlaceInv, RowsInv, InBlock, Flushes
<1> QED
  BY <1>1, MoveSafe

LEMMA OffTyped == Off \in Pass
BY TronAssumption DEF Off, Pass, Places

LEMMA BeginPassSafe ==
  ASSUME SafeInv, NEW p \in Processes, BeginPass(p)
  PROVE  SafeInv'
<1>1. CASE p = "replay" /\ proc[p].last > node.head
  BY <1>1, OffTyped, IdleSafe DEF BeginPass, Off
<1>2. CASE ~(p = "replay" /\ proc[p].last > node.head)
  <2> DEFINE s == [Off EXCEPT !.pc = "fetch", !.first = proc[p].first, !.height = proc[p].first,
                              !.last = IF p = "loop" THEN node.head ELSE proc[p].last]
  <2>1. proc[p] \in Pass /\ proc[p].first # 0 /\ node.head \in 0 .. Len(TxsOf)
    BY DEF SafeInv, TypeInv, TypeOK, PlaceInv, BeginPass
  <2>2. s \in Pass /\ s.pc = "fetch" /\ s.first # 0 /\ s.height # 0
    BY <2>1, OffTyped DEF Pass, Places
  <2> HIDE DEF s
  <2>3. proc' = [proc EXCEPT ![p] = s]
    BY <1>2 DEF BeginPass, s
  <2> QED
    BY <2>2, <2>3, IdleSafe DEF BeginPass
<1> QED
  BY <1>1, <1>2

LEMMA FetchSafe ==
  ASSUME SafeInv, NEW p \in Processes, Fetch(p)
  PROVE  SafeInv'
<1>1. proc[p] \in Pass /\ PlaceInv(p) /\ proc[p].pc = "fetch"
  BY DEF SafeInv, TypeInv, Fetch
<1>2. CASE PassOver(p)
  <2> DEFINE s == [proc[p] EXCEPT !.pc = "flush", !.table = 1, !.txs = {}, !.height = 0]
  <2>1. s \in Pass /\ s.pc = "flush" /\ s.first # 0 /\ s.table = 1 /\ s.height = 0
    BY <1>1 DEF Pass, Places, PlaceInv
  <2> HIDE DEF s
  <2>2. proc' = [proc EXCEPT ![p] = s]
    BY <1>2 DEF Fetch, s
  <2> QED
    BY <2>1, <2>2, IdleSafe DEF Fetch
<1>3. CASE ~PassOver(p)
  <2> DEFINE s == [proc[p] EXCEPT !.pc = "decide", !.version = node.version[proc[p].height]]
  <2>1. proc[p].height \in Heights
    BY <1>1, <1>3, TronAssumption DEF PassOver, Heights, PlaceInv, Pass
  <2>2. node.version[proc[p].height] \in 0 .. MaxFaults
    BY <2>1 DEF SafeInv, TypeInv, TypeOK
  <2>3. s \in Pass /\ s.pc = "decide" /\ s.first # 0 /\ s.height \in Heights
    BY <1>1, <2>1, <2>2 DEF Pass, Places, PlaceInv
  <2> HIDE DEF s
  <2>4. proc' = [proc EXCEPT ![p] = s]
    BY <1>3 DEF Fetch, s
  <2>5. PlaceInv(p)' /\ RowsInv(p)'
    BY <2>3, <2>4 DEF SafeInv, TypeInv, PlaceInv, RowsInv, InBlock, Flushes
  <2> QED
    BY <2>3, <2>4, <2>5, MoveSafe DEF Fetch
<1> QED
  BY <1>2, <1>3

LEMMA EndPassSafe ==
  ASSUME SafeInv, NEW p \in Processes, EndPass(p)
  PROVE  SafeInv'
<1>1. PICK first \in NextBlocks :
        proc' = [proc EXCEPT ![p] =
                   IF p = "replay" THEN Off
                   ELSE [Off EXCEPT !.pc = "begin",
                                    !.first = IF checkpoint = {} THEN proc[p].first ELSE first]]
  BY DEF EndPass
<1>2. first \in Nat \ {0}
  BY TronAssumption DEF NextBlocks, SafeInv, TypeInv, TypeOK, Heights
<1>3. proc[p] \in Pass /\ proc[p].first # 0
  BY DEF SafeInv, TypeInv, PlaceInv, EndPass
<1>4. CASE p = "replay"
  BY <1>1, <1>4, OffTyped, IdleSafe DEF EndPass, Off
<1>5. CASE p # "replay"
  <2> DEFINE s == [Off EXCEPT !.pc = "begin",
                              !.first = IF checkpoint = {} THEN proc[p].first ELSE first]
  <2>1. s \in Pass /\ s.pc = "begin" /\ s.first # 0
    BY <1>2, <1>3, OffTyped DEF Pass, Places
  <2> HIDE DEF s
  <2>2. proc' = [proc EXCEPT ![p] = s]
    BY <1>1, <1>5 DEF s
  <2> QED
    BY <2>1, <2>2, IdleSafe DEF EndPass
<1> QED
  BY <1>4, <1>5

-----------------------------------------------------------------------------
(* Steps that store, record or fail *)

FailureRecords == Heights \X {"FETCH_BLOCK", "CANONICALITY", "PROCESS_TX", "FLUSH"}
JournalRows == [Heights -> [status : {"NONE", "PROCESSING", "FAILED", "COMPLETE"},
                            version : 0 .. MaxFaults]]

\* The parts of TypeInv, for steps that leave the node alone.
LEMMA TypeStep ==
  ASSUME TypeInv, node' = node, proc' \in [Processes -> Pass],
         tables' \in [TableNames -> SUBSET AllRows], journal' \in JournalRows,
         checkpoint' \subseteq Heights, failures' \subseteq FailureRecords,
         buffer' \in [Processes -> [TableNames -> SUBSET AllRows]],
         inflight' \in [Processes -> [TableNames -> SUBSET AllRows]],
         budget' \in [faults : 0 .. MaxFaults, replays : 0 .. MaxReplays],
         budget.faults <= budget'.faults
  PROVE  TypeInv'
<1>1. \A p \in Processes : proc'[p].pc \in Places
  BY DEF Pass
<1>2. \A h \in Heights : node.version[h] \in Nat /\ node.version[h] <= budget'.faults
  BY TronAssumption DEF TypeInv, TypeOK
<1> QED
  BY <1>1, <1>2 DEF TypeInv, TypeOK, Places, FailureRecords, JournalRows

\* What holds before every step, in the form that the steps need.
LEMMA TypeFacts ==
  ASSUME SafeInv
  PROVE  /\ tables \in [TableNames -> SUBSET AllRows] /\ journal \in JournalRows
         /\ checkpoint \subseteq Heights /\ failures \subseteq FailureRecords
         /\ buffer \in [Processes -> [TableNames -> SUBSET AllRows]]
         /\ inflight \in [Processes -> [TableNames -> SUBSET AllRows]]
         /\ budget \in [faults : 0 .. MaxFaults, replays : 0 .. MaxReplays]
         /\ budget.faults \in Nat
         /\ proc \in [Processes -> Pass]
BY TronAssumption DEF SafeInv, TypeInv, TypeOK, JournalRows, FailureRecords

\* A fault uses up one of the budget.
LEMMA FaultTyped ==
  ASSUME SafeInv, Fault
  PROVE  /\ budget' \in [faults : 0 .. MaxFaults, replays : 0 .. MaxReplays]
         /\ budget.faults <= budget'.faults
         /\ budget'.replays = budget.replays
BY TypeFacts, TronAssumption DEF Fault

\* One process moves; the invariant follows from its own part.
LEMMA StepSafe ==
  ASSUME SafeInv, NEW p \in Processes, TypeInv', CompleteIsWhole',
         \A q \in Processes \ {p} :
            proc'[q] = proc[q] /\ buffer'[q] = buffer[q] /\ inflight'[q] = inflight[q],
         \A t \in TableNames : tables[t] \subseteq tables'[t],
         PlaceInv(p)', RowsInv(p)'
  PROVE  SafeInv'
<1>1. ASSUME NEW q \in Processes \ {p} PROVE PlaceInv(q)' /\ RowsInv(q)'
  BY <1>1, OtherStable DEF SafeInv
<1> QED
  BY <1>1 DEF SafeInv

LEMMA EmptyTyped == Empty \in [TableNames -> SUBSET AllRows]
BY DEF Empty

\* A pass that ends, with its process or without it, forgets its block.
LEMMA RestSafe ==
  ASSUME SafeInv, NEW p \in Processes, NEW s \in Pass, proc' = [proc EXCEPT ![p] = s],
         s.pc = "off" \/ (s.pc = "begin" /\ s.first # 0),
         UNCHANGED <<node, checkpoint>>, journal' \in JournalRows,
         failures' \subseteq FailureRecords,
         tables' \in [TableNames -> SUBSET AllRows],
         \A t \in TableNames : tables[t] \subseteq tables'[t],
         buffer' = buffer \/ buffer' = [buffer EXCEPT ![p] = Empty],
         inflight' \in [Processes -> [TableNames -> SUBSET AllRows]],
         \A q \in Processes \ {p} : inflight'[q] = inflight[q],
         budget' \in [faults : 0 .. MaxFaults, replays : 0 .. MaxReplays],
         budget.faults <= budget'.faults,
         CompleteIsWhole'
  PROVE  SafeInv'
<1>1. proc' \in [Processes -> Pass]
  BY DEF SafeInv, TypeInv
<1>2. buffer' \in [Processes -> [TableNames -> SUBSET AllRows]]
  BY TypeFacts, EmptyTyped
<1>3. TypeInv'
  BY <1>1, <1>2, TypeFacts, TypeStep DEF SafeInv
<1>4. PlaceInv(p)' /\ RowsInv(p)'
  BY TypeFacts DEF PlaceInv, RowsInv, InBlock, Flushes
<1>5. \A q \in Processes \ {p} : proc'[q] = proc[q] /\ buffer'[q] = buffer[q]
  BY TypeFacts
<1> QED
  BY <1>3, <1>4, <1>5, StepSafe

\* The loop retries from the first block of its pass.
LEMMA AbandonTyped ==
  ASSUME SafeInv, NEW p \in Processes, proc[p].pc # "off"
  PROVE  /\ Abandon(p) \in Pass
         /\ Abandon(p).pc = "off" \/ (Abandon(p).pc = "begin" /\ Abandon(p).first # 0)
<1>1. proc[p].first \in Nat \ {0}
  BY TypeFacts DEF Pass, SafeInv, PlaceInv
<1>2. [Off EXCEPT !.pc = "begin", !.first = proc[p].first] \in Pass
  BY <1>1, OffTyped DEF Pass, Places
<1> QED
  BY <1>1, <1>2, OffTyped DEF Abandon, Off

LEMMA RefuseBlockSafe ==
  ASSUME SafeInv, NEW p \in Processes, RefuseBlock(p)
  PROVE  SafeInv'
<1>1. proc[p].height \in Heights
  BY DEF SafeInv, PlaceInv, InBlock, RefuseBlock
<1>2. failures' \subseteq FailureRecords
  BY <1>1, TypeFacts DEF RefuseBlock, FailureRecords
<1>3. CompleteIsWhole'
  BY WholeStable DEF SafeInv, RefuseBlock
<1>4. inflight' \in [Processes -> [TableNames -> SUBSET AllRows]]
  BY TypeFacts, EmptyTyped DEF RefuseBlock
<1>5. budget.faults <= budget'.faults /\ budget' \in [faults : 0 .. MaxFaults, replays : 0 .. MaxReplays]
  BY TypeFacts DEF RefuseBlock
<1>6. \A q \in Processes \ {p} : inflight'[q] = inflight[q]
  BY TypeFacts DEF RefuseBlock
<1>7. /\ UNCHANGED <<node, tables, journal, checkpoint>>
      /\ proc' = [proc EXCEPT ![p] = Off]
      /\ buffer' = [buffer EXCEPT ![p] = Empty]
  BY DEF RefuseBlock
<1>8. Off.pc = "off"
  BY DEF Off
<1> QED
  BY <1>2, <1>3, <1>4, <1>5, <1>6, <1>7, <1>8, TypeFacts, OffTyped, RestSafe

LEMMA CallFailsSafe ==
  ASSUME SafeInv, NEW p \in Processes, CallFails(p)
  PROVE  SafeInv'
<1>1. Abandon(p) \in Pass /\ (Abandon(p).pc = "off" \/ (Abandon(p).pc = "begin" /\ Abandon(p).first # 0))
  BY AbandonTyped DEF CallFails
<1>2. failures' \subseteq FailureRecords
  <2>1. proc[p].pc = "decide" => proc[p].height \in Heights
    BY DEF SafeInv, PlaceInv, InBlock
  <2> QED
    BY <2>1, TypeFacts DEF CallFails, FailureRecords
<1>3. CompleteIsWhole'
  BY WholeStable DEF SafeInv, CallFails
<1>4. inflight' \in [Processes -> [TableNames -> SUBSET AllRows]]
  BY TypeFacts, EmptyTyped DEF CallFails
<1>5. \A q \in Processes \ {p} : inflight'[q] = inflight[q]
  BY TypeFacts DEF CallFails
<1>6. buffer' = buffer \/ buffer' = [buffer EXCEPT ![p] = Empty]
  BY DEF CallFails
<1>7. Fault /\ UNCHANGED <<node, tables, journal, checkpoint>>
      /\ proc' = [proc EXCEPT ![p] = Abandon(p)]
  BY DEF CallFails
<1> QED
  BY <1>1, <1>2, <1>3, <1>4, <1>5, <1>6, <1>7, TypeFacts, FaultTyped, RestSafe

LEMMA CrashSafe ==
  ASSUME SafeInv, NEW p \in Processes, Crash(p)
  PROVE  SafeInv'
<1>1. tables' \in [TableNames -> SUBSET AllRows] /\ \A t \in TableNames : tables[t] \subseteq tables'[t]
  <2>1. CASE tables' = tables
    BY <2>1, TypeFacts
  <2>2. CASE tables' = [t \in TableNames |-> tables[t] \cup inflight[p][t]]
    BY <2>2, TypeFacts
  <2> QED
    BY <2>1, <2>2 DEF Crash
<1>2. CompleteIsWhole'
  BY <1>1, WholeStable DEF SafeInv, Crash
<1>3. inflight' \in [Processes -> [TableNames -> SUBSET AllRows]]
  BY TypeFacts, EmptyTyped DEF Crash
<1> QED
  BY <1>1, <1>2, <1>3, TypeFacts, FaultTyped, OffTyped, RestSafe DEF Crash, Off

LEMMA MarkFailedSafe ==
  ASSUME SafeInv, NEW p \in Processes, MarkFailed(p)
  PROVE  SafeInv'
<1>1. proc[p].height \in Heights /\ proc[p].version \in 0 .. MaxFaults
  BY TypeFacts DEF SafeInv, PlaceInv, InBlock, MarkFailed, Pass
<1>2. Abandon(p) \in Pass /\ (Abandon(p).pc = "off" \/ (Abandon(p).pc = "begin" /\ Abandon(p).first # 0))
  BY AbandonTyped DEF MarkFailed
<1>3. journal' \in JournalRows
  BY <1>1, TypeFacts DEF MarkFailed, Write, JournalRows
<1>4. CompleteIsWhole'
  BY <1>1, TypeFacts DEF SafeInv, CompleteIsWhole, MarkFailed, Write, JournalRows
<1>5. /\ UNCHANGED <<node, tables, checkpoint, failures, buffer, inflight, budget>>
      /\ proc' = [proc EXCEPT ![p] = Abandon(p)]
  BY DEF MarkFailed, Batchers
<1>6. budget.faults <= budget'.faults
  BY <1>5, TypeFacts
<1> QED
  BY <1>2, <1>3, <1>4, <1>5, <1>6, TypeFacts, RestSafe

-----------------------------------------------------------------------------
(* One block *)

LEMMA SkipBlockSafe ==
  ASSUME SafeInv, NEW p \in Processes, SkipBlock(p)
  PROVE  SafeInv'
<1> DEFINE s == [proc[p] EXCEPT !.pc = "resolve"]
<1>1. proc[p] \in Pass /\ PlaceInv(p) /\ proc[p].pc = "decide"
  BY TypeFacts DEF SafeInv, SkipBlock
<1>2. s \in Pass /\ s.pc = "resolve" /\ s.first # 0 /\ s.height \in Heights
  BY <1>1 DEF PlaceInv, Pass, Places, InBlock
<1> HIDE DEF s
<1>3. proc' = [proc EXCEPT ![p] = s]
  BY DEF SkipBlock, Goto, s
<1>4. PlaceInv(p)' /\ RowsInv(p)'
  BY <1>2, <1>3, TypeFacts DEF PlaceInv, RowsInv, InBlock, Flushes
<1> QED
  BY <1>2, <1>3, <1>4, MoveSafe DEF SkipBlock

\* The number of transactions that a pass took is a number.
LEMMA CountTyped ==
  ASSUME NEW h \in Heights
  PROVE  Cardinality(TxsOf[h]) \in Nat /\ TxsOf[h] \subseteq AllTxs
BY TronAssumption, FS_CardinalityType DEF AllTxs

LEMMA TakeBlockSafe ==
  ASSUME SafeInv, NEW p \in Processes, TakeBlock(p)
  PROVE  SafeInv'
<1>1. proc[p] \in Pass /\ PlaceInv(p) /\ proc[p].pc = "decide" /\ proc[p].height \in Heights
  BY TypeFacts DEF SafeInv, TakeBlock, PlaceInv, InBlock
<1> DEFINE txs == TxsOf[proc[p].height]
           done == [proc[p] EXCEPT !.pc = "mark"]
           stop == [proc[p] EXCEPT !.pc = "flush", !.table = 1, !.height = 0]
           work == [proc[p] EXCEPT !.pc = "process", !.txs = txs,
                                   !.count = @ + Cardinality(txs)]
<1>2. /\ done \in Pass /\ stop \in Pass
      /\ done.pc = "mark" /\ done.first # 0 /\ done.height \in Heights
      /\ stop.pc = "flush" /\ stop.first # 0 /\ stop.height = 0 /\ stop.table = 1
  BY <1>1 DEF PlaceInv, Pass, Places
<1>3. /\ work \in Pass /\ work.first # 0
      /\ work.pc = "process" /\ work.height \in Heights /\ work.txs = TxsOf[work.height]
  <2>1. proc[p].count + Cardinality(txs) \in Nat /\ txs \in SUBSET AllTxs
    BY <1>1, CountTyped DEF Pass
  <2> QED
    BY <1>1, <2>1 DEF PlaceInv, Pass, Places
<1>4. PICK s \in {done, stop, work} :
        proc' = [proc EXCEPT ![p] = s] /\ (s = done => txs = {})
  <2> DEFINE tooMany == /\ p = "loop" /\ TotalTxs > 0 /\ proc[p].count > 0
                        /\ proc[p].count + Cardinality(txs) > TotalTxs
  <2>1. CASE txs = {}
    <3>1. proc' = [proc EXCEPT ![p] = done]
      BY <2>1 DEF TakeBlock
    <3> QED
      BY <2>1, <3>1
  <2>2. CASE txs # {} /\ tooMany
    <3>1. proc' = [proc EXCEPT ![p] = stop]
      BY <2>2 DEF TakeBlock
    <3>2. stop # done
      BY <1>2
    <3> QED
      BY <3>1, <3>2
  <2>3. CASE txs # {} /\ ~tooMany
    <3>1. proc' = [proc EXCEPT ![p] = work]
      BY <1>1, <2>3, CountTyped, TronAssumption DEF TakeBlock, Pass
    <3> QED
      BY <3>1, <1>2, <1>3
  <2> QED
    BY <2>1, <2>2, <2>3
<1>5. /\ journal' = [journal EXCEPT ![proc[p].height] =
                        [status |-> "PROCESSING", version |-> proc[p].version]]
      /\ UNCHANGED <<node, tables, checkpoint, failures, buffer, inflight, budget>>
  BY DEF TakeBlock, Batchers
<1>6. journal' \in JournalRows
  BY <1>1, <1>5, TypeFacts DEF JournalRows, Pass
<1>7. CompleteIsWhole'
  BY <1>1, <1>5, TypeFacts DEF SafeInv, CompleteIsWhole, JournalRows
<1>8. TypeInv'
  <2>1. proc' \in [Processes -> Pass]
    BY <1>2, <1>3, <1>4, TypeFacts
  <2> QED
    BY <1>5, <1>6, <2>1, TypeFacts, TypeStep DEF SafeInv
<1>9. PlaceInv(p)' /\ RowsInv(p)'
  <2>1. proc'[p] = s
    BY <1>4, TypeFacts
  <2>2. CASE s = done
    <3>1. TxsOf[s.height] = {}
      BY <1>1, <1>4, <2>2 DEF Pass
    <3> QED
      BY <1>2, <2>1, <2>2, <3>1 DEF PlaceInv, RowsInv, InBlock, Flushes, BlockRows, RowsOf
  <2>3. CASE s = stop
    BY <1>2, <2>1, <2>3 DEF PlaceInv, RowsInv, InBlock, Flushes
  <2>4. CASE s = work
    <3> HIDE DEF work
    <3> QED
      BY <1>3, <2>1, <2>4 DEF PlaceInv, RowsInv, InBlock, Flushes, RowsOf
  <2> QED
    BY <2>2, <2>3, <2>4
<1> QED
  BY <1>4, <1>5, <1>7, <1>8, <1>9, TypeFacts, StepSafe

\* The rows of one more transaction are in the buffers.
LEMMA ProcessTxSafe ==
  ASSUME SafeInv, NEW p \in Processes, NEW tx \in proc[p].txs, ProcessTx(p, tx)
  PROVE  SafeInv'
<1> DEFINE rows == RowsOf(proc[p].height, proc[p].version, {tx})
           s == [proc[p] EXCEPT !.txs = @ \ {tx}]
<1>1. /\ proc[p] \in Pass /\ PlaceInv(p) /\ proc[p].pc = "process" /\ proc[p].height \in Heights
      /\ proc[p].txs \subseteq TxsOf[proc[p].height]
  BY TypeFacts DEF SafeInv, ProcessTx, PlaceInv, InBlock
<1>2. rows \subseteq AllRows
  BY <1>1, RowsTyped DEF Pass
<1>3. /\ proc' = [proc EXCEPT ![p] = s]
      /\ buffer' = [buffer EXCEPT ![p] = [t \in TableNames |-> buffer[p][t] \cup rows]]
      /\ UNCHANGED <<node, tables, journal, checkpoint, failures, inflight, budget>>
  BY DEF ProcessTx, Stored
<1>4. /\ s \in Pass /\ s.pc = "process" /\ s.height = proc[p].height /\ s.first # 0
      /\ s.version = proc[p].version /\ s.failed = proc[p].failed /\ s.txs = proc[p].txs \ {tx}
  BY <1>1 DEF Pass, PlaceInv
<1> HIDE DEF rows, s
<1>5. buffer' \in [Processes -> [TableNames -> SUBSET AllRows]]
  BY <1>2, <1>3, TypeFacts
<1>6. TypeInv'
  BY <1>3, <1>4, <1>5, TypeFacts, TypeStep DEF SafeInv
<1>7. CompleteIsWhole'
  BY <1>3, WholeStable DEF SafeInv
<1>8. proc'[p] = s /\ \A t \in TableNames : buffer'[p][t] = buffer[p][t] \cup rows
  BY <1>3, TypeFacts
<1>9. PlaceInv(p)'
  BY <1>1, <1>4, <1>8 DEF PlaceInv, InBlock, Flushes
<1>10. RowsInv(p)'
  <2>1. RowsOf(s.height, s.version, TxsOf[s.height] \ s.txs)
          \subseteq RowsOf(proc[p].height, proc[p].version, TxsOf[proc[p].height] \ proc[p].txs) \cup rows
    BY <1>4 DEF RowsOf, rows
  <2>2. ~s.failed => \A t \in TableNames :
          RowsOf(proc[p].height, proc[p].version, TxsOf[proc[p].height] \ proc[p].txs)
            \subseteq tables[t] \cup buffer[p][t]
    BY <1>1, <1>4 DEF SafeInv, RowsInv
  <2> QED
    BY <1>3, <1>4, <1>8, <2>1, <2>2 DEF RowsInv, Flushes
<1> QED
  BY <1>3, <1>6, <1>7, <1>9, <1>10, TypeFacts, StepSafe

\* A failed transaction: nothing is claimed of its block.
LEMMA TxFailsSafe ==
  ASSUME SafeInv, NEW p \in Processes, NEW tx \in proc[p].txs, TxFails(p, tx)
  PROVE  SafeInv'
<1> DEFINE rows == RowsOf(proc[p].height, proc[p].version, {tx})
           s == [proc[p] EXCEPT !.txs = @ \ {tx}, !.failed = TRUE]
<1>1. /\ proc[p] \in Pass /\ PlaceInv(p) /\ proc[p].pc = "process" /\ proc[p].height \in Heights
      /\ proc[p].txs \subseteq TxsOf[proc[p].height]
  BY TypeFacts DEF SafeInv, TxFails, PlaceInv, InBlock
<1>2. rows \subseteq AllRows
  BY <1>1, RowsTyped DEF Pass
<1>3. /\ proc' = [proc EXCEPT ![p] = s]
      /\ buffer' \in {buffer, [buffer EXCEPT ![p]["transactions"] = @ \cup rows]}
      /\ UNCHANGED <<node, tables, journal, checkpoint, failures, inflight>>
  BY DEF TxFails, Stored
<1>4. /\ s \in Pass /\ s.pc = "process" /\ s.height = proc[p].height /\ s.first # 0
      /\ s.failed = TRUE /\ s.txs = proc[p].txs \ {tx}
  BY <1>1 DEF Pass, PlaceInv
<1> HIDE DEF rows, s
<1>5. buffer' \in [Processes -> [TableNames -> SUBSET AllRows]]
  BY <1>2, <1>3, TypeFacts, TwoTables
<1>6. TypeInv'
  <2>1. Fault
    BY DEF TxFails
  <2> QED
    BY <1>3, <1>4, <1>5, <2>1, FaultTyped, TypeFacts, TypeStep DEF SafeInv
<1>7. CompleteIsWhole'
  BY <1>3, WholeStable DEF SafeInv
<1>8. PlaceInv(p)' /\ RowsInv(p)'
  BY <1>1, <1>3, <1>4, TypeFacts DEF PlaceInv, RowsInv, InBlock, Flushes
<1>9. \A q \in Processes \ {p} : proc'[q] = proc[q] /\ buffer'[q] = buffer[q]
  BY <1>3, TypeFacts
<1> QED
  BY <1>3, <1>6, <1>7, <1>8, <1>9, StepSafe

\* All rows of a block without failures are pushed: none is left in txs.
LEMMA BlockProcessedSafe ==
  ASSUME SafeInv, NEW p \in Processes, BlockProcessed(p)
  PROVE  SafeInv'
<1> DEFINE s == [proc[p] EXCEPT !.pc = "flush", !.table = 1]
<1>1. /\ proc[p] \in Pass /\ PlaceInv(p) /\ proc[p].pc = "process" /\ proc[p].height \in Heights
      /\ proc[p].txs = {}
  BY TypeFacts DEF SafeInv, BlockProcessed, PlaceInv, InBlock
<1>2. /\ proc' = [proc EXCEPT ![p] = s]
      /\ UNCHANGED <<node, tables, journal, checkpoint, buffer, inflight, budget>>
  BY DEF BlockProcessed, Batchers
<1>3. /\ s \in Pass /\ s.pc = "flush" /\ s.table = 1 /\ s.height = proc[p].height /\ s.first # 0
      /\ s.version = proc[p].version /\ s.failed = proc[p].failed
  BY <1>1 DEF Pass, PlaceInv, Places
<1> HIDE DEF s
<1>4. failures' \subseteq FailureRecords
  BY <1>1, TypeFacts DEF BlockProcessed, FailureRecords
<1>5. TypeInv'
  BY <1>2, <1>3, <1>4, TypeFacts, TypeStep DEF SafeInv
<1>6. CompleteIsWhole'
  BY <1>2, WholeStable DEF SafeInv
<1>7. proc'[p] = s
  BY <1>2, TypeFacts
<1>8. PlaceInv(p)'
  BY <1>1, <1>3, <1>7 DEF PlaceInv, InBlock, Flushes
<1>9. RowsInv(p)'
  <2>1. TxsOf[proc[p].height] \ proc[p].txs = TxsOf[s.height]
    BY <1>1, <1>3
  <2>2. ~s.failed => \A t \in TableNames :
          RowsOf(s.height, s.version, TxsOf[s.height]) \subseteq tables[t] \cup buffer[p][t]
    BY <1>1, <1>3, <2>1 DEF SafeInv, RowsInv
  <2> QED
    BY <1>2, <1>3, <1>7, <2>2 DEF RowsInv, BlockRows, Flushes
<1> QED
  BY <1>2, <1>5, <1>6, <1>8, <1>9, TypeFacts, StepSafe

-----------------------------------------------------------------------------
(* Batchers *)

LEMMA FlushInBackgroundSafe ==
  ASSUME SafeInv, NEW p \in Processes, NEW t \in TableNames, FlushInBackground(p, t)
  PROVE  SafeInv'
<1>1. /\ proc[p].pc # "off" /\ inflight[p][t] = {}
      /\ inflight' = [inflight EXCEPT ![p][t] = buffer[p][t]]
      /\ UNCHANGED <<node, tables, journal, checkpoint, failures, buffer, proc, budget>>
  BY DEF FlushInBackground, BeginFlush, Stored
<1>2. inflight' \in [Processes -> [TableNames -> SUBSET AllRows]]
  BY <1>1, TypeFacts
<1>3. TypeInv'
  BY <1>1, <1>2, TypeFacts, TypeStep DEF SafeInv
<1>4. CompleteIsWhole'
  BY <1>1, WholeStable DEF SafeInv
<1>5. PlaceInv(p) /\ RowsInv(p)
  BY DEF SafeInv
<1>6. PlaceInv(p)' /\ RowsInv(p)'
  <2>1. proc' = proc /\ budget' = budget /\ tables' = tables /\ buffer' = buffer
        /\ BlockRows(p)' = BlockRows(p)
    BY <1>1 DEF BlockRows
  <2>2. inflight'[p] = [inflight[p] EXCEPT ![t] = buffer[p][t]]
    BY <1>1, TypeFacts
  <2>3. \A k \in 1 .. 2 : buffer[p][Tables[k]] = inflight[p][Tables[k]] =>
                             buffer'[p][Tables[k]] = inflight'[p][Tables[k]]
    BY <2>1, <2>2, TypeFacts
  <2>4. PlaceInv(p)'
    BY <1>5, <2>1, <2>3 DEF PlaceInv
  <2>5. RowsInv(p)'
    BY <1>5, <2>1 DEF RowsInv
  <2> QED
    BY <2>4, <2>5
<1>7. \A q \in Processes \ {p} : inflight'[q] = inflight[q]
  BY <1>1, TypeFacts
<1> QED
  BY <1>1, <1>3, <1>4, <1>6, <1>7, StepSafe

\* flush_batches starts a flush, or finds nothing left in the table's batcher.
LEMMA FlushTableSafe ==
  ASSUME SafeInv, NEW p \in Processes, FlushTable(p)
  PROVE  SafeInv'
<1> DEFINE t == Tables[proc[p].table]
<1>1. /\ proc[p] \in Pass /\ PlaceInv(p) /\ RowsInv(p) /\ proc[p].pc = "flush"
      /\ proc[p].table \in 1 .. 2 /\ proc[p].height \in Heights \cup {0} /\ proc[p].first # 0
  BY TypeFacts, TwoTables DEF SafeInv, FlushTable, PlaceInv, Flushes
<1>2. t \in TableNames
  BY <1>1, TwoTables
<1>3. CASE BeginFlush(p, t) /\ Goto(p, "flushing")
  <2> DEFINE s == [proc[p] EXCEPT !.pc = "flushing"]
  <2>1. /\ proc' = [proc EXCEPT ![p] = s]
        /\ inflight' = [inflight EXCEPT ![p][t] = buffer[p][t]]
        /\ UNCHANGED <<node, tables, journal, checkpoint, failures, buffer, budget>>
    BY <1>3 DEF BeginFlush, Goto, Stored
  <2>2. /\ s \in Pass /\ s.pc = "flushing" /\ s.table = proc[p].table /\ s.height = proc[p].height
        /\ s.first # 0 /\ s.version = proc[p].version /\ s.failed = proc[p].failed
    BY <1>1 DEF Pass, Places
  <2> HIDE DEF s
  <2>3. inflight' \in [Processes -> [TableNames -> SUBSET AllRows]] /\ inflight'[p][t] = buffer'[p][t]
    BY <1>2, <2>1, TypeFacts
  <2>4. TypeInv'
    BY <2>1, <2>2, <2>3, TypeFacts, TypeStep DEF SafeInv
  <2>5. CompleteIsWhole'
    BY <2>1, WholeStable DEF SafeInv
  <2>6. proc'[p] = s
    BY <2>1, TypeFacts
  <2>7. PlaceInv(p)'
    BY <1>1, <2>1, <2>2, <2>3, <2>6 DEF PlaceInv, InBlock, Flushes
  <2>8. RowsInv(p)'
    BY <1>1, <2>1, <2>2, <2>6 DEF RowsInv, BlockRows, Flushes
  <2>9. \A q \in Processes \ {p} : proc'[q] = proc[q] /\ inflight'[q] = inflight[q]
    BY <2>1, TypeFacts
  <2> QED
    BY <2>1, <2>4, <2>5, <2>7, <2>8, <2>9, StepSafe
<1>4. CASE /\ buffer[p][t] = {} /\ inflight[p][t] = {}
           /\ proc' = [proc EXCEPT ![p].table = @ + 1]
           /\ UNCHANGED <<node, Stored, Batchers, budget>>
  <2> DEFINE s == [proc[p] EXCEPT !.table = @ + 1]
  <2>1. proc' = [proc EXCEPT ![p] = s]
    BY <1>4
  <2>2. /\ s \in Pass /\ s.pc = "flush" /\ s.table = proc[p].table + 1 /\ s.height = proc[p].height
        /\ s.first # 0 /\ s.version = proc[p].version /\ s.failed = proc[p].failed
    BY <1>1 DEF Pass, Places
  <2> HIDE DEF s
  <2>3. proc'[p] = s /\ UNCHANGED <<tables, buffer, inflight>>
    BY <1>4, <2>1, TypeFacts DEF Stored, Batchers
  <2>4. PlaceInv(p)'
    BY <1>1, <2>2, <2>3 DEF PlaceInv, InBlock, Flushes
  <2>5. s.height # 0 /\ ~s.failed => BlockRows(p) \subseteq tables[t]
    BY <1>1, <1>2, <1>4, <2>2 DEF RowsInv, Flushes
  <2>6. RowsInv(p)'
    <3>1. \A i \in 1 .. 2 : i < s.table => i < proc[p].table \/ i = proc[p].table
      BY <1>1, <2>2
    <3> QED
      BY <1>1, <2>2, <2>3, <2>5, <3>1 DEF RowsInv, BlockRows, Flushes
  <2> QED
    BY <1>4, <2>1, <2>2, <2>4, <2>6, MoveSafe
<1> QED
  BY <1>3, <1>4 DEF FlushTable

\* What a flush stored leaves the buffer, nothing else does.
LEMMA FlushEndsSafe ==
  ASSUME SafeInv, NEW p \in Processes, NEW t \in TableNames, FlushEnds(p, t)
  PROVE  SafeInv'
<1> DEFINE awaited == proc[p].pc = "flushing" /\ Tables[proc[p].table] = t
<1>1. /\ proc[p] \in Pass /\ PlaceInv(p) /\ RowsInv(p)
  BY TypeFacts DEF SafeInv
<1>2. /\ tables' = [tables EXCEPT ![t] = tables[t] \cup inflight[p][t]]
      /\ buffer' = [buffer EXCEPT ![p][t] = buffer[p][t] \ inflight[p][t]]
      /\ inflight' = [inflight EXCEPT ![p][t] = {}]
      /\ UNCHANGED <<node, journal, checkpoint, failures, budget>>
  BY DEF FlushEnds, Remaining
<1>3. /\ tables' \in [TableNames -> SUBSET AllRows]
      /\ buffer' \in [Processes -> [TableNames -> SUBSET AllRows]]
      /\ inflight' \in [Processes -> [TableNames -> SUBSET AllRows]]
      /\ \A u \in TableNames : tables[u] \subseteq tables'[u]
  BY <1>2, TypeFacts
<1>4. \A u \in TableNames : tables[u] \cup buffer[p][u] \subseteq tables'[u] \cup buffer'[p][u]
  <2>1. \A u \in TableNames \ {t} : tables'[u] = tables[u] /\ buffer'[p][u] = buffer[p][u]
    BY <1>2, TypeFacts
  <2>2. /\ tables'[t] = tables[t] \cup inflight[p][t]
        /\ buffer'[p][t] = buffer[p][t] \ inflight[p][t]
    BY <1>2, TypeFacts
  <2> QED
    BY <2>1, <2>2
<1>5. CompleteIsWhole'
  BY <1>2, <1>3, WholeStable DEF SafeInv
<1>6. CASE awaited
  <2> DEFINE s == [proc[p] EXCEPT !.pc = "flush", !.table = proc[p].table + 1]
  <2>1. proc' = [proc EXCEPT ![p] = s]
    BY <1>6 DEF FlushEnds
  <2>2. proc[p].table \in 1 .. 2 /\ buffer[p][t] = inflight[p][t] /\ proc[p].first # 0
        /\ proc[p].height \in Heights \cup {0}
    BY <1>1, <1>6 DEF PlaceInv, Flushes
  <2>3. /\ s \in Pass /\ s.pc = "flush" /\ s.table = proc[p].table + 1 /\ s.height = proc[p].height
        /\ s.first # 0 /\ s.version = proc[p].version /\ s.failed = proc[p].failed
    <3>1. proc[p].table + 1 \in Nat
      BY <2>2
    <3> QED
      BY <1>1, <2>2, <3>1 DEF Pass, Places
  <2> HIDE DEF s
  <2>4. TypeInv'
    BY <1>2, <1>3, <2>1, <2>3, TypeFacts, TypeStep DEF SafeInv
  <2>5. proc'[p] = s
    BY <2>1, TypeFacts
  <2>6. PlaceInv(p)'
    BY <2>2, <2>3, <2>5 DEF PlaceInv, InBlock, Flushes
  <2>7. RowsInv(p)'
    <3>1. SUFFICES ASSUME s.height # 0, ~s.failed
                   PROVE  /\ \A u \in TableNames : BlockRows(p) \subseteq tables'[u] \cup buffer'[p][u]
                          /\ \A i \in 1 .. 2 : i < s.table => BlockRows(p) \subseteq tables'[Tables[i]]
      BY <2>3, <2>5 DEF RowsInv, BlockRows, Flushes
    <3>2. /\ \A u \in TableNames : BlockRows(p) \subseteq tables[u] \cup buffer[p][u]
          /\ \A i \in 1 .. 2 : i < proc[p].table => BlockRows(p) \subseteq tables[Tables[i]]
      BY <1>1, <1>6, <2>3, <3>1 DEF RowsInv, Flushes
    <3>3. BlockRows(p) \subseteq tables'[t]
      BY <1>2, <2>2, <3>2, TypeFacts
    <3>4. \A i \in 1 .. 2 : i < s.table => i < proc[p].table \/ i = proc[p].table
      BY <2>2, <2>3
    <3>5. \A i \in 1 .. 2 : Tables[i] \in TableNames
      BY TwoTables
    <3> QED
      BY <1>3, <1>4, <1>6, <3>2, <3>3, <3>4, <3>5
  <2>8. \A q \in Processes \ {p} :
          proc'[q] = proc[q] /\ buffer'[q] = buffer[q] /\ inflight'[q] = inflight[q]
    BY <1>2, <2>1, TypeFacts
  <2> QED
    BY <1>3, <1>5, <2>4, <2>6, <2>7, <2>8, StepSafe
<1>7. CASE ~awaited
  <2>1. proc' = proc
    BY <1>7 DEF FlushEnds
  <2>2. TypeInv'
    BY <1>2, <1>3, <2>1, TypeFacts, TypeStep DEF SafeInv
  <2>3. PlaceInv(p)'
    <3>1. ASSUME proc[p].pc = "flushing"
          PROVE  buffer'[p][Tables[proc[p].table]] = inflight'[p][Tables[proc[p].table]]
      <4>1. Tables[proc[p].table] \in TableNames \ {t}
        BY <1>1, <1>7, <3>1, TwoTables DEF PlaceInv
      <4> QED
        BY <1>1, <1>2, <3>1, <4>1, TypeFacts DEF PlaceInv
    <3> QED
      BY <1>1, <2>1, <3>1 DEF PlaceInv
  <2>4. RowsInv(p)'
    <3>1. \A i \in 1 .. 2 : tables[Tables[i]] \subseteq tables'[Tables[i]]
      BY <1>3, TwoTables
    <3> QED
      BY <1>1, <1>3, <1>4, <2>1, <3>1 DEF RowsInv, BlockRows
  <2>5. \A q \in Processes \ {p} : buffer'[q] = buffer[q] /\ inflight'[q] = inflight[q]
    BY <1>2, TypeFacts
  <2> QED
    BY <1>3, <1>5, <2>1, <2>2, <2>3, <2>4, <2>5, StepSafe
<1> QED
  BY <1>6, <1>7

LEMMA FlushFailsSafe ==
  ASSUME SafeInv, NEW p \in Processes, NEW t \in TableNames, FlushFails(p, t)
  PROVE  SafeInv'
<1> DEFINE awaited == proc[p].pc = "flushing" /\ Tables[proc[p].table] = t
<1>1. proc[p] \in Pass /\ PlaceInv(p) /\ RowsInv(p)
  BY TypeFacts DEF SafeInv
<1>2. /\ Fault
      /\ tables' \in {tables, [tables EXCEPT ![t] = tables[t] \cup inflight[p][t]]}
      /\ inflight' = [inflight EXCEPT ![p][t] = {}]
      /\ UNCHANGED <<node, journal, checkpoint, buffer>>
  BY DEF FlushFails
<1>3. /\ tables' \in [TableNames -> SUBSET AllRows]
      /\ inflight' \in [Processes -> [TableNames -> SUBSET AllRows]]
      /\ \A u \in TableNames : tables[u] \subseteq tables'[u]
      /\ \A q \in Processes \ {p} : inflight'[q] = inflight[q]
  <2>1. CASE tables' = tables
    BY <1>2, <2>1, TypeFacts
  <2>2. CASE tables' = [tables EXCEPT ![t] = tables[t] \cup inflight[p][t]]
    <3>1. inflight[p][t] \subseteq AllRows /\ tables[t] \subseteq AllRows
      BY TypeFacts
    <3> QED
      BY <1>2, <2>2, <3>1, TypeFacts
  <2> QED
    BY <1>2, <2>1, <2>2
<1>4. CompleteIsWhole'
  BY <1>2, <1>3, WholeStable DEF SafeInv
<1>5. failures' \subseteq FailureRecords
  BY <1>1, TypeFacts DEF FlushFails, FailureRecords, PlaceInv, Flushes
<1>6. CASE ~awaited
  <2>1. proc' = proc
    BY <1>6 DEF FlushFails
  <2>2. TypeInv'
    BY <1>2, <1>3, <1>5, <2>1, FaultTyped, TypeFacts, TypeStep DEF SafeInv
  <2>3. PlaceInv(p)'
    <3>1. ASSUME proc[p].pc = "flushing"
          PROVE  buffer'[p][Tables[proc[p].table]] = inflight'[p][Tables[proc[p].table]]
      <4>1. Tables[proc[p].table] \in TableNames \ {t}
        BY <1>1, <1>6, <3>1, TwoTables DEF PlaceInv
      <4> QED
        BY <1>1, <1>2, <3>1, <4>1, TypeFacts DEF PlaceInv
    <3> QED
      BY <1>1, <2>1, <3>1 DEF PlaceInv
  <2>4. RowsInv(p)'
    <3>1. \A i \in 1 .. 2 : tables[Tables[i]] \subseteq tables'[Tables[i]]
      BY <1>3, TwoTables
    <3> QED
      BY <1>1, <1>2, <1>3, <2>1, <3>1 DEF RowsInv, BlockRows
  <2> QED
    BY <1>2, <1>3, <1>4, <2>1, <2>2, <2>3, <2>4, StepSafe
<1>7. CASE awaited /\ proc[p].height = 0
  <2>1. proc' = [proc EXCEPT ![p] = Abandon(p)]
    BY <1>7 DEF FlushFails
  <2>2. Abandon(p) \in Pass /\ (Abandon(p).pc = "off" \/ (Abandon(p).pc = "begin" /\ Abandon(p).first # 0))
    BY <1>7, AbandonTyped
  <2>3. UNCHANGED <<node, checkpoint>> /\ journal' \in JournalRows /\ buffer' = buffer
    BY <1>2, TypeFacts
  <2> QED
    BY <1>2, <1>3, <1>4, <1>5, <2>1, <2>2, <2>3, FaultTyped, RestSafe
<1>8. CASE awaited /\ proc[p].height # 0
  <2> DEFINE s == [proc[p] EXCEPT !.pc = "fail"]
  <2>1. proc' = [proc EXCEPT ![p] = s]
    BY <1>8 DEF FlushFails
  <2>2. s \in Pass /\ s.pc = "fail" /\ s.height \in Heights /\ s.first # 0
    BY <1>1, <1>8 DEF Pass, Places, PlaceInv, Flushes
  <2> HIDE DEF s
  <2>3. TypeInv'
    BY <1>2, <1>3, <1>5, <2>1, <2>2, FaultTyped, TypeFacts, TypeStep DEF SafeInv
  <2>4. PlaceInv(p)' /\ RowsInv(p)'
    BY <2>1, <2>2, TypeFacts DEF PlaceInv, RowsInv, InBlock, Flushes
  <2>5. \A q \in Processes \ {p} : proc'[q] = proc[q]
    BY <2>1, TypeFacts
  <2> QED
    BY <1>2, <1>3, <1>4, <2>3, <2>4, <2>5, StepSafe
<1> QED
  BY <1>6, <1>7, <1>8

\* Both tables were flushed: the block may be marked.
LEMMA FlushedSafe ==
  ASSUME SafeInv, NEW p \in Processes, Flushed(p)
  PROVE  SafeInv'
<1> DEFINE place == CASE proc[p].height = 0 -> "end"
                      [] proc[p].height # 0 /\ proc[p].failed  -> "fail"
                      [] proc[p].height # 0 /\ ~proc[p].failed -> "mark"
           s == [proc[p] EXCEPT !.pc = place]
<1>1. /\ proc[p] \in Pass /\ PlaceInv(p) /\ RowsInv(p) /\ proc[p].pc = "flush" /\ proc[p].table = 3
      /\ proc[p].failed \in BOOLEAN
  <2>1. /\ proc[p] \in Pass /\ PlaceInv(p) /\ RowsInv(p)
        /\ proc[p].pc = "flush" /\ proc[p].table > 2
    BY TypeFacts, TwoTables DEF SafeInv, Flushed
  <2> QED
    BY <2>1 DEF PlaceInv, Pass
<1>2. /\ place \in {"end", "fail", "mark"}
      /\ place # "end" => proc[p].height \in Heights
      /\ place = "mark" => proc[p].height # 0 /\ ~proc[p].failed
  BY <1>1 DEF PlaceInv, Flushes
<1> HIDE DEF place
<1>3. /\ s \in Pass /\ s.pc = place /\ s.height = proc[p].height
      /\ s.first # 0 /\ s.version = proc[p].version
  BY <1>1, <1>2 DEF Pass, Places, PlaceInv
<1> HIDE DEF s
<1>4. proc' = [proc EXCEPT ![p] = s]
  BY DEF Flushed, Goto, s, place
<1>5. proc'[p] = s /\ UNCHANGED <<tables, buffer, inflight>>
  BY <1>4, TypeFacts DEF Flushed, Stored, Batchers
<1>6. PlaceInv(p)'
  BY <1>2, <1>3, <1>5 DEF PlaceInv, InBlock, Flushes
<1>7. RowsInv(p)'
  <2>1. place = "mark" => \A t \in TableNames : BlockRows(p) \subseteq tables[t]
    BY <1>1, <1>2, TwoTables DEF RowsInv, Flushes
  <2> QED
    BY <1>2, <1>3, <1>5, <2>1 DEF RowsInv, BlockRows, Flushes
<1> QED
  BY <1>3, <1>4, <1>6, <1>7, MoveSafe DEF Flushed

-----------------------------------------------------------------------------
(* The journal *)

\* COMPLETE is written over a block all of whose rows are stored.
LEMMA MarkCompleteSafe ==
  ASSUME SafeInv, NEW p \in Processes, MarkComplete(p)
  PROVE  SafeInv'
<1> DEFINE s == [proc[p] EXCEPT !.pc = "resolve"]
<1>1. /\ proc[p] \in Pass /\ PlaceInv(p) /\ RowsInv(p)
      /\ proc[p].pc = "mark" /\ proc[p].height \in Heights
  BY TypeFacts DEF SafeInv, MarkComplete, PlaceInv, InBlock
<1>2. /\ proc' = [proc EXCEPT ![p] = s]
      /\ journal' = [journal EXCEPT ![proc[p].height] =
                        [status |-> "COMPLETE", version |-> proc[p].version]]
      /\ UNCHANGED <<node, tables, checkpoint, failures, buffer, inflight, budget>>
  BY DEF MarkComplete, Goto, Write, Batchers
<1>3. s \in Pass /\ s.pc = "resolve" /\ s.height \in Heights /\ s.first # 0
  BY <1>1 DEF Pass, Places, PlaceInv
<1> HIDE DEF s
<1>4. journal' \in JournalRows
  BY <1>1, <1>2, TypeFacts DEF JournalRows, Pass
<1>5. TypeInv'
  BY <1>2, <1>3, <1>4, TypeFacts, TypeStep DEF SafeInv
<1>6. CompleteIsWhole'
  <2>1. \A t \in TableNames : BlockRows(p) \subseteq tables[t]
    BY <1>1 DEF RowsInv
  <2> QED
    BY <1>1, <1>2, <2>1, TypeFacts DEF SafeInv, CompleteIsWhole, BlockRows, JournalRows
<1>7. PlaceInv(p)' /\ RowsInv(p)'
  BY <1>2, <1>3, TypeFacts DEF PlaceInv, RowsInv, InBlock, Flushes
<1> QED
  BY <1>2, <1>5, <1>6, <1>7, TypeFacts, StepSafe

\* The next block of the pass.
LEMMA NextTyped ==
  ASSUME SafeInv, NEW p \in Processes, proc[p].pc \in {"resolve", "save"}
  PROVE  /\ NextOf(p) \in Pass /\ NextOf(p).pc = "fetch" /\ NextOf(p).failed = FALSE
         /\ NextOf(p).height = proc[p].height + 1 /\ NextOf(p).height # 0
         /\ NextOf(p).first = proc[p].first /\ NextOf(p).first # 0
<1>1. proc[p] \in Pass /\ proc[p].height + 1 \in Nat \ {0} /\ proc[p].first # 0
  BY TypeFacts DEF SafeInv, PlaceInv, Pass
<1> QED
  BY <1>1 DEF NextOf, Pass, Places

LEMMA ResolveFailuresSafe ==
  ASSUME SafeInv, NEW p \in Processes, ResolveFailures(p)
  PROVE  SafeInv'
<1> DEFINE s == IF p = "loop" THEN [proc[p] EXCEPT !.pc = "save"] ELSE NextOf(p)
<1>1. /\ proc[p] \in Pass /\ PlaceInv(p) /\ proc[p].pc = "resolve" /\ proc[p].height \in Heights
  BY TypeFacts DEF SafeInv, ResolveFailures, PlaceInv, InBlock
<1>2. /\ proc' = [proc EXCEPT ![p] = s]
      /\ UNCHANGED <<node, tables, journal, checkpoint, buffer, inflight, budget>>
  BY DEF ResolveFailures, Batchers
<1>3. s \in Pass /\ s.first # 0
      /\ \/ s.pc = "save" /\ s.height \in Heights
         \/ s.pc = "fetch" /\ s.height # 0
  <2>1. CASE p = "loop"
    BY <1>1, <2>1 DEF Pass, Places, PlaceInv
  <2>2. CASE p # "loop"
    BY <1>1, <2>2, NextTyped
  <2> QED
    BY <2>1, <2>2
<1> HIDE DEF s
<1>4. failures' \subseteq FailureRecords
  BY TypeFacts DEF ResolveFailures
<1>5. TypeInv'
  BY <1>2, <1>3, <1>4, TypeFacts, TypeStep DEF SafeInv
<1>6. CompleteIsWhole'
  BY <1>2, WholeStable DEF SafeInv
<1>7. PlaceInv(p)' /\ RowsInv(p)'
  BY <1>2, <1>3, TypeFacts DEF PlaceInv, RowsInv, InBlock, Flushes
<1> QED
  BY <1>2, <1>5, <1>6, <1>7, TypeFacts, StepSafe

LEMMA SaveCheckpointSafe ==
  ASSUME SafeInv, NEW p \in Processes, SaveCheckpoint(p)
  PROVE  SafeInv'
<1>1. proc[p].pc = "save" /\ proc[p].height \in Heights
  BY TypeFacts DEF SafeInv, SaveCheckpoint, PlaceInv, InBlock
<1>2. /\ proc' = [proc EXCEPT ![p] = NextOf(p)]
      /\ UNCHANGED <<node, tables, journal, failures, buffer, inflight, budget>>
  BY DEF SaveCheckpoint, Batchers
<1>3. checkpoint' \subseteq Heights
  BY <1>1, TypeFacts DEF SaveCheckpoint
<1>4. TypeInv'
  <2>1. proc' \in [Processes -> Pass] /\ budget.faults <= budget'.faults
    <3>1. NextOf(p) \in Pass
      BY <1>1, NextTyped
    <3>2. proc' \in [Processes -> Pass]
      BY <1>2, <3>1, TypeFacts
    <3> QED
      BY <1>2, <3>2, TypeFacts
  <2> QED
    BY <1>2, <1>3, <2>1, TypeFacts, TypeStep DEF SafeInv
<1>5. CompleteIsWhole'
  BY <1>2, WholeStable DEF SafeInv
<1>6. PlaceInv(p)' /\ RowsInv(p)'
  BY <1>1, <1>2, NextTyped, TypeFacts DEF PlaceInv, RowsInv, InBlock, Flushes
<1> QED
  BY <1>2, <1>4, <1>5, <1>6, TypeFacts, StepSafe

-----------------------------------------------------------------------------
(* The node and the starts *)

LEMMA NodeSafe ==
  ASSUME SafeInv, HeadGrows \/ \E h \in Heights : BlockChanges(h)
  PROVE  SafeInv'
<1>1. UNCHANGED <<tables, journal, checkpoint, failures, buffer, inflight, proc>>
  BY DEF HeadGrows, BlockChanges, Stored, Batchers
<1>2. TypeInv'
  <2>1. CASE HeadGrows
    <3>1. /\ node \in [head : 0 .. Len(TxsOf), version : [Heights -> 0 .. MaxFaults]]
          /\ node.head < Len(TxsOf) /\ node' = [node EXCEPT !.head = node.head + 1]
          /\ budget' = budget
      BY <2>1 DEF HeadGrows, SafeInv, TypeInv
    <3>2. /\ node' \in [head : 0 .. Len(TxsOf), version : [Heights -> 0 .. MaxFaults]]
          /\ node'.version = node.version
      BY <3>1, TronAssumption
    <3> QED
      BY <1>1, <3>1, <3>2 DEF SafeInv, TypeInv, TypeOK
  <2>2. ASSUME NEW h \in Heights, BlockChanges(h) PROVE TypeInv'
    <3>1. /\ node \in [head : 0 .. Len(TxsOf), version : [Heights -> 0 .. MaxFaults]]
          /\ \A g \in Heights : node.version[g] <= budget.faults
          /\ budget \in [faults : 0 .. MaxFaults, replays : 0 .. MaxReplays]
      BY DEF SafeInv, TypeInv
    <3>2. /\ budget.faults < MaxFaults
          /\ budget' = [budget EXCEPT !.faults = budget.faults + 1]
          /\ node' = [node EXCEPT !.version[h] = node.version[h] + 1]
      BY <2>2 DEF BlockChanges, Fault
    <3>3. /\ budget' \in [faults : 0 .. MaxFaults, replays : 0 .. MaxReplays]
          /\ budget'.faults = budget.faults + 1
      BY <3>1, <3>2, TronAssumption
    <3>4. node.version[h] + 1 \in 0 .. MaxFaults
      BY <3>1, <3>2, TronAssumption
    <3>5. /\ node' \in [head : 0 .. Len(TxsOf), version : [Heights -> 0 .. MaxFaults]]
          /\ \A g \in Heights : node'.version[g] = IF g = h THEN node.version[g] + 1 ELSE node.version[g]
      BY <3>1, <3>2, <3>4
    <3>6. \A g \in Heights : node'.version[g] <= budget'.faults
      <4>1. \A g \in Heights : node.version[g] \in Nat /\ node.version[g] <= budget.faults
        BY <3>1, TronAssumption
      <4>2. budget.faults \in Nat
        BY <3>1, TronAssumption
      <4> QED
        BY <3>3, <3>5, <4>1, <4>2
    <3> QED
      BY <1>1, <3>3, <3>5, <3>6 DEF SafeInv, TypeInv, TypeOK
  <2> QED
    BY <2>1, <2>2
<1>3. CompleteIsWhole'
  BY <1>1, WholeStable DEF SafeInv
<1>4. ASSUME NEW q \in Processes PROVE PlaceInv(q)' /\ RowsInv(q)'
  BY <1>1, OtherStable DEF SafeInv
<1> QED
  BY <1>2, <1>3, <1>4 DEF SafeInv

LEMMA StartLoopSafe ==
  ASSUME SafeInv, StartLoop
  PROVE  SafeInv'
<1>1. PICK first \in NextBlocks :
        proc' = [proc EXCEPT !["loop"] = [Off EXCEPT !.pc = "begin", !.first = first]]
  BY DEF StartLoop
<1>2. first \in Nat \ {0}
  BY TronAssumption DEF NextBlocks, SafeInv, TypeInv, TypeOK, Heights
<1> DEFINE s == [Off EXCEPT !.pc = "begin", !.first = first]
<1>3. s \in Pass /\ s.pc = "begin" /\ s.first # 0
  BY <1>2, OffTyped DEF Pass, Places
<1> HIDE DEF s
<1>4. proc' = [proc EXCEPT !["loop"] = s] /\ "loop" \in Processes
  BY <1>1 DEF s, Processes
<1>5. UNCHANGED <<node, Stored, Batchers, budget>>
  BY DEF StartLoop
<1> QED
  BY <1>3, <1>4, <1>5, IdleSafe

LEMMA StartReplaySafe ==
  ASSUME SafeInv, NEW from \in Heights, NEW to \in Heights, StartReplay(from, to)
  PROVE  SafeInv'
<1> DEFINE s == [Off EXCEPT !.pc = "begin", !.first = from, !.last = to]
<1>1. from \in Nat \ {0} /\ to \in 0 .. Len(TxsOf)
  BY TronAssumption DEF Heights
<1>2. s \in Pass /\ s.pc = "begin" /\ s.first # 0
  BY <1>1, OffTyped DEF Pass, Places
<1> HIDE DEF s
<1>3. /\ proc' = [proc EXCEPT !["replay"] = s] /\ "replay" \in Processes
      /\ budget' = [budget EXCEPT !.replays = budget.replays + 1] /\ budget.replays < MaxReplays
      /\ buffer' = [buffer EXCEPT !["replay"] = Empty]
      /\ inflight' = [inflight EXCEPT !["replay"] = Empty]
      /\ UNCHANGED <<node, tables, journal, checkpoint, failures>>
  BY DEF StartReplay, s, Processes, Stored
<1>4. budget' \in [faults : 0 .. MaxFaults, replays : 0 .. MaxReplays] /\ budget.faults <= budget'.faults
  BY <1>3, TypeFacts, TronAssumption
<1>5. CompleteIsWhole'
  BY <1>3, WholeStable DEF SafeInv
<1>6. /\ inflight' \in [Processes -> [TableNames -> SUBSET AllRows]]
      /\ \A q \in Processes \ {"replay"} : inflight'[q] = inflight[q]
  BY <1>3, TypeFacts, EmptyTyped
<1> QED
  BY <1>2, <1>3, <1>4, <1>5, <1>6, TypeFacts, RestSafe

-----------------------------------------------------------------------------
(* The theorem *)

LEMMA InitSafe == Init => SafeInv
<1> SUFFICES ASSUME Init PROVE SafeInv
  OBVIOUS
<1>1. TypeInv
  BY OffTyped, EmptyTyped, TronAssumption
  DEF Init, TypeInv, TypeOK, NoMark, Off
<1>2. CompleteIsWhole
  BY DEF Init, CompleteIsWhole, NoMark
<1>3. \A p \in Processes : PlaceInv(p) /\ RowsInv(p)
  BY DEF Init, Off, PlaceInv, RowsInv, InBlock, Flushes
<1> QED
  BY <1>1, <1>2, <1>3 DEF SafeInv

LEMMA NextSafe == SafeInv /\ [Next]_vars => SafeInv'
<1> SUFFICES ASSUME SafeInv, [Next]_vars PROVE SafeInv'
  OBVIOUS
<1>1. CASE UNCHANGED vars
  BY <1>1 DEF vars, SafeInv, TypeInv, TypeOK, CompleteIsWhole, PlaceInv, RowsInv, BlockRows
<1>2. ASSUME NEW p \in Processes, Step(p) PROVE SafeInv'
  BY <1>2, BeginPassSafe, FetchSafe, EndPassSafe, RefuseBlockSafe, SkipBlockSafe, TakeBlockSafe,
     ProcessTxSafe, BlockProcessedSafe, FlushTableSafe, FlushedSafe, FlushEndsSafe,
     MarkFailedSafe, MarkCompleteSafe, ResolveFailuresSafe, SaveCheckpointSafe
  DEF Step
<1> QED
  BY <1>1, <1>2, NodeSafe, StartLoopSafe, StartReplaySafe, CallFailsSafe, CrashSafe,
     TxFailsSafe, FlushInBackgroundSafe, FlushFailsSafe
  DEF Next

\* Whatever fails and wherever a process dies, a block the journal calls
\* COMPLETE has the rows of all its transactions (fetcher.rs 411-462,
\* batcher/generic.rs): rows that were batched, flushed or retried are never lost.
THEOREM TronComplete == Spec => []Consistent
<1>1. SafeInv => Consistent
  BY DEF SafeInv, TypeInv, Consistent
<1> QED
  BY InitSafe, NextSafe, <1>1, PTL DEF Spec

-----------------------------------------------------------------------------
(* Without replays the loop is alone with the journal *)

Done(h) == journal[h].status = "COMPLETE"
Filed(h) == \E f \in failures : f[1] = h

Explained ==
    /\ \A c \in checkpoint, h \in Heights : h \in Start .. c => Done(h)
    /\ \A h \in Heights : journal[h].status = "FAILED" => Filed(h)

\* The loop is at a block whose rows it may still be flushing.
AtFlush == proc["loop"].pc \in Flushes /\ proc["loop"].height # 0
AtBlock == proc["loop"].pc \in {"fetch"} \cup InBlock \/ AtFlush

\* The loop passes no block that is not COMPLETE, and reopens none that is.
LoopInv ==
    /\ proc["loop"].pc # "off" =>
          \A h \in Heights : h >= Start /\ h < proc["loop"].first => Done(h)
    /\ AtBlock => \A h \in Heights : h >= Start /\ h < proc["loop"].height => Done(h)
    /\ proc["loop"].pc \in {"process", "fail"} \/ AtFlush => ~Done(proc["loop"].height)
    /\ proc["loop"].pc \in {"resolve", "save"} => Done(proc["loop"].height)
    /\ proc["loop"].pc = "fail" \/ (AtFlush /\ proc["loop"].failed) => Filed(proc["loop"].height)

Alone == proc["replay"].pc = "off" /\ Explained /\ LoopInv
JournalInv == budget.replays = 0 => Alone

\* A step that records no more than new failures, and rests or goes on.
LEMMA LoopRests ==
  ASSUME SafeInv, Alone, UNCHANGED <<journal, checkpoint>>, failures \subseteq failures',
         proc'["replay"] = proc["replay"],
         \/ proc'["loop"].pc = "off"
         \/ /\ proc'["loop"].pc \in {"begin", "end"} \cup Flushes
            /\ proc'["loop"].pc \in Flushes => proc'["loop"].height = 0
            /\ proc["loop"].pc # "off" /\ proc'["loop"].first = proc["loop"].first
  PROVE  Alone'
<1>1. Explained'
  BY DEF Alone, Explained, Done, Filed
<1>2. LoopInv'
  BY DEF Alone, LoopInv, Done, Filed, AtFlush, AtBlock, InBlock, Flushes
<1> QED
  BY <1>1, <1>2 DEF Alone

\* A step at a block that leaves its height and its journal row alone.
LEMMA LoopGoesOn ==
  ASSUME SafeInv, Alone, UNCHANGED <<journal, checkpoint>>, failures \subseteq failures',
         proc'["replay"] = proc["replay"], AtBlock,
         proc'["loop"].first = proc["loop"].first, proc'["loop"].height = proc["loop"].height,
         proc["loop"].pc # "off", AtBlock',
         proc'["loop"].pc \in {"process", "fail"} \/ AtFlush' =>
            proc["loop"].pc \in {"process", "fail"} \/ AtFlush,
         proc'["loop"].pc \in {"resolve", "save"} => Done(proc["loop"].height),
         proc'["loop"].pc = "fail" \/ (AtFlush' /\ proc'["loop"].failed) =>
            \/ proc["loop"].pc = "fail" \/ (AtFlush /\ proc["loop"].failed)
            \/ Filed(proc["loop"].height)'
  PROVE  Alone'
<1>1. Explained'
  BY DEF Alone, Explained, Done, Filed
<1>2. Filed(proc["loop"].height) => Filed(proc["loop"].height)'
  BY DEF Filed
<1>3. LoopInv'
  BY <1>2 DEF Alone, LoopInv, Done, Filed
<1> QED
  BY <1>1, <1>3 DEF Alone

LEMMA LoopFacts ==
  ASSUME SafeInv
  PROVE  /\ proc \in [Processes -> Pass] /\ proc["loop"] \in Pass /\ PlaceInv("loop")
         /\ "loop" \in Processes /\ "replay" \in Processes
         /\ \A p \in Processes : p = "loop" \/ p = "replay"
BY TypeFacts DEF SafeInv, Processes

\* Where a pass begins, all blocks before are COMPLETE.
LEMMA BlocksBefore ==
  ASSUME SafeInv, Explained, NEW first \in NextBlocks, NEW h \in Heights, h >= Start, h < first
  PROVE  Done(h)
<1>1. h \in Nat /\ Start \in Nat /\ checkpoint \subseteq Nat
  BY TypeFacts, TronAssumption DEF Heights
<1> QED
  BY <1>1 DEF NextBlocks, Explained

LEMMA StartLoopJournal ==
  ASSUME SafeInv, Alone, StartLoop
  PROVE  Alone'
<1>1. PICK first \in NextBlocks :
        proc' = [proc EXCEPT !["loop"] = [Off EXCEPT !.pc = "begin", !.first = first]]
  BY DEF StartLoop
<1>2. /\ proc'["loop"].pc = "begin" /\ proc'["loop"].first = first
      /\ proc'["replay"] = proc["replay"] /\ UNCHANGED <<journal, checkpoint, failures>>
  BY <1>1, LoopFacts DEF StartLoop, Stored, Off
<1>3. \A h \in Heights : h >= Start /\ h < first => Done(h)
  BY BlocksBefore DEF Alone
<1> QED
  BY <1>2, <1>3 DEF Alone, Explained, LoopInv, Done, Filed, AtFlush, AtBlock, InBlock, Flushes

LEMMA EndPassJournal ==
  ASSUME SafeInv, Alone, EndPass("loop")
  PROVE  Alone'
<1>1. PICK first \in NextBlocks :
        proc' = [proc EXCEPT !["loop"] = [Off EXCEPT !.pc = "begin",
                   !.first = IF checkpoint = {} THEN proc["loop"].first ELSE first]]
  BY DEF EndPass
<1>2. /\ proc'["loop"].pc = "begin" /\ proc["loop"].pc # "off"
      /\ proc'["loop"].first \in {proc["loop"].first, first}
      /\ proc'["replay"] = proc["replay"] /\ UNCHANGED <<journal, checkpoint, failures>>
  BY <1>1, LoopFacts DEF EndPass, Stored, Off
<1>3. \A h \in Heights : h >= Start /\ h < first => Done(h)
  BY BlocksBefore DEF Alone
<1> QED
  BY <1>2, <1>3 DEF Alone, Explained, LoopInv, Done, Filed, AtFlush, AtBlock, InBlock, Flushes

LEMMA BeginPassJournal ==
  ASSUME SafeInv, Alone, BeginPass("loop")
  PROVE  Alone'
<1>1. /\ proc'["loop"].pc = "fetch" /\ proc["loop"].pc # "off"
      /\ proc'["loop"].first = proc["loop"].first /\ proc'["loop"].height = proc["loop"].first
      /\ proc'["replay"] = proc["replay"] /\ UNCHANGED <<journal, checkpoint, failures>>
  BY LoopFacts DEF BeginPass, Stored, Off
<1> QED
  BY <1>1 DEF Alone, Explained, LoopInv, Done, Filed, AtFlush, AtBlock, InBlock, Flushes

LEMMA FetchJournal ==
  ASSUME SafeInv, Alone, Fetch("loop")
  PROVE  Alone'
<1>1. /\ proc'["loop"].first = proc["loop"].first /\ proc["loop"].pc = "fetch"
      /\ \/ proc'["loop"].pc = "flush" /\ proc'["loop"].height = 0
         \/ proc'["loop"].pc = "decide" /\ proc'["loop"].height = proc["loop"].height
      /\ proc'["replay"] = proc["replay"] /\ UNCHANGED <<journal, checkpoint, failures>>
  BY LoopFacts DEF Fetch, Stored, Pass
<1> QED
  BY <1>1, LoopRests, LoopGoesOn DEF AtFlush, AtBlock, InBlock, Flushes

LEMMA AbandonFacts ==
  ASSUME SafeInv, proc' = [proc EXCEPT !["loop"] = Abandon("loop")]
  PROVE  /\ proc'["loop"].pc = "begin" /\ proc'["loop"].first = proc["loop"].first
         /\ proc'["replay"] = proc["replay"]
BY LoopFacts DEF Abandon, Off

LEMMA FaultsJournal ==
  ASSUME SafeInv, Alone, RefuseBlock("loop") \/ CallFails("loop") \/ Crash("loop")
  PROVE  Alone'
<1>1. CASE RefuseBlock("loop") \/ Crash("loop")
  <2>1. /\ proc'["loop"].pc = "off" /\ proc'["replay"] = proc["replay"]
        /\ UNCHANGED <<journal, checkpoint>> /\ failures \subseteq failures'
    BY <1>1, LoopFacts DEF RefuseBlock, Crash, Off
  <2> QED
    BY <2>1, LoopRests
<1>2. CASE CallFails("loop")
  <2>1. /\ proc' = [proc EXCEPT !["loop"] = Abandon("loop")] /\ proc["loop"].pc # "off"
        /\ UNCHANGED <<journal, checkpoint>> /\ failures \subseteq failures'
    BY <1>2 DEF CallFails
  <2> QED
    BY <2>1, AbandonFacts, LoopRests DEF Flushes
<1> QED
  BY <1>1, <1>2

LEMMA SkipBlockJournal ==
  ASSUME SafeInv, Alone, SkipBlock("loop")
  PROVE  Alone'
<1>1. /\ proc'["loop"].first = proc["loop"].first /\ proc["loop"].pc = "decide"
      /\ proc'["loop"].pc = "resolve" /\ proc'["loop"].height = proc["loop"].height
      /\ proc'["replay"] = proc["replay"] /\ UNCHANGED <<journal, checkpoint, failures>>
  BY LoopFacts DEF SkipBlock, Goto, Stored, Pass
<1>2. Done(proc["loop"].height)
  BY DEF SkipBlock, Skips, Done
<1> QED
  BY <1>1, <1>2, LoopGoesOn DEF AtFlush, AtBlock, InBlock, Flushes

\* A block that is decided on and not COMPLETE gets a row: no block before it does.
LEMMA TakeBlockJournal ==
  ASSUME SafeInv, Alone, TakeBlock("loop")
  PROVE  Alone'
<1> DEFINE l == proc["loop"]
<1>1. l \in Pass /\ l.pc = "decide" /\ l.height \in Heights /\ l.first # 0
  BY LoopFacts DEF TakeBlock, PlaceInv, InBlock
<1>2. ~Done(l.height)
  BY <1>1, TypeFacts DEF TakeBlock, Conflicts, Skips, Done, NoMark, JournalRows
<1>3. /\ journal' = [journal EXCEPT ![l.height] = [status |-> "PROCESSING", version |-> l.version]]
      /\ UNCHANGED <<checkpoint, failures>>
  BY DEF TakeBlock
<1>4. /\ proc'["replay"] = proc["replay"] /\ proc'["loop"].first = l.first
      /\ \/ proc'["loop"].pc = "mark" /\ proc'["loop"].height = l.height
         \/ proc'["loop"].pc = "flush" /\ proc'["loop"].height = 0
         \/ proc'["loop"].pc = "process" /\ proc'["loop"].height = l.height
  <2> DEFINE tooMany == /\ "loop" = "loop" /\ TotalTxs > 0 /\ l.count > 0
                        /\ l.count + Cardinality(TxsOf[l.height]) > TotalTxs
  <2>1. CASE TxsOf[l.height] = {}
    BY <1>1, <2>1, LoopFacts DEF TakeBlock, Pass
  <2>2. CASE TxsOf[l.height] # {} /\ tooMany
    BY <1>1, <2>2, LoopFacts DEF TakeBlock, Pass
  <2>3. CASE TxsOf[l.height] # {} /\ ~tooMany
    BY <1>1, <2>3, LoopFacts, CountTyped, TronAssumption DEF TakeBlock, Pass
  <2> QED
    BY <2>1, <2>2, <2>3
<1> HIDE DEF l
<1>5. \A h \in Heights : /\ Done(h) => Done(h)'
                         /\ journal'[h].status = "FAILED" => journal[h].status = "FAILED"
  BY <1>1, <1>2, <1>3, TypeFacts DEF Done, JournalRows
<1>6. journal'[l.height].status # "COMPLETE"
  BY <1>1, <1>3, TypeFacts DEF Done, JournalRows
<1>7. Explained'
  BY <1>3, <1>5 DEF Alone, Explained, Filed
<1>8. l.height \in Nat
  BY <1>1 DEF Pass
<1>9. \A h \in Heights : /\ h >= Start /\ h < l.first => Done(h)'
                         /\ h >= Start /\ h < l.height => Done(h)'
  BY <1>1, <1>5 DEF Alone, LoopInv, AtBlock, InBlock, l
<1>10. LoopInv'
  <2>1. CASE proc'["loop"].pc = "mark" /\ proc'["loop"].height = l.height
    BY <1>4, <1>9, <2>1 DEF LoopInv, AtFlush, AtBlock, InBlock, Flushes, Done
  <2>2. CASE proc'["loop"].pc = "flush" /\ proc'["loop"].height = 0
    BY <1>4, <1>9, <2>2 DEF LoopInv, AtFlush, AtBlock, InBlock, Flushes, Done
  <2>3. CASE proc'["loop"].pc = "process" /\ proc'["loop"].height = l.height
    BY <1>4, <1>6, <1>9, <2>3 DEF LoopInv, AtFlush, AtBlock, InBlock, Flushes, Done
  <2> QED
    BY <1>4, <2>1, <2>2, <2>3
<1> QED
  BY <1>4, <1>7, <1>10 DEF Alone

\* Steps that leave the loop at its block.
LEMMA WorkJournal ==
  ASSUME SafeInv, Alone,
         \/ \E tx \in proc["loop"].txs : ProcessTx("loop", tx) \/ TxFails("loop", tx)
         \/ BlockProcessed("loop")
  PROVE  Alone'
<1>1. /\ proc["loop"] \in Pass /\ proc["loop"].pc = "process" /\ proc["loop"].height \in Heights
      /\ 0 \notin Heights
  <2>1. proc["loop"].pc = "process"
    BY DEF ProcessTx, TxFails, BlockProcessed
  <2>2. 0 \notin Heights
    BY TronAssumption DEF Heights
  <2> QED
    BY <2>1, <2>2, LoopFacts DEF PlaceInv, InBlock
<1>2. /\ proc'["loop"].first = proc["loop"].first /\ proc'["loop"].height = proc["loop"].height
      /\ proc'["replay"] = proc["replay"]
      /\ UNCHANGED <<journal, checkpoint>> /\ failures \subseteq failures'
  <2>1. CASE BlockProcessed("loop")
    BY <1>1, <2>1, LoopFacts DEF BlockProcessed, Pass
  <2>2. CASE \E tx \in proc["loop"].txs : ProcessTx("loop", tx)
    BY <1>1, <2>2, LoopFacts DEF ProcessTx, Stored, Pass
  <2>3. CASE \E tx \in proc["loop"].txs : TxFails("loop", tx)
    <3>1. PICK tx \in proc["loop"].txs : TxFails("loop", tx)
      BY <2>3
    <3>2. /\ proc' = [proc EXCEPT !["loop"] = [proc["loop"] EXCEPT !.txs = @ \ {tx}, !.failed = TRUE]]
          /\ UNCHANGED <<journal, checkpoint, failures>>
      BY <3>1 DEF TxFails, Stored
    <3> QED
      BY <1>1, <3>2, LoopFacts DEF Pass
  <2> QED
    BY <2>1, <2>2, <2>3
<1>3. \/ proc'["loop"].pc = "process"
      \/ /\ proc'["loop"].pc = "flush" /\ proc'["loop"].failed = proc["loop"].failed
         /\ proc["loop"].failed => Filed(proc["loop"].height)'
  <2>1. CASE BlockProcessed("loop")
    <3>1. proc'["loop"].pc = "flush" /\ proc'["loop"].failed = proc["loop"].failed
      BY <1>1, <2>1, LoopFacts DEF BlockProcessed, Pass
    <3>2. proc["loop"].failed => <<proc["loop"].height, "PROCESS_TX">> \in failures'
      BY <2>1 DEF BlockProcessed
    <3>3. proc["loop"].failed => \E f \in failures' : f[1] = proc["loop"].height
      BY <3>2
    <3> QED
      BY <1>2, <3>1, <3>3 DEF Filed
  <2>2. CASE \E tx \in proc["loop"].txs : ProcessTx("loop", tx) \/ TxFails("loop", tx)
    BY <1>1, <2>2, LoopFacts DEF ProcessTx, TxFails, Pass
  <2> QED
    BY <2>1, <2>2
<1> QED
  BY <1>1, <1>2, <1>3, LoopGoesOn DEF AtFlush, AtBlock, InBlock, Flushes

LEMMA FlushJournal ==
  ASSUME SafeInv, Alone, FlushTable("loop") \/ Flushed("loop")
  PROVE  Alone'
<1> DEFINE l == proc["loop"]
<1>1. l \in Pass /\ l.pc = "flush"
  BY LoopFacts DEF FlushTable, Flushed
<1>2. /\ proc'["replay"] = proc["replay"] /\ UNCHANGED <<journal, checkpoint, failures>>
      /\ proc'["loop"].first = l.first /\ proc'["loop"].height = l.height
      /\ proc'["loop"].failed = l.failed
      /\ \/ proc'["loop"].pc \in Flushes
         \/ proc'["loop"].pc = "end" /\ l.height = 0
         \/ proc'["loop"].pc = "fail" /\ l.height # 0 /\ l.failed
         \/ proc'["loop"].pc = "mark" /\ l.height # 0 /\ ~l.failed
  <2>1. CASE FlushTable("loop")
    <3>1. UNCHANGED <<journal, checkpoint, failures>>
      BY <2>1 DEF FlushTable, BeginFlush, Stored
    <3>2. \/ proc' = [proc EXCEPT !["loop"].pc = "flushing"]
          \/ proc' = [proc EXCEPT !["loop"].table = l.table + 1]
      BY <2>1 DEF FlushTable, Goto
    <3> QED
      BY <1>1, <3>1, <3>2, LoopFacts DEF Pass, Flushes
  <2>2. CASE Flushed("loop")
    <3>1. UNCHANGED <<journal, checkpoint, failures>>
      BY <2>2 DEF Flushed, Stored
    <3>2. l.failed \in BOOLEAN
      BY <1>1 DEF Pass
    <3>3. CASE l.height = 0
      BY <1>1, <2>2, <3>1, <3>3, LoopFacts DEF Flushed, Goto, Pass
    <3>4. CASE l.height # 0 /\ l.failed
      BY <1>1, <2>2, <3>1, <3>4, LoopFacts DEF Flushed, Goto, Pass
    <3>5. CASE l.height # 0 /\ ~l.failed
      BY <1>1, <2>2, <3>1, <3>5, LoopFacts DEF Flushed, Goto, Pass
    <3> QED
      BY <3>2, <3>3, <3>4, <3>5
  <2> QED
    BY <2>1, <2>2
<1>3. CASE l.height = 0
  BY <1>1, <1>2, <1>3, LoopRests DEF Flushes
<1>4. CASE l.height # 0
  BY <1>1, <1>2, <1>4, LoopGoesOn DEF AtFlush, AtBlock, InBlock, Flushes
<1> QED
  BY <1>3, <1>4

\* A flush that ends on its own, of either process.
LEMMA BackgroundJournal ==
  ASSUME SafeInv, Alone, NEW p \in Processes, NEW t \in TableNames,
         FlushInBackground(p, t) \/ FlushEnds(p, t) \/ FlushFails(p, t)
  PROVE  Alone'
<1> DEFINE awaited == proc[p].pc = "flushing" /\ Tables[proc[p].table] = t
<1>1. UNCHANGED <<journal, checkpoint>> /\ failures \subseteq failures'
  BY DEF FlushInBackground, BeginFlush, FlushEnds, FlushFails, Stored
<1>2. CASE UNCHANGED proc
  BY <1>1, <1>2 DEF Alone, Explained, LoopInv, Done, Filed, AtFlush, AtBlock
<1>3. CASE proc' # proc
  <2>1. p = "loop" /\ awaited
    BY <1>3, LoopFacts DEF FlushInBackground, FlushEnds, FlushFails, Alone
  <2>2. proc["loop"] \in Pass /\ proc["loop"].pc = "flushing"
    BY <2>1, LoopFacts
  <2>3. CASE FlushEnds(p, t)
    <3>1. /\ proc'["replay"] = proc["replay"]
          /\ proc'["loop"].pc = "flush" /\ proc'["loop"].height = proc["loop"].height
          /\ proc'["loop"].first = proc["loop"].first /\ proc'["loop"].failed = proc["loop"].failed
      BY <2>1, <2>2, <2>3, LoopFacts DEF FlushEnds, Pass
    <3>2. CASE proc["loop"].height = 0
      BY <1>1, <2>2, <3>1, <3>2, LoopRests DEF Flushes
    <3>3. CASE proc["loop"].height # 0
      BY <1>1, <2>2, <3>1, <3>3, LoopGoesOn DEF AtFlush, AtBlock, InBlock, Flushes
    <3> QED
      BY <3>2, <3>3
  <2>4. CASE FlushFails(p, t) /\ proc["loop"].height = 0
    <3>1. proc' = [proc EXCEPT !["loop"] = Abandon("loop")]
      BY <2>1, <2>4 DEF FlushFails
    <3> QED
      BY <1>1, <2>2, <3>1, AbandonFacts, LoopRests DEF Flushes
  <2>5. CASE FlushFails(p, t) /\ proc["loop"].height # 0
    <3>1. /\ proc' = [proc EXCEPT !["loop"].pc = "fail"]
          /\ failures' = failures \cup {<<proc["loop"].height, "FLUSH">>}
      BY <2>1, <2>5 DEF FlushFails
    <3>2. /\ proc'["replay"] = proc["replay"]
          /\ proc'["loop"].pc = "fail" /\ proc'["loop"].height = proc["loop"].height
          /\ proc'["loop"].first = proc["loop"].first
      BY <2>2, <3>1, LoopFacts DEF Pass
    <3>3. <<proc["loop"].height, "FLUSH">> \in failures'
      BY <3>1
    <3>4. \E f \in failures' : f[1] = proc["loop"].height
      BY <3>3
    <3>5. Filed(proc["loop"].height)'
      BY <3>2, <3>4 DEF Filed
    <3> QED
      BY <1>1, <2>2, <2>5, <3>2, <3>5, LoopGoesOn DEF AtFlush, AtBlock, InBlock, Flushes
  <2>6. ~FlushInBackground(p, t)
    BY <1>3 DEF FlushInBackground
  <2> QED
    BY <2>3, <2>4, <2>5, <2>6
<1> QED
  BY <1>2, <1>3

\* A block is marked FAILED while its failure is on file.
LEMMA MarkFailedJournal ==
  ASSUME SafeInv, Alone, MarkFailed("loop")
  PROVE  Alone'
<1> DEFINE l == proc["loop"]
<1>1. l \in Pass /\ l.pc = "fail" /\ l.height \in Heights
  BY LoopFacts DEF MarkFailed, PlaceInv, InBlock
<1>2. /\ journal' = [journal EXCEPT ![l.height] = [status |-> "FAILED", version |-> l.version]]
      /\ UNCHANGED <<checkpoint, failures>>
      /\ proc' = [proc EXCEPT !["loop"] = Abandon("loop")]
  BY DEF MarkFailed, Write
<1>3. ~Done(l.height) /\ Filed(l.height)
  BY <1>1 DEF Alone, LoopInv
<1>4. \A h \in Heights : /\ Done(h) => Done(h)'
                         /\ journal'[h].status = "FAILED" =>
                               journal[h].status = "FAILED" \/ h = l.height
  BY <1>1, <1>2, <1>3, TypeFacts DEF Done, JournalRows
<1>5. Explained'
  BY <1>2, <1>3, <1>4 DEF Alone, Explained, Filed
<1>6. LoopInv'
  BY <1>1, <1>2, <1>4, AbandonFacts DEF Alone, LoopInv, AtFlush, AtBlock, InBlock, Flushes
<1> QED
  BY <1>2, <1>5, <1>6, AbandonFacts DEF Alone

LEMMA MarkCompleteJournal ==
  ASSUME SafeInv, Alone, MarkComplete("loop")
  PROVE  Alone'
<1> DEFINE l == proc["loop"]
<1>1. l \in Pass /\ l.pc = "mark" /\ l.height \in Heights
  BY LoopFacts DEF MarkComplete, PlaceInv, InBlock
<1>2. /\ journal' = [journal EXCEPT ![l.height] = [status |-> "COMPLETE", version |-> l.version]]
      /\ UNCHANGED <<checkpoint, failures>>
      /\ proc' = [proc EXCEPT !["loop"].pc = "resolve"]
  BY DEF MarkComplete, Write, Goto
<1>3. /\ proc'["replay"] = proc["replay"] /\ proc'["loop"].pc = "resolve"
      /\ proc'["loop"].height = l.height /\ proc'["loop"].first = l.first
  BY <1>1, <1>2, LoopFacts DEF Pass
<1>4. /\ journal'[l.height].status = "COMPLETE"
      /\ \A h \in Heights : /\ Done(h) => Done(h)'
                            /\ journal'[h].status = "FAILED" => journal[h].status = "FAILED"
  BY <1>1, <1>2, TypeFacts DEF Done, JournalRows
<1>5. Explained'
  BY <1>2, <1>4 DEF Alone, Explained, Filed
<1>6. /\ \A h \in Heights : h >= Start /\ h < l.first => Done(h)
      /\ \A h \in Heights : h >= Start /\ h < l.height => Done(h)
  BY <1>1 DEF Alone, LoopInv, AtBlock, InBlock
<1> HIDE DEF l
<1>7. LoopInv'
  BY <1>3, <1>4, <1>6 DEF LoopInv, AtFlush, Flushes, Done
<1> QED
  BY <1>3, <1>5, <1>7 DEF Alone

\* Failures are settled for a block that is COMPLETE: no FAILED one loses its own.
LEMMA ResolveJournal ==
  ASSUME SafeInv, Alone, ResolveFailures("loop")
  PROVE  Alone'
<1> DEFINE l == proc["loop"]
<1>1. l \in Pass /\ l.pc = "resolve" /\ l.height \in Heights
  BY LoopFacts DEF ResolveFailures, PlaceInv, InBlock
<1>2. /\ proc' = [proc EXCEPT !["loop"] = [proc["loop"] EXCEPT !.pc = "save"]]
      /\ failures' = {f \in failures : f[1] # l.height}
      /\ UNCHANGED <<journal, checkpoint>>
  BY DEF ResolveFailures
<1>3. /\ proc'["replay"] = proc["replay"] /\ proc'["loop"].pc = "save"
      /\ proc'["loop"].height = l.height /\ proc'["loop"].first = l.first
  BY <1>1, <1>2, LoopFacts DEF Pass
<1>4. /\ Done(l.height)
      /\ \A h \in Heights : h >= Start /\ h < l.first => Done(h)
      /\ \A h \in Heights : h >= Start /\ h < l.height => Done(h)
  BY <1>1 DEF Alone, LoopInv, AtBlock, InBlock
<1>5. \A h \in Heights : journal[h].status = "FAILED" => h # l.height
  BY <1>4 DEF Done
<1>6. Explained'
  BY <1>2, <1>5 DEF Alone, Explained, Done, Filed
<1> HIDE DEF l
<1>7. LoopInv'
  BY <1>2, <1>3, <1>4 DEF LoopInv, AtFlush, Flushes, Done
<1> QED
  BY <1>3, <1>6, <1>7 DEF Alone

\* The checkpoint moves to a block that is COMPLETE, as all before it are.
LEMMA SaveJournal ==
  ASSUME SafeInv, Alone, SaveCheckpoint("loop")
  PROVE  Alone'
<1> DEFINE l == proc["loop"]
<1>1. l \in Pass /\ l.pc = "save" /\ l.height \in Heights /\ l.height \in Nat
  BY LoopFacts DEF SaveCheckpoint, PlaceInv, InBlock, Pass
<1>2. /\ proc' = [proc EXCEPT !["loop"] = NextOf("loop")]
      /\ checkpoint' \subseteq checkpoint \cup {l.height}
      /\ UNCHANGED <<journal, failures>>
  BY DEF SaveCheckpoint
<1>3. /\ proc'["replay"] = proc["replay"] /\ proc'["loop"].pc = "fetch"
      /\ proc'["loop"].height = l.height + 1 /\ proc'["loop"].first = l.first
  BY <1>1, <1>2, LoopFacts, NextTyped
<1>4. /\ Done(l.height)
      /\ \A h \in Heights : h >= Start /\ h < l.first => Done(h)
      /\ \A h \in Heights : h >= Start /\ h < l.height => Done(h)
  BY <1>1 DEF Alone, LoopInv, AtBlock, InBlock
<1>5. \A h \in Heights : h \in Nat /\ Start \in Nat
  BY TronAssumption DEF Heights
<1>6. \A h \in Heights : h >= Start /\ h < l.height + 1 => Done(h)
  BY <1>1, <1>4, <1>5
<1>7. Explained'
  BY <1>1, <1>2, <1>5, <1>6 DEF Alone, Explained, Done, Filed
<1> HIDE DEF l
<1>8. LoopInv'
  BY <1>2, <1>3, <1>4, <1>6 DEF LoopInv, AtFlush, Flushes, Done
<1> QED
  BY <1>3, <1>7, <1>8 DEF Alone

LEMMA NextJournal == SafeInv /\ JournalInv /\ [Next]_vars => JournalInv'
<1> SUFFICES ASSUME SafeInv, JournalInv, [Next]_vars, budget'.replays = 0 PROVE Alone'
  BY DEF JournalInv
<1>1. CASE UNCHANGED vars
  BY <1>1 DEF vars, JournalInv, Alone, Explained, LoopInv, AtFlush, AtBlock, Done, Filed
<1>2. CASE Next
  <2>1. budget.replays = 0 /\ Alone
    <3>1. budget.replays \in Nat /\ budget'.replays \in {budget.replays, budget.replays + 1}
      <4>1. budget \in [faults : 0 .. MaxFaults, replays : 0 .. MaxReplays] /\ budget.replays \in Nat
        BY TypeFacts, TronAssumption
      <4>2. UNCHANGED budget \/ Fault \/ budget' = [budget EXCEPT !.replays = budget.replays + 1]
        <5>1. ASSUME NEW p \in Processes, Step(p) PROVE UNCHANGED budget
          BY <5>1
          DEF Step, BeginPass, Fetch, EndPass, RefuseBlock, SkipBlock, TakeBlock, ProcessTx,
              BlockProcessed, FlushTable, BeginFlush, Flushed, FlushEnds, MarkFailed,
              MarkComplete, ResolveFailures, SaveCheckpoint
        <5>2. ASSUME NEW p \in Processes, CallFails(p) \/ Crash(p) PROVE Fault
          BY <5>2 DEF CallFails, Crash
        <5>3. ASSUME NEW p \in Processes, NEW tx, TxFails(p, tx) PROVE Fault
          BY <5>3 DEF TxFails
        <5>4. ASSUME NEW p \in Processes, NEW t, FlushInBackground(p, t) PROVE UNCHANGED budget
          BY <5>4 DEF FlushInBackground, BeginFlush
        <5>5. ASSUME NEW p \in Processes, NEW t, FlushFails(p, t) PROVE Fault
          BY <5>5 DEF FlushFails
        <5>6. HeadGrows \/ StartLoop => UNCHANGED budget
          BY DEF HeadGrows, StartLoop
        <5>7. ASSUME NEW h \in Heights, BlockChanges(h) PROVE Fault
          BY <5>7 DEF BlockChanges
        <5>8. ASSUME NEW from, NEW to, StartReplay(from, to)
              PROVE  budget' = [budget EXCEPT !.replays = budget.replays + 1]
          BY <5>8 DEF StartReplay
        <5> QED
          BY <1>2, <5>1, <5>2, <5>3, <5>4, <5>5, <5>6, <5>7, <5>8 DEF Next
      <4> QED
        BY <4>1, <4>2, FaultTyped
    <3> QED
      BY <3>1 DEF JournalInv
  <2>2. CASE HeadGrows \/ \E h \in Heights : BlockChanges(h)
    BY <2>1, <2>2
    DEF HeadGrows, BlockChanges, Stored, Alone, Explained, LoopInv, AtFlush, AtBlock, Done, Filed
  <2>3. ASSUME NEW from \in Heights, NEW to \in Heights, StartReplay(from, to) PROVE FALSE
    BY <2>1, <2>3, TypeFacts DEF StartReplay
  <2>4. ASSUME NEW p \in Processes, NEW t \in TableNames,
               FlushInBackground(p, t) \/ FlushEnds(p, t) \/ FlushFails(p, t)
        PROVE  Alone'
    BY <2>1, <2>4, BackgroundJournal
  <2>5. ASSUME NEW p \in Processes,
               \/ BeginPass(p) \/ Fetch(p) \/ EndPass(p) \/ RefuseBlock(p) \/ SkipBlock(p)
               \/ TakeBlock(p) \/ (\E tx \in proc[p].txs : ProcessTx(p, tx)) \/ BlockProcessed(p)
               \/ FlushTable(p) \/ Flushed(p) \/ MarkFailed(p) \/ MarkComplete(p)
               \/ ResolveFailures(p) \/ SaveCheckpoint(p) \/ CallFails(p) \/ Crash(p)
               \/ \E tx \in proc[p].txs : TxFails(p, tx)
        PROVE  Alone'
    <3>1. proc[p].pc # "off"
      BY <2>5
      DEF BeginPass, Fetch, EndPass, RefuseBlock, SkipBlock, TakeBlock, ProcessTx, BlockProcessed,
          FlushTable, Flushed, MarkFailed, MarkComplete, ResolveFailures, SaveCheckpoint,
          CallFails, Crash, TxFails
    <3>2. p = "loop"
      BY <2>1, <3>1, LoopFacts DEF Alone
    <3> QED
      BY <2>1, <2>5, <3>2, BeginPassJournal, FetchJournal, EndPassJournal, FaultsJournal,
         SkipBlockJournal, TakeBlockJournal, WorkJournal, FlushJournal, MarkFailedJournal,
         MarkCompleteJournal, ResolveJournal, SaveJournal
  <2> QED
    BY <1>2, <2>1, <2>2, <2>3, <2>4, <2>5, StartLoopJournal DEF Next, Step
<1> QED
  BY <1>1, <1>2

\* Unless an operator replays blocks, the checkpoint stands over COMPLETE blocks
\* only and a FAILED block has an open failure (fetcher.rs 411-462,
\* ingestion_state.rs): no interleaving of faults and crashes skips a block.
THEOREM TronJournalExplains == Spec => []JournalExplains
<1>1. Init => JournalInv
  <2> SUFFICES ASSUME Init PROVE JournalInv
    OBVIOUS
  <2>1. proc["loop"].pc = "off" /\ proc["replay"].pc = "off"
    BY DEF Init, Processes, Off
  <2>2. Explained
    BY DEF Init, Explained, NoMark
  <2> QED
    BY <2>1, <2>2 DEF JournalInv, Alone, LoopInv, AtFlush, AtBlock, InBlock, Flushes
<1>2. JournalInv => JournalExplains
  BY DEF JournalInv, Alone, Explained, JournalExplains, Done, Filed
<1> QED
  BY InitSafe, NextSafe, <1>1, NextJournal, <1>2, PTL DEF Spec

-----------------------------------------------------------------------------
(* Reviews and the discovery of clusters: module TronIntelligence *)

Projections == {"entity", "exchange", "seed"}

Stages == {"idle", "record", "check", "write", "version", "count", "member", "publish", "match",
           "anchor", "row"}
OfLabels == {"check", "write"}
OfClaims == {"version", "count", "member", "publish", "match", "anchor", "row"}

CommandFields == {"at", "subject", "decision", "time", "table", "version", "others"}
IsCommand(v) == v = [x \in CommandFields |-> v[x]]

DecisionOf(v) == [subject |-> v.subject, decision |-> v.decision, at |-> v.time]

\* A label that is reviewed has been submitted.
Known(s, ls) == s[1] = "label" => \E l \in ls : s = <<"label", l>>

\* A command that projects a decision has recorded it.
CommandFits(v, ls, decisions) ==
  /\ IsCommand(v) /\ v.at \in Stages
  /\ v.at # "idle" => v.decision \in {"APPROVED", "REJECTED"} /\ Known(v.subject, ls)
  /\ v.at \in OfLabels => v.table \in 1 .. 3 /\ v.subject[1] = "label"
  /\ v.at \in OfClaims => v.subject[1] # "label"
  /\ v.at \in OfLabels \cup OfClaims => DecisionOf(v) \in decisions

Approved(decisions, s) == \E d \in decisions : d.subject = s /\ d.decision = "APPROVED"

\* What is active was approved.
RowsFit(t, decisions) ==
  /\ t = [p \in Projections |-> [a \in I!Addresses |-> t[p][a]]]
  /\ \A p \in Projections : \A a \in I!Addresses : t[p][a].active => Approved(decisions, t[p][a].of)

MembersFit(ms, decisions) == \A m \in DOMAIN ms : ms[m].active => Approved(decisions, ms[m].of)

ReviewerFits == /\ reviewer = [r \in Reviewers |-> reviewer[r]]
                /\ \A r \in Reviewers : CommandFits(reviewer[r], labels, reviews)

DecisionsKnown == labels \subseteq DOMAIN Labels /\ \A d \in reviews : Known(d.subject, labels)

ReviewInv == ReviewerFits /\ DecisionsKnown /\ RowsFit(attributed, reviews) /\ MembersFit(members, reviews)

\* A command goes on, the others do not.
Turns(r, v) ==
  /\ reviewer' = [q \in Reviewers |-> reviewer'[q]] /\ reviewer'[r] = v
  /\ \A q \in Reviewers \ {r} : reviewer'[q] = reviewer[q]

\* Labels and decisions only grow: what fits goes on fitting.
LEMMA StillFits ==
  ASSUME NEW v, NEW ls, NEW more, ls \subseteq more, NEW ds, NEW later, ds \subseteq later,
         CommandFits(v, ls, ds)
  PROVE  CommandFits(v, more, later)
BY DEF CommandFits, Known

LEMMA StillApproved ==
  ASSUME NEW ds, NEW later, ds \subseteq later, NEW s, Approved(ds, s)
  PROVE  Approved(later, s)
BY DEF Approved

\* What a step has to show for the invariant.
LEMMA CommandTurns ==
  ASSUME ReviewInv, NEW r \in Reviewers, NEW v, Turns(r, v), labels' = labels, reviews \subseteq reviews',
         CommandFits(v, labels, reviews')
  PROVE  ReviewerFits'
<1>1. \A q \in Reviewers \ {r} : CommandFits(reviewer'[q], labels, reviews')
  BY StillFits DEF ReviewInv, ReviewerFits, Turns
<1>2. \A q \in Reviewers : CommandFits(reviewer'[q], labels', reviews')
  BY <1>1 DEF Turns
<1> QED
  BY <1>2 DEF ReviewerFits, Turns

LEMMA OnlyTurns ==
  ASSUME ReviewInv, NEW r \in Reviewers, NEW v, Turns(r, v), CommandFits(v, labels, reviews),
         UNCHANGED <<labels, reviews, attributed, members>>
  PROVE  ReviewInv'
<1>1. labels' = labels /\ reviews' = reviews /\ attributed' = attributed /\ members' = members
  OBVIOUS
<1>2. ReviewerFits'
  BY <1>1, CommandTurns
<1> QED
  BY <1>1, <1>2 DEF ReviewInv, DecisionsKnown

LEMMA NoReviewFits ==
  ASSUME NEW ls, NEW ds
  PROVE  CommandFits(I!NoReview, ls, ds) /\ I!NoReview.at = "idle"
<1>1. I!NoReview.at = "idle" /\ IsCommand(I!NoReview)
  BY DEF I!NoReview, IsCommand, CommandFields
<1> QED
  BY <1>1 DEF CommandFits, Stages, OfLabels, OfClaims

\* A command of which one step changes a few fields.
LEMMA Stepped ==
  ASSUME ReviewInv, NEW r \in Reviewers, NEW v, reviewer' = [reviewer EXCEPT ![r] = v]
  PROVE  Turns(r, v)
BY DEF ReviewInv, ReviewerFits, Turns

LEMMA TheCommand ==
  ASSUME ReviewInv, NEW r \in Reviewers
  PROVE  CommandFits(reviewer[r], labels, reviews) /\ IsCommand(reviewer[r])
BY DEF ReviewInv, ReviewerFits, CommandFits

LEMMA Goes ==
  ASSUME ReviewInv, NEW r \in Reviewers, NEW place, I!Goes(r, place)
  PROVE  LET v == [reviewer[r] EXCEPT !.at = place]
         IN  /\ Turns(r, v) /\ IsCommand(v) /\ v.at = place /\ v.subject = reviewer[r].subject
             /\ v.decision = reviewer[r].decision /\ v.time = reviewer[r].time
             /\ v.table = reviewer[r].table /\ v.version = reviewer[r].version
             /\ v.others = reviewer[r].others
<1> DEFINE v == [reviewer[r] EXCEPT !.at = place]
<1>1. reviewer' = [reviewer EXCEPT ![r] = v]
  BY DEF I!Goes
<1>2. Turns(r, v)
  BY <1>1, Stepped
<1>3. IsCommand(reviewer[r])
  BY TheCommand
<1>4. /\ IsCommand(v) /\ v.at = place /\ v.subject = reviewer[r].subject
      /\ v.decision = reviewer[r].decision /\ v.time = reviewer[r].time
      /\ v.table = reviewer[r].table /\ v.version = reviewer[r].version
      /\ v.others = reviewer[r].others
  BY <1>3 DEF IsCommand, CommandFields
<1> QED
  BY <1>2, <1>4

LEMMA TablesAre ==
  /\ I!Tables[1] = "entity" /\ I!Tables[2] = "exchange" /\ I!Tables[3] = "seed" /\ Len(I!Tables) = 3
  /\ \A i \in 1 .. 3 : I!Tables[i] \in Projections
BY DEF I!Tables, Projections

\* project_entity_review goes on to the next table, or is through.
LEMMA GoesOn ==
  ASSUME ReviewInv, NEW r \in Reviewers, I!NextTable(r), reviewer[r].at \in OfLabels
  PROVE  \/ /\ reviewer[r].table = 3 /\ Turns(r, I!NoReview)
         \/ \E v : /\ reviewer[r].table \in 1 .. 2 /\ Turns(r, v) /\ IsCommand(v) /\ v.at = "check"
                   /\ v.table = reviewer[r].table + 1 /\ v.subject = reviewer[r].subject
                   /\ v.decision = reviewer[r].decision /\ v.time = reviewer[r].time
<1> DEFINE u == reviewer[r]
           n == u.table + 1
           w == [u EXCEPT !.at = "check", !.table = n]
<1>1. IsCommand(u) /\ u.table \in 1 .. 3
  BY TheCommand DEF CommandFits
<1>2. reviewer' = [reviewer EXCEPT ![r] = IF n > 3 THEN I!NoReview ELSE w]
  BY <1>1, TablesAre DEF I!NextTable
<1>3. IsCommand(w) /\ w.at = "check" /\ w.table = n /\ w.subject = u.subject
      /\ w.decision = u.decision /\ w.time = u.time
  BY <1>1 DEF IsCommand, CommandFields
<1> HIDE DEF w
<1>4. CASE u.table = 3
  <2>1. reviewer' = [reviewer EXCEPT ![r] = I!NoReview]
    BY <1>2, <1>4
  <2> QED
    BY <1>4, <2>1, Stepped
<1>5. CASE u.table # 3
  <2>1. u.table \in 1 .. 2 /\ ~(n > 3)
    BY <1>1, <1>5
  <2>2. reviewer' = [reviewer EXCEPT ![r] = w]
    BY <1>2, <2>1
  <2>3. Turns(r, w)
    BY <2>2, Stepped
  <2> QED
    BY <1>3, <2>1, <2>3
<1> QED
  BY <1>4, <1>5

LEMMA GoesOnFits ==
  ASSUME ReviewInv, NEW r \in Reviewers, I!NextTable(r), reviewer[r].at \in OfLabels,
         UNCHANGED <<labels, reviews>>
  PROVE  ReviewerFits'
<1>0. labels' = labels /\ reviews' = reviews
  OBVIOUS
<1>1. CASE Turns(r, I!NoReview)
  BY <1>0, <1>1, NoReviewFits, CommandTurns
<1>2. ASSUME NEW v, reviewer[r].table \in 1 .. 2, Turns(r, v), IsCommand(v), v.at = "check",
             v.table = reviewer[r].table + 1, v.subject = reviewer[r].subject,
             v.decision = reviewer[r].decision, v.time = reviewer[r].time
      PROVE  ReviewerFits'
  <2>1. CommandFits(reviewer[r], labels, reviews)
    BY TheCommand
  <2>2. v.table \in 1 .. 3
    BY <1>2
  <2>3. reviewer[r].at # "idle" /\ reviewer[r].at \in OfLabels \cup OfClaims
    BY DEF OfLabels
  <2>4. DecisionOf(v) = DecisionOf(reviewer[r])
    BY <1>2 DEF DecisionOf
  <2>5. CommandFits(v, labels, reviews)
    BY <1>2, <2>1, <2>2, <2>3, <2>4 DEF CommandFits, Stages, OfLabels, OfClaims
  <2> QED
    BY <1>0, <1>2, <2>5, CommandTurns
<1> QED
  BY <1>1, <1>2, GoesOn

LEMMA GoesFits ==
  ASSUME ReviewInv, NEW r \in Reviewers, NEW place, I!Goes(r, place), UNCHANGED <<labels, reviews>>,
         \/ place \in OfLabels /\ reviewer[r].at \in OfLabels
         \/ place \in OfClaims /\ reviewer[r].at \in OfClaims
  PROVE  ReviewerFits'
<1> DEFINE v == [reviewer[r] EXCEPT !.at = place]
<1>1. /\ Turns(r, v) /\ IsCommand(v) /\ v.at = place /\ v.subject = reviewer[r].subject
      /\ v.decision = reviewer[r].decision /\ v.time = reviewer[r].time /\ v.table = reviewer[r].table
  BY Goes
<1> HIDE DEF v
<1>2. CommandFits(reviewer[r], labels, reviews)
  BY TheCommand
<1>3. DecisionOf(v) = DecisionOf(reviewer[r])
  BY <1>1 DEF DecisionOf
<1>4. CommandFits(v, labels, reviews)
  BY <1>1, <1>2, <1>3 DEF CommandFits, Stages, OfLabels, OfClaims
<1>5. labels' = labels /\ reviews' = reviews
  OBVIOUS
<1> QED
  BY <1>1, <1>4, <1>5, CommandTurns

\* A step of a claim's command that changes its place and what it has read.
LEMMA ClaimTurns ==
  ASSUME ReviewInv, NEW r \in Reviewers, NEW v, Turns(r, v), IsCommand(v), UNCHANGED <<labels, reviews>>,
         reviewer[r].at \in OfClaims, v.at \in OfClaims, v.subject = reviewer[r].subject,
         v.decision = reviewer[r].decision, v.time = reviewer[r].time
  PROVE  ReviewerFits'
<1>1. CommandFits(reviewer[r], labels, reviews)
  BY TheCommand
<1>2. DecisionOf(v) = DecisionOf(reviewer[r])
  BY DEF DecisionOf
<1>3. CommandFits(v, labels, reviews)
  BY <1>1, <1>2 DEF CommandFits, Stages, OfLabels, OfClaims
<1>4. labels' = labels /\ reviews' = reviews
  OBVIOUS
<1> QED
  BY <1>3, <1>4, CommandTurns

LEMMA Idles ==
  ASSUME ReviewInv, NEW r \in Reviewers, reviewer' = [reviewer EXCEPT ![r] = I!NoReview],
         UNCHANGED <<labels, reviews>>
  PROVE  ReviewerFits'
<1>1. labels' = labels /\ reviews' = reviews
  OBVIOUS
<1> QED
  BY <1>1, NoReviewFits, Stepped, CommandTurns

\* A row that is written for an approved decision is approved.
LEMMA WrittenRow ==
  ASSUME ReviewInv, NEW r \in Reviewers, reviewer[r].at \in OfLabels \cup OfClaims, NEW p \in Projections,
         I!WriteRow(p, reviewer[r].subject, I!Approves(r)), reviews' = reviews
  PROVE  RowsFit(attributed', reviews')
<1> DEFINE s == reviewer[r].subject
           b == I!Approves(r)
           new == [of |-> s, active |-> b, version |-> 0]
           x == I!AddressOf(s)
<1>1. attributed' = [attributed EXCEPT ![p][x] = new]
  BY DEF I!WriteRow
<1>2. b => Approved(reviews, s)
  <2>1. DecisionOf(reviewer[r]) \in reviews
    BY TheCommand DEF CommandFits
  <2> QED
    BY <2>1 DEF Approved, DecisionOf, I!Approves
<1>3. RowsFit(attributed, reviews)
  BY DEF ReviewInv
<1>4. new.active = b /\ new.of = s
  OBVIOUS
<1> HIDE DEF new, s, b, x
<1>5. attributed' = [q \in Projections |-> [a \in I!Addresses |-> attributed'[q][a]]]
  BY <1>1, <1>3 DEF RowsFit
<1>6. \A q \in Projections : \A a \in I!Addresses : attributed'[q][a] = attributed[q][a] \/ attributed'[q][a] = new
  BY <1>1, <1>3 DEF RowsFit
<1>7. \A q \in Projections : \A a \in I!Addresses : attributed'[q][a].active => Approved(reviews, attributed'[q][a].of)
  BY <1>2, <1>3, <1>4, <1>6 DEF RowsFit
<1> QED
  BY <1>5, <1>7 DEF RowsFit

-----------------------------------------------------------------------------
(* Every step of a review *)

LEMMA DecideFits ==
  ASSUME ReviewInv, NEW r \in Reviewers, I!Decide(r)
  PROVE  ReviewInv'
<1>1. PICK s \in I!Subjects, d \in {"APPROVED", "REJECTED"} :
         reviewer' = [reviewer EXCEPT ![r] =
            [I!NoReview EXCEPT !.at = "record", !.subject = s, !.decision = d, !.time = bounds.reviews + 1]]
  BY DEF I!Decide
<1> DEFINE n == bounds.reviews + 1
           v == [I!NoReview EXCEPT !.at = "record", !.subject = s, !.decision = d, !.time = n]
<1>2. IsCommand(v) /\ v.at = "record" /\ v.subject = s /\ v.decision = d
  BY DEF IsCommand, CommandFields, I!NoReview
<1>3. Known(s, labels)
  <2>1. \/ \E l \in labels : s = <<"label", l>>
        \/ \E i \in DOMAIN claims : s = <<"claim", claims[i].claim>>
    BY DEF I!Subjects, I!LabelOf, I!ClaimOf
  <2> QED
    BY <2>1 DEF Known
<1>4. Turns(r, v)
  BY <1>1, Stepped
<1> HIDE DEF v
<1>5. CommandFits(v, labels, reviews)
  BY <1>2, <1>3 DEF CommandFits, Stages, OfLabels, OfClaims
<1>6. UNCHANGED <<labels, reviews, attributed, members>>
  BY DEF I!Decide
<1> QED
  BY <1>4, <1>5, <1>6, OnlyTurns

LEMMA RecordTurns ==
  ASSUME ReviewInv, NEW r \in Reviewers, I!Record(r)
  PROVE  \E v : /\ Turns(r, v) /\ IsCommand(v) /\ v.table = 1
                /\ v.at = IF reviewer[r].subject[1] = "label" THEN "check" ELSE "version"
                /\ v.subject = reviewer[r].subject /\ v.decision = reviewer[r].decision
                /\ v.time = reviewer[r].time
<1> DEFINE u == reviewer[r]
           place == IF I!IsLabel(u.subject) THEN "check" ELSE "version"
           v == [u EXCEPT !.at = place, !.table = 1]
<1>1. reviewer' = [reviewer EXCEPT ![r].at = place, ![r].table = 1]
  BY DEF I!Record
<1>2. reviewer' = [reviewer EXCEPT ![r] = v]
  BY <1>1 DEF ReviewInv, ReviewerFits
<1>3. IsCommand(u)
  BY TheCommand
<1> HIDE DEF place
<1>4. IsCommand(v) /\ v.table = 1 /\ v.at = place /\ v.subject = u.subject /\ v.decision = u.decision
      /\ v.time = u.time
  BY <1>3 DEF IsCommand, CommandFields
<1>5. place = IF u.subject[1] = "label" THEN "check" ELSE "version"
  BY DEF place, I!IsLabel
<1>6. Turns(r, v)
  BY <1>2, Stepped
<1> QED
  BY <1>4, <1>5, <1>6

LEMMA MoreDecisions ==
  ASSUME ReviewInv, reviews \subseteq reviews', UNCHANGED <<attributed, members>>
  PROVE  RowsFit(attributed', reviews') /\ MembersFit(members', reviews')
<1>1. attributed' = attributed /\ members' = members
  OBVIOUS
<1>2. RowsFit(attributed, reviews')
  BY StillApproved DEF ReviewInv, RowsFit
<1>3. MembersFit(members, reviews')
  BY StillApproved DEF ReviewInv, MembersFit
<1> QED
  BY <1>1, <1>2, <1>3

LEMMA RecordFits ==
  ASSUME ReviewInv, NEW r \in Reviewers, I!Record(r)
  PROVE  ReviewInv'
<1>1. PICK v : /\ Turns(r, v) /\ IsCommand(v) /\ v.table = 1
               /\ v.at = IF reviewer[r].subject[1] = "label" THEN "check" ELSE "version"
               /\ v.subject = reviewer[r].subject /\ v.decision = reviewer[r].decision
               /\ v.time = reviewer[r].time
  BY RecordTurns
<1> DEFINE d == DecisionOf(reviewer[r])
<1>2. reviewer[r].at = "record" /\ reviews' = reviews \cup {d} /\ labels' = labels
      /\ UNCHANGED <<attributed, members>>
  BY DEF I!Record, DecisionOf
<1>3. CommandFits(reviewer[r], labels, reviews)
  BY TheCommand
<1>4. DecisionOf(v) \in reviews'
  BY <1>1, <1>2 DEF DecisionOf
<1>5. CommandFits(v, labels, reviews')
  BY <1>1, <1>2, <1>3, <1>4 DEF CommandFits, Stages, OfLabels, OfClaims
<1>6. ReviewerFits'
  BY <1>1, <1>2, <1>5, CommandTurns
<1>7. Known(d.subject, labels)
  BY <1>2, <1>3 DEF CommandFits, DecisionOf
<1>8. DecisionsKnown'
  <2>1. \A x \in reviews' : Known(x.subject, labels)
    BY <1>2, <1>7 DEF ReviewInv, DecisionsKnown
  <2> QED
    BY <1>2, <2>1 DEF ReviewInv, DecisionsKnown
<1> QED
  BY <1>2, <1>6, <1>8, MoreDecisions DEF ReviewInv

\* The parts that a step of a review leaves alone when it records nothing.
LEMMA NothingRecorded ==
  ASSUME ReviewInv, ReviewerFits', UNCHANGED <<labels, reviews, members>>, RowsFit(attributed', reviews')
  PROVE  ReviewInv'
<1>1. labels' = labels /\ reviews' = reviews /\ members' = members
  OBVIOUS
<1> QED
  BY <1>1 DEF ReviewInv, DecisionsKnown

LEMMA CheckFits ==
  ASSUME ReviewInv, NEW r \in Reviewers, I!Check(r)
  PROVE  ReviewInv'
<1>1. reviewer[r].at = "check" /\ (I!Goes(r, "write") \/ I!NextTable(r))
      /\ UNCHANGED <<labels, reviews, members, attributed>>
  BY DEF I!Check
<1>2. ReviewerFits'
  BY <1>1, GoesFits, GoesOnFits DEF OfLabels
<1>3. RowsFit(attributed', reviews')
  BY <1>1, MoreDecisions
<1> QED
  BY <1>1, <1>2, <1>3, NothingRecorded

LEMMA WriteFits ==
  ASSUME ReviewInv, NEW r \in Reviewers, I!Write(r)
  PROVE  ReviewInv'
<1>1. reviewer[r].at = "write" /\ I!WriteRow(I!Tables[reviewer[r].table], reviewer[r].subject, I!Approves(r))
      /\ I!NextTable(r) /\ UNCHANGED <<labels, reviews, members>>
  BY DEF I!Write
<1>2. ReviewerFits'
  BY <1>1, GoesOnFits DEF OfLabels
<1>3. reviewer[r].table \in 1 .. 3 /\ reviewer[r].at \in OfLabels \cup OfClaims
  BY <1>1, TheCommand DEF CommandFits, OfLabels
<1>4. I!Tables[reviewer[r].table] \in Projections
  BY <1>3, TablesAre
<1>5. RowsFit(attributed', reviews')
  BY <1>1, <1>3, <1>4, WrittenRow
<1> QED
  BY <1>1, <1>2, <1>5, NothingRecorded

LEMMA ReadVersionTurns ==
  ASSUME ReviewInv, NEW r \in Reviewers, I!ReadVersion(r)
  PROVE  \E v : /\ Turns(r, v) /\ IsCommand(v) /\ v.at = "count" /\ v.subject = reviewer[r].subject
                /\ v.decision = reviewer[r].decision /\ v.time = reviewer[r].time
                /\ v.version = 1 + I!Max({0} \cup {w.version : w \in {x \in versions :
                                              x.cluster = reviewer[r].subject[2].cluster}})
<1> DEFINE u == reviewer[r]
           n == 1 + I!Max({0} \cup {w.version : w \in {x \in versions : x.cluster = u.subject[2].cluster}})
           v == [u EXCEPT !.at = "count", !.version = n]
<1>1. reviewer' = [reviewer EXCEPT ![r].at = "count", ![r].version = n]
  BY DEF I!ReadVersion
<1> HIDE DEF n
<1>2. reviewer' = [reviewer EXCEPT ![r] = v]
  BY <1>1 DEF ReviewInv, ReviewerFits
<1>3. IsCommand(u)
  BY TheCommand
<1>4. IsCommand(v) /\ v.at = "count" /\ v.version = n /\ v.subject = u.subject
      /\ v.decision = u.decision /\ v.time = u.time
  BY <1>3 DEF IsCommand, CommandFields
<1>5. Turns(r, v)
  BY <1>2, Stepped
<1> HIDE DEF v
<1>6. PICK w : w = v
  OBVIOUS
<1> QED
  BY <1>4, <1>5, <1>6 DEF n

LEMMA CountOthersTurns ==
  ASSUME ReviewInv, NEW r \in Reviewers, I!CountOthers(r)
  PROVE  \E v : /\ Turns(r, v) /\ IsCommand(v) /\ v.at = "member" /\ v.subject = reviewer[r].subject
                /\ v.decision = reviewer[r].decision /\ v.time = reviewer[r].time
                /\ v.version = reviewer[r].version
                /\ v.others = I!Cardinality(I!Others(reviewer[r].subject[2]))
<1> DEFINE u == reviewer[r]
           n == I!Cardinality(I!Others(u.subject[2]))
           v == [u EXCEPT !.at = "member", !.others = n]
<1>1. reviewer' = [reviewer EXCEPT ![r].at = "member", ![r].others = n]
  BY DEF I!CountOthers
<1> HIDE DEF n
<1>2. reviewer' = [reviewer EXCEPT ![r] = v]
  BY <1>1 DEF ReviewInv, ReviewerFits
<1>3. IsCommand(u)
  BY TheCommand
<1>4. IsCommand(v) /\ v.at = "member" /\ v.others = n /\ v.subject = u.subject
      /\ v.decision = u.decision /\ v.time = u.time /\ v.version = u.version
  BY <1>3 DEF IsCommand, CommandFields
<1>5. Turns(r, v)
  BY <1>2, Stepped
<1> HIDE DEF v
<1>6. PICK w : w = v
  OBVIOUS
<1> QED
  BY <1>4, <1>5, <1>6 DEF n

LEMMA ReadVersionFits ==
  ASSUME ReviewInv, NEW r \in Reviewers, I!ReadVersion(r)
  PROVE  ReviewInv'
<1>1. reviewer[r].at = "version" /\ UNCHANGED <<labels, reviews, members, attributed>>
  BY DEF I!ReadVersion
<1>2. ReviewerFits'
  BY <1>1, ReadVersionTurns, ClaimTurns DEF OfClaims
<1>3. RowsFit(attributed', reviews')
  BY <1>1, MoreDecisions
<1> QED
  BY <1>1, <1>2, <1>3, NothingRecorded

LEMMA CountOthersFits ==
  ASSUME ReviewInv, NEW r \in Reviewers, I!CountOthers(r)
  PROVE  ReviewInv'
<1>1. reviewer[r].at = "count" /\ UNCHANGED <<labels, reviews, members, attributed>>
  BY DEF I!CountOthers
<1>2. ReviewerFits'
  BY <1>1, CountOthersTurns, ClaimTurns DEF OfClaims
<1>3. RowsFit(attributed', reviews')
  BY <1>1, MoreDecisions
<1> QED
  BY <1>1, <1>2, <1>3, NothingRecorded

LEMMA WriteMemberFits ==
  ASSUME ReviewInv, NEW r \in Reviewers, I!WriteMember(r)
  PROVE  ReviewInv'
<1> DEFINE u == reviewer[r]
           k == I!Member(u.subject[2])
           new == [of |-> u.subject, active |-> I!Approves(r), version |-> u.version]
<1>1. /\ u.at = "member" /\ UNCHANGED <<labels, reviews, attributed>> /\ I!Goes(r, "publish")
      /\ members' = [m \in DOMAIN members \cup {k} |-> IF m = k THEN new ELSE members[m]]
  BY DEF I!WriteMember
<1>2. ReviewerFits'
  BY <1>1, GoesFits DEF OfClaims
<1>3. RowsFit(attributed, reviews) /\ MembersFit(members, reviews)
  BY DEF ReviewInv
<1>4. new.active => Approved(reviews, new.of)
  <2>1. DecisionOf(u) \in reviews
    BY <1>1, TheCommand DEF CommandFits, OfClaims
  <2> QED
    BY <2>1 DEF Approved, DecisionOf, I!Approves
<1>5. labels' = labels /\ reviews' = reviews /\ attributed' = attributed
  BY <1>1
<1> HIDE DEF new, k
<1>6. \A m \in DOMAIN members' : members'[m] = new \/ (m \in DOMAIN members /\ members'[m] = members[m])
  BY <1>1
<1>7. MembersFit(members', reviews')
  BY <1>3, <1>4, <1>5, <1>6 DEF MembersFit
<1> QED
  BY <1>2, <1>3, <1>5, <1>7 DEF ReviewInv, DecisionsKnown

LEMMA WriteVersionFits ==
  ASSUME ReviewInv, NEW r \in Reviewers, I!WriteVersion(r)
  PROVE  ReviewInv'
<1>1. reviewer[r].at = "publish" /\ UNCHANGED <<labels, reviews, members, attributed>> /\ I!Goes(r, "match")
  BY DEF I!WriteVersion
<1>2. ReviewerFits'
  BY <1>1, GoesFits DEF OfClaims
<1>3. RowsFit(attributed', reviews')
  BY <1>1, MoreDecisions
<1> QED
  BY <1>1, <1>2, <1>3, NothingRecorded

\* project_cluster_exchange_address goes on or is through.
LEMMA GoesOrIdles ==
  ASSUME ReviewInv, NEW r \in Reviewers, NEW place \in OfClaims, reviewer[r].at \in OfClaims,
         I!Goes(r, place) \/ reviewer' = [reviewer EXCEPT ![r] = I!NoReview],
         UNCHANGED <<labels, reviews, members, attributed>>
  PROVE  ReviewInv'
<1>1. ReviewerFits'
  BY GoesFits, Idles
<1> QED
  BY <1>1, MoreDecisions, NothingRecorded

LEMMA MatchExchangeTurns ==
  ASSUME ReviewInv, NEW r \in Reviewers, I!MatchExchange(r)
  PROVE  I!Goes(r, "anchor") \/ reviewer' = [reviewer EXCEPT ![r] = I!NoReview]
<1> DEFINE u == [reviewer[r] EXCEPT !.at = "anchor"]
<1>1. \/ reviewer' = [reviewer EXCEPT ![r] = u]
      \/ reviewer' = [reviewer EXCEPT ![r] = I!NoReview]
  BY DEF I!MatchExchange
<1> QED
  BY <1>1 DEF I!Goes, ReviewInv, ReviewerFits

LEMMA ReadAnchorTurns ==
  ASSUME ReviewInv, NEW r \in Reviewers, I!ReadAnchor(r)
  PROVE  I!Goes(r, "row") \/ reviewer' = [reviewer EXCEPT ![r] = I!NoReview]
<1> DEFINE u == [reviewer[r] EXCEPT !.at = "row"]
<1>1. \/ reviewer' = [reviewer EXCEPT ![r] = u]
      \/ reviewer' = [reviewer EXCEPT ![r] = I!NoReview]
  BY DEF I!ReadAnchor
<1> QED
  BY <1>1 DEF I!Goes, ReviewInv, ReviewerFits

LEMMA MatchExchangeFits ==
  ASSUME ReviewInv, NEW r \in Reviewers, I!MatchExchange(r)
  PROVE  ReviewInv'
<1>1. reviewer[r].at = "match" /\ UNCHANGED <<labels, reviews, members, attributed>>
  BY DEF I!MatchExchange
<1> QED
  BY <1>1, MatchExchangeTurns, GoesOrIdles DEF OfClaims

LEMMA ReadAnchorFits ==
  ASSUME ReviewInv, NEW r \in Reviewers, I!ReadAnchor(r)
  PROVE  ReviewInv'
<1>1. reviewer[r].at = "anchor" /\ UNCHANGED <<labels, reviews, members, attributed>>
  BY DEF I!ReadAnchor
<1> QED
  BY <1>1, ReadAnchorTurns, GoesOrIdles DEF OfClaims

LEMMA WriteExchangeFits ==
  ASSUME ReviewInv, NEW r \in Reviewers, I!WriteExchange(r)
  PROVE  ReviewInv'
<1>1. /\ reviewer[r].at = "row" /\ UNCHANGED <<labels, reviews, members>>
      /\ I!WriteRow("exchange", reviewer[r].subject, I!Approves(r))
      /\ reviewer' = [reviewer EXCEPT ![r] = I!NoReview]
  BY DEF I!WriteExchange
<1>2. ReviewerFits'
  BY <1>1, Idles
<1>3. RowsFit(attributed', reviews')
  BY <1>1, WrittenRow DEF OfClaims, Projections
<1> QED
  BY <1>1, <1>2, <1>3, NothingRecorded

LEMMA ReviewEndsFits ==
  ASSUME ReviewInv, NEW r \in Reviewers, I!ReviewEnds(r)
  PROVE  ReviewInv'
<1>1. reviewer' = [reviewer EXCEPT ![r] = I!NoReview] /\ UNCHANGED <<labels, reviews, members, attributed>>
  BY DEF I!ReviewEnds
<1> QED
  BY <1>1, Idles, MoreDecisions, NothingRecorded

LEMMA SubmitLabelFits ==
  ASSUME ReviewInv, NEW l \in DOMAIN Labels, I!SubmitLabel(l)
  PROVE  ReviewInv'
<1>1. labels' = labels \cup {l} /\ reviewer' = reviewer /\ reviews' = reviews /\ attributed' = attributed
      /\ members' = members
  BY DEF I!SubmitLabel
<1>2. ReviewerFits'
  BY <1>1, StillFits DEF ReviewInv, ReviewerFits
<1>3. DecisionsKnown'
  BY <1>1 DEF ReviewInv, DecisionsKnown, Known
<1> QED
  BY <1>1, <1>2, <1>3 DEF ReviewInv

LEMMA NothingReviewed ==
  ASSUME ReviewInv, UNCHANGED <<labels, reviewer, reviews, attributed, members>>
  PROVE  ReviewInv'
<1>1. labels' = labels /\ reviewer' = reviewer /\ reviews' = reviews /\ attributed' = attributed /\ members' = members
  OBVIOUS
<1> QED
  BY <1>1 DEF ReviewInv, ReviewerFits, DecisionsKnown

-----------------------------------------------------------------------------
(* The rest of the system *)

BoundFields == {"hash", "restores", "replays", "reviews", "switches", "stops"}
BoundsFit ==
  /\ bounds = [x \in BoundFields |-> bounds[x]]
  /\ bounds.hash \in Nat /\ bounds.reviews \in Nat

Reviewing == <<labels, reviewer, reviews, attributed, members, versions, sequential>>

\* Whatever is not a review or a label leaves both alone.
LEMMA Elsewise ==
  ASSUME BoundsFit, [I!Next]_(I!vars)
  PROVE  \/ \E l \in DOMAIN Labels : I!SubmitLabel(l)
         \/ \E r \in Reviewers : I!Review(r)
         \/ UNCHANGED Reviewing /\ bounds'.reviews = bounds.reviews
<1>1. CASE UNCHANGED I!vars
  BY <1>1 DEF I!vars, Reviewing
<1>2. CASE I!Ingest \/ I!Replay \/ I!Restore
  BY <1>2 DEF I!Ingest, I!Replay, I!Restore, I!decided, Reviewing, BoundsFit, BoundFields
<1>3. CASE I!SwitchSource
  BY <1>3 DEF I!SwitchSource, I!decided, Reviewing, BoundsFit, BoundFields
<1>4. CASE I!Work
  <2>1. CASE I!Begin \/ I!ReadTip \/ I!Plan \/ I!ReadBoundary \/ I!Find \/ I!Submit \/ I!Confirm
    BY <2>1 DEF I!Begin, I!ReadTip, I!Plan, I!ReadBoundary, I!Find, I!Submit, I!Confirm, I!decided, Reviewing
  <2>2. CASE I!WorkerEnds
    BY <2>2 DEF I!WorkerEnds, I!decided, Reviewing, BoundsFit, BoundFields
  <2> QED
    BY <1>4, <2>1, <2>2 DEF I!Work
<1> QED
  BY <1>1, <1>2, <1>3, <1>4 DEF I!Next

LEMMA BoundsGrow ==
  ASSUME BoundsFit, [I!Next]_(I!vars)
  PROVE  BoundsFit' /\ bounds.hash <= bounds'.hash /\ bounds.reviews <= bounds'.reviews
<1>1. CASE UNCHANGED bounds
  BY <1>1 DEF BoundsFit
<1>2. CASE I!Ingest
  <2> DEFINE n == bounds.hash + 1
  <2>1. n \in Nat /\ bounds.hash <= n
    BY DEF BoundsFit
  <2>2. bounds' = [bounds EXCEPT !.hash = n]
    BY <1>2 DEF I!Ingest
  <2> HIDE DEF n
  <2> QED
    BY <2>1, <2>2 DEF BoundsFit, BoundFields
<1>3. ASSUME NEW x \in {"restores", "replays", "switches", "stops"}, NEW n, bounds' = [bounds EXCEPT ![x] = n]
      PROVE  BoundsFit' /\ bounds'.hash = bounds.hash /\ bounds'.reviews = bounds.reviews
  BY <1>3 DEF BoundsFit, BoundFields
<1>4. CASE I!Replay \/ I!Restore \/ I!SwitchSource \/ I!WorkerEnds
  <2>1. \E x \in {"restores", "replays", "switches", "stops"} : \E n : bounds' = [bounds EXCEPT ![x] = n]
    BY <1>4 DEF I!Replay, I!Restore, I!SwitchSource, I!WorkerEnds
  <2> QED
    BY <1>3, <2>1 DEF BoundsFit
<1>5. ASSUME NEW r \in Reviewers, I!ReviewEnds(r)
      PROVE  BoundsFit' /\ bounds'.hash = bounds.hash /\ bounds'.reviews = bounds.reviews
  <2>1. \E n : bounds' = [bounds EXCEPT !["stops"] = n]
    BY <1>5 DEF I!ReviewEnds
  <2> QED
    BY <1>3, <2>1
<1>6. ASSUME NEW r \in Reviewers, I!Decide(r)
      PROVE  BoundsFit' /\ bounds.hash <= bounds'.hash /\ bounds.reviews <= bounds'.reviews
  <2> DEFINE n == bounds.reviews + 1
  <2>1. n \in Nat /\ bounds.reviews <= n
    BY DEF BoundsFit
  <2>2. bounds' = [bounds EXCEPT !.reviews = n]
    BY <1>6 DEF I!Decide
  <2> HIDE DEF n
  <2> QED
    BY <2>1, <2>2 DEF BoundsFit, BoundFields
<1>7. ASSUME NEW r \in Reviewers, I!Review(r), ~I!Decide(r), ~I!ReviewEnds(r)
      PROVE  UNCHANGED bounds
  BY <1>7 DEF I!Review, I!Record, I!Check, I!Write, I!ReadVersion, I!CountOthers, I!WriteMember,
              I!WriteVersion, I!MatchExchange, I!ReadAnchor, I!WriteExchange
<1>8. CASE I!Work
  BY <1>1, <1>4, <1>8 DEF I!Work, I!Begin, I!ReadTip, I!Plan, I!ReadBoundary, I!Find, I!Submit, I!Confirm
<1>9. bounds.hash \in Nat /\ bounds.reviews \in Nat
  BY DEF BoundsFit
<1>10. CASE \E r \in Reviewers : I!Review(r)
  BY <1>1, <1>5, <1>6, <1>7, <1>9, <1>10
<1>11. CASE \E l \in DOMAIN Labels : I!SubmitLabel(l)
  BY <1>1, <1>11 DEF I!SubmitLabel
<1>12. CASE UNCHANGED I!vars
  BY <1>1, <1>12 DEF I!vars
<1>13. CASE I!Replay \/ I!Restore \/ I!SwitchSource
  BY <1>4, <1>13
<1> QED
  BY <1>2, <1>8, <1>10, <1>11, <1>12, <1>13 DEF I!Next

LEMMA ReviewInvKept ==
  ASSUME ReviewInv, BoundsFit, [I!Next]_(I!vars)
  PROVE  ReviewInv'
<1>1. ASSUME NEW r \in Reviewers, I!Review(r)
      PROVE  ReviewInv'
  BY <1>1, DecideFits, RecordFits, CheckFits, WriteFits, ReadVersionFits, CountOthersFits, WriteMemberFits,
     WriteVersionFits, MatchExchangeFits, ReadAnchorFits, WriteExchangeFits, ReviewEndsFits DEF I!Review
<1> QED
  BY <1>1, Elsewise, SubmitLabelFits, NothingReviewed DEF Reviewing

-----------------------------------------------------------------------------
(* Reviews that follow each other: the latest decision stands *)

\* The tables that a command's decision has yet to reach.
Ahead(v, p) == v.at \in OfLabels /\ \E i \in v.table .. 3 : I!Tables[i] = p

\* The decisions that a projection shows.
SettledIn(ds, cmds, p) == {d \in ds : \A r \in Reviewers : Ahead(cmds[r], p) => d # DecisionOf(cmds[r])}

Newest(ds) == CHOOSE d \in ds : \A e \in ds : e.at <= d.at

\* Of the labels of an address, the one that was approved last.
Gives(d, a, p) ==
  /\ d.decision = "APPROVED"
  /\ \E l \in DOMAIN Labels :
        d.subject = <<"label", l>> /\ Labels[l].address = a /\ I!Concerns(l, p)
Given(ds, a, p) == {d \in ds : Gives(d, a, p)}
Owner(ds, a, p) == IF Given(ds, a, p) = {} THEN <<>> ELSE Newest(Given(ds, a, p)).subject

About(ds, s) == {d \in ds : d.subject = s}
Stands(ds, s) == About(ds, s) # {} /\ Newest(About(ds, s)).decision = "APPROVED"

\* Decisions are told apart by their times, and the newest is the last command's.
InOrder(ds, now) ==
  /\ \A d \in ds : d.at \in Nat /\ d.at <= now
  /\ \A d, e \in ds : d.at = e.at => d = e

\* A projection shows what the decisions say.
Shows(t, p, ds) ==
  /\ p # "exchange" => \A a \in I!Addresses : t[p][a].of = Owner(ds, a, p)
  /\ \A a \in I!Addresses :
        LET row == t[p][a]
        IN  row.of # <<>> /\ row.of[1] = "label" =>
              /\ \E l \in DOMAIN Labels : /\ row.of = <<"label", l>>
                                          /\ Labels[l].address = a /\ I!Concerns(l, p)
              /\ row.active <=> Stands(ds, row.of)

\* The table has the row of a label.
Has(t, p, s) == t[p][Labels[s[2]].address].of = s

OneAtATime(cmds, ds, t, now) ==
  /\ \A r, q \in Reviewers : cmds[r].at # "idle" /\ cmds[q].at # "idle" => r = q
  /\ \A r \in Reviewers : cmds[r].at # "idle" => cmds[r].time = now
  /\ \A r \in Reviewers : cmds[r].at = "record" => \A d \in ds : d.at < now
  /\ \A r \in Reviewers : cmds[r].at = "write" =>
        LET p == I!Tables[cmds[r].table]
        IN  /\ I!Concerns(cmds[r].subject[2], p)
            /\ cmds[r].decision = "APPROVED" \/ Has(t, p, cmds[r].subject)

LatestAt(cmds, ds, t, now) ==
  /\ InOrder(ds, now) /\ OneAtATime(cmds, ds, t, now)
  /\ \A p \in Projections : Shows(t, p, SettledIn(ds, cmds, p))

LatestInv == sequential => LatestAt(reviewer, reviews, attributed, bounds.reviews)

-----------------------------------------------------------------------------
(* What one more decision changes *)

LEMMA NewestIs ==
  ASSUME NEW ds, NEW n, InOrder(ds, n), NEW d \in ds, \A e \in ds : e.at <= d.at
  PROVE  Newest(ds) = d
<1>1. \A x \in ds : (\A e \in ds : e.at <= x.at) => x = d
  BY DEF InOrder
<1> QED
  BY <1>1 DEF Newest

LEMMA PartInOrder ==
  ASSUME NEW ds, NEW n, InOrder(ds, n), NEW part, part \subseteq ds
  PROVE  InOrder(part, n)
BY DEF InOrder

\* A label has one address, and is the subject of its own decisions.
LEMMA OneAddress ==
  ASSUME NEW l, NEW k, <<"label", l>> = <<"label", k>>
  PROVE  l = k
OBVIOUS

\* A later decision that gives the address nothing leaves its owner.
LEMMA OwnerStays ==
  ASSUME NEW ds, NEW d, NEW a, NEW p, ~Gives(d, a, p)
  PROVE  Owner(ds \cup {d}, a, p) = Owner(ds, a, p)
<1>1. Given(ds \cup {d}, a, p) = Given(ds, a, p)
  BY DEF Given
<1> QED
  BY <1>1 DEF Owner

LEMMA NothingGiven ==
  ASSUME NEW d, d.decision # "APPROVED"
  PROVE  \A a, p : ~Gives(d, a, p)
BY DEF Gives

LEMMA OwnerBecomes ==
  ASSUME NEW ds, NEW d, NEW n, InOrder(ds \cup {d}, n), \A e \in ds : e.at < d.at, NEW a, NEW p,
         Gives(d, a, p)
  PROVE  Owner(ds \cup {d}, a, p) = d.subject
<1> DEFINE g == Given(ds \cup {d}, a, p)
<1>1. d \in g /\ g \subseteq ds \cup {d}
  BY DEF Given
<1>2. InOrder(g, n)
  BY <1>1, PartInOrder
<1>3. \A e \in g : e.at <= d.at
  BY <1>1 DEF InOrder
<1> HIDE DEF g
<1>4. Newest(g) = d
  BY <1>1, <1>2, <1>3, NewestIs
<1> QED
  BY <1>1, <1>4 DEF Owner, g

LEMMA StandsStays ==
  ASSUME NEW ds, NEW d, NEW s, d.subject # s
  PROVE  Stands(ds \cup {d}, s) = Stands(ds, s)
<1>1. About(ds \cup {d}, s) = About(ds, s)
  BY DEF About
<1> QED
  BY <1>1 DEF Stands

LEMMA StandsBecomes ==
  ASSUME NEW ds, NEW d, NEW n, InOrder(ds \cup {d}, n), \A e \in ds : e.at < d.at
  PROVE  Stands(ds \cup {d}, d.subject) <=> d.decision = "APPROVED"
<1> DEFINE g == About(ds \cup {d}, d.subject)
<1>1. d \in g /\ g \subseteq ds \cup {d}
  BY DEF About
<1> HIDE DEF g
<1>2. InOrder(g, n)
  BY <1>1, PartInOrder
<1>3. \A e \in g : e.at <= d.at
  BY <1>1 DEF InOrder
<1>4. Newest(g) = d
  BY <1>1, <1>2, <1>3, NewestIs
<1> QED
  BY <1>1, <1>4 DEF Stands, g

\* A decision that a projection neither takes nor has taken leaves it as it is.
LEMMA ShowsStill ==
  ASSUME NEW t, NEW p \in Projections, NEW ds, NEW d, Shows(t, p, ds),
         \/ d.subject[1] # "label"
         \/ \E l \in DOMAIN Labels :
               /\ d.subject = <<"label", l>>
               /\ \/ ~I!Concerns(l, p)
                  \/ d.decision # "APPROVED" /\ t[p][Labels[l].address].of # d.subject
  PROVE  Shows(t, p, ds \cup {d})
<1>1. \A a : ~Gives(d, a, p)
  <2>1. CASE d.subject[1] # "label"
    <3>1. \A l : d.subject # <<"label", l>>
      BY <2>1
    <3> QED
      BY <3>1 DEF Gives
  <2>2. CASE d.decision # "APPROVED"
    BY <2>2, NothingGiven
  <2>3. ASSUME NEW l \in DOMAIN Labels, d.subject = <<"label", l>>, ~I!Concerns(l, p)
        PROVE  \A a : ~Gives(d, a, p)
    <3>1. \A k \in DOMAIN Labels : d.subject = <<"label", k>> => ~I!Concerns(k, p)
      BY <2>3, OneAddress
    <3> QED
      BY <3>1 DEF Gives
  <2> QED
    BY <2>1, <2>2, <2>3
<1>2. \A a \in I!Addresses : Owner(ds \cup {d}, a, p) = Owner(ds, a, p)
  BY <1>1, OwnerStays
<1>3. ASSUME NEW a \in I!Addresses, t[p][a].of # <<>>, t[p][a].of[1] = "label"
      PROVE  Stands(ds \cup {d}, t[p][a].of) = Stands(ds, t[p][a].of)
  <2>1. PICK l \in DOMAIN Labels : t[p][a].of = <<"label", l>> /\ Labels[l].address = a /\ I!Concerns(l, p)
    BY <1>3 DEF Shows
  <2>2. d.subject # t[p][a].of
    BY <2>1, <1>3, OneAddress
  <2> QED
    BY <2>2, StandsStays
<1> QED
  BY <1>2, <1>3 DEF Shows

\* A row that is written for a label shows its decision.
LEMMA ShowsWritten ==
  ASSUME NEW t, NEW new, NEW p \in Projections, NEW ds, NEW d, NEW n, Shows(t, p, ds),
         InOrder(ds \cup {d}, n), \A e \in ds : e.at < d.at,
         NEW l \in DOMAIN Labels, d.subject = <<"label", l>>, I!Concerns(l, p),
         d.decision = "APPROVED" \/ t[p][Labels[l].address].of = d.subject,
         \A a \in I!Addresses : a # Labels[l].address => new[p][a] = t[p][a],
         new[p][Labels[l].address].of = d.subject,
         new[p][Labels[l].address].active <=> d.decision = "APPROVED"
  PROVE  Shows(new, p, ds \cup {d})
<1> DEFINE b == Labels[l].address
<1>1. ASSUME NEW a \in I!Addresses, a # b
      PROVE  /\ new[p][a] = t[p][a] /\ Owner(ds \cup {d}, a, p) = Owner(ds, a, p)
             /\ t[p][a].of # <<>> /\ t[p][a].of[1] = "label" =>
                   Stands(ds \cup {d}, t[p][a].of) = Stands(ds, t[p][a].of)
  <2>1. ~Gives(d, a, p)
    BY <1>1, OneAddress DEF Gives
  <2>2. ASSUME t[p][a].of # <<>>, t[p][a].of[1] = "label"
        PROVE  t[p][a].of # d.subject
    BY <1>1, <2>2, OneAddress DEF Shows
  <2>3. Owner(ds \cup {d}, a, p) = Owner(ds, a, p)
    BY <2>1, OwnerStays
  <2>4. t[p][a].of # <<>> /\ t[p][a].of[1] = "label" =>
          Stands(ds \cup {d}, t[p][a].of) = Stands(ds, t[p][a].of)
    BY <2>2, StandsStays
  <2> QED
    BY <1>1, <2>3, <2>4
<1>2. Stands(ds \cup {d}, d.subject) <=> d.decision = "APPROVED"
  BY StandsBecomes
<1>3. ASSUME p # "exchange"
      PROVE  b \in I!Addresses => Owner(ds \cup {d}, b, p) = d.subject
  <2>1. CASE d.decision = "APPROVED"
    <3>1. Gives(d, b, p)
      BY <2>1 DEF Gives
    <3> QED
      BY <3>1, OwnerBecomes
  <2>2. CASE d.decision # "APPROVED"
    <3>1. ~Gives(d, b, p)
      BY <2>2, NothingGiven
    <3>2. Owner(ds \cup {d}, b, p) = Owner(ds, b, p)
      BY <3>1, OwnerStays
    <3> QED
      BY <1>3, <2>2, <3>2 DEF Shows
  <2> QED
    BY <2>1, <2>2
<1>4. p # "exchange" => \A a \in I!Addresses : new[p][a].of = Owner(ds \cup {d}, a, p)
  BY <1>1, <1>3 DEF Shows
<1>5. \A a \in I!Addresses :
        new[p][a].of # <<>> /\ new[p][a].of[1] = "label" =>
              /\ \E k \in DOMAIN Labels : /\ new[p][a].of = <<"label", k>>
                                          /\ Labels[k].address = a /\ I!Concerns(k, p)
              /\ new[p][a].active <=> Stands(ds \cup {d}, new[p][a].of)
  <2>1. ASSUME NEW a \in I!Addresses, a = b
        PROVE  /\ new[p][a].of = <<"label", l>> /\ Labels[l].address = a /\ I!Concerns(l, p)
               /\ new[p][a].active <=> Stands(ds \cup {d}, new[p][a].of)
    BY <1>2, <2>1
  <2>2. ASSUME NEW a \in I!Addresses, a # b, new[p][a].of # <<>>, new[p][a].of[1] = "label"
        PROVE  /\ \E k \in DOMAIN Labels : /\ new[p][a].of = <<"label", k>>
                                           /\ Labels[k].address = a /\ I!Concerns(k, p)
               /\ new[p][a].active <=> Stands(ds \cup {d}, new[p][a].of)
    <3>1. new[p][a] = t[p][a]
          /\ Stands(ds \cup {d}, t[p][a].of) = Stands(ds, t[p][a].of)
      BY <1>1, <2>2
    <3> QED
      BY <2>2, <3>1 DEF Shows
  <2> HIDE DEF b
  <2> QED
    BY <2>1, <2>2
<1> QED
  BY <1>4, <1>5 DEF Shows

-----------------------------------------------------------------------------
(* Every step, when reviews follow each other *)

LEMMA OthersIdle ==
  ASSUME NEW cmds, NEW ds, NEW t, NEW now, OneAtATime(cmds, ds, t, now), NEW r \in Reviewers, cmds[r].at # "idle"
  PROVE  \A q \in Reviewers \ {r} : cmds[q].at = "idle"
BY DEF OneAtATime

Without(ds, v, p) == IF Ahead(v, p) THEN ds \ {DecisionOf(v)} ELSE ds

LEMMA SettledBy ==
  ASSUME NEW cmds, NEW ds, NEW r \in Reviewers, \A q \in Reviewers \ {r} : cmds[q].at = "idle"
  PROVE  \A p : SettledIn(ds, cmds, p) = Without(ds, cmds[r], p)
<1>1. \A q \in Reviewers \ {r} : \A p : ~Ahead(cmds[q], p)
  BY DEF Ahead, OfLabels
<1> QED
  BY <1>1 DEF SettledIn, Without

LEMMA SettledAtRest ==
  ASSUME NEW cmds, NEW ds, \A q \in Reviewers : cmds[q].at = "idle"
  PROVE  \A p : SettledIn(ds, cmds, p) = ds
<1>1. \A q \in Reviewers : \A p : ~Ahead(cmds[q], p)
  BY DEF Ahead, OfLabels
<1> QED
  BY <1>1 DEF SettledIn

\* The step of the one command that is on its way.
LEMMA OneStill ==
  ASSUME NEW cmds, NEW ds, NEW t, NEW now, OneAtATime(cmds, ds, t, now), NEW r \in Reviewers,
         cmds[r].at # "idle", NEW next, NEW ds2, NEW t2, \A q \in Reviewers \ {r} : next[q] = cmds[q],
         next[r].at # "record", next[r].at # "idle" => next[r].time = cmds[r].time,
         next[r].at = "write" =>
            /\ I!Concerns(next[r].subject[2], I!Tables[next[r].table])
            /\ next[r].decision = "APPROVED" \/ Has(t2, I!Tables[next[r].table], next[r].subject)
  PROVE  OneAtATime(next, ds2, t2, now)
<1>1. \A q \in Reviewers \ {r} : next[q].at = "idle"
  BY OthersIdle
<1>2. \A q, x \in Reviewers : next[q].at # "idle" /\ next[x].at # "idle" => q = x
  BY <1>1
<1>3. \A q \in Reviewers : next[q].at # "idle" => next[q].time = now
  BY <1>1 DEF OneAtATime
<1>4. \A q \in Reviewers : next[q].at # "record"
  BY <1>1
<1>5. \A q \in Reviewers : next[q].at = "write" => q = r
  BY <1>1
<1> QED
  BY <1>2, <1>3, <1>4, <1>5 DEF OneAtATime

\* How far a decision has got: through one more table.
LEMMA AheadStep ==
  ASSUME NEW u, u.at \in OfLabels, u.table \in 1 .. 3, NEW v,
         \/ u.table = 3 /\ v.at = "idle"
         \/ v.at = "check" /\ v.table = u.table + 1 /\ u.table \in 1 .. 2
  PROVE  /\ ~Ahead(v, I!Tables[u.table]) /\ Ahead(u, I!Tables[u.table])
         /\ \A p : p # I!Tables[u.table] => (Ahead(v, p) <=> Ahead(u, p))
<1> DEFINE T == I!Tables
           i == u.table
<1>1. \A j, k \in 1 .. 3 : T[j] = T[k] => j = k
  BY TablesAre
<1> HIDE DEF T
<1>2. i \in 1 .. 3
  OBVIOUS
<1>3. Ahead(u, T[i])
  BY <1>2 DEF Ahead, T
<1>4. CASE i = 3 /\ v.at = "idle"
  <2>1. \A p : ~Ahead(v, p)
    BY <1>4 DEF Ahead, OfLabels
  <2>2. \A p : p # T[i] => ~Ahead(u, p)
    BY <1>4 DEF Ahead, T
  <2> QED
    BY <1>3, <2>1, <2>2 DEF T
<1>5. CASE v.at = "check" /\ v.table = i + 1 /\ i \in 1 .. 2
  <2>1. v.at \in OfLabels
    BY <1>5 DEF OfLabels
  <2>2. \A p : Ahead(v, p) <=> \E j \in (i + 1) .. 3 : T[j] = p
    BY <1>5, <2>1 DEF Ahead, T
  <2>3. \A p : Ahead(u, p) <=> \E j \in i .. 3 : T[j] = p
    BY DEF Ahead, T
  <2>4. \A j \in (i + 1) .. 3 : j # i /\ j \in 1 .. 3 /\ j \in i .. 3
    BY <1>5
  <2>5. \A j \in i .. 3 : j = i \/ j \in (i + 1) .. 3
    BY <1>5
  <2>6. ~Ahead(v, T[i])
    BY <1>1, <1>2, <2>2, <2>4
  <2>7. \A p : p # T[i] => (Ahead(v, p) <=> Ahead(u, p))
    BY <2>2, <2>3, <2>4, <2>5
  <2> QED
    BY <1>3, <2>6, <2>7 DEF T
<1> QED
  BY <1>4, <1>5

LEMMA AddedInOrder ==
  ASSUME NEW ds, NEW now \in Nat, InOrder(ds, now), \A e \in ds : e.at < now, NEW d, d.at = now
  PROVE  InOrder(ds \cup {d}, now) /\ d \notin ds
<1>1. \A e \in ds : e.at # d.at
  BY DEF InOrder
<1> QED
  BY <1>1 DEF InOrder

\* Of decisions in order, that of the present time is the last.
LEMMA TheLast ==
  ASSUME NEW ds, NEW now \in Nat, InOrder(ds, now), NEW d \in ds, d.at = now
  PROVE  \A e \in ds \ {d} : e.at < now
<1>1. \A e \in ds \ {d} : e.at # now /\ e.at <= now /\ e.at \in Nat
  BY DEF InOrder
<1> QED
  BY <1>1

\* A table that a decision passes by, or takes.
LEMMA TablePassed ==
  ASSUME NEW cmds, NEW ds, NEW t, NEW now \in Nat, LatestAt(cmds, ds, t, now), NEW r \in Reviewers,
         cmds[r].at \in OfLabels, cmds[r].table \in 1 .. 3, DecisionOf(cmds[r]) \in ds,
         NEW next, \A q \in Reviewers \ {r} : next[q] = cmds[q],
         \/ cmds[r].table = 3 /\ next[r].at = "idle"
         \/ /\ next[r].at = "check" /\ next[r].table = cmds[r].table + 1 /\ cmds[r].table \in 1 .. 2
            /\ DecisionOf(next[r]) = DecisionOf(cmds[r]) /\ next[r].time = cmds[r].time,
         NEW t2, \A p \in Projections : p # I!Tables[cmds[r].table] => t2[p] = t[p],
         Shows(t, I!Tables[cmds[r].table], ds \ {DecisionOf(cmds[r])})
            /\ InOrder(ds, now) /\ (\A e \in ds \ {DecisionOf(cmds[r])} : e.at < now)
         => Shows(t2, I!Tables[cmds[r].table], ds)
  PROVE  LatestAt(next, ds, t2, now)
<1> DEFINE u == cmds[r]
           v == next[r]
           d == DecisionOf(u)
           here == I!Tables[u.table]
<1>0. InOrder(ds, now) /\ OneAtATime(cmds, ds, t, now) /\ u.at # "idle"
  BY DEF LatestAt, OfLabels
<1>1. \A q \in Reviewers \ {r} : cmds[q].at = "idle" /\ next[q].at = "idle"
  BY <1>0, OthersIdle
<1>2. \A p : SettledIn(ds, cmds, p) = Without(ds, u, p)
  BY <1>1, SettledBy
<1>3. \A p : SettledIn(ds, next, p) = Without(ds, v, p)
  BY <1>1, SettledBy
<1>4. /\ ~Ahead(v, here) /\ Ahead(u, here)
      /\ \A p : p # here => (Ahead(v, p) <=> Ahead(u, p))
  BY AheadStep
<1>5. \A p : p # here => Without(ds, v, p) = Without(ds, u, p)
  <2>1. \A p : Ahead(v, p) => DecisionOf(v) = d
    BY DEF Ahead, OfLabels
  <2> QED
    BY <1>4, <2>1 DEF Without
<1>6. Without(ds, u, here) = ds \ {d} /\ Without(ds, v, here) = ds
  BY <1>4 DEF Without
<1>7. here \in Projections
  BY TablesAre
<1>8. u.time = now
  BY <1>0 DEF OneAtATime
<1>9. \A e \in ds \ {d} : e.at < now
  <2>1. d.at = now
    BY <1>8 DEF DecisionOf
  <2> QED
    BY <1>0, <2>1, TheLast
<1>10. Shows(t, here, ds \ {d})
  BY <1>2, <1>6, <1>7 DEF LatestAt
<1>11. Shows(t2, here, ds)
  BY <1>0, <1>9, <1>10
<1>12. ASSUME NEW p \in Projections, p # here
       PROVE  Shows(t2, p, Without(ds, v, p))
  <2>1. Shows(t, p, Without(ds, v, p))
    BY <1>2, <1>5, <1>12 DEF LatestAt
  <2> QED
    BY <1>12, <2>1 DEF Shows
<1>13. \A p \in Projections : Shows(t2, p, SettledIn(ds, next, p))
  BY <1>3, <1>6, <1>11, <1>12
<1>14. OneAtATime(next, ds, t2, now)
  BY <1>0, OneStill
<1> QED
  BY <1>0, <1>13, <1>14 DEF LatestAt

\* A step that reaches no table and records nothing keeps what is settled.
LEMMA NothingReached ==
  ASSUME NEW cmds, NEW ds, NEW t, NEW now, LatestAt(cmds, ds, t, now), NEW r \in Reviewers,
         cmds[r].at # "idle", NEW next, \A q \in Reviewers \ {r} : next[q] = cmds[q],
         next[r].at # "record", next[r].at # "idle" => next[r].time = cmds[r].time,
         next[r].at = "write" =>
            /\ I!Concerns(next[r].subject[2], I!Tables[next[r].table])
            /\ next[r].decision = "APPROVED" \/ Has(t, I!Tables[next[r].table], next[r].subject),
         \A p : Without(ds, next[r], p) = Without(ds, cmds[r], p)
  PROVE  LatestAt(next, ds, t, now)
<1>1. OneAtATime(cmds, ds, t, now) /\ InOrder(ds, now)
  BY DEF LatestAt
<1>2. \A q \in Reviewers \ {r} : cmds[q].at = "idle" /\ next[q].at = "idle"
  BY <1>1, OthersIdle
<1>3. \A p : SettledIn(ds, cmds, p) = Without(ds, cmds[r], p)
  BY <1>2, SettledBy
<1>4. \A p : SettledIn(ds, next, p) = Without(ds, next[r], p)
  BY <1>2, SettledBy
<1>5. OneAtATime(next, ds, t, now)
  BY <1>1, OneStill
<1>6. \A p \in Projections : Shows(t, p, SettledIn(ds, next, p))
  BY <1>3, <1>4 DEF LatestAt
<1> QED
  BY <1>1, <1>5, <1>6 DEF LatestAt

LEMMA NotAhead ==
  ASSUME NEW v, v.at \notin OfLabels
  PROVE  \A p, ds : Without(ds, v, p) = ds
BY DEF Without, Ahead

LEMMA LatestUnchanged ==
  ASSUME LatestInv, UNCHANGED <<reviewer, reviews, attributed, sequential>>, bounds'.reviews = bounds.reviews
  PROVE  LatestInv'
BY DEF LatestInv

LEMMA DecideLatest ==
  ASSUME ReviewInv, BoundsFit, LatestInv, NEW r \in Reviewers, I!Decide(r)
  PROVE  LatestInv'
<1> SUFFICES ASSUME sequential'
             PROVE  LatestAt(reviewer', reviews', attributed', bounds'.reviews)
  BY DEF LatestInv
<1> DEFINE now == bounds.reviews
           n == now + 1
<1>1. PICK s, d : reviewer' = [reviewer EXCEPT ![r] =
            [I!NoReview EXCEPT !.at = "record", !.subject = s, !.decision = d, !.time = n]]
  BY DEF I!Decide
<1> DEFINE v == [I!NoReview EXCEPT !.at = "record", !.subject = s, !.decision = d, !.time = n]
<1>2. v.at = "record" /\ v.time = n
  BY DEF I!NoReview
<1>3. Turns(r, v)
  BY <1>1, Stepped
<1> HIDE DEF v
<1>4. sequential /\ \A q \in Reviewers : reviewer[q].at = "idle"
  BY DEF I!Decide, I!Busy
<1>5. reviews' = reviews /\ attributed' = attributed /\ bounds'.reviews = n /\ now \in Nat
  BY DEF I!Decide, BoundsFit, BoundFields
<1>6. LatestAt(reviewer, reviews, attributed, now)
  BY <1>4 DEF LatestInv
<1>7. InOrder(reviews, n) /\ \A d1 \in reviews : d1.at < n
  BY <1>5, <1>6 DEF LatestAt, InOrder
<1>8. \A q \in Reviewers \ {r} : reviewer'[q].at = "idle"
  BY <1>3, <1>4 DEF Turns
<1>9. OneAtATime(reviewer', reviews, attributed, n)
  BY <1>2, <1>3, <1>7, <1>8 DEF OneAtATime, Turns
<1>10. \A p : SettledIn(reviews, reviewer, p) = reviews
  BY <1>4, SettledAtRest
<1>11. \A p : SettledIn(reviews, reviewer', p) = Without(reviews, reviewer'[r], p)
  BY <1>8, SettledBy
<1>12. \A p : Without(reviews, reviewer'[r], p) = reviews
  BY <1>2, <1>3, NotAhead DEF Turns, OfLabels
<1>13. \A p \in Projections : Shows(attributed, p, SettledIn(reviews, reviewer', p))
  BY <1>6, <1>10, <1>11, <1>12 DEF LatestAt
<1> HIDE DEF n
<1> QED
  BY <1>5, <1>7, <1>9, <1>13 DEF LatestAt

LEMMA RecordLatest ==
  ASSUME ReviewInv, BoundsFit, LatestInv, NEW r \in Reviewers, I!Record(r)
  PROVE  LatestInv'
<1> SUFFICES ASSUME sequential'
             PROVE  LatestAt(reviewer', reviews', attributed', bounds'.reviews)
  BY DEF LatestInv
<1> DEFINE u == reviewer[r]
           now == bounds.reviews
           d == DecisionOf(u)
<1>1. PICK v : /\ Turns(r, v) /\ IsCommand(v) /\ v.table = 1
               /\ v.at = IF u.subject[1] = "label" THEN "check" ELSE "version"
               /\ v.subject = u.subject /\ v.decision = u.decision /\ v.time = u.time
  BY RecordTurns
<1>2. u.at = "record" /\ reviews' = reviews \cup {d} /\ attributed' = attributed /\ bounds' = bounds /\ sequential
  BY DEF I!Record, DecisionOf
<1>3. LatestAt(reviewer, reviews, attributed, now) /\ now \in Nat
  BY <1>2 DEF LatestInv, BoundsFit
<1>4. OneAtATime(reviewer, reviews, attributed, now) /\ InOrder(reviews, now)
  BY <1>3 DEF LatestAt
<1>5. u.time = now /\ \A e \in reviews : e.at < now
  BY <1>2, <1>4 DEF OneAtATime
<1>6. InOrder(reviews \cup {d}, now) /\ d \notin reviews
  <2>1. d.at = now
    BY <1>5 DEF DecisionOf
  <2> QED
    BY <1>3, <1>4, <1>5, <2>1, AddedInOrder
<1>7. \A q \in Reviewers \ {r} : reviewer[q].at = "idle" /\ reviewer'[q].at = "idle"
  BY <1>1, <1>2, <1>4, OthersIdle DEF Turns
<1>8. \A p : SettledIn(reviews, reviewer, p) = reviews
  BY <1>2, <1>7, SettledAtRest, NotAhead, SettledBy DEF OfLabels
<1>9. \A p : SettledIn(reviews', reviewer', p) = Without(reviews', v, p)
  BY <1>1, <1>7, SettledBy DEF Turns
<1>10. DecisionOf(v) = d
  BY <1>1 DEF DecisionOf
<1>11. OneAtATime(reviewer', reviews', attributed, now)
  BY <1>1, <1>2, <1>4, OneStill DEF Turns
<1>12. CASE u.subject[1] = "label"
  <2>1. \A p \in Projections : Ahead(v, p)
    BY <1>1, <1>12, TablesAre DEF Ahead, OfLabels, Projections
  <2>2. \A p \in Projections : Without(reviews', v, p) = reviews
    BY <1>2, <1>6, <1>10, <2>1 DEF Without
  <2>3. \A p \in Projections : Shows(attributed, p, SettledIn(reviews', reviewer', p))
    BY <1>3, <1>8, <1>9, <2>2 DEF LatestAt
  <2> QED
    BY <1>2, <1>6, <1>11, <2>3 DEF LatestAt
<1>13. CASE u.subject[1] # "label"
  <2>1. \A p : Without(reviews', v, p) = reviews'
    BY <1>1, <1>13, NotAhead DEF OfLabels
  <2>2. d.subject[1] # "label"
    BY <1>13 DEF DecisionOf
  <2>3. \A p \in Projections : Shows(attributed, p, reviews \cup {d})
    BY <1>3, <1>8, <2>2, ShowsStill DEF LatestAt
  <2>4. \A p \in Projections : Shows(attributed, p, SettledIn(reviews', reviewer', p))
    BY <1>2, <1>9, <2>1, <2>3
  <2> QED
    BY <1>2, <1>6, <1>11, <2>4 DEF LatestAt
<1> QED
  BY <1>12, <1>13

\* The subject of a label's command and its address.
LEMMA TheLabel ==
  ASSUME ReviewInv, NEW r \in Reviewers, reviewer[r].at \in OfLabels
  PROVE  /\ \E l \in DOMAIN Labels : reviewer[r].subject = <<"label", l>>
         /\ reviewer[r].table \in 1 .. 3 /\ DecisionOf(reviewer[r]) \in reviews
         /\ I!AddressOf(reviewer[r].subject) = Labels[reviewer[r].subject[2]].address
<1>1. CommandFits(reviewer[r], labels, reviews)
  BY TheCommand
<1>2. reviewer[r].subject[1] = "label" /\ reviewer[r].at # "idle" /\ reviewer[r].at \in OfLabels \cup OfClaims
  BY <1>1 DEF CommandFits, OfLabels
<1>3. \E l \in labels : reviewer[r].subject = <<"label", l>>
  BY <1>1, <1>2 DEF CommandFits, Known
<1> QED
  BY <1>1, <1>2, <1>3 DEF CommandFits, ReviewInv, DecisionsKnown, I!AddressOf, I!IsLabel

LEMMA CheckLatest ==
  ASSUME ReviewInv, BoundsFit, LatestInv, NEW r \in Reviewers, I!Check(r)
  PROVE  LatestInv'
<1> SUFFICES ASSUME sequential'
             PROVE  LatestAt(reviewer', reviews', attributed', bounds'.reviews)
  BY DEF LatestInv
<1> DEFINE u == reviewer[r]
           now == bounds.reviews
           d == DecisionOf(u)
           here == I!Tables[u.table]
<1>1. /\ u.at = "check" /\ reviews' = reviews /\ attributed' = attributed /\ bounds' = bounds /\ sequential
      /\ \/ /\ I!Goes(r, "write") /\ I!Concerns(u.subject[2], here)
            /\ u.decision = "APPROVED" \/ I!Matches(here, u.subject)
         \/ /\ I!NextTable(r)
            /\ \/ ~I!Concerns(u.subject[2], here)
               \/ u.decision # "APPROVED" /\ ~I!Matches(here, u.subject)
  BY DEF I!Check, I!Approves
<1>2. LatestAt(reviewer, reviews, attributed, now) /\ now \in Nat /\ u.at \in OfLabels
  BY <1>1 DEF LatestInv, BoundsFit, OfLabels
<1>3. PICK l \in DOMAIN Labels : u.subject = <<"label", l>>
  BY <1>2, TheLabel
<1>4. u.table \in 1 .. 3 /\ d \in reviews /\ I!AddressOf(u.subject) = Labels[l].address /\ u.subject[2] = l
  BY <1>2, <1>3, TheLabel
<1>5. I!Matches(here, u.subject) <=> attributed[here][Labels[l].address].of = u.subject
  BY <1>4 DEF I!Matches, I!Row
<1>6. CASE /\ I!Goes(r, "write") /\ I!Concerns(u.subject[2], here)
           /\ u.decision = "APPROVED" \/ I!Matches(here, u.subject)
  <2> DEFINE v == [u EXCEPT !.at = "write"]
  <2>1. /\ Turns(r, v) /\ v.at = "write" /\ v.subject = u.subject /\ v.decision = u.decision
        /\ v.time = u.time /\ v.table = u.table
    BY <1>6, Goes
  <2> HIDE DEF v
  <2>2. v.decision = "APPROVED" \/ Has(attributed, here, v.subject)
    BY <1>4, <1>5, <1>6, <2>1 DEF Has
  <2>3. DecisionOf(v) = d
    BY <2>1 DEF DecisionOf
  <2>4. \A p : Without(reviews, v, p) = Without(reviews, u, p)
    BY <1>2, <2>1, <2>3 DEF Without, Ahead, OfLabels
  <2>5. LatestAt(reviewer', reviews, attributed, now)
    BY <1>1, <1>2, <1>6, <2>1, <2>2, <2>4, NothingReached DEF Turns
  <2> QED
    BY <1>1, <2>5
<1>7. CASE /\ I!NextTable(r)
           /\ \/ ~I!Concerns(u.subject[2], here)
              \/ u.decision # "APPROVED" /\ ~I!Matches(here, u.subject)
  <2>1. \/ u.table = 3 /\ Turns(r, I!NoReview)
        \/ \E v : /\ u.table \in 1 .. 2 /\ Turns(r, v) /\ IsCommand(v) /\ v.at = "check"
                  /\ v.table = u.table + 1 /\ v.subject = u.subject /\ v.decision = u.decision
                  /\ v.time = u.time
    BY <1>2, <1>7, GoesOn
  <2>2. /\ \A q \in Reviewers \ {r} : reviewer'[q] = reviewer[q]
        /\ \/ u.table = 3 /\ reviewer'[r].at = "idle"
           \/ /\ reviewer'[r].at = "check" /\ reviewer'[r].table = u.table + 1 /\ u.table \in 1 .. 2
              /\ DecisionOf(reviewer'[r]) = d /\ reviewer'[r].time = u.time
    BY <2>1, NoReviewFits DEF Turns, DecisionOf
  <2>3. d.subject = u.subject /\ d.decision = u.decision
    BY DEF DecisionOf
  <2>4. here \in Projections
    BY <1>4, TablesAre
  <2>5. Shows(attributed, here, reviews \ {d}) => Shows(attributed, here, (reviews \ {d}) \cup {d})
    BY <1>3, <1>4, <1>5, <1>7, <2>3, <2>4, ShowsStill
  <2>6. (reviews \ {d}) \cup {d} = reviews
    BY <1>4
  <2> HIDE DEF d, here
  <2>7. Shows(attributed, here, reviews \ {d}) => Shows(attributed, here, reviews)
    BY <2>5, <2>6
  <2>8. LatestAt(reviewer', reviews, attributed, now)
    BY <1>2, <1>4, <2>2, <2>7, TablePassed DEF d, here
  <2> QED
    BY <1>1, <2>8
<1> QED
  BY <1>1, <1>6, <1>7

LEMMA WriteLatest ==
  ASSUME ReviewInv, BoundsFit, LatestInv, NEW r \in Reviewers, I!Write(r)
  PROVE  LatestInv'
<1> SUFFICES ASSUME sequential'
             PROVE  LatestAt(reviewer', reviews', attributed', bounds'.reviews)
  BY DEF LatestInv
<1> DEFINE u == reviewer[r]
           now == bounds.reviews
           d == DecisionOf(u)
           here == I!Tables[u.table]
           new == [of |-> u.subject, active |-> I!Approves(r), version |-> 0]
<1>1. /\ u.at = "write" /\ reviews' = reviews /\ bounds' = bounds /\ sequential /\ I!NextTable(r)
      /\ attributed' = [attributed EXCEPT ![here][I!AddressOf(u.subject)] = new]
  BY DEF I!Write, I!WriteRow
<1>2. LatestAt(reviewer, reviews, attributed, now) /\ now \in Nat /\ u.at \in OfLabels
  BY <1>1 DEF LatestInv, BoundsFit, OfLabels
<1>3. PICK l \in DOMAIN Labels : u.subject = <<"label", l>>
  BY <1>2, TheLabel
<1>4. u.table \in 1 .. 3 /\ d \in reviews /\ I!AddressOf(u.subject) = Labels[l].address /\ u.subject[2] = l
  BY <1>2, <1>3, TheLabel
<1>5. I!Concerns(l, here) /\ (u.decision = "APPROVED" \/ attributed[here][Labels[l].address].of = u.subject)
  BY <1>1, <1>2, <1>4 DEF LatestAt, OneAtATime, Has
<1>6. here \in Projections
  BY <1>4, TablesAre
<1>7. RowsFit(attributed, reviews)
  BY DEF ReviewInv
<1>8. new.of = u.subject /\ (new.active <=> u.decision = "APPROVED")
  BY DEF I!Approves
<1>9. d.subject = u.subject /\ d.decision = u.decision
  BY DEF DecisionOf
<1>10. Labels[l].address \in I!Addresses
  BY DEF I!Addresses
<1> HIDE DEF new, here
<1>11. /\ \A p \in Projections : p # here => attributed'[p] = attributed[p]
       /\ \A a \in I!Addresses : a # Labels[l].address => attributed'[here][a] = attributed[here][a]
       /\ attributed'[here][Labels[l].address] = new
  BY <1>1, <1>4, <1>6, <1>7, <1>10 DEF RowsFit
<1>12. \/ u.table = 3 /\ Turns(r, I!NoReview)
       \/ \E v : /\ u.table \in 1 .. 2 /\ Turns(r, v) /\ IsCommand(v) /\ v.at = "check"
                 /\ v.table = u.table + 1 /\ v.subject = u.subject /\ v.decision = u.decision
                 /\ v.time = u.time
  BY <1>1, <1>2, GoesOn
<1>13. /\ \A q \in Reviewers \ {r} : reviewer'[q] = reviewer[q]
       /\ \/ u.table = 3 /\ reviewer'[r].at = "idle"
          \/ /\ reviewer'[r].at = "check" /\ reviewer'[r].table = u.table + 1 /\ u.table \in 1 .. 2
             /\ DecisionOf(reviewer'[r]) = d /\ reviewer'[r].time = u.time
  BY <1>12, NoReviewFits DEF Turns, DecisionOf
<1>14. (reviews \ {d}) \cup {d} = reviews
  BY <1>4
<1>15. d.at = now
  BY <1>1, <1>2 DEF LatestAt, OneAtATime, DecisionOf
<1> HIDE DEF d
<1>16. ASSUME Shows(attributed, here, reviews \ {d}), InOrder(reviews, now), \A e \in reviews \ {d} : e.at < now
       PROVE  Shows(attributed', here, reviews)
  <2>1. Shows(attributed', here, (reviews \ {d}) \cup {d})
    <3> DEFINE before == reviews \ {d}
    <3>1. InOrder(before \cup {d}, now) /\ \A e \in before : e.at < d.at
      BY <1>14, <1>15, <1>16
    <3>2. Shows(attributed, here, before)
      BY <1>16
    <3> HIDE DEF before
    <3>3. /\ d.subject = <<"label", l>> /\ I!Concerns(l, here)
          /\ d.decision = "APPROVED" \/ attributed[here][Labels[l].address].of = d.subject
          /\ \A a \in I!Addresses : a # Labels[l].address => attributed'[here][a] = attributed[here][a]
          /\ attributed'[here][Labels[l].address].of = d.subject
          /\ attributed'[here][Labels[l].address].active <=> d.decision = "APPROVED"
      BY <1>3, <1>5, <1>8, <1>9, <1>11
    <3>4. Shows(attributed', here, before \cup {d})
      BY <1>6, <3>1, <3>2, <3>3, ShowsWritten
    <3> QED
      BY <3>4 DEF before
  <2> QED
    BY <2>1, <1>14
<1>17. LatestAt(reviewer', reviews, attributed', now)
  <2>1. \A q \in Reviewers \ {r} : reviewer'[q] = reviewer[q]
    BY <1>13
  <2>2. \/ reviewer[r].table = 3 /\ reviewer'[r].at = "idle"
        \/ /\ reviewer'[r].at = "check" /\ reviewer'[r].table = reviewer[r].table + 1
           /\ reviewer[r].table \in 1 .. 2
           /\ DecisionOf(reviewer'[r]) = DecisionOf(reviewer[r]) /\ reviewer'[r].time = reviewer[r].time
    BY <1>13 DEF d
  <2>3. \A p \in Projections : p # I!Tables[reviewer[r].table] => attributed'[p] = attributed[p]
    BY <1>11 DEF here
  <2>4. Shows(attributed, I!Tables[reviewer[r].table], reviews \ {DecisionOf(reviewer[r])})
          /\ InOrder(reviews, now) /\ (\A e \in reviews \ {DecisionOf(reviewer[r])} : e.at < now)
        => Shows(attributed', I!Tables[reviewer[r].table], reviews)
    BY <1>16 DEF d, here
  <2>5. /\ DecisionOf(reviewer[r]) \in reviews /\ reviewer[r].at \in OfLabels
        /\ reviewer[r].table \in 1 .. 3 /\ LatestAt(reviewer, reviews, attributed, now)
        /\ now \in Nat
    BY <1>2, <1>4 DEF d
  <2> HIDE DEF u, now
  <2> QED
    BY <2>1, <2>2, <2>3, <2>4, <2>5, TablePassed
<1> QED
  BY <1>1, <1>17

\* The steps of a claim's command reach no table but the exchanges, in the end.
LEMMA ClaimLatest ==
  ASSUME ReviewInv, BoundsFit, LatestInv, NEW r \in Reviewers, reviewer[r].at \in OfClaims,
         UNCHANGED <<reviews, attributed, bounds, sequential>>, NEW v, Turns(r, v),
         v.at = "idle" \/ (v.at \in OfClaims /\ v.time = reviewer[r].time)
  PROVE  LatestInv'
<1> SUFFICES ASSUME sequential'
             PROVE  LatestAt(reviewer', reviews', attributed', bounds'.reviews)
  BY DEF LatestInv
<1>1. LatestAt(reviewer, reviews, attributed, bounds.reviews)
  BY DEF LatestInv
<1>2. \A p : Without(reviews, v, p) = Without(reviews, reviewer[r], p)
  BY NotAhead DEF OfClaims, OfLabels
<1>3. LatestAt(reviewer', reviews, attributed, bounds.reviews)
  BY <1>1, <1>2, NothingReached DEF Turns, OfClaims
<1> QED
  BY <1>3

LEMMA IdleTurns ==
  ASSUME ReviewInv, NEW r \in Reviewers, reviewer' = [reviewer EXCEPT ![r] = I!NoReview]
  PROVE  \E v : Turns(r, v) /\ v.at = "idle"
BY NoReviewFits, Stepped

LEMMA GoesTurns ==
  ASSUME ReviewInv, NEW r \in Reviewers, NEW place, I!Goes(r, place)
  PROVE  \E v : Turns(r, v) /\ v.at = place /\ v.time = reviewer[r].time
<1> DEFINE v == [reviewer[r] EXCEPT !.at = place]
<1>1. Turns(r, v) /\ v.at = place /\ v.time = reviewer[r].time
  BY Goes
<1> HIDE DEF v
<1> QED
  BY <1>1

LEMMA WriteExchangeLatest ==
  ASSUME ReviewInv, BoundsFit, LatestInv, NEW r \in Reviewers, I!WriteExchange(r)
  PROVE  LatestInv'
<1> SUFFICES ASSUME sequential'
             PROVE  LatestAt(reviewer', reviews', attributed', bounds'.reviews)
  BY DEF LatestInv
<1> DEFINE u == reviewer[r]
           now == bounds.reviews
           new == [of |-> u.subject, active |-> I!Approves(r), version |-> 0]
           x == I!AddressOf(u.subject)
<1>1. /\ u.at = "row" /\ reviews' = reviews /\ bounds' = bounds /\ sequential
      /\ attributed' = [attributed EXCEPT !["exchange"][x] = new]
      /\ reviewer' = [reviewer EXCEPT ![r] = I!NoReview]
  BY DEF I!WriteExchange, I!WriteRow
<1>2. LatestAt(reviewer, reviews, attributed, now) /\ RowsFit(attributed, reviews)
  BY <1>1 DEF LatestInv, ReviewInv
<1>3. new.of[1] # "label"
  BY <1>1, TheCommand DEF CommandFits, OfClaims
<1>4. PICK v : Turns(r, v) /\ v.at = "idle"
  BY <1>1, IdleTurns
<1> HIDE DEF new, x
<1>5. /\ \A p \in Projections : p # "exchange" => attributed'[p] = attributed[p]
      /\ \A a \in I!Addresses : attributed'["exchange"][a] = attributed["exchange"][a] \/ attributed'["exchange"][a] = new
  BY <1>1, <1>2 DEF RowsFit, Projections
<1>6. \A ds : \A p \in Projections : Shows(attributed, p, ds) => Shows(attributed', p, ds)
  BY <1>3, <1>5 DEF Shows
<1>7. \A p : Without(reviews, v, p) = Without(reviews, u, p)
  BY <1>1, <1>4, NotAhead DEF OfLabels
<1>8. LatestAt(reviewer', reviews, attributed, now)
  BY <1>1, <1>2, <1>4, <1>7, NothingReached DEF Turns
<1>9. OneAtATime(reviewer', reviews, attributed', now)
  <2>1. OneAtATime(reviewer, reviews, attributed, now)
    BY <1>2 DEF LatestAt
  <2> QED
    BY <1>1, <1>4, <2>1, OneStill DEF Turns
<1>10. \A p \in Projections : Shows(attributed', p, SettledIn(reviews, reviewer', p))
  BY <1>6, <1>8 DEF LatestAt
<1>11. InOrder(reviews, now)
  BY <1>2 DEF LatestAt
<1> QED
  BY <1>1, <1>9, <1>10, <1>11 DEF LatestAt

LEMMA ReviewLatest ==
  ASSUME ReviewInv, BoundsFit, LatestInv, NEW r \in Reviewers, I!Review(r)
  PROVE  LatestInv'
<1>1. ASSUME I!ReadVersion(r) \/ I!CountOthers(r) \/ I!WriteMember(r) \/ I!WriteVersion(r)
             \/ I!MatchExchange(r) \/ I!ReadAnchor(r)
      PROVE  /\ reviewer[r].at \in OfClaims /\ UNCHANGED <<reviews, attributed, bounds, sequential>>
             /\ \E v : /\ Turns(r, v)
                       /\ v.at = "idle" \/ (v.at \in OfClaims /\ v.time = reviewer[r].time)
  <2>1. reviewer[r].at \in OfClaims
    BY <1>1 DEF OfClaims, I!ReadVersion, I!CountOthers, I!WriteMember, I!WriteVersion, I!MatchExchange,
                I!ReadAnchor
  <2>2. UNCHANGED <<reviews, attributed, bounds, sequential>>
    BY <1>1 DEF I!ReadVersion, I!CountOthers, I!WriteMember, I!WriteVersion, I!MatchExchange, I!ReadAnchor
  <2>3. CASE I!ReadVersion(r) \/ I!CountOthers(r)
    BY <2>1, <2>2, <2>3, ReadVersionTurns, CountOthersTurns DEF OfClaims
  <2>4. CASE I!WriteMember(r) \/ I!WriteVersion(r)
    <3>1. I!Goes(r, "publish") \/ I!Goes(r, "match")
      BY <2>4 DEF I!WriteMember, I!WriteVersion
    <3> QED
      BY <2>1, <2>2, <3>1, GoesTurns DEF OfClaims
  <2>5. CASE I!MatchExchange(r) \/ I!ReadAnchor(r)
    <3>1. \/ I!Goes(r, "anchor") \/ I!Goes(r, "row")
          \/ reviewer' = [reviewer EXCEPT ![r] = I!NoReview]
      BY <2>5, MatchExchangeTurns, ReadAnchorTurns
    <3>2. CASE I!Goes(r, "anchor")
      BY <2>1, <2>2, <3>2, GoesTurns DEF OfClaims
    <3>3. CASE I!Goes(r, "row")
      BY <2>1, <2>2, <3>3, GoesTurns DEF OfClaims
    <3>4. CASE reviewer' = [reviewer EXCEPT ![r] = I!NoReview]
      <4>1. \E v : Turns(r, v) /\ v.at = "idle"
        BY <3>4, IdleTurns
      <4>2. \E v : /\ Turns(r, v)
                   /\ v.at = "idle" \/ (v.at \in OfClaims /\ v.time = reviewer[r].time)
        BY <4>1
      <4> QED
        BY <2>1, <2>2, <4>2
    <3> QED
      BY <3>1, <3>2, <3>3, <3>4
  <2> QED
    BY <1>1, <2>3, <2>4, <2>5
<1>2. CASE I!ReadVersion(r) \/ I!CountOthers(r) \/ I!WriteMember(r) \/ I!WriteVersion(r)
           \/ I!MatchExchange(r) \/ I!ReadAnchor(r)
  BY <1>1, <1>2, ClaimLatest
<1>3. CASE I!ReviewEnds(r)
  BY <1>3 DEF I!ReviewEnds, LatestInv
<1> QED
  BY <1>2, <1>3, DecideLatest, RecordLatest, CheckLatest, WriteLatest, WriteExchangeLatest DEF I!Review

LEMMA LatestInvKept ==
  ASSUME ReviewInv, BoundsFit, LatestInv, [I!Next]_(I!vars)
  PROVE  LatestInv'
<1>1. CASE UNCHANGED Reviewing /\ bounds'.reviews = bounds.reviews
  BY <1>1, LatestUnchanged DEF Reviewing
<1>2. ASSUME NEW l \in DOMAIN Labels, I!SubmitLabel(l)
      PROVE  LatestInv'
  BY <1>2, LatestUnchanged DEF I!SubmitLabel
<1> QED
  BY <1>1, <1>2, ReviewLatest, Elsewise

-----------------------------------------------------------------------------
(* What readers may rely on *)

LEMMA NothingUnreviewedHolds == ReviewInv => I!NothingUnreviewed
<1> SUFFICES ASSUME ReviewInv
             PROVE  I!NothingUnreviewed
  OBVIOUS
<1>1. \A s : Approved(reviews, s) => I!Approvals({s}) # {}
  BY DEF Approved, I!Approvals
<1>2. DOMAIN attributed = Projections
  BY DEF ReviewInv, RowsFit
<1> QED
  BY <1>1, <1>2 DEF ReviewInv, RowsFit, MembersFit, I!NothingUnreviewed, I!Row

LEMMA LatestDecisionHolds == ReviewInv /\ LatestInv => I!LatestDecisionStands
<1> SUFFICES ASSUME ReviewInv, LatestInv, I!AtRest
             PROVE  I!LatestDecisionStands
  BY DEF I!LatestDecisionStands
<1>1. sequential /\ \A r \in Reviewers : reviewer[r].at = "idle"
  BY DEF I!AtRest, I!Busy
<1>2. \A p \in Projections : Shows(attributed, p, reviews)
  BY <1>1, SettledAtRest DEF LatestInv, LatestAt
<1>3. \A ds : I!Final(ds) = Newest(ds)
  BY DEF I!Final, Newest
<1>4. \A s : I!ReviewsOf(s) = About(reviews, s)
  BY DEF I!ReviewsOf, About
<1>5. \A s : I!StillApproved(s) <=> Stands(reviews, s)
  BY <1>3, <1>4 DEF I!StillApproved, Stands
<1>6. DOMAIN attributed = Projections
  BY DEF ReviewInv, RowsFit
<1>7. ASSUME NEW a \in I!Addresses, NEW t \in {"entity", "seed"}
      PROVE  I!Row(t, a).of =
                LET mine == I!Approvals({I!LabelOf(l) : l \in
                              {k \in labels : Labels[k].address = a /\ I!Concerns(k, t)}})
                IN  IF mine = {} THEN <<>> ELSE I!Final(mine).subject
  <2> DEFINE own == {I!LabelOf(l) : l \in {k \in labels : Labels[k].address = a /\ I!Concerns(k, t)}}
  <2>1. ASSUME NEW d \in reviews
        PROVE  d.decision = "APPROVED" /\ d.subject \in own <=> Gives(d, a, t)
    <3>1. ASSUME Gives(d, a, t)
          PROVE  d.decision = "APPROVED" /\ d.subject \in own
      <4>1. PICK l \in DOMAIN Labels : d.subject = <<"label", l>> /\ Labels[l].address = a /\ I!Concerns(l, t)
        BY <3>1 DEF Gives
      <4>2. l \in labels
        <5>1. \E k \in labels : d.subject = <<"label", k>>
          BY <4>1 DEF ReviewInv, DecisionsKnown, Known
        <5> QED
          BY <4>1, <5>1, OneAddress
      <4> QED
        BY <3>1, <4>1, <4>2 DEF Gives, I!LabelOf
    <3>2. ASSUME d.decision = "APPROVED", d.subject \in own
          PROVE  Gives(d, a, t)
      BY <3>2 DEF Gives, I!LabelOf, ReviewInv, DecisionsKnown
    <3> QED
      BY <3>1, <3>2
  <2> HIDE DEF own
  <2>2. I!Approvals(own) = Given(reviews, a, t)
    BY <2>1 DEF I!Approvals, Given
  <2>3. attributed[t][a].of = Owner(reviews, a, t)
    BY <1>2 DEF Shows, Projections
  <2> QED
    BY <1>3, <2>2, <2>3 DEF Owner, own, I!Row
<1>8. ASSUME NEW a \in I!Addresses, NEW t \in DOMAIN attributed, I!Row(t, a).of # <<>>, I!IsLabel(I!Row(t, a).of)
      PROVE  I!Row(t, a).active <=> I!StillApproved(I!Row(t, a).of)
  BY <1>2, <1>5, <1>6, <1>8 DEF Shows, I!Row, I!IsLabel
<1> QED
  BY <1>7, <1>8 DEF I!LatestDecisionStands

-----------------------------------------------------------------------------
(* Reviews that follow each other: the versions of a cluster count its members *)

VersionsOf(vs, c) == {w \in vs : w.cluster = c}
Numbers(vs, c) == {w.version : w \in VersionsOf(vs, c)}
ActiveIn(ms, c) == {m \in DOMAIN ms : m[2] = c /\ ms[m].active}
OthersIn(ms, claim) == {m \in DOMAIN ms : m[2] = claim.cluster /\ m[1] # claim.address /\ ms[m].active}

\* The versions have the numbers from 1 on, each of them once.
Gapless(vs, c) ==
  /\ \E n \in Nat : Numbers(vs, c) = 1 .. n
  /\ \A w, x \in VersionsOf(vs, c) : w.version = x.version => w = x

\* The newest version says how many members there are.
Counts(vs, ms, c) ==
  \A w \in VersionsOf(vs, c) :
     (\A x \in VersionsOf(vs, c) : x.version <= w.version) => w.count = Cardinality(ActiveIn(ms, c))

\* What a claim's command has read is still so.
ReadFits(v, vs, ms) ==
  LET claim == v.subject[2]
  IN  /\ v.at \in {"count", "member", "publish"} =>
            v.version \in Nat \ {0} /\ Numbers(vs, claim.cluster) = 1 .. (v.version - 1)
      /\ v.at = "member" => v.others = Cardinality(OthersIn(ms, claim))
      /\ v.at = "publish" =>
            Cardinality(ActiveIn(ms, claim.cluster)) = v.others + (IF v.decision = "APPROVED" THEN 1 ELSE 0)

CountsAt(cmds, vs, ms) ==
  /\ IsFiniteSet(DOMAIN ms) /\ \A m \in DOMAIN ms : m = <<m[1], m[2]>>
  /\ \A c : Gapless(vs, c)
  /\ \A c : \/ Counts(vs, ms, c)
            \/ \E r \in Reviewers : cmds[r].at = "publish" /\ cmds[r].subject[2].cluster = c
  /\ \A r \in Reviewers : ReadFits(cmds[r], vs, ms)

CountInv == sequential => CountsAt(reviewer, versions, members)

LEMMA FiniteHere == \A S : I!Cardinality(S) = Cardinality(S)
BY DEF I!Cardinality, Cardinality

LEMMA MaxNumber ==
  ASSUME NEW n \in Nat, NEW S, S = 1 .. n
  PROVE  I!Max({0} \cup S) = n
<1> DEFINE T == {0} \cup S
<1>1. n \in T /\ (\A y \in T : n >= y) /\ (\A y \in T : y \in Int)
  OBVIOUS
<1> HIDE DEF T
<1>2. \A x \in T : (\A y \in T : x >= y) => x = n
  BY <1>1
<1> QED
  BY <1>1, <1>2 DEF I!Max, T

\* As many versions as numbers.
LEMMA VersionsCounted ==
  ASSUME NEW vs, NEW c, Gapless(vs, c), NEW n \in Nat, Numbers(vs, c) = 1 .. n
  PROVE  Cardinality(VersionsOf(vs, c)) = n
<1> DEFINE S == VersionsOf(vs, c)
           f == [i \in 1 .. n |-> CHOOSE w \in S : w.version = i]
<1>1. \A i \in 1 .. n : \E w \in S : w.version = i
  BY DEF Numbers
<1>2. \A w \in S : w.version \in 1 .. n
  BY DEF Numbers
<1>3. \A w, x \in S : w.version = x.version => w = x
  BY DEF Gapless
<1> HIDE DEF S
<1>4. \A i \in 1 .. n : f[i] \in S /\ f[i].version = i
  BY <1>1
<1>5. f \in [1 .. n -> S] /\ (\A i, j \in 1 .. n : f[i] = f[j] => i = j)
      /\ (\A w \in S : \E i \in 1 .. n : f[i] = w)
  BY <1>2, <1>3, <1>4
<1> HIDE DEF f
<1>6. f \in Injection(1 .. n, S)
  BY <1>5 DEF Injection, IsInjective
<1>7. f \in Surjection(1 .. n, S)
  BY <1>5 DEF Surjection
<1>8. f \in Bijection(1 .. n, S)
  BY <1>6, <1>7 DEF Bijection
<1>9. IsFiniteSet(1 .. n) /\ Cardinality(1 .. n) = n
  BY FS_Interval
<1> QED
  BY <1>8, <1>9, FS_Bijection DEF ExistsBijection, S

\* A step that neither reads nor writes members and versions.
LEMMA CountStill ==
  ASSUME NEW cmds, NEW vs, NEW ms, CountsAt(cmds, vs, ms), NEW r \in Reviewers, cmds[r].at # "publish",
         NEW next, \A q \in Reviewers \ {r} : next[q] = cmds[q], ReadFits(next[r], vs, ms)
  PROVE  CountsAt(next, vs, ms)
<1>1. \A q \in Reviewers : ReadFits(next[q], vs, ms)
  BY DEF CountsAt
<1>2. \A c : \/ Counts(vs, ms, c)
             \/ \E q \in Reviewers : next[q].at = "publish" /\ next[q].subject[2].cluster = c
  BY DEF CountsAt
<1> QED
  BY <1>1, <1>2 DEF CountsAt

LEMMA NothingRead ==
  ASSUME NEW v, v.at \notin {"count", "member", "publish"}
  PROVE  \A vs, ms : ReadFits(v, vs, ms)
BY DEF ReadFits

LEMMA WriteMemberCounts ==
  ASSUME ReviewInv, CountInv, LatestInv, NEW r \in Reviewers, I!WriteMember(r)
  PROVE  CountInv'
<1> SUFFICES ASSUME sequential'
             PROVE  CountsAt(reviewer', versions', members')
  BY DEF CountInv
<1> DEFINE u == reviewer[r]
           claim == u.subject[2]
           k == <<claim.address, claim.cluster>>
           b == u.decision = "APPROVED"
           new == [of |-> u.subject, active |-> b, version |-> u.version]
           v == [u EXCEPT !.at = "publish"]
           ms == [m \in DOMAIN members \cup {k} |-> IF m = k THEN new ELSE members[m]]
<1>1. /\ u.at = "member" /\ sequential /\ versions' = versions /\ I!Goes(r, "publish") /\ members' = ms
  BY DEF I!WriteMember, I!Approves, I!Member
<1>2. CountsAt(reviewer, versions, members) /\ LatestAt(reviewer, reviews, attributed, bounds.reviews)
  BY <1>1 DEF CountInv, LatestInv
<1>3. /\ Turns(r, v) /\ v.at = "publish" /\ v.subject = u.subject /\ v.decision = u.decision
      /\ v.version = u.version /\ v.others = u.others
  BY <1>1, Goes
<1> HIDE DEF v
<1>4. \A q \in Reviewers \ {r} : reviewer[q].at = "idle" /\ reviewer'[q].at = "idle"
  BY <1>1, <1>2, <1>3, OthersIdle DEF LatestAt, Turns
<1>5. /\ IsFiniteSet(DOMAIN members) /\ \A m \in DOMAIN members : m = <<m[1], m[2]>>
      /\ u.others = Cardinality(OthersIn(members, claim)) /\ u.version \in Nat \ {0}
      /\ Numbers(versions, claim.cluster) = 1 .. (u.version - 1)
  BY <1>1, <1>2 DEF CountsAt, ReadFits
<1>6. k[1] = claim.address /\ k[2] = claim.cluster /\ k = <<k[1], k[2]>> /\ (new.active <=> b)
  OBVIOUS
<1>7. \A m : m = <<m[1], m[2]>> /\ m[1] = k[1] /\ m[2] = k[2] => m = k
  BY <1>6
<1>8. DOMAIN ms = DOMAIN members \cup {k} /\ ms[k] = new
      /\ \A m \in DOMAIN members : m # k => ms[m] = members[m]
  OBVIOUS
<1>9. IsFiniteSet(DOMAIN ms) /\ \A m \in DOMAIN ms : m = <<m[1], m[2]>>
  <2>1. IsFiniteSet(DOMAIN members \cup {k})
    BY <1>5, FS_AddElement
  <2>2. \A m \in DOMAIN members \cup {k} : m = <<m[1], m[2]>>
    BY <1>5, <1>6
  <2> QED
    BY <1>8, <2>1, <2>2
<1> HIDE DEF new, k, b, ms
<1>10. \A c : c # claim.cluster => ActiveIn(ms, c) = ActiveIn(members, c)
  BY <1>6, <1>8 DEF ActiveIn
<1>11. Cardinality(ActiveIn(ms, claim.cluster)) = u.others + (IF b THEN 1 ELSE 0)
  <2> DEFINE o == OthersIn(members, claim)
  <2>1. k \notin o /\ o \subseteq DOMAIN members
    BY <1>6 DEF OthersIn
  <2>2. IsFiniteSet(o)
    BY <1>5, <2>1, FS_Subset
  <2>3. ActiveIn(ms, claim.cluster) = IF b THEN o \cup {k} ELSE o
    <3>1. ASSUME NEW m \in DOMAIN members, m # k
          PROVE  m \in ActiveIn(ms, claim.cluster) <=> m \in o
      BY <1>5, <1>6, <1>7, <1>8, <3>1 DEF ActiveIn, OthersIn
    <3>2. k \in ActiveIn(ms, claim.cluster) <=> b
      BY <1>6, <1>8 DEF ActiveIn
    <3>3. ActiveIn(ms, claim.cluster) \subseteq DOMAIN members \cup {k}
      BY <1>8 DEF ActiveIn
    <3> HIDE DEF o
    <3> QED
      BY <2>1, <3>1, <3>2, <3>3
  <2> HIDE DEF o
  <2>4. Cardinality(o \cup {k}) = Cardinality(o) + 1 /\ Cardinality(o) \in Nat
    BY <2>1, <2>2, FS_AddElement, FS_CardinalityType
  <2>5. u.others = Cardinality(o)
    BY <1>5 DEF o
  <2> QED
    BY <2>3, <2>4, <2>5
<1>12. ReadFits(v, versions, ms)
  BY <1>3, <1>5, <1>11 DEF ReadFits, b
<1>13. \A q \in Reviewers : ReadFits(reviewer'[q], versions, ms)
  BY <1>3, <1>4, <1>12, NothingRead DEF Turns
<1>14. ASSUME NEW c
       PROVE  \/ Counts(versions, ms, c)
              \/ \E q \in Reviewers : reviewer'[q].at = "publish" /\ reviewer'[q].subject[2].cluster = c
  <2>1. CASE c = claim.cluster
    BY <1>3, <2>1 DEF Turns
  <2>2. CASE c # claim.cluster
    <3>1. Counts(versions, members, c)
      BY <1>1, <1>2, <1>4 DEF CountsAt
    <3> QED
      BY <1>10, <2>2, <3>1 DEF Counts
  <2> QED
    BY <2>1, <2>2
<1>15. CountsAt(reviewer', versions, ms)
  BY <1>2, <1>9, <1>13, <1>14 DEF CountsAt
<1> QED
  BY <1>1, <1>15

LEMMA WriteVersionCounts ==
  ASSUME ReviewInv, CountInv, LatestInv, NEW r \in Reviewers, I!WriteVersion(r)
  PROVE  CountInv'
<1> SUFFICES ASSUME sequential'
             PROVE  CountsAt(reviewer', versions', members')
  BY DEF CountInv
<1> DEFINE u == reviewer[r]
           here == u.subject[2].cluster
           n == u.version
           k == u.others + (IF u.decision = "APPROVED" THEN 1 ELSE 0)
           new == [cluster |-> here, version |-> n, count |-> k]
           v == [u EXCEPT !.at = "match"]
           vs == versions \cup {new}
<1>1. /\ u.at = "publish" /\ sequential /\ members' = members /\ I!Goes(r, "match")
      /\ versions' = {w \in versions : <<w.cluster, w.version>> # <<here, n>>} \cup {new}
  BY DEF I!WriteVersion, I!Approves
<1>2. CountsAt(reviewer, versions, members) /\ LatestAt(reviewer, reviews, attributed, bounds.reviews)
  BY <1>1 DEF CountInv, LatestInv
<1>3. Turns(r, v) /\ v.at = "match"
  BY <1>1, Goes
<1> HIDE DEF v
<1>4. \A q \in Reviewers \ {r} : reviewer[q].at = "idle" /\ reviewer'[q].at = "idle"
  BY <1>1, <1>2, <1>3, OthersIdle DEF LatestAt, Turns
<1>5. /\ Cardinality(ActiveIn(members, here)) = k /\ n \in Nat \ {0}
      /\ Numbers(versions, here) = 1 .. (n - 1)
  BY <1>1, <1>2 DEF CountsAt, ReadFits
<1>6. \A w \in VersionsOf(versions, here) : w.version \in 1 .. (n - 1)
  BY <1>5 DEF Numbers
<1>7. new.cluster = here /\ new.version = n /\ new.count = k
  OBVIOUS
<1> HIDE DEF new, k
<1>8. versions' = vs
  <2>1. \A w \in versions : <<w.cluster, w.version>> # <<here, n>>
    BY <1>5, <1>6 DEF VersionsOf
  <2> QED
    BY <1>1, <2>1
<1>9. VersionsOf(vs, here) = VersionsOf(versions, here) \cup {new}
      /\ \A c : c # here => VersionsOf(vs, c) = VersionsOf(versions, c)
  BY <1>7 DEF VersionsOf
<1> HIDE DEF vs
<1>10. Numbers(vs, here) = 1 .. n
  <2>1. Numbers(vs, here) = Numbers(versions, here) \cup {n}
    BY <1>7, <1>9 DEF Numbers
  <2>2. (1 .. (n - 1)) \cup {n} = 1 .. n
    BY <1>5
  <2> QED
    BY <1>5, <2>1, <2>2
<1>11. ASSUME NEW c
       PROVE  Gapless(vs, c)
  <2>1. CASE c = here
    <3>1. \A w, x \in VersionsOf(vs, here) : w.version = x.version => w = x
      BY <1>2, <1>5, <1>6, <1>7, <1>9 DEF CountsAt, Gapless
    <3> QED
      BY <1>5, <1>10, <2>1, <3>1 DEF Gapless
  <2>2. CASE c # here
    BY <1>2, <1>9, <2>2 DEF CountsAt, Gapless, Numbers
  <2> QED
    BY <2>1, <2>2
<1>12. ASSUME NEW c
       PROVE  Counts(vs, members, c)
  <2>1. CASE c = here
    <3>1. ASSUME NEW w \in VersionsOf(vs, here), \A x \in VersionsOf(vs, here) : x.version <= w.version
          PROVE  w = new
      BY <1>5, <1>6, <1>7, <1>9, <3>1
    <3> QED
      BY <1>5, <1>7, <2>1, <3>1 DEF Counts
  <2>2. CASE c # here
    <3>1. Counts(versions, members, c)
      BY <1>2, <1>4, <2>2 DEF CountsAt
    <3> QED
      BY <1>9, <2>2, <3>1 DEF Counts
  <2> QED
    BY <2>1, <2>2
<1>13. \A q \in Reviewers : ReadFits(reviewer'[q], vs, members)
  BY <1>3, <1>4, NothingRead DEF Turns
<1> QED
  BY <1>1, <1>2, <1>8, <1>11, <1>12, <1>13 DEF CountsAt

LEMMA ReadVersionCounts ==
  ASSUME ReviewInv, CountInv, NEW r \in Reviewers, I!ReadVersion(r)
  PROVE  CountInv'
<1> SUFFICES ASSUME sequential'
             PROVE  CountsAt(reviewer', versions', members')
  BY DEF CountInv
<1> DEFINE c == reviewer[r].subject[2].cluster
<1>1. reviewer[r].at = "version" /\ sequential /\ members' = members /\ versions' = versions
  BY DEF I!ReadVersion
<1>2. CountsAt(reviewer, versions, members)
  BY <1>1 DEF CountInv
<1>3. PICK v : /\ Turns(r, v) /\ v.at = "count" /\ v.subject = reviewer[r].subject
               /\ v.version = 1 + I!Max({0} \cup Numbers(versions, c))
  BY ReadVersionTurns DEF Numbers, VersionsOf
<1>4. PICK n \in Nat : Numbers(versions, c) = 1 .. n
  BY <1>2 DEF CountsAt, Gapless
<1>5. I!Max({0} \cup Numbers(versions, c)) = n
  BY <1>4, MaxNumber
<1> HIDE DEF c
<1>6. v.version = n + 1
  BY <1>3, <1>5
<1>7. v.version \in Nat \ {0} /\ Numbers(versions, c) = 1 .. (v.version - 1)
  BY <1>4, <1>6
<1>8. ReadFits(v, versions, members)
  BY <1>3, <1>7 DEF ReadFits, c
<1> QED
  BY <1>1, <1>2, <1>3, <1>8, CountStill DEF Turns

LEMMA CountOthersCounts ==
  ASSUME ReviewInv, CountInv, NEW r \in Reviewers, I!CountOthers(r)
  PROVE  CountInv'
<1> SUFFICES ASSUME sequential'
             PROVE  CountsAt(reviewer', versions', members')
  BY DEF CountInv
<1> DEFINE claim == reviewer[r].subject[2]
<1>1. reviewer[r].at = "count" /\ sequential /\ members' = members /\ versions' = versions
  BY DEF I!CountOthers
<1>2. CountsAt(reviewer, versions, members)
  BY <1>1 DEF CountInv
<1>3. PICK v : /\ Turns(r, v) /\ v.at = "member" /\ v.subject = reviewer[r].subject
               /\ v.version = reviewer[r].version /\ v.others = I!Cardinality(I!Others(claim))
  BY CountOthersTurns
<1>4. I!Others(claim) = OthersIn(members, claim)
  BY DEF I!Others, OthersIn
<1>5. v.others = Cardinality(OthersIn(members, claim))
  BY <1>3, <1>4, FiniteHere
<1>6. ReadFits(v, versions, members)
  BY <1>1, <1>2, <1>3, <1>5 DEF ReadFits, CountsAt
<1> QED
  BY <1>1, <1>2, <1>3, <1>6, CountStill DEF Turns

\* Every other step of a review leaves members and versions alone.
LEMMA ElseCounts ==
  ASSUME ReviewInv, CountInv, NEW r \in Reviewers, NEW v, Turns(r, v),
         v.at \notin {"count", "member", "publish"}, reviewer[r].at # "publish",
         UNCHANGED <<members, versions>>, sequential' => sequential
  PROVE  CountInv'
<1> SUFFICES ASSUME sequential'
             PROVE  CountsAt(reviewer', versions', members')
  BY DEF CountInv
<1>1. CountsAt(reviewer, versions, members) /\ members' = members /\ versions' = versions
  BY DEF CountInv
<1> QED
  BY <1>1, NothingRead, CountStill DEF Turns

LEMMA ElseTurns ==
  ASSUME ReviewInv, NEW r \in Reviewers,
         \/ I!Decide(r) \/ I!Record(r) \/ I!Check(r) \/ I!Write(r) \/ I!MatchExchange(r)
         \/ I!ReadAnchor(r) \/ I!WriteExchange(r)
  PROVE  /\ \E v : Turns(r, v) /\ v.at \notin {"count", "member", "publish"}
         /\ reviewer[r].at # "publish" /\ UNCHANGED <<members, versions>> /\ (sequential' => sequential)
<1>1. reviewer[r].at # "publish" /\ UNCHANGED <<members, versions>> /\ (sequential' => sequential)
  <2>1. CASE I!Decide(r)
    BY <2>1 DEF I!Decide
  <2>2. CASE I!Record(r) \/ I!Check(r) \/ I!Write(r)
    BY <2>2 DEF I!Record, I!Check, I!Write
  <2>3. CASE I!MatchExchange(r) \/ I!ReadAnchor(r) \/ I!WriteExchange(r)
    BY <2>3 DEF I!MatchExchange, I!ReadAnchor, I!WriteExchange
  <2> QED
    BY <2>1, <2>2, <2>3
<1>2. CASE I!Decide(r)
  <2>1. PICK s, d, n :
          reviewer' = [reviewer EXCEPT ![r] =
             [I!NoReview EXCEPT !.at = "record", !.subject = s, !.decision = d, !.time = n]]
    BY <1>2 DEF I!Decide
  <2> DEFINE v == [I!NoReview EXCEPT !.at = "record", !.subject = s, !.decision = d, !.time = n]
  <2>2. Turns(r, v) /\ v.at = "record"
    BY <2>1, Stepped DEF I!NoReview
  <2> HIDE DEF v
  <2> QED
    BY <1>1, <2>2
<1>3. CASE I!Record(r)
  <2>1. \E v : Turns(r, v) /\ v.at \in {"check", "version"}
    BY <1>3, RecordTurns
  <2> QED
    BY <1>1, <2>1
<1>4. CASE I!Check(r) \/ I!Write(r)
  <2>1. reviewer[r].at \in OfLabels /\ (I!Goes(r, "write") \/ I!NextTable(r))
    BY <1>4 DEF I!Check, I!Write, OfLabels
  <2>2. CASE I!Goes(r, "write")
    <3>1. \E v : Turns(r, v) /\ v.at = "write"
      BY <2>2, GoesTurns
    <3> QED
      BY <1>1, <3>1
  <2>3. CASE I!NextTable(r)
    <3>1. \E v : Turns(r, v) /\ v.at \in {"idle", "check"}
      BY <2>1, <2>3, GoesOn, NoReviewFits
    <3> QED
      BY <1>1, <3>1
  <2> QED
    BY <2>1, <2>2, <2>3
<1>5. CASE I!MatchExchange(r) \/ I!ReadAnchor(r) \/ I!WriteExchange(r)
  <2>1. \/ I!Goes(r, "anchor") \/ I!Goes(r, "row")
        \/ reviewer' = [reviewer EXCEPT ![r] = I!NoReview]
    BY <1>5, MatchExchangeTurns, ReadAnchorTurns DEF I!WriteExchange
  <2>2. CASE reviewer' = [reviewer EXCEPT ![r] = I!NoReview]
    <3>1. \E v : Turns(r, v) /\ v.at = "idle"
      BY <2>2, IdleTurns
    <3> QED
      BY <1>1, <3>1
  <2>3. CASE I!Goes(r, "anchor")
    <3>1. \E v : Turns(r, v) /\ v.at = "anchor"
      BY <2>3, GoesTurns
    <3> QED
      BY <1>1, <3>1
  <2>4. CASE I!Goes(r, "row")
    <3>1. \E v : Turns(r, v) /\ v.at = "row"
      BY <2>4, GoesTurns
    <3> QED
      BY <1>1, <3>1
  <2> QED
    BY <2>1, <2>2, <2>3, <2>4
<1> QED
  BY <1>2, <1>3, <1>4, <1>5

LEMMA CountInvKept ==
  ASSUME ReviewInv, BoundsFit, LatestInv, CountInv, [I!Next]_(I!vars)
  PROVE  CountInv'
<1>1. ASSUME NEW r \in Reviewers, I!Review(r)
      PROVE  CountInv'
  <2>1. CASE I!ReviewEnds(r)
    BY <2>1 DEF I!ReviewEnds, CountInv
  <2>2. CASE \/ I!Decide(r) \/ I!Record(r) \/ I!Check(r) \/ I!Write(r) \/ I!MatchExchange(r)
             \/ I!ReadAnchor(r) \/ I!WriteExchange(r)
    <3>1. PICK v : Turns(r, v) /\ v.at \notin {"count", "member", "publish"}
      BY <2>2, ElseTurns
    <3>2. reviewer[r].at # "publish" /\ UNCHANGED <<members, versions>> /\ (sequential' => sequential)
      BY <2>2, ElseTurns
    <3> QED
      BY <3>1, <3>2, ElseCounts
  <2> QED
    BY <1>1, <2>1, <2>2, ReadVersionCounts, CountOthersCounts, WriteMemberCounts, WriteVersionCounts
       DEF I!Review
<1>2. ASSUME UNCHANGED <<reviewer, members, versions, sequential>>
      PROVE  CountInv'
  BY <1>2 DEF CountInv
<1>3. ASSUME NEW l \in DOMAIN Labels, I!SubmitLabel(l)
      PROVE  CountInv'
  BY <1>2, <1>3 DEF I!SubmitLabel
<1> QED
  BY <1>1, <1>2, <1>3, Elsewise DEF Reviewing

LEMMA CountsMatchHolds == CountInv => I!CountsMatch
<1> SUFFICES ASSUME CountInv, I!AtRest, NEW c \in {w.cluster : w \in versions}
             PROVE  LET mine == VersionsOf(versions, c)
                        newest == CHOOSE v \in mine : \A w \in mine : w.version <= v.version
                    IN  /\ Numbers(versions, c) = 1 .. I!Cardinality(mine)
                        /\ newest.count = I!Cardinality(ActiveIn(members, c))
  BY DEF I!CountsMatch, VersionsOf, Numbers, ActiveIn
<1> DEFINE mine == VersionsOf(versions, c)
           newest == CHOOSE v \in mine : \A w \in mine : w.version <= v.version
<1>1. sequential /\ \A r \in Reviewers : reviewer[r].at = "idle"
  BY DEF I!AtRest, I!Busy
<1>2. CountsAt(reviewer, versions, members)
  BY <1>1 DEF CountInv
<1>3. Gapless(versions, c) /\ Counts(versions, members, c)
  BY <1>1, <1>2 DEF CountsAt
<1>4. PICK n \in Nat : Numbers(versions, c) = 1 .. n
  BY <1>3 DEF Gapless
<1>5. I!Cardinality(mine) = n
  BY <1>3, <1>4, VersionsCounted, FiniteHere
<1>6. mine # {} /\ \A w \in mine : w.version \in 1 .. n
  BY <1>4 DEF VersionsOf, Numbers
<1>7. PICK v \in mine : v.version = n
  <2>1. n \in 1 .. n
    BY <1>6
  <2> QED
    BY <1>4, <2>1 DEF Numbers
<1>8. \A w \in mine : w.version <= v.version
  BY <1>6, <1>7
<1>9. newest \in mine /\ \A w \in mine : w.version <= newest.version
  BY <1>8
<1>10. newest.count = Cardinality(ActiveIn(members, c))
  BY <1>3, <1>9 DEF Counts
<1>11. newest.count = I!Cardinality(ActiveIn(members, c))
  BY <1>10, FiniteHere
<1> QED
  BY <1>4, <1>5, <1>11

-----------------------------------------------------------------------------
(* The start, and what holds from then on *)

LEMMA NothingDecided ==
  ASSUME I!Init
  PROVE  ReviewInv /\ BoundsFit /\ LatestInv /\ CountInv
<1>1. /\ labels = {} /\ reviews = {} /\ versions = {} /\ members = [k \in {} |-> I!NoRow]
      /\ attributed = [t \in {"entity", "exchange", "seed"} |-> [a \in I!Addresses |-> I!NoRow]]
      /\ reviewer = [r \in Reviewers |-> I!NoReview]
      /\ bounds = [hash |-> 0, restores |-> 0, replays |-> 0, reviews |-> 0, switches |-> 0, stops |-> 0]
  BY DEF I!Init
<1>2. BoundsFit
  BY <1>1 DEF BoundsFit, BoundFields
<1>3. /\ \A p \in Projections : \A a \in I!Addresses : attributed[p][a].of = <<>> /\ attributed[p][a].active = FALSE
      /\ attributed = [p \in Projections |-> [a \in I!Addresses |-> attributed[p][a]]]
  BY <1>1 DEF Projections, I!NoRow
<1>4. \A r \in Reviewers : reviewer[r].at = "idle" /\ CommandFits(reviewer[r], labels, reviews)
  BY <1>1, NoReviewFits
<1>5. ReviewInv
  BY <1>1, <1>3, <1>4 DEF ReviewInv, ReviewerFits, DecisionsKnown, RowsFit, MembersFit
<1>6. LatestInv
  <2>1. \A p : SettledIn(reviews, reviewer, p) = {}
    BY <1>1 DEF SettledIn
  <2>2. \A a, p : Owner({}, a, p) = <<>>
    BY DEF Owner, Given
  <2>3. \A p \in Projections : Shows(attributed, p, {})
    BY <1>3, <2>2 DEF Shows
  <2>4. OneAtATime(reviewer, reviews, attributed, bounds.reviews)
    BY <1>4 DEF OneAtATime
  <2>5. InOrder(reviews, bounds.reviews)
    BY <1>1 DEF InOrder
  <2> QED
    BY <2>1, <2>3, <2>4, <2>5 DEF LatestInv, LatestAt
<1>7. CountInv
  <2>1. DOMAIN members = {} /\ IsFiniteSet(DOMAIN members)
    BY <1>1, FS_EmptySet
  <2>2. \A c : VersionsOf(versions, c) = {} /\ Numbers(versions, c) = {}
    BY <1>1 DEF VersionsOf, Numbers
  <2>3. \A c : Gapless(versions, c)
    <3>1. {} = 1 .. 0
      OBVIOUS
    <3> QED
      BY <2>2, <3>1 DEF Gapless
  <2>4. \A c : Counts(versions, members, c)
    BY <2>2 DEF Counts
  <2>5. \A r \in Reviewers : ReadFits(reviewer[r], versions, members)
    BY <1>4, NothingRead
  <2> QED
    BY <2>1, <2>3, <2>4, <2>5 DEF CountInv, CountsAt
<1> QED
  BY <1>2, <1>5, <1>6, <1>7

\* Whatever the commands of entity_intelligence.rs interleave to and wherever
\* they end, readers take nothing for attributed that nobody approved; and of
\* reviews that follow each other, each row is that of the decision made last,
\* and the versions of a cluster count its members without a gap.
LEMMA DecisionsStand == I!Spec => []I!ReviewsHold
<1> DEFINE Inv == ReviewInv /\ BoundsFit /\ LatestInv /\ CountInv
<1>1. I!Init => Inv
  BY NothingDecided
<1>2. Inv /\ [I!Next]_(I!vars) => Inv'
  BY ReviewInvKept, BoundsGrow, LatestInvKept, CountInvKept
<1>3. Inv => I!ReviewsHold
  BY NothingUnreviewedHolds, LatestDecisionHolds, CountsMatchHolds DEF I!ReviewsHold
<1> HIDE DEF Inv
<1> QED
  BY <1>1, <1>2, <1>3, PTL DEF I!Spec

-----------------------------------------------------------------------------
(* The discovery of clusters: what a cursor stands for *)

Block == [shows : SUBSET Candidates, hash : Nat \ {0}, complete : BOOLEAN]

BlocksFit(bs, top, redone) ==
  /\ bs \in Seq(Block)
  /\ \A i \in DOMAIN bs : bs[i].hash \in 1 .. top
  /\ \A i \in DOMAIN bs : ~bs[i].complete => bs[i].hash \in redone

\* The first n blocks are among those.
Seen(bs, n, ok) == \A i \in 1 .. n : bs[i].hash \in ok

\* While block last is the one of that hash, the first n blocks are among those.
StandsFor(bs, last, hash, n, ok) ==
  /\ last \in Nat /\ n \in 0 .. last + 1
  /\ last < Len(bs) /\ bs[last + 1].hash = hash => Seen(bs, n, ok)

\* It has a block, and stands for all before it unless it slipped.
CursorFits(p, bs, top, ok) ==
  \/ p.last = -1 /\ p.slipped = FALSE
  \/ /\ p.last \in Nat /\ p.hash \in 1 .. top /\ p.slipped \in BOOLEAN
     /\ ~p.slipped => StandsFor(bs, p.last, p.hash, p.last + 1, ok)

WorkerFields == {"at", "progress", "tip", "from", "to", "hash", "found", "read"}
ProgressFields == {"last", "hash", "slipped"}

WorkerFits(w, bs, top, ok) ==
  /\ w = [x \in WorkerFields |-> w[x]] /\ w.progress = [x \in ProgressFields |-> w.progress[x]]
  /\ w.at \in {"idle", "plan", "compare", "boundary", "find", "submit", "confirm"}
  /\ w.progress.slipped \in BOOLEAN
  /\ w.at \in {"idle", "plan", "compare"} => CursorFits(w.progress, bs, top, ok)
  /\ w.at = "compare" => w.tip \in Nat
  /\ w.at \in {"boundary", "find", "submit", "confirm"} => w.to \in Nat /\ w.from \in 0 .. w.to + 1
  /\ w.at = "boundary" /\ ~w.progress.slipped => w.from <= Len(bs) /\ Seen(bs, w.from, ok)
  /\ w.at \in {"find", "submit", "confirm"} => w.hash \in 1 .. top
  /\ w.at = "find" /\ ~w.progress.slipped => StandsFor(bs, w.to, w.hash, w.from, ok)
  /\ w.at \in {"submit", "confirm"} /\ ~w.progress.slipped =>
        StandsFor(bs, w.to, w.hash, w.to + 1, ok \cup w.read)

CursorInv ==
  /\ BlocksFit(blocks, bounds.hash, replayed)
  /\ CursorFits(saved, blocks, bounds.hash, scanned \cup replayed)
  /\ saved = [x \in ProgressFields |-> saved[x]]
  /\ WorkerFits(worker, blocks, bounds.hash, scanned \cup replayed)

\* Blocks that come after the others have hashes of their own; blocks that are
\* taken back leave those before them.
Follows(bs, next, top) ==
  \A i \in 1 .. Len(next) : \/ i <= Len(bs) /\ next[i].hash = bs[i].hash
                            \/ next[i].hash > top

\* What stood for the blocks before stands for what is left of them.
LEMMA StandsStill ==
  ASSUME NEW bs, NEW next, bs \in Seq(Block), next \in Seq(Block), NEW top \in Nat, Follows(bs, next, top),
         \A i, j \in 1 .. Len(next) : i < j /\ next[i].hash > top => next[j].hash > top,
         NEW last, NEW hash \in 1 .. top, NEW n, NEW ok, NEW more, ok \subseteq more,
         StandsFor(bs, last, hash, n, ok)
  PROVE  StandsFor(next, last, hash, n, more)
<1> SUFFICES ASSUME last < Len(next), next[last + 1].hash = hash
             PROVE  Seen(next, n, more)
  BY DEF StandsFor
<1>1. last \in Nat /\ n \in 0 .. last + 1
  BY DEF StandsFor
<1>2. Len(next) \in Nat /\ Len(bs) \in Nat
  OBVIOUS
<1>3. last + 1 \in 1 .. Len(next)
  BY <1>1, <1>2
<1>4. ~(hash > top)
  OBVIOUS
<1>5. last + 1 <= Len(bs) /\ bs[last + 1].hash = hash
  BY <1>3, <1>4 DEF Follows
<1>6. Seen(bs, n, ok)
  BY <1>1, <1>2, <1>5 DEF StandsFor
<1>7. ASSUME NEW i \in 1 .. n
      PROVE  next[i].hash = bs[i].hash
  <2>1. i \in 1 .. Len(next) /\ (i = last + 1 \/ i < last + 1)
    BY <1>1, <1>2, <1>3
  <2>2. ~(next[i].hash > top)
    BY <1>3, <1>4, <2>1
  <2> QED
    BY <2>1, <2>2 DEF Follows
<1> QED
  BY <1>6, <1>7 DEF Seen

LEMMA CursorStill ==
  ASSUME NEW bs, NEW next, bs \in Seq(Block), next \in Seq(Block), NEW top \in Nat, NEW later \in Nat,
         top <= later, Follows(bs, next, top),
         \A i, j \in 1 .. Len(next) : i < j /\ next[i].hash > top => next[j].hash > top,
         NEW ok, NEW more, ok \subseteq more, NEW p, CursorFits(p, bs, top, ok)
  PROVE  CursorFits(p, next, later, more)
<1>1. CASE p.last = -1 /\ p.slipped = FALSE
  BY <1>1 DEF CursorFits
<1>2. CASE /\ p.last \in Nat /\ p.hash \in 1 .. top /\ p.slipped \in BOOLEAN
           /\ ~p.slipped => StandsFor(bs, p.last, p.hash, p.last + 1, ok)
  <2>1. ~p.slipped => StandsFor(next, p.last, p.hash, p.last + 1, more)
    BY <1>2, StandsStill
  <2>2. p.hash \in 1 .. later
    BY <1>2
  <2> QED
    BY <1>2, <2>1, <2>2 DEF CursorFits
<1> QED
  BY <1>1, <1>2 DEF CursorFits

\* The worker's range follows what is left of the blocks, unless that slipped.
LEMMA WorkerStill ==
  ASSUME NEW bs, NEW next, bs \in Seq(Block), next \in Seq(Block), NEW top \in Nat, NEW later \in Nat,
         top <= later, Follows(bs, next, top),
         \A i, j \in 1 .. Len(next) : i < j /\ next[i].hash > top => next[j].hash > top,
         NEW ok, NEW more, ok \subseteq more, NEW w, WorkerFits(w, bs, top, ok),
         w.at = "boundary" /\ ~w.progress.slipped =>
            w.from <= Len(next) /\ \A i \in 1 .. w.from : next[i].hash = bs[i].hash
  PROVE  WorkerFits(w, next, later, more)
<1>1. w.at \in {"idle", "plan", "compare"} => CursorFits(w.progress, next, later, more)
  BY CursorStill DEF WorkerFits
<1>2. w.at = "boundary" /\ ~w.progress.slipped => w.from <= Len(next) /\ Seen(next, w.from, more)
  BY DEF WorkerFits, Seen
<1>3. w.at \in {"find", "submit", "confirm"} => w.hash \in 1 .. top /\ w.hash \in 1 .. later
  BY DEF WorkerFits
<1>4. w.at = "find" /\ ~w.progress.slipped => StandsFor(next, w.to, w.hash, w.from, more)
  <2> SUFFICES ASSUME w.at = "find", ~w.progress.slipped
               PROVE  StandsFor(next, w.to, w.hash, w.from, more)
    OBVIOUS
  <2>1. w.hash \in 1 .. top /\ StandsFor(bs, w.to, w.hash, w.from, ok)
    BY DEF WorkerFits
  <2> QED
    BY <2>1, StandsStill
<1>5. w.at \in {"submit", "confirm"} /\ ~w.progress.slipped =>
        StandsFor(next, w.to, w.hash, w.to + 1, more \cup w.read)
  <2> SUFFICES ASSUME w.at \in {"submit", "confirm"}, ~w.progress.slipped
               PROVE  StandsFor(next, w.to, w.hash, w.to + 1, more \cup w.read)
    OBVIOUS
  <2>1. w.hash \in 1 .. top /\ StandsFor(bs, w.to, w.hash, w.to + 1, ok \cup w.read)
    BY DEF WorkerFits
  <2>2. ok \cup w.read \subseteq more \cup w.read
    OBVIOUS
  <2> QED
    BY <2>1, <2>2, StandsStill
<1> QED
  BY <1>1, <1>2, <1>3, <1>4, <1>5 DEF WorkerFits

\* Blocks that stay or are added to leave the range what it was.
LEMMA RangeStays ==
  ASSUME BoundsFit, CursorInv, Len(blocks) <= Len(blocks'), Len(blocks') \in Nat,
         \A i \in 1 .. Len(blocks) : blocks'[i].hash = blocks[i].hash
  PROVE  worker.at = "boundary" /\ ~worker.progress.slipped =>
            worker.from <= Len(blocks') /\ \A i \in 1 .. worker.from : blocks'[i].hash = blocks[i].hash
<1> SUFFICES ASSUME worker.at = "boundary", ~worker.progress.slipped
             PROVE  worker.from <= Len(blocks') /\ \A i \in 1 .. worker.from : blocks'[i].hash = blocks[i].hash
  OBVIOUS
<1>1. worker.from \in Int /\ worker.from <= Len(blocks) /\ Len(blocks) \in Nat
  BY DEF CursorInv, WorkerFits, BlocksFit
<1> QED
  BY <1>1

\* What a step of the ingestion has to show.
LEMMA BlocksStep ==
  ASSUME BoundsFit, BoundsFit', bounds.hash <= bounds'.hash, CursorInv,
         BlocksFit(blocks', bounds'.hash, replayed'), Follows(blocks, blocks', bounds.hash),
         \A i, j \in 1 .. Len(blocks') : i < j /\ blocks'[i].hash > bounds.hash => blocks'[j].hash > bounds.hash,
         worker.at = "boundary" /\ ~worker.progress.slipped =>
            worker.from <= Len(blocks') /\ \A i \in 1 .. worker.from : blocks'[i].hash = blocks[i].hash,
         scanned' = scanned, replayed \subseteq replayed', UNCHANGED <<saved, worker>>
  PROVE  CursorInv'
<1> DEFINE top == bounds.hash
           later == bounds'.hash
           ok == scanned \cup replayed
           more == scanned' \cup replayed'
<1>1. top \in Nat /\ later \in Nat
  BY DEF BoundsFit
<1>2. ok \subseteq more
  OBVIOUS
<1>3. /\ blocks \in Seq(Block) /\ blocks' \in Seq(Block)
      /\ CursorFits(saved, blocks, top, ok) /\ WorkerFits(worker, blocks, top, ok)
  BY DEF CursorInv, BlocksFit
<1> HIDE DEF ok, more
<1>4. CursorFits(saved, blocks', later, more)
  BY <1>1, <1>2, <1>3, CursorStill
<1>5. WorkerFits(worker, blocks', later, more)
  BY <1>1, <1>2, <1>3, WorkerStill
<1>6. saved' = saved /\ worker' = worker
  OBVIOUS
<1> QED
  BY <1>4, <1>5, <1>6 DEF CursorInv, more

LEMMA IngestCovers ==
  ASSUME BoundsFit, BoundsFit', CursorInv, I!Ingest
  PROVE  CursorInv'
<1> DEFINE top == bounds.hash
           n == Len(blocks)
<1>1. PICK shows \in SUBSET Candidates :
        blocks' = Append(blocks, [shows |-> shows, hash |-> top + 1, complete |-> TRUE])
  BY DEF I!Ingest
<1> DEFINE b == [shows |-> shows, hash |-> top + 1, complete |-> TRUE]
<1>2. top \in Nat /\ bounds'.hash = top + 1
  BY DEF BoundsFit, BoundFields, I!Ingest
<1>3. b \in Block /\ b.hash = top + 1 /\ b.complete
  BY <1>2 DEF Block
<1>4. blocks \in Seq(Block) /\ n \in Nat /\ \A i \in DOMAIN blocks : blocks[i].hash \in 1 .. top
  BY DEF CursorInv, BlocksFit
<1>5. blocks' = Append(blocks, b)
  BY <1>1
<1> HIDE DEF b
<1>6. /\ blocks' \in Seq(Block) /\ Len(blocks') = n + 1 /\ blocks'[n + 1] = b
      /\ \A i \in 1 .. n : blocks'[i] = blocks[i]
      /\ DOMAIN blocks = 1 .. n /\ DOMAIN blocks' = 1 .. n + 1
  BY <1>3, <1>4, <1>5
<1>7. UNCHANGED <<saved, worker>> /\ scanned' = scanned /\ replayed' = replayed
  BY DEF I!Ingest, I!proposed
<1>8. \A i \in 1 .. n + 1 : i \in 1 .. n \/ i = n + 1
  BY <1>4
<1>9. BlocksFit(blocks', bounds'.hash, replayed')
  <2>1. \A i \in 1 .. n + 1 : blocks'[i].hash \in 1 .. top + 1
    BY <1>2, <1>3, <1>4, <1>6, <1>8
  <2>2. \A i \in 1 .. n + 1 : ~blocks'[i].complete => blocks'[i].hash \in replayed
    BY <1>3, <1>6, <1>8 DEF CursorInv, BlocksFit
  <2> QED
    BY <1>2, <1>6, <1>7, <2>1, <2>2 DEF BlocksFit
<1>10. Follows(blocks, blocks', top)
  BY <1>2, <1>3, <1>4, <1>6, <1>8 DEF Follows
<1>11. \A i, j \in 1 .. n + 1 : i < j /\ blocks'[i].hash > top => blocks'[j].hash > top
  <2>1. \A i \in 1 .. n : ~(blocks'[i].hash > top)
    BY <1>2, <1>4, <1>6
  <2>2. \A i, j \in 1 .. n + 1 : i < j => i \in 1 .. n
    BY <1>4
  <2> QED
    BY <2>1, <2>2
<1>12. n <= n + 1 /\ top <= top + 1
  BY <1>2, <1>4
<1>13. worker.at = "boundary" /\ ~worker.progress.slipped =>
          worker.from <= Len(blocks') /\ \A i \in 1 .. worker.from : blocks'[i].hash = blocks[i].hash
  BY <1>4, <1>6, <1>12, RangeStays
<1> QED
  BY <1>2, <1>6, <1>7, <1>9, <1>10, <1>11, <1>12, <1>13, BlocksStep

LEMMA ReplayCovers ==
  ASSUME BoundsFit, BoundsFit', CursorInv, I!Replay
  PROVE  CursorInv'
<1> DEFINE top == bounds.hash
           n == Len(blocks)
<1>1. PICK i \in DOMAIN blocks : /\ blocks' = [blocks EXCEPT ![i].complete = ~blocks[i].complete]
                                 /\ replayed' = replayed \cup {blocks[i].hash}
                                 /\ \E m : bounds' = [bounds EXCEPT !.replays = m]
  BY DEF I!Replay
<1> DEFINE b == [blocks[i] EXCEPT !.complete = ~blocks[i].complete]
<1>2. top \in Nat /\ bounds'.hash = top
  BY <1>1 DEF BoundsFit, BoundFields
<1>3. blocks \in Seq(Block) /\ n \in Nat /\ DOMAIN blocks = 1 .. n
      /\ \A j \in 1 .. n : blocks[j].hash \in 1 .. top /\ blocks[j] \in Block
  BY DEF CursorInv, BlocksFit
<1>4. b \in Block /\ b.hash = blocks[i].hash
  BY <1>1, <1>3 DEF Block
<1>5. blocks' = [blocks EXCEPT ![i] = b]
  BY <1>1
<1> HIDE DEF b
<1>6. /\ blocks' \in Seq(Block) /\ Len(blocks') = n /\ DOMAIN blocks' = 1 .. n
      /\ blocks'[i] = b /\ \A j \in 1 .. n : j # i => blocks'[j] = blocks[j]
  BY <1>3, <1>4, <1>5
<1>7. \A j \in 1 .. n : blocks'[j].hash = blocks[j].hash
  BY <1>4, <1>6
<1>8. UNCHANGED <<saved, worker>> /\ scanned' = scanned /\ replayed \subseteq replayed'
  BY <1>1 DEF I!Replay, I!proposed
<1>9. BlocksFit(blocks', bounds'.hash, replayed')
  <2>1. \A j \in 1 .. n : ~blocks'[j].complete => blocks'[j].hash \in replayed'
    BY <1>1, <1>3, <1>4, <1>6 DEF CursorInv, BlocksFit
  <2> QED
    BY <1>2, <1>3, <1>6, <1>7, <2>1 DEF BlocksFit
<1>10. Follows(blocks, blocks', top)
  BY <1>3, <1>6, <1>7 DEF Follows
<1>11. \A j \in 1 .. n : ~(blocks'[j].hash > top)
  BY <1>2, <1>3, <1>7
<1>12. worker.at = "boundary" /\ ~worker.progress.slipped =>
          worker.from <= Len(blocks') /\ \A j \in 1 .. worker.from : blocks'[j].hash = blocks[j].hash
  BY <1>3, <1>6, <1>7, RangeStays
<1> QED
  BY <1>2, <1>3, <1>6, <1>7, <1>8, <1>9, <1>10, <1>11, <1>12, BlocksStep

LEMMA RestoreCovers ==
  ASSUME BoundsFit, BoundsFit', CursorInv, I!Restore
  PROVE  CursorInv'
<1> DEFINE top == bounds.hash
           n == Len(blocks)
<1>1. PICK k \in 1 .. Len(blocks) - 1 :
        /\ blocks' = SubSeq(blocks, 1, k)
        /\ worker' = IF worker.at = "boundary" /\ k < worker.from
                     THEN [worker EXCEPT !.progress.slipped = TRUE] ELSE worker
  BY DEF I!Restore
<1>2. (\E m : bounds' = [bounds EXCEPT !.restores = m])
      /\ UNCHANGED saved /\ scanned' = scanned /\ replayed' = replayed
      /\ worker' = IF worker.at = "boundary" /\ k < worker.from
                   THEN [worker EXCEPT !.progress.slipped = TRUE] ELSE worker
  BY <1>1 DEF I!Restore
<1>3. top \in Nat /\ bounds'.hash = top
  BY <1>2 DEF BoundsFit, BoundFields
<1>4. blocks \in Seq(Block) /\ n \in Nat /\ DOMAIN blocks = 1 .. n
  BY DEF CursorInv, BlocksFit
<1>5. k \in 1 .. n
  BY <1>1, <1>4
<1>6. /\ blocks' \in Seq(Block) /\ Len(blocks') = k /\ DOMAIN blocks' = 1 .. k
      /\ \A i \in 1 .. k : blocks'[i] = blocks[i] /\ i \in 1 .. n
  BY <1>1, <1>4, <1>5
<1>7. \A i \in 1 .. k : blocks'[i].hash \in 1 .. top /\ i <= n
  <2>1. \A i \in 1 .. n : blocks[i].hash \in 1 .. top
    BY <1>4 DEF CursorInv, BlocksFit
  <2> QED
    BY <1>4, <1>6, <2>1
<1>8. BlocksFit(blocks', bounds'.hash, replayed')
  BY <1>2, <1>3, <1>4, <1>6, <1>7 DEF CursorInv, BlocksFit
<1>9. Follows(blocks, blocks', top)
  BY <1>6, <1>7 DEF Follows
<1>10. \A i \in 1 .. k : ~(blocks'[i].hash > top)
  BY <1>3, <1>7
<1>11. WorkerFits(worker, blocks, top, scanned \cup replayed)
  BY DEF CursorInv
<1>12. CASE worker.at = "boundary" /\ k < worker.from
  <2> DEFINE p == [worker.progress EXCEPT !.slipped = TRUE]
             w == [worker EXCEPT !.progress = p]
             ok == scanned \cup replayed
  <2>1. worker' = w /\ w.at = "boundary" /\ w = [x \in WorkerFields |-> w[x]]
        /\ w.progress = p /\ w.to = worker.to /\ w.from = worker.from
    BY <1>2, <1>11, <1>12 DEF WorkerFits, WorkerFields
  <2>2. p.slipped = TRUE /\ p = [x \in ProgressFields |-> p[x]]
    BY <1>11 DEF WorkerFits, ProgressFields
  <2>3. worker.to \in Nat /\ worker.from \in 0 .. worker.to + 1
    BY <1>11, <1>12 DEF WorkerFits
  <2> HIDE DEF w, p, ok
  <2>4. WorkerFits(w, blocks', top, ok)
    BY <2>1, <2>2, <2>3 DEF WorkerFits
  <2>5. blocks \in Seq(Block) /\ CursorFits(saved, blocks, top, ok)
        /\ saved = [x \in ProgressFields |-> saved[x]]
    BY DEF CursorInv, BlocksFit, ok
  <2>6. \A i, j \in 1 .. Len(blocks') : i < j /\ blocks'[i].hash > top => blocks'[j].hash > top
    BY <1>6, <1>10
  <2>7. CursorFits(saved, blocks', top, ok)
    <3> HIDE DEF top
    <3>1. top <= top /\ ok \subseteq ok /\ blocks' \in Seq(Block)
      BY <1>3, <1>6
    <3> QED
      BY <1>3, <1>9, <2>5, <2>6, <3>1, CursorStill, Zenon
  <2> QED
    BY <1>2, <1>3, <1>8, <2>1, <2>4, <2>5, <2>7 DEF CursorInv, ok
<1>13. CASE ~(worker.at = "boundary" /\ k < worker.from)
  <2>1. worker' = worker
    BY <1>2, <1>13
  <2>2. worker.at = "boundary" => worker.from \in Int
    BY <1>11 DEF WorkerFits
  <2>3. worker.at = "boundary" /\ ~worker.progress.slipped =>
          worker.from <= Len(blocks') /\ \A i \in 1 .. worker.from : blocks'[i].hash = blocks[i].hash
    BY <1>5, <1>6, <1>13, <2>2
  <2> QED
    BY <1>2, <1>3, <1>6, <1>8, <1>9, <1>10, <2>1, <2>3, BlocksStep
<1> QED
  BY <1>12, <1>13

-----------------------------------------------------------------------------
(* The worker's cycle *)

LEMMA LargerOf ==
  ASSUME NEW a \in Int, NEW b \in Int
  PROVE  I!Max({a, b}) \in {a, b} /\ I!Max({a, b}) >= a /\ I!Max({a, b}) >= b
<1>1. \E x \in {a, b} : \A y \in {a, b} : x >= y
  <2>1. CASE a >= b
    BY <2>1
  <2>2. CASE b >= a
    BY <2>2
  <2> QED
    BY <2>1, <2>2
<1> QED
  BY <1>1 DEF I!Max

LEMMA SmallerOf ==
  ASSUME NEW a \in Int, NEW b \in Int
  PROVE  I!Min({a, b}) \in {a, b} /\ I!Min({a, b}) <= a /\ I!Min({a, b}) <= b
<1>1. \E x \in {a, b} : \A y \in {a, b} : x <= y
  <2>1. CASE a >= b
    BY <2>1
  <2>2. CASE b >= a
    BY <2>2
  <2> QED
    BY <2>1, <2>2
<1> QED
  BY <1>1 DEF I!Min

\* cluster_range leaves no block out, and looks at none that is not there.
LEMMA RangeFollows ==
  ASSUME NEW tip \in Nat, NEW last \in -1 .. tip
  PROVE  LET range == I!ClusterRange(last, tip)
         IN  range.to \in 0 .. tip /\ range.from \in 0 .. last + 1 /\ range.from \in 0 .. range.to + 1
<1> PICK range : range = I!ClusterRange(last, tip)
  OBVIOUS
<1> DEFINE a == tip - (Batch - 1)
           b == (last + 1) - Overlap
           c == (last + 1) + (Batch - 1)
<1>1. Batch \in Nat \ {0} /\ Overlap \in Nat /\ tip \in Nat
  BY WorkerAssumption
<1>2. a \in Int /\ b \in Int /\ c \in Int /\ tip \in Int
  BY <1>1
<1>3. /\ I!Max({0, a}) \in {0, a} /\ I!Max({0, a}) >= 0
      /\ I!Max({0, b}) \in {0, b} /\ I!Max({0, b}) >= 0
      /\ I!Min({tip, c}) \in {tip, c} /\ I!Min({tip, c}) <= tip
  <2> HIDE DEF a, b, c
  <2>1. ASSUME NEW x \in Int
        PROVE  I!Max({0, x}) \in {0, x} /\ I!Max({0, x}) >= 0
    <3>1. 0 \in Int
      OBVIOUS
    <3> QED
      BY <2>1, <3>1, LargerOf
  <2>3. I!Min({tip, c}) \in {tip, c} /\ I!Min({tip, c}) <= tip
    BY <1>2, SmallerOf
  <2> QED
    BY <1>2, <2>1, <2>3
<1>4. range = IF last + 1 > tip THEN [from |-> I!Max({0, a}), to |-> tip]
              ELSE [from |-> I!Max({0, b}), to |-> I!Min({tip, c})]
  BY DEF I!ClusterRange
<1>5. CASE last + 1 > tip
  <2>1. range.from \in {0, a} /\ range.from >= 0 /\ range.to = tip
    <3> HIDE DEF a, b, c
    <3> QED
      BY <1>3, <1>4, <1>5
  <2> QED
    BY <1>1, <1>5, <2>1
<1>6. CASE ~(last + 1 > tip)
  <2>1. range.from \in {0, b} /\ range.from >= 0 /\ range.to \in {tip, c} /\ range.to <= tip
    <3> HIDE DEF a, b, c
    <3> QED
      BY <1>3, <1>4, <1>6
  <2> QED
    BY <1>1, <1>6, <2>1
<1> QED
  BY <1>5, <1>6

\* A step of the worker that leaves the blocks alone.
LEMMA WorkerStep ==
  ASSUME CursorInv, UNCHANGED <<blocks, replayed, scanned, saved>>, bounds'.hash = bounds.hash,
         WorkerFits(worker', blocks, bounds.hash, scanned \cup replayed)
  PROVE  CursorInv'
BY DEF CursorInv

LEMMA FailsFits ==
  ASSUME CursorInv, I!Fails
  PROVE  WorkerFits(worker', blocks, bounds.hash, scanned \cup replayed)
<1>1. saved.slipped \in BOOLEAN
  BY DEF CursorInv, CursorFits
<1> QED
  BY <1>1 DEF CursorInv, I!Fails, I!Asleep, WorkerFits, WorkerFields, ProgressFields

LEMMA TheWorker ==
  ASSUME CursorInv
  PROVE  /\ WorkerFits(worker, blocks, bounds.hash, scanned \cup replayed)
         /\ worker = [x \in WorkerFields |-> worker[x]]
BY DEF CursorInv, WorkerFits

LEMMA BeginCovers ==
  ASSUME CursorInv, I!Begin
  PROVE  CursorInv'
<1>1. worker.at = "idle" /\ worker' = [worker EXCEPT !.at = "plan"]
      /\ UNCHANGED <<blocks, replayed, scanned, saved, bounds>>
  BY DEF I!Begin, I!ingested
<1>2. WorkerFits(worker', blocks, bounds.hash, scanned \cup replayed)
  BY <1>1, TheWorker DEF WorkerFits, WorkerFields
<1> QED
  BY <1>1, <1>2, WorkerStep

LEMMA ReadTipCovers ==
  ASSUME CursorInv, I!ReadTip
  PROVE  CursorInv'
<1> DEFINE tip == I!Tip
<1>1. worker.at = "plan" /\ UNCHANGED <<blocks, replayed, scanned, saved, bounds>>
      /\ worker' = IF tip < 0 THEN [worker EXCEPT !.at = "idle"]
                   ELSE [worker EXCEPT !.at = "compare", !.tip = tip]
  BY DEF I!ReadTip, I!ingested
<1>2. tip \in Int
  BY DEF CursorInv, BlocksFit, I!Tip
<1> HIDE DEF tip
<1>3. WorkerFits(worker', blocks, bounds.hash, scanned \cup replayed)
  <2>1. CASE tip < 0
    BY <1>1, <2>1, TheWorker DEF WorkerFits, WorkerFields
  <2>2. CASE ~(tip < 0)
    <3>1. tip \in Nat /\ worker' = [worker EXCEPT !.at = "compare", !.tip = tip]
      BY <1>1, <1>2, <2>2
    <3> QED
      BY <1>1, <3>1, TheWorker DEF WorkerFits, WorkerFields
  <2> QED
    BY <2>1, <2>2
<1> QED
  BY <1>1, <1>3, WorkerStep

\* A cursor that is kept stands for the blocks up to its own, all of them there.
LEMMA KeptCursor ==
  ASSUME CursorInv, worker.at = "compare"
  PROVE  LET p == I!Kept(worker.progress, worker.tip)
         IN  /\ p.last \in -1 .. worker.tip /\ p.slipped \in BOOLEAN
             /\ p = [x \in ProgressFields |-> p[x]]
             /\ ~p.slipped => p.last + 1 <= Len(blocks) /\ Seen(blocks, p.last + 1, scanned \cup replayed)
<1> DEFINE p == worker.progress
           ok == scanned \cup replayed
<1>1. CursorFits(p, blocks, bounds.hash, ok) /\ worker.tip \in Nat /\ p.slipped \in BOOLEAN
      /\ p = [x \in ProgressFields |-> p[x]]
  BY TheWorker DEF WorkerFits
<1>2. blocks \in Seq(Block) /\ Len(blocks) \in Nat /\ DOMAIN blocks = 1 .. Len(blocks)
  BY DEF CursorInv, BlocksFit
<1>3. Seen(blocks, 0, ok)
  BY DEF Seen
<1>4. CASE I!Kept(p, worker.tip) = I!NoProgress
  <2>1. /\ I!NoProgress.last = -1 /\ I!NoProgress.slipped = FALSE
        /\ I!NoProgress = [x \in ProgressFields |-> I!NoProgress[x]]
    BY DEF I!NoProgress, ProgressFields
  <2> HIDE DEF p, ok
  <2>2. -1 \in -1 .. worker.tip /\ 0 <= Len(blocks) /\ -1 + 1 = 0
    BY <1>1, <1>2
  <2> QED
    BY <1>3, <1>4, <2>1, <2>2 DEF p, ok
<1>5. CASE ~(p.last > worker.tip) /\ I!HashOf(p.last) = p.hash /\ I!Kept(p, worker.tip) = p
  <2>1. CASE p.last = -1
    BY <1>1, <1>2, <1>3, <1>5, <2>1
  <2>2. CASE /\ p.last \in Nat /\ p.hash \in 1 .. bounds.hash
             /\ ~p.slipped => StandsFor(blocks, p.last, p.hash, p.last + 1, ok)
    <3>1. p.hash # 0
      BY <2>2
    <3>2. blocks[p.last + 1].hash = p.hash /\ p.last + 1 <= Len(blocks) /\ p.last < Len(blocks)
      BY <1>2, <1>5, <2>2, <3>1 DEF I!HashOf
    <3>3. ~p.slipped => Seen(blocks, p.last + 1, ok)
      BY <2>2, <3>2 DEF StandsFor
    <3> QED
      BY <1>1, <1>5, <2>2, <3>2, <3>3
  <2> QED
    BY <1>1, <2>1, <2>2 DEF CursorFits
<1> QED
  BY <1>4, <1>5 DEF I!Kept

LEMMA PlanCovers ==
  ASSUME CursorInv, I!Plan
  PROVE  CursorInv'
<1> DEFINE p == I!Kept(worker.progress, worker.tip)
           range == I!ClusterRange(p.last, worker.tip)
           from == range.from
           to == range.to
           ok == scanned \cup replayed
<1>1. worker.at = "compare" /\ UNCHANGED <<blocks, replayed, scanned, saved, bounds>>
      /\ worker' = [worker EXCEPT !.at = "boundary", !.progress = p, !.from = from, !.to = to]
  BY DEF I!Plan, I!ingested
<1>2. Len(blocks) \in Nat /\ worker.tip \in Nat
  BY <1>1, TheWorker DEF CursorInv, BlocksFit, WorkerFits
<1>3. /\ p.last \in -1 .. worker.tip /\ p.slipped \in BOOLEAN /\ p = [x \in ProgressFields |-> p[x]]
      /\ ~p.slipped => p.last + 1 <= Len(blocks) /\ Seen(blocks, p.last + 1, ok)
  BY <1>1, KeptCursor
<1>4. to \in 0 .. worker.tip /\ from \in 0 .. p.last + 1 /\ from \in 0 .. to + 1
  BY <1>2, <1>3, RangeFollows
<1> HIDE DEF p, from, to, range
<1>5. ~p.slipped => from <= Len(blocks) /\ Seen(blocks, from, ok)
  <2>1. p.last \in Int
    BY <1>2, <1>3
  <2>2. from \in Int /\ from <= p.last + 1 /\ \A i \in 1 .. from : i \in 1 .. p.last + 1
    BY <1>4, <2>1
  <2>3. ~p.slipped => from <= Len(blocks)
    BY <1>2, <1>3, <2>1, <2>2
  <2>4. ~p.slipped => Seen(blocks, from, ok)
    BY <1>3, <2>2 DEF Seen
  <2> QED
    BY <2>3, <2>4
<1>6. WorkerFits(worker', blocks, bounds.hash, ok)
  <2> DEFINE w == [worker EXCEPT !.at = "boundary", !.progress = p, !.from = from, !.to = to]
  <2>1. /\ w = [x \in WorkerFields |-> w[x]]
        /\ w.at = "boundary" /\ w.progress = p /\ w.from = from /\ w.to = to
    BY TheWorker DEF WorkerFits, WorkerFields
  <2>2. to \in Nat /\ from \in 0 .. to + 1
    BY <1>2, <1>4
  <2> HIDE DEF w
  <2>3. WorkerFits(w, blocks, bounds.hash, ok)
    BY <1>3, <1>5, <2>1, <2>2 DEF WorkerFits
  <2> QED
    BY <1>1, <2>3 DEF w
<1> QED
  BY <1>1, <1>6, WorkerStep

LEMMA ReadBoundaryCovers ==
  ASSUME BoundsFit, CursorInv, I!ReadBoundary
  PROVE  CursorInv'
<1> DEFINE ok == scanned \cup replayed
           h == I!HashOf(worker.to)
<1>1. worker.at = "boundary" /\ UNCHANGED <<blocks, replayed, scanned, saved, bounds>>
      /\ IF h = 0 THEN I!Fails ELSE worker' = [worker EXCEPT !.at = "find", !.hash = h]
  BY DEF I!ReadBoundary, I!ingested
<1>2. CASE I!Fails
  BY <1>1, <1>2, FailsFits, WorkerStep
<1>3. CASE h # 0
  <2>1. worker' = [worker EXCEPT !.at = "find", !.hash = h]
    BY <1>1, <1>3
  <2>2. worker.to \in Nat /\ worker.from \in 0 .. worker.to + 1
        /\ (~worker.progress.slipped => Seen(blocks, worker.from, ok))
    BY <1>1, TheWorker DEF WorkerFits
  <2>3. h = blocks[worker.to + 1].hash /\ worker.to + 1 \in DOMAIN blocks
    BY <1>3 DEF I!HashOf
  <2>4. h \in 1 .. bounds.hash
    BY <2>3 DEF CursorInv, BlocksFit
  <2> HIDE DEF h
  <2>5. ~worker.progress.slipped => StandsFor(blocks, worker.to, h, worker.from, ok)
    BY <2>2 DEF StandsFor
  <2>6. WorkerFits(worker', blocks, bounds.hash, ok)
    BY <1>1, <2>1, <2>2, <2>4, <2>5, TheWorker DEF WorkerFits, WorkerFields
  <2> QED
    BY <1>1, <2>6, WorkerStep
<1> QED
  BY <1>1, <1>2, <1>3

LEMMA FindCovers ==
  ASSUME BoundsFit, CursorInv, I!Find
  PROVE  CursorInv'
<1> DEFINE ok == scanned \cup replayed
           read == {blocks[n + 1].hash : n \in I!ReadableBlocks}
<1>1. worker.at = "find" /\ UNCHANGED <<blocks, replayed, scanned, saved, bounds>>
  BY DEF I!Find, I!ingested
<1>2. PICK found : worker' = [worker EXCEPT !.at = "submit", !.found = found, !.read = read]
  BY DEF I!Find
<1>3. worker.hash \in 1 .. bounds.hash
      /\ (~worker.progress.slipped => StandsFor(blocks, worker.to, worker.hash, worker.from, ok))
  BY <1>1, TheWorker DEF WorkerFits
<1>4. BlocksFit(blocks, bounds.hash, replayed) /\ Len(blocks) \in Nat /\ DOMAIN blocks = 1 .. Len(blocks)
  BY DEF CursorInv, BlocksFit
<1>5. ASSUME ~worker.progress.slipped
      PROVE  StandsFor(blocks, worker.to, worker.hash, worker.to + 1, ok \cup read)
  <2>0. StandsFor(blocks, worker.to, worker.hash, worker.from, ok)
    BY <1>3, <1>5
  <2>1. worker.to \in Nat /\ worker.from \in 0 .. worker.to + 1
    BY <2>0 DEF StandsFor
  <2> SUFFICES ASSUME worker.to < Len(blocks), blocks[worker.to + 1].hash = worker.hash,
                      NEW i \in 1 .. worker.to + 1
               PROVE  blocks[i].hash \in ok \cup read
    BY <2>1 DEF StandsFor, Seen
  <2>2. CASE i \in 1 .. worker.from
    BY <2>0, <2>2 DEF StandsFor, Seen
  <2>3. CASE i \notin 1 .. worker.from
    <3>1. i - 1 \in worker.from .. worker.to /\ i \in 1 .. Len(blocks) /\ (i - 1) + 1 = i
      BY <1>4, <2>1, <2>3
    <3>2. CASE blocks[i].complete
      <4>1. I!HashOf(i - 1) = blocks[i].hash
        BY <1>4, <3>1, <3>2 DEF I!HashOf
      <4>2. blocks[i].hash # 0
        BY <1>4, <3>1 DEF BlocksFit
      <4>3. i - 1 \in I!ReadableBlocks
        BY <3>1, <4>1, <4>2 DEF I!ReadableBlocks
      <4> QED
        BY <3>1, <4>3
    <3>3. CASE ~blocks[i].complete
      BY <1>4, <3>1, <3>3 DEF BlocksFit
    <3> QED
      BY <3>2, <3>3
  <2> QED
    BY <2>2, <2>3
<1> HIDE DEF read
<1>6. WorkerFits(worker', blocks, bounds.hash, ok)
  BY <1>1, <1>2, <1>3, <1>5, TheWorker DEF WorkerFits, WorkerFields
<1> QED
  BY <1>1, <1>6, WorkerStep

LEMMA SubmitCovers ==
  ASSUME CursorInv, I!Submit
  PROVE  CursorInv'
<1>1. worker.at = "submit" /\ UNCHANGED <<blocks, replayed, scanned, saved, bounds>>
      /\ (I!Fails \/ worker' = [worker EXCEPT !.at = "confirm", !.found = <<>>])
  BY DEF I!Submit, I!ingested
<1>2. CASE I!Fails
  BY <1>1, <1>2, FailsFits, WorkerStep
<1>3. CASE worker' = [worker EXCEPT !.at = "confirm", !.found = <<>>]
  <2>1. WorkerFits(worker', blocks, bounds.hash, scanned \cup replayed)
    BY <1>1, <1>3, TheWorker DEF WorkerFits, WorkerFields
  <2> QED
    BY <1>1, <2>1, WorkerStep
<1> QED
  BY <1>1, <1>2, <1>3

LEMMA ConfirmCovers ==
  ASSUME BoundsFit, CursorInv, I!Confirm
  PROVE  CursorInv'
<1> DEFINE after == [last |-> worker.to, hash |-> worker.hash, slipped |-> worker.progress.slipped]
           ok == scanned \cup replayed
<1>1. worker.at = "confirm" /\ UNCHANGED <<blocks, replayed, bounds>>
      /\ \/ I!Fails /\ UNCHANGED <<saved, scanned>>
         \/ saved' = after /\ worker' = I!Asleep(after) /\ scanned' = scanned \cup worker.read
  BY DEF I!Confirm
<1>2. CASE I!Fails /\ UNCHANGED <<saved, scanned>>
  BY <1>1, <1>2, FailsFits, WorkerStep
<1>3. CASE saved' = after /\ worker' = I!Asleep(after) /\ scanned' = scanned \cup worker.read
  <2>1. worker.hash \in 1 .. bounds.hash /\ worker.to \in Nat /\ worker.progress.slipped \in BOOLEAN
        /\ (~worker.progress.slipped =>
               StandsFor(blocks, worker.to, worker.hash, worker.to + 1, ok \cup worker.read))
    BY <1>1, TheWorker DEF WorkerFits
  <2>2. after.last = worker.to /\ after.hash = worker.hash /\ after.slipped = worker.progress.slipped
        /\ after = [x \in ProgressFields |-> after[x]]
    BY DEF ProgressFields
  <2> HIDE DEF after
  <2>3. scanned' \cup replayed = ok \cup worker.read
    BY <1>3
  <2>4. CursorFits(after, blocks, bounds.hash, scanned' \cup replayed)
    BY <2>1, <2>2, <2>3 DEF CursorFits
  <2>5. WorkerFits(worker', blocks, bounds.hash, scanned' \cup replayed)
    BY <1>3, <2>1, <2>2, <2>4 DEF WorkerFits, WorkerFields, I!Asleep
  <2> QED
    BY <1>1, <1>3, <2>2, <2>4, <2>5 DEF CursorInv
<1> QED
  BY <1>1, <1>2, <1>3

LEMMA WorkerEndsCovers ==
  ASSUME BoundsFit, CursorInv, I!WorkerEnds
  PROVE  CursorInv'
<1>1. I!Fails /\ UNCHANGED <<blocks, replayed, scanned, saved>>
      /\ \E m : bounds' = [bounds EXCEPT !.stops = m]
  BY DEF I!WorkerEnds, I!ingested
<1>2. bounds'.hash = bounds.hash
  BY <1>1 DEF BoundsFit, BoundFields
<1> QED
  BY <1>1, <1>2, FailsFits, WorkerStep

LEMMA NoCursorYet ==
  ASSUME I!Init
  PROVE  CursorInv
<1>1. /\ blocks = <<>> /\ scanned = {} /\ replayed = {} /\ saved = I!NoProgress
      /\ worker = I!Asleep(I!NoProgress)
  BY DEF I!Init
<1>2. BlocksFit(blocks, bounds.hash, replayed)
  BY <1>1 DEF BlocksFit
<1>3. CursorFits(saved, blocks, bounds.hash, scanned \cup replayed) /\ saved.last = -1
      /\ saved.slipped = FALSE /\ saved = [x \in ProgressFields |-> saved[x]]
  BY <1>1 DEF CursorFits, I!NoProgress, ProgressFields
<1> QED
  BY <1>1, <1>2, <1>3 DEF CursorInv, WorkerFits, WorkerFields, I!Asleep

LEMMA CursorInvKept ==
  ASSUME BoundsFit, CursorInv, [I!Next]_(I!vars)
  PROVE  CursorInv'
<1>0. BoundsFit' /\ bounds.hash <= bounds'.hash
  BY BoundsGrow
<1>1. ASSUME UNCHANGED <<blocks, replayed, scanned, saved, worker>>, bounds'.hash = bounds.hash
      PROVE  CursorInv'
  BY <1>1 DEF CursorInv
<1>2. CASE UNCHANGED I!vars
  BY <1>1, <1>2 DEF I!vars
<1>3. ASSUME NEW l \in DOMAIN Labels, I!SubmitLabel(l)
      PROVE  CursorInv'
  BY <1>1, <1>3 DEF I!SubmitLabel, I!ingested, I!proposed
<1>4. ASSUME NEW r \in Reviewers, I!Review(r)
      PROVE  CursorInv'
  <2>1. UNCHANGED <<I!ingested, I!proposed>>
    BY <1>4 DEF I!Review, I!Decide, I!Record, I!Check, I!Write, I!ReadVersion, I!CountOthers, I!WriteMember,
                I!WriteVersion, I!MatchExchange, I!ReadAnchor, I!WriteExchange, I!ReviewEnds
  <2>2. bounds'.hash = bounds.hash
    <3>1. CASE I!Decide(r) \/ I!ReviewEnds(r)
      BY <3>1 DEF I!Decide, I!ReviewEnds, BoundsFit, BoundFields
    <3>2. CASE ~I!Decide(r) /\ ~I!ReviewEnds(r)
      BY <1>4, <3>2 DEF I!Review, I!Record, I!Check, I!Write, I!ReadVersion, I!CountOthers, I!WriteMember,
                I!WriteVersion, I!MatchExchange, I!ReadAnchor, I!WriteExchange
    <3> QED
      BY <3>1, <3>2
  <2> QED
    BY <1>1, <2>1, <2>2 DEF I!ingested, I!proposed
<1>5. CASE I!SwitchSource
  <2>1. (\E m : bounds' = [bounds EXCEPT !.switches = m]) /\ UNCHANGED <<saved, worker, I!ingested>>
    BY <1>5 DEF I!SwitchSource
  <2> QED
    BY <1>1, <2>1 DEF I!ingested, BoundsFit, BoundFields
<1>6. CASE I!Work
  BY <1>6, BeginCovers, ReadTipCovers, PlanCovers, ReadBoundaryCovers, FindCovers, SubmitCovers, ConfirmCovers,
     WorkerEndsCovers DEF I!Work
<1> QED
  BY <1>0, <1>2, <1>3, <1>4, <1>5, <1>6, IngestCovers, ReplayCovers, RestoreCovers DEF I!Next

\* A saved cursor of tasks/analytics.rs whose block is still there stands for
\* blocks that the discovery has all read, or that were under replay, wherever
\* the worker ends and however often blocks are taken back, but for a cursor
\* under which that happened just as it looked for its boundary.
LEMMA CursorsStand == I!Spec => []I!CursorCovers
<1> DEFINE Inv == BoundsFit /\ CursorInv
<1>1. I!Init => Inv
  BY NothingDecided, NoCursorYet
<1>2. Inv /\ [I!Next]_(I!vars) => Inv'
  BY BoundsGrow, CursorInvKept
<1>3. Inv => I!CursorCovers
  <2> SUFFICES ASSUME CursorInv, saved.last >= 0, saved.last <= I!Tip, ~saved.slipped,
                      blocks[saved.last + 1].hash = saved.hash, NEW n \in 0 .. saved.last
               PROVE  blocks[n + 1].hash \in scanned \cup replayed
    BY DEF I!CursorCovers
  <2>1. Len(blocks) \in Nat /\ I!Tip = Len(blocks) - 1
    BY DEF CursorInv, BlocksFit, I!Tip
  <2>2. StandsFor(blocks, saved.last, saved.hash, saved.last + 1, scanned \cup replayed)
    BY DEF CursorInv, CursorFits
  <2>3. saved.last \in Nat /\ n + 1 \in 1 .. saved.last + 1
    BY <2>2 DEF StandsFor
  <2>4. saved.last < Len(blocks)
    BY <2>1, <2>3
  <2> QED
    BY <2>2, <2>3, <2>4 DEF StandsFor, Seen
<1> HIDE DEF Inv
<1> QED
  BY <1>1, <1>2, <1>3, PTL DEF I!Spec

\* Readers of TRON's intelligence see what was decided last and nothing that nobody
\* approved, and the discovery has read every block its cursor stands for, although
\* reviews, replays, restores and stops come between any two of their queries;
\* only a cursor that slipped, as blocks were taken back below its range between
\* the comparison and the boundary, stands for blocks that nobody read.
THEOREM IntelligenceHolds == ChainsSpec => []ReviewsHold
<1>1. ChainsInit => I!Init
  BY DEF ChainsInit
<1>2. [ChainsNext]_chainVars => [I!Next]_(I!vars)
  BY DEF ChainsNext, chainVars, reviewVars, I!vars
<1>3. I!ReviewsHold /\ I!CursorCovers => ReviewsHold
  BY DEF ReviewsHold
<1>4. ChainsSpec => I!Spec
  BY <1>1, <1>2, PTL DEF ChainsSpec, I!Spec
<1> QED
  BY <1>3, <1>4, DecisionsStand, CursorsStand, PTL
=============================================================================
