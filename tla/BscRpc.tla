------------------------------- MODULE BscRpc -------------------------------
(***************************************************************************)
(* How the BSC follower gets one block from several nodes                  *)
(* (dockerizd_bsc/src/ingestion/rpc.rs, ingestion/model.rs), after a start  *)
(* that probes what the nodes can do (rpc.rs, runtime.rs).  Every call goes  *)
(* to another node than the one before, so the body, the receipts and the  *)
(* traces of a block come from nodes that may follow different forks, lag  *)
(* behind or lack a method.                                                 *)
(*                                                                         *)
(* Where a call starts is any node: the counter behind it is shared with    *)
(* the fetches that run beside this one.  Left out: delays, sizes and the   *)
(* encoding of fields, of which a broken answer stands for every failure.   *)
(***************************************************************************)
EXTENDS Integers, Sequences, FiniteSets

CONSTANTS
    Endpoints,      \* how many nodes are configured
    MaxAttempts,    \* rpc_max_attempts, never fewer than Endpoints
    Chunk,          \* receipt_concurrency
    Modes,          \* [receipts: "auto", "block" or "transaction"; traces: "auto", "disabled" or "required"; required]
    Abilities,      \* what a node may be able to do, sets of "blockReceipts" and "traces"
    Blocks,         \* the forks of one height: hash -> transactions [tx, success, traced]
    MaxFaults, MaxMoves     \* bounds: failing answers; nodes that switch fork or lag

VARIABLES
    mode,       \* the configuration
    able,       \* what each node can do
    serves,     \* the block each node has at this height, or "none"
    stage,      \* "probe", "run" or "stopped"
    probed,     \* how many nodes the start has accepted
    fetch,      \* the block that is fetched
    faults, moves
vars == <<mode, able, serves, stage, probed, fetch, faults, moves>>

Nodes == 0 .. Endpoints - 1
NoTraces == {}
Fresh == [at |-> "idle", calls |-> <<>>, body |-> "none", left |-> <<>>, receipts |-> {},
          traces |-> NoTraces, traced |-> FALSE, why |-> "", asked |-> {}]

Init ==
    /\ mode \in Modes
    /\ able \in [Nodes -> Abilities] /\ serves \in [Nodes -> DOMAIN Blocks]
    /\ stage = "probe" /\ probed = 0
    /\ fetch = Fresh
    /\ faults = 0 /\ moves = 0

----------------------------------------------------------------------------
(* The start *)

Required == mode.required \cup (IF mode.traces = "required" THEN {"traces"} ELSE {})

\* A node moves to another fork, or falls behind this height.
Move ==
    /\ moves < MaxMoves
    /\ \E n \in Nodes, block \in DOMAIN Blocks \cup {"none"} : serves' = [serves EXCEPT ![n] = block]
    /\ moves' = moves + 1
    /\ UNCHANGED <<mode, able, stage, probed, fetch, faults>>

\* ensure_requirements: each configured node must be able to do what is required.
Accepts(n) == Required \subseteq able[n]

\* An answer that fails counts as a missing ability, or ends the start.
Probe ==
    /\ stage = "probe"
    /\ \/ /\ Accepts(probed)
          /\ probed' = probed + 1
          /\ stage' = IF probed + 1 = Endpoints THEN "run" ELSE "probe"
          /\ UNCHANGED faults
       \/ /\ ~Accepts(probed)
          /\ stage' = "stopped" /\ UNCHANGED <<probed, faults>>
       \/ /\ faults < MaxFaults
          /\ faults' = faults + 1 /\ stage' = "stopped" /\ UNCHANGED probed
    /\ UNCHANGED <<mode, able, serves, fetch, moves>>

----------------------------------------------------------------------------
(* call_value: one call and its attempts *)

\* The calls of a fetch; only a receipt's names a transaction.
Block == <<"block", "">>
BlockReceipts == <<"blockReceipts", "">>
Traces == <<"traces", "">>
ReceiptFor(tx) == <<"receipt", tx>>

\* One call per key, each with a first node of its own.
Opened(keys) == [keys -> {[start |-> n, attempt |-> 1] : n \in Nodes}]

NodeOf(call, attempt) == (call.start + attempt - 1) % Endpoints
Asked(call) == {NodeOf(call, a) : a \in 1 .. call.attempt}
Ability(key) == {key[1]} \cap {"blockReceipts", "traces"}
\* Mutant: the last node is left out.
Mutant_LastAttempt(call) == call.attempt + 1 >= MaxAttempts
LastAttempt(call) == call.attempt >= MaxAttempts

\* What went wrong: the node cannot ("unsupported"), could not now
\* ("transient") or answered nonsense ("broken").
Wrong(key, why) ==
    LET node == NodeOf(fetch.calls[key], fetch.calls[key].attempt)
        can == Ability(key) \subseteq able[node]
    IN  /\ stage = "run"
        /\ key \in DOMAIN fetch.calls
        /\ IF why = "unsupported" THEN ~can /\ UNCHANGED faults
           ELSE faults < MaxFaults /\ faults' = faults + 1

Fails(why, asked) ==
    fetch' = [fetch EXCEPT !.at = "failed", !.calls = <<>>, !.why = why, !.asked = asked]

\* failover_worthy: the next node is asked.
FailOver(key) ==
    /\ \E why \in {"unsupported", "transient"} : Wrong(key, why)
    /\ ~LastAttempt(fetch.calls[key])
    /\ fetch' = [fetch EXCEPT !.calls[key].attempt = @ + 1]
    /\ UNCHANGED <<mode, able, serves, stage, probed, moves>>

\* In the automatic modes a method that the last node lacks is done without.
DoneWithout(key, why) ==
    why = "unsupported" /\ <<key, "auto">> \in {<<BlockReceipts, mode.receipts>>, <<Traces, mode.traces>>}

CallFails(key) ==
    /\ \E why \in {"unsupported", "transient", "broken"} :
        /\ Wrong(key, why)
        /\ why # "broken" => LastAttempt(fetch.calls[key])
        /\ ~DoneWithout(key, why)
        /\ Fails(why, Asked(fetch.calls[key]))
    /\ UNCHANGED <<mode, able, serves, stage, probed, moves>>

----------------------------------------------------------------------------
(* block_with_receipts *)

First(s) == SubSeq(s, 1, IF Len(s) < Chunk THEN Len(s) ELSE Chunk)
Transactions(block) == [i \in DOMAIN Blocks[block] |-> Blocks[block][i].tx]
Members(s) == {s[i] : i \in DOMAIN s}
Receipt(block, i) == [tx |-> Blocks[block][i].tx, index |-> i, block |-> block]
ReceiptsOf(block) == {Receipt(block, i) : i \in DOMAIN Blocks[block]}
TracesOf(block) == {[tx |-> b.tx, success |-> b.traced] : b \in Members(Blocks[block])}

\* normalize_block: as many receipts as transactions, each of this block.
ReceiptsFit(block, receipts) ==
    /\ Cardinality(receipts) = Len(Blocks[block])
    /\ \A i \in DOMAIN Blocks[block] : Receipt(block, i) \in receipts

\* append_internal_transfers: a trace says of which transaction it is, not of
\* which block.
TracesFit(block, traces) ==
    /\ Cardinality(traces) = Len(Blocks[block])
    /\ \A b \in Members(Blocks[block]) :
          \E t \in traces : t.tx = b.tx /\ (b.success => t.success)

Ends(f) ==
    [f EXCEPT !.calls = <<>>,
              !.at = IF ReceiptsFit(f.body, f.receipts) /\ (f.traced => TracesFit(f.body, f.traces))
                     THEN "prepared" ELSE "refused"]

Opens(f, keys) == \E calls \in Opened(keys) : fetch' = [f EXCEPT !.at = "calls", !.calls = calls]

GoesToTraces(f) ==
    IF mode.traces = "disabled" THEN fetch' = Ends(f) ELSE Opens(f, {Traces})

\* fetch_transaction_receipts: a chunk of calls at once, then the next chunk.
GoesToReceipts(f, left) ==
    LET g == [f EXCEPT !.left = left]
    IN  IF left = <<>> THEN GoesToTraces(g) ELSE Opens(g, {ReceiptFor(tx) : tx \in Members(First(left))})

StartFetch ==
    /\ stage = "run" /\ fetch.at = "idle"
    /\ Opens(fetch, {Block})
    /\ UNCHANGED <<mode, able, serves, stage, probed, faults, moves>>

Returns(key, takes(_)) ==
    LET node == NodeOf(fetch.calls[key], fetch.calls[key].attempt)
    IN  /\ stage = "run" /\ key \in DOMAIN fetch.calls
        /\ Ability(key) \subseteq able[node]
        /\ takes(serves[node])
        /\ UNCHANGED <<mode, able, serves, stage, probed, faults, moves>>

\* Null is an answer: it fails the fetch and no other node is asked.
Unavailable(key) == Fails("null", Asked(fetch.calls[key]))

BlockReturns ==
    LET take(block) ==
            IF block = "none" THEN Unavailable(Block)
            ELSE LET f == [fetch EXCEPT !.body = block]
                 IN  IF mode.receipts = "transaction" THEN GoesToReceipts(f, Transactions(block))
                     ELSE Opens(f, {BlockReceipts})
    IN  Returns(Block, take)

BlockReceiptsReturn ==
    LET take(block) ==
            IF block = "none" THEN Unavailable(BlockReceipts)
            ELSE GoesToTraces([fetch EXCEPT !.receipts = ReceiptsOf(block)])
    IN  Returns(BlockReceipts, take)

\* fetch_transaction_receipt: the receipt of the block the node has it in.
ReceiptReturns(tx) ==
    LET key == ReceiptFor(tx)
        take(block) ==
            IF block = "none" \/ tx \notin Members(Transactions(block)) THEN Unavailable(key)
            ELSE LET f == [fetch EXCEPT !.receipts = @ \cup {r \in ReceiptsOf(block) : r.tx = tx}]
                     open == DOMAIN fetch.calls \ {key}
                 IN  IF open = {} THEN GoesToReceipts(f, SubSeq(f.left, Len(First(f.left)) + 1, Len(f.left)))
                     ELSE fetch' = [f EXCEPT !.calls = [k \in open |-> fetch.calls[k]]]
    IN  Returns(key, take)

TracesReturn ==
    LET take(block) ==
            IF block = "none" THEN Unavailable(Traces)
            ELSE fetch' = Ends([fetch EXCEPT !.traces = TracesOf(block), !.traced = TRUE])
    IN  Returns(Traces, take)

DoWithout(key) ==
    /\ Wrong(key, "unsupported") /\ LastAttempt(fetch.calls[key])
    /\ DoneWithout(key, "unsupported")
    /\ IF key = Traces THEN fetch' = Ends([fetch EXCEPT !.asked = Asked(fetch.calls[key])])
       ELSE GoesToReceipts(fetch, Transactions(fetch.body))
    /\ UNCHANGED <<mode, able, serves, stage, probed, moves>>

Receipts == {ReceiptFor(tx) : tx \in UNION {Members(Transactions(b)) : b \in DOMAIN Blocks}}
Keys == {Block, BlockReceipts, Traces} \cup Receipts

Next ==
    \/ Move \/ Probe \/ StartFetch
    \/ BlockReturns \/ BlockReceiptsReturn \/ TracesReturn
    \/ \E key \in Keys : FailOver(key) \/ CallFails(key) \/ DoWithout(key)
    \/ \E key \in Receipts : ReceiptReturns(key[2])

Spec == Init /\ [][Next]_vars

----------------------------------------------------------------------------
(* Properties *)

\* A block that is handed on has all the receipts of its fork and no others,
\* although every call may have gone to another node and nodes move between the
\* calls.  Its traces are those of one fork too, of its own or of a twin: one
\* with the same transactions, none of which failed there and not here.  That a
\* twin's are taken is what the code does, as a trace names no block
\* (rpc.rs 114-150, transfers.rs 228-292).
Twins(body, twin) ==
    /\ Members(Transactions(twin)) = Members(Transactions(body))
    /\ \A b \in Members(Blocks[body]), t \in Members(Blocks[twin]) :
          b.tx = t.tx /\ b.success => t.traced

PreparedIsOneBlock ==
    fetch.at = "prepared" =>
        /\ fetch.receipts = ReceiptsOf(fetch.body)
        /\ fetch.traced => \E twin \in DOMAIN Blocks : fetch.traces = TracesOf(twin) /\ Twins(fetch.body, twin)

\* Over a node that cannot or could not answer the next one is asked, and only
\* when all of them were does the fetch fail or go on without traces.  It is not
\* so with an answer: the null of a node that lags behind, or nonsense, ends the
\* fetch with the node that gave it (rpc.rs 125-127, 200-260).
FailoverGoesRound ==
    /\ fetch.at = "failed" /\ fetch.why \in {"unsupported", "transient"} => fetch.asked = Nodes
    /\ fetch.at = "prepared" /\ mode.traces # "disabled" /\ ~fetch.traced => fetch.asked = Nodes

\* What the configuration requires is never missed once the start has passed,
\* on whichever node a call ends up.
RequiredIsServed ==
    /\ stage = "run" => \A n \in Nodes : Required \subseteq able[n]
    /\ fetch.at = "prepared" /\ mode.traces = "required" => fetch.traced

FetchesHold == PreparedIsOneBlock /\ FailoverGoesRound /\ RequiredIsServed
=============================================================================
