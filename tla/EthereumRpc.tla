----------------------------- MODULE EthereumRpc -----------------------------
(***************************************************************************)
(* What the Ethereum services read from their node while it may change the *)
(* block it serves at a height: ingestion's block, its receipts and traces  *)
(* (dockerizd_ethereum: ethereum/client.rs, the checks of                   *)
(* ethereum/extractor.rs) and the balances of one wallet                    *)
(* (ethereum/holdings.rs).  The calls name the height, never the block.     *)
(*                                                                         *)
(* Left out: delays and encodings; a fault stands for every call that       *)
(* fails, comes late or is malformed.                                      *)
(***************************************************************************)
EXTENDS Integers

CONSTANTS
    Blocks,         \* the forks of the height: hash -> its transactions, a set
    TraceModes,     \* "disabled", "auto", "required"
    MaxRetries,     \* ETH_RPC_MAX_RETRIES
    AssetLimit,     \* holdings.rs ASSET_LIMIT, 100
    MaxAssets, Unreadable,  \* bound on the discovered assets; those no call can be built for
    MaxFaults, MaxMoves     \* bounds

VARIABLES
    mode,       \* ETH_TRACE_MODE
    serves,     \* the fork the node has at the height, or None
    left,       \* history: the forks it served before
    returned,   \* history: it came back to one of them
    fetch,      \* the block that ingestion fetches
    snapshot,   \* the balances of one request
    faults, moves
vars == <<mode, serves, left, returned, fetch, snapshot, faults, moves>>

None == "none"      \* the node's null
Waiting == "waiting"
Attempt(n) == [at |-> "calls", attempt |-> n, block |-> Waiting, receipts |-> Waiting,
               traces |-> Waiting]
Idle == [at |-> "idle", hash |-> Waiting, rows |-> <<>>, truncated |-> FALSE]

Init ==
    /\ mode \in TraceModes /\ serves \in DOMAIN Blocks
    /\ left = {} /\ returned = FALSE
    /\ fetch = [Attempt(0) EXCEPT !.at = "idle"]
    /\ snapshot = Idle
    /\ faults = 0 /\ moves = 0

Node == <<serves, left, returned, moves>>

\* The node moves to another fork, or is behind the height for a while.
Move ==
    /\ moves < MaxMoves
    /\ \E b \in (DOMAIN Blocks \cup {None}) \ {serves} :
          /\ serves' = b
          /\ returned' = (returned \/ b \in left)
    /\ left' = left \cup ({serves} \ {None})
    /\ moves' = moves + 1
    /\ UNCHANGED <<mode, fetch, snapshot, faults>>

Fault == faults < MaxFaults /\ faults' = faults + 1

----------------------------------------------------------------------------
(* fetch_block: attempts of two calls at once and one that follows them *)

StartFetch ==
    /\ fetch.at = "idle"
    /\ fetch' = Attempt(1)
    /\ UNCHANGED <<mode, Node, snapshot, faults>>

\* Any error of an attempt is retried, until the attempts are used up.
AttemptFails ==
    fetch' = IF fetch.attempt < MaxRetries THEN Attempt(fetch.attempt + 1)
             ELSE [fetch EXCEPT !.at = "failed"]

\* try_join: the block and its receipts, each as the node has it then.
Answer(part) ==
    /\ fetch.at = "calls" /\ fetch[part] = Waiting
    /\ fetch' = [fetch EXCEPT ![part] = serves]
    /\ UNCHANGED <<mode, Node, snapshot, faults>>

\* Mutant: the receipts are compared by their transactions only.
Mutant_ReceiptsFit == Blocks[fetch.receipts] = Blocks[fetch.block]

\* extract_block, validate_receipt: a receipt for each transaction, of this block.
ReceiptsFit ==
    \/ fetch.receipts = fetch.block
    \/ Blocks[fetch.receipts] = {} /\ Blocks[fetch.block] = {}

\* What is fetched is checked after the attempts: a refusal is not retried.
Extracted(f) == [f EXCEPT !.at = IF ReceiptsFit THEN "accepted" ELSE "refused"]

Joined ==
    /\ fetch.at = "calls" /\ Waiting \notin {fetch.block, fetch.receipts}
    /\ IF None \in {fetch.block, fetch.receipts} THEN AttemptFails
       ELSE fetch' = IF mode = "disabled" THEN Extracted(fetch) ELSE [fetch EXCEPT !.at = "traces"]
    /\ UNCHANGED <<mode, Node, snapshot, faults>>

\* Without the whole answer the block goes without traces, unless they are required.
NoTraces ==
    IF mode = "required" THEN AttemptFails ELSE fetch' = Extracted([fetch EXCEPT !.traces = None])

\* normalize_trace_results: one for each transaction, by its hash; anything
\* else fails the attempt in either mode.
TracesAnswer ==
    /\ fetch.at = "traces"
    /\ IF serves = None THEN NoTraces
       ELSE IF Blocks[serves] = Blocks[fetch.block] THEN fetch' = Extracted([fetch EXCEPT !.traces = serves])
       ELSE AttemptFails
    /\ UNCHANGED <<mode, Node, snapshot, faults>>

\* The call fails, or one transaction's trace is an error.
CallFails ==
    /\ fetch.at \in {"calls", "traces"} /\ Fault
    /\ \/ AttemptFails
       \/ fetch.at = "traces" /\ NoTraces
    /\ UNCHANGED <<mode, Node, snapshot>>

----------------------------------------------------------------------------
(* holdings::snapshot: the finalized block, its balances, and the block again *)

Native == 0
\* The assets the warehouse knows, in the order of their names, cut at the limit.
Rows(discovered) ==
    [a \in {Native} \cup {i \in 1 .. discovered : i <= AssetLimit} |-> Waiting]

Unavailable == snapshot' = [Idle EXCEPT !.at = "unavailable"]

\* All permits may be taken by other requests.
StartSnapshot ==
    /\ snapshot.at = "idle"
    /\ \/ \E discovered \in 0 .. MaxAssets :
             snapshot' = [Idle EXCEPT !.at = "head", !.rows = Rows(discovered),
                                      !.truncated = discovered > AssetLimit]
       \/ Unavailable
    /\ UNCHANGED <<mode, Node, fetch, faults>>

ReadBlock ==
    /\ snapshot.at = "head"
    /\ IF serves = None THEN Unavailable
       ELSE snapshot' = [snapshot EXCEPT !.at = "reads", !.hash = serves]
    /\ UNCHANGED <<mode, Node, fetch, faults>>

\* A balance at the height: of the fork that is there now.
ReadBalance(asset) ==
    /\ snapshot.at = "reads" /\ asset \in DOMAIN snapshot.rows /\ snapshot.rows[asset] = Waiting
    /\ snapshot' = [snapshot EXCEPT !.rows[asset] = IF asset \in Unreadable THEN None ELSE serves]
    /\ UNCHANGED <<mode, Node, fetch, faults>>

\* The deadline of the reads, for all that wait; or one call fails.
BalancesFail ==
    /\ snapshot.at = "reads" /\ Fault
    /\ \E late \in {{a \in DOMAIN snapshot.rows : snapshot.rows[a] = Waiting}}
                      \cup {{a} : a \in DOMAIN snapshot.rows} :
          /\ late # {} /\ \A a \in late : snapshot.rows[a] = Waiting
          /\ snapshot' = [snapshot EXCEPT !.rows = [a \in DOMAIN @ |-> IF a \in late THEN None ELSE @[a]]]
    /\ UNCHANGED <<mode, Node, fetch>>

BlockStands == serves = snapshot.hash

Verify ==
    /\ snapshot.at = "reads" /\ \A a \in DOMAIN snapshot.rows : snapshot.rows[a] # Waiting
    /\ IF BlockStands THEN snapshot' = [snapshot EXCEPT !.at = "done"] ELSE Unavailable
    /\ UNCHANGED <<mode, Node, fetch, faults>>

\* The request's own deadline, or a query that fails.
SnapshotFails ==
    /\ snapshot.at \in {"head", "reads"} /\ Fault /\ Unavailable
    /\ UNCHANGED <<mode, Node, fetch>>

Unread == {a \in DOMAIN snapshot.rows : snapshot.rows[a] = None}
Status ==
    CASE snapshot.at # "done" \/ Unread = DOMAIN snapshot.rows -> "unavailable"
      [] Unread # {} \/ snapshot.truncated -> "partial"
      [] OTHER -> "available"

Next ==
    \/ Move
    \/ StartFetch \/ Answer("block") \/ Answer("receipts") \/ Joined \/ TracesAnswer \/ CallFails
    \/ StartSnapshot \/ ReadBlock \/ BalancesFail \/ Verify \/ SnapshotFails
    \/ \E asset \in 0 .. MaxAssets : ReadBalance(asset)

Spec == Init /\ [][Next]_vars

----------------------------------------------------------------------------
(* Properties *)

\* A block that is stored has the receipts of that block, with the traces the
\* mode requires, although each call may have met another fork
\* (extractor.rs 498-508, client.rs 319-341).
AcceptedIsOneBlock ==
    fetch.at = "accepted" =>
        /\ Blocks[fetch.block] # {} => fetch.receipts = fetch.block
        /\ mode = "required" => fetch.traces \in DOMAIN Blocks

\* A fetch fails only when all its attempts did (client.rs 239-268).
AllAttemptsMade == fetch.at = "failed" => fetch.attempt = MaxRetries

\* The amounts of an answer are those of the block it names, unless the node
\* left that block and came back to it between the reads (holdings.rs 90-135);
\* and an answer that claims to be complete lacks no known asset.
AmountsAreOfTheBlock ==
    /\ snapshot.at = "done" /\ ~returned =>
          \A a \in DOMAIN snapshot.rows : snapshot.rows[a] \in {snapshot.hash, None}
    /\ Status = "available" => Unread = {} /\ ~snapshot.truncated

ReadsHold == AcceptedIsOneBlock /\ AllAttemptsMade /\ AmountsAreOfTheBlock
=============================================================================
