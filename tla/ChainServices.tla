--------------------------- MODULE ChainServices ---------------------------
(***************************************************************************)
(* Three services beside the ingestion of a chain, one in each behaviour,  *)
(* as they share no table: how BSC fetches a block from several nodes      *)
(* (BscRpc), what Ethereum reads of one node (EthereumRpc), and the        *)
(* reviews and the discovery of TRON's intelligence (TronIntelligence).    *)
(* `service` says which one a behaviour is about; the others stay as they  *)
(* are at some start.                                                      *)
(***************************************************************************)
EXTENDS Integers, Sequences

CONSTANTS   \* BscRpc
    Endpoints, MaxAttempts, Chunk, Modes, Abilities, BscForks, MaxFetchFaults, MaxFetchMoves

\* There is a node, RuntimeConfig gives a call an attempt for each of them at
\* least, and a block has a transaction once.
ASSUME FetchAssumption ==
  /\ Endpoints \in Nat \ {0} /\ MaxAttempts \in Nat /\ MaxAttempts >= Endpoints
  /\ \A b \in DOMAIN BscForks :
        /\ Len(BscForks[b]) \in Nat /\ DOMAIN BscForks[b] = 1 .. Len(BscForks[b])
        /\ \A i, j \in DOMAIN BscForks[b] : BscForks[b][i].tx = BscForks[b][j].tx => i = j

CONSTANTS   \* EthereumRpc
    EthereumForks, TraceModes, MaxRetries, AssetLimit, MaxAssets, Unreadable, MaxReadFaults, MaxReadMoves

CONSTANTS   \* TronIntelligence
    Labels, Candidates, Reviewers, Threshold, MaxClaims, Batch, Overlap, MaxBlocks, MaxRestores,
    MaxRewinds, MaxReviews, MaxSwitches, MaxStops

\* The worker's settings: at least one block at a time.
ASSUME WorkerAssumption == Batch \in Nat \ {0} /\ Overlap \in Nat

VARIABLES
    service,
    configuration, able, serves, stage, probed, fetch, fetchFaults, fetchMoves,      \* BscRpc
    traceMode, offers, left, returned, reading, snapshot, readFaults, readMoves,   \* EthereumRpc
    source, labels, reviews, attributed, claims, members, versions, reviewer,      \* TronIntelligence
    blocks, saved, worker, scanned, replayed, sequential, bounds

fetchVars == <<configuration, able, serves, stage, probed, fetch, fetchFaults, fetchMoves>>
readVars == <<traceMode, offers, left, returned, reading, snapshot, readFaults, readMoves>>
reviewVars == <<source, labels, reviews, attributed, claims, members, versions, reviewer, blocks,
                saved, worker, scanned, replayed, sequential, bounds>>
chainVars == <<service, fetchVars, readVars, reviewVars>>

F == INSTANCE BscRpc
       WITH Blocks <- BscForks, MaxFaults <- MaxFetchFaults, MaxMoves <- MaxFetchMoves,
            mode <- configuration, faults <- fetchFaults, moves <- fetchMoves
R == INSTANCE EthereumRpc
       WITH Blocks <- EthereumForks, MaxFaults <- MaxReadFaults, MaxMoves <- MaxReadMoves,
            mode <- traceMode, serves <- offers, fetch <- reading, faults <- readFaults,
            moves <- readMoves
I == INSTANCE TronIntelligence WITH tables <- attributed, MaxReplays <- MaxRewinds

\* The node's null and a call on its way are no hashes; ETH_RPC_MAX_RETRIES is positive.
ASSUME ReadsAssumption ==
  /\ R!None \notin DOMAIN EthereumForks /\ R!Waiting \notin DOMAIN EthereumForks
  /\ MaxRetries \in Nat \ {0}

TronTasks == {"tron decisions", "tron reviews", "tron discovery"}

\* A service that a behaviour is not about stays as it is at some start.
ChainsInit ==
    /\ F!Init /\ R!Init /\ I!Init
    /\ service \in {"bsc fetch", "ethereum block", "ethereum holdings"} \cup TronTasks

ChainsNext ==
    \/ service = "bsc fetch" /\ F!Next /\ UNCHANGED <<service, readVars, reviewVars>>
    \/ /\ service \in {"ethereum block", "ethereum holdings"} /\ R!Next
       /\ UNCHANGED <<service, fetchVars, reviewVars>>
    \/ service \in TronTasks /\ I!Next /\ UNCHANGED <<service, fetchVars, readVars>>

ChainsSpec == ChainsInit /\ [][ChainsNext]_chainVars

-----------------------------------------------------------------------------
(* Properties *)

\* A BSC block that is handed on has the receipts of its own fork and the traces
\* of that or a twin, although its parts come from several nodes; and while
\* nodes fail to answer, all of them are asked before the fetch fails.
FetchesHold == service = "bsc fetch" => F!FetchesHold

\* What Ethereum reads of a node that changes its mind is of one block: a block
\* with its receipts and traces, and the balances of a wallet.
ReadsHold == service \in {"ethereum block", "ethereum holdings"} => R!ReadsHold

\* Readers of TRON's reviews take the last decision and nothing unreviewed; the
\* discovery skips no block, although reviewers, replays and stops interleave,
\* but for blocks that are taken back just as it looks for its boundary.
ReviewsHold == service \in TronTasks => I!ReviewsHold /\ I!CursorCovers
============================================================================
