---------------------------- MODULE MCServices ----------------------------
(***************************************************************************)
(* The services that read what ingestion published, one of them in each    *)
(* behaviour: they run beside each other and share no state but their      *)
(* inputs.  `service` says which one a behaviour is about; the variables    *)
(* of the others are unused.  "extraction" is the machine of MCEvidence,    *)
(* "policy" grows the evidence of one wallet for RiskPolicy.               *)
(***************************************************************************)
EXTENDS MCEvidence, ChainServices

VARIABLES
    visible, request,                                       \* of several services
    edges, scans, run, exposure, started, overlapped,       \* TronExposure
    chain, phase, queue, leg, search,                       \* BitcoinExposure
    history, reorgs,                                        \* BscInvestigation
    entities, importer, memberships, runs,
    paths, runner, engine, signals, assessments,            \* EthereumExposure
    network, data                                           \* the evidence of a wallet

sharedVars == <<labels, reviews, claims, bounds, visible, request>>
tronVars == <<edges, scans, run, exposure, started, overlapped>>
bitcoinVars == <<chain, phase, queue, leg, search>>
bscVars == <<history, reorgs>>
ethereumVars == <<entities, importer, memberships, runs, paths, runner, engine,
                  signals, assessments>>
policyVars == <<network, data>>
tronTables == <<source, attributed, members, versions, reviewer, blocks, saved, worker, scanned,
                replayed, sequential>>
otherVars == <<tronVars, bitcoinVars, bscVars, ethereumVars, policyVars, vars>>
allVars == <<service, sharedVars, otherVars, fetchVars, readVars, tronTables>>

-----------------------------------------------------------------------------
(* The instances *)

\* TRON: every small graph of these edges around the seed "s".
TronEdge(from, to, asset, block, loss, mediated) ==
    [from |-> from, to |-> to, asset |-> asset, block |-> block, loss |-> loss, service |-> mediated]
TronEdges ==
    {TronEdge("s", "a", "x", 1, 2, FALSE), TronEdge("s", "a", "x", 3, 1, FALSE),
     TronEdge("s", "b", "x", 1, 1, FALSE), TronEdge("a", "b", "x", 2, 1, FALSE),
     TronEdge("b", "a", "x", 2, 1, FALSE), TronEdge("b", "c", "x", 4, 1, FALSE),
     TronEdge("a", "h", "x", 2, 1, TRUE), TronEdge("h", "c", "x", 4, 1, FALSE),
     TronEdge("a", "c", "y", 3, 1, FALSE)}
TronGraphs == {g \in SUBSET TronEdges : Cardinality(g) \in 1 .. 4}
TronScan == INSTANCE TronExposure
    WITH Scanners <- {"worker", "other"}, Seed <- "s", Graphs <- TronGraphs,
         MaxHops <- 3, MaxExpanded <- 4, MaxRuns <- 2

\* Bitcoin: every history of a few transactions over two old coins.
BitcoinLabel(seed, hosted, from, to) == [seed |-> seed, service |-> hosted, from |-> from, to |-> to]
BitcoinLabels ==
    {("a" :> BitcoinLabel(FALSE, own, 0, 0)) @@ ("s" :> BitcoinLabel(TRUE, FALSE, from, to))
        @@ ("v" :> BitcoinLabel(FALSE, hosted, 0, 0)) :
        <<own, hosted>> \in {<<FALSE, FALSE>>, <<FALSE, TRUE>>, <<TRUE, FALSE>>},
        <<from, to>> \in {<<0, 0>>, <<2, 0>>, <<0, 2>>}}
BitcoinSearch == INSTANCE BitcoinExposure
    WITH Address <- "a", Others <- {"s", "v"}, Values <- {1, 2}, Labels <- BitcoinLabels,
         Older <- <<[subject |-> "s", value |-> 2], [subject |-> "v", value |-> 1]>>,
         MaxIngested <- 2, MaxHops <- 2, MaxTransactions <- 2, MaxStates <- 4, MaxQueue <- 3,
         MaxPaths <- 2, MaxLabels <- 2

\* BSC: blocks with one or two transfers, one of them replaced during a request.
BscTransfer(log, from, to) == [log |-> log, from |-> from, to |-> to, asset |-> 1]
BscBlocks == {{BscTransfer(1, "w", "x")}, {BscTransfer(1, "x", "v")},
              {BscTransfer(1, "v", "w"), BscTransfer(2, "w", "v")},
              {BscTransfer(1, "zero", "x"), BscTransfer(2, "x", "w")}}
BscLabellings == {[a \in {"w", "x", "v", "zero"} |->
                      [seed |-> a = "v", service |-> a = mediator]] : mediator \in {"x"}}
BscRequests == INSTANCE BscInvestigation
    WITH Addresses <- {"w", "x", "v", "zero"}, Zero <- "zero", Wallet <- "w", Target <- "v",
         Assets <- {1}, Blocks <- BscBlocks, Labellings <- BscLabellings,
         Depth <- 2, Limit <- 3, MaxHops <- 3, PerAddress <- 3, MaxAddresses <- 3,
         MaxResults <- 2, MaxReads <- 3, MaxQueue <- 3, MaxStates <- 3, MaxBlocks <- 3, MaxReorgs <- 1

\* Ethereum: a seed that may be rejected again, paid for 2 in two transfers, and
\* 2 for 3 and 4: four paths that go on from 2, of which two are kept.
Row(address, entity, hosted, seed, level, status) ==
    [address |-> address, entity |-> entity, service |-> hosted, seed |-> seed, level |-> level,
     status |-> status]
Csv == {Row(1, "x", FALSE, TRUE, 2, "APPROVED"), Row(1, "x", FALSE, TRUE, 2, "REJECTED"),
        Row(2, "y", TRUE, FALSE, 1, "APPROVED")}
Transfer(from, to, asset, amount, weight) ==
    [from |-> from, to |-> to, asset |-> asset, amount |-> amount, weight |-> weight]
EthereumTransfers == [t1 |-> Transfer(1, 2, "A", 1, 2), t2 |-> Transfer(2, 3, "A", 1, 2),
                      t3 |-> Transfer(1, 2, "A", 3, 1), t4 |-> Transfer(2, 4, "A", 2, 1)]
EthereumPasses == INSTANCE EthereumExposure
    WITH Csv <- Csv, Transfers <- EthereumTransfers,
         Published <- {{"t1", "t2", "t3"}}, Wallets <- {2, 3},
         Runners <- {"worker", "command"}, MaxHops <- 2, MaxPaths <- 2,
         MaxImports <- 1, MaxRuns <- 2, MaxAssessments <- 1, MaxFailures <- 1

\* Ethereum: six transfers of three assets, of which ingestion has published some;
\* the wallet has three of each, transfers, assets and counterparties.
Step(block, from, to, asset) == [block |-> block, from |-> from, to |-> to, asset |-> asset]
Steps == <<Step(1, "w", "a", "x"), Step(2, "a", "t", "x"), Step(2, "t", "b", "y"),
           Step(3, "b", "w", "y"), Step(3, "a", "b", "x"), Step(4, "w", "t", "z")>>
EthereumRequests == INSTANCE EthereumInvestigation
    WITH Transfers <- Steps, Published <- {s \in SUBSET (1 .. 6) : Cardinality(s) >= 3},
         Address <- "w", Target <- "t", Limits <- {2, 4}, FlowLimit <- 2, CounterpartyLimit <- 2,
         PathLimit <- 4, MaxHops <- 3,
         PerAddress <- 4, MaxExpanded <- 4, MaxEdges <- 6, MaxQueue <- 3

\* BSC: a block of two twin forks and a third one, fetched from two nodes that
\* can do less or more.
Executed(hash, success, traced) == [tx |-> hash, success |-> success, traced |-> traced]
MCBscForks == [b |-> <<Executed("x", TRUE, TRUE), Executed("y", TRUE, TRUE)>>,
               c |-> <<Executed("x", TRUE, TRUE), Executed("y", FALSE, FALSE)>>,
               d |-> <<Executed("x", TRUE, TRUE), Executed("z", TRUE, TRUE)>>]
MCModes == {[receipts |-> m[1], traces |-> m[2], required |-> m[3]] :
               m \in {<<"auto", "auto", {}>>, <<"block", "required", {"blockReceipts"}>>,
                      <<"transaction", "disabled", {}>>}}
MCAbilities == SUBSET {"blockReceipts", "traces"}

\* Ethereum: two forks with the same transactions and an empty one, behind one
\* node; and a wallet of a native balance and up to three tokens.
MCEthereumForks == [b |-> {"x", "y"}, c |-> {"x", "y"}, d |-> {}]

\* TRON: the labels of one address, and a claim that is anchored there.
TronLabel(address, entity, exchange, hot, risky) ==
    [address |-> address, entity |-> entity, exchange |-> exchange, hot |-> hot, risky |-> risky]
MCLabels == [l1 |-> TronLabel("a", "e", TRUE, TRUE, FALSE), l2 |-> TronLabel("a", "f", FALSE, FALSE, TRUE)]
MCCandidates == {[address |-> "d", anchor |-> "a"]}

\* Three decisions, one command at a time; two commands that decide at once and
\* may end anywhere; and the discovery over three blocks.
Bounds(names, commands, found, ingested_, restores, replays, decisions, switches, stops) ==
    [labels |-> names, reviewers |-> commands, candidates |-> found, blocks |-> ingested_,
     restores |-> restores, replays |-> replays, reviews |-> decisions, switches |-> switches,
     stops |-> stops]
BoundsOf ==
    ("tron decisions" :> Bounds({"l1", "l2"}, {"r1"}, MCCandidates, 1, 0, 0, 3, 1, 0))
      @@ ("tron reviews" :> Bounds({"l1"}, {"r1", "r2"}, MCCandidates, 1, 0, 0, 2, 0, 1))
      @@ ("tron discovery" :> Bounds({}, {}, {}, 3, 1, 1, 0, 0, 1))

TronWithinBounds ==
    LET b == BoundsOf[service]
    IN  /\ labels' \subseteq b.labels
        /\ \A r \in Reviewers \ b.reviewers : reviewer'[r].at = "idle"
        /\ Len(blocks') <= b.blocks /\ \A i \in DOMAIN blocks' : blocks'[i].shows \subseteq b.candidates
        /\ \A x \in {"restores", "replays", "reviews", "switches", "stops"} : bounds'[x] <= b[x]

\* The policy: a wallet whose evidence or transfers grow.
Policy == INSTANCE RiskPolicy WITH PairsForSignal <- 2

Claims == [approved : BOOLEAN, bound : {TRUE}, active : {TRUE}, seed : BOOLEAN,
           service : BOOLEAN, risk : {1, 4}]
PathRows == [evidenced : {TRUE}, approved : BOOLEAN, mediated : BOOLEAN, hops : {1, 2},
             direction : {"received", "sent"}, strength : {1, 4}]
EventRows == [mixer : BOOLEAN, confident : {TRUE}, evidenced : {TRUE}]
EdgeRows == {[from |-> move[1], to |-> move[2], tx |-> tx_, asset |-> 1, at |-> at, amount |-> 10] :
               move \in {<<"w", "x">>, <<"x", "w">>}, tx_ \in 1 .. 3, at \in {1, 2}}

Wallet(claimRows, pathRows, eventRows, edgeRows) ==
    [address |-> "w", claims |-> claimRows, paths |-> pathRows, events |-> eventRows,
     edges |-> edgeRows, transfers |-> Len(edgeRows)]

PolicyInit ==
    /\ network \in {"bitcoin", "ethereum", "bsc", "tron"}
    /\ data = Wallet(<<>>, <<>>, <<>>, <<>>)

\* The store answers with the rows in any order.
LearnEvidence ==
    /\ data.edges = <<>>
    /\ \/ /\ data.claims = <<>> /\ Len(data.paths) < 2
          /\ \E c \in Claims : data' = [data EXCEPT !.claims = <<c>>]
       \/ /\ Len(data.paths) < (IF data.claims = <<>> THEN 2 ELSE 1)
          /\ \E p \in PathRows : data' = [data EXCEPT !.paths = Append(@, p)]
       \/ /\ data.events = <<>>
          /\ \E e \in EventRows : data' = [data EXCEPT !.events = <<e>>]
    /\ UNCHANGED network

LearnTransfer ==
    /\ network = "ethereum" /\ Len(data.edges) < 4
    /\ data.claims = <<>> /\ data.paths = <<>> /\ data.events = <<>>
    /\ \E e \in EdgeRows :
          data' = [data EXCEPT !.edges = Append(@, e), !.transfers = @ + 1]
    /\ UNCHANGED network

-----------------------------------------------------------------------------
(* One service in each behaviour *)

Unused == "unused"
NoTransaction == /\ tx = CHOOSE t \in Transactions : t.value = 0 /\ t.to = "a" /\ t.success
                 /\ rule = PlainRule /\ trx = NoTrx /\ coins = NoCoins
NoTron == /\ edges = Unused /\ scans = Unused /\ run = Unused /\ exposure = Unused
          /\ started = Unused /\ overlapped = Unused
NoBitcoin == /\ chain = Unused /\ phase = Unused /\ queue = Unused /\ leg = Unused
             /\ search = Unused
NoBsc == history = Unused /\ reorgs = Unused
NoEthereum == /\ entities = Unused /\ importer = Unused
              /\ memberships = Unused /\ runs = Unused /\ paths = Unused /\ runner = Unused
              /\ engine = Unused /\ signals = Unused /\ assessments = Unused
NoPolicy == network = Unused /\ data = Unused
NoChains == /\ configuration = Unused /\ able = Unused /\ serves = Unused /\ stage = Unused
            /\ probed = Unused /\ fetch = Unused /\ fetchFaults = Unused /\ fetchMoves = Unused
            /\ traceMode = Unused /\ offers = Unused /\ left = Unused /\ returned = Unused
            /\ reading = Unused /\ snapshot = Unused /\ readFaults = Unused
            /\ readMoves = Unused /\ source = Unused /\ attributed = Unused /\ members = Unused
            /\ versions = Unused /\ reviewer = Unused /\ blocks = Unused /\ saved = Unused
            /\ worker = Unused /\ scanned = Unused /\ replayed = Unused /\ sequential = Unused

\* The start of a service that the behaviour is not about.
FetchWaits == /\ configuration = CHOOSE m \in Modes : TRUE
              /\ able = [n \in F!Nodes |-> {}] /\ serves = [n \in F!Nodes |-> "b"]
ReadWaits == traceMode = "auto" /\ offers = "b"

ServicesInit ==
    \/ /\ service = "extraction" /\ Init
       /\ NoTron /\ NoBitcoin /\ NoBsc /\ NoEthereum /\ NoPolicy
       /\ labels = Unused /\ visible = Unused /\ request = Unused /\ bounds = Unused
       /\ NoChains /\ reviews = Unused /\ claims = Unused
    \/ /\ service = "tron exposure" /\ TronScan!Init
       /\ NoTransaction /\ NoBitcoin /\ NoBsc /\ NoEthereum /\ NoPolicy
       /\ labels = Unused /\ visible = Unused /\ request = Unused /\ bounds = Unused
       /\ NoChains /\ reviews = Unused /\ claims = Unused
    \/ /\ service = "bitcoin exposure" /\ BitcoinSearch!Init
       /\ NoTransaction /\ NoTron /\ NoBsc /\ NoEthereum /\ NoPolicy
       /\ visible = Unused /\ request = Unused /\ bounds = Unused
       /\ NoChains /\ reviews = Unused /\ claims = Unused
    \/ /\ service = "bsc investigation" /\ BscRequests!Init
       /\ NoTransaction /\ NoTron /\ NoBitcoin /\ NoEthereum /\ NoPolicy
       /\ visible = Unused /\ bounds = Unused
       /\ NoChains /\ reviews = Unused /\ claims = Unused
    \/ /\ service = "ethereum exposure" /\ EthereumPasses!Init
       /\ NoTransaction /\ NoTron /\ NoBitcoin /\ NoBsc /\ NoPolicy
       /\ request = Unused
       /\ NoChains
    \/ /\ service = "ethereum investigation" /\ EthereumRequests!Init
       /\ NoTransaction /\ NoTron /\ NoBitcoin /\ NoBsc /\ NoEthereum /\ NoPolicy
       /\ labels = Unused /\ bounds = Unused
       /\ NoChains /\ reviews = Unused /\ claims = Unused
    \/ /\ service = "policy" /\ PolicyInit
       /\ NoTransaction /\ NoTron /\ NoBitcoin /\ NoBsc /\ NoEthereum
       /\ labels = Unused /\ visible = Unused /\ request = Unused /\ bounds = Unused
       /\ NoChains /\ reviews = Unused /\ claims = Unused
    \/ /\ ChainsInit
       /\ service # "bsc fetch" => FetchWaits
       /\ service \notin {"ethereum block", "ethereum holdings"} => ReadWaits
       /\ NoTransaction /\ NoTron /\ NoBitcoin /\ NoBsc /\ NoEthereum /\ NoPolicy
       /\ visible = Unused /\ request = Unused

ServicesNext ==
    \/ /\ service = "extraction" /\ Next
       /\ UNCHANGED <<service, sharedVars, tronVars, bitcoinVars, bscVars, ethereumVars,
                      policyVars, fetchVars, readVars, tronTables>>
    \/ /\ service = "tron exposure" /\ TronScan!Next
       /\ UNCHANGED <<service, sharedVars, vars, bitcoinVars, bscVars, ethereumVars,
                      policyVars, fetchVars, readVars, tronTables>>
    \/ /\ service = "bitcoin exposure" /\ BitcoinSearch!Next
       /\ UNCHANGED <<service, visible, request, bounds, vars, tronVars, bscVars, ethereumVars,
                      policyVars, fetchVars, readVars, tronTables, reviews, claims>>
    \/ /\ service = "bsc investigation" /\ BscRequests!Next
       /\ UNCHANGED <<service, visible, bounds, vars, tronVars, bitcoinVars, ethereumVars,
                      policyVars, fetchVars, readVars, tronTables, reviews, claims>>
    \/ /\ service = "ethereum exposure" /\ EthereumPasses!Next
       /\ UNCHANGED <<service, request, vars, tronVars, bitcoinVars, bscVars,
                      policyVars, fetchVars, readVars, tronTables>>
    \/ /\ service = "ethereum investigation" /\ EthereumRequests!Next
       /\ UNCHANGED <<service, labels, bounds, vars, tronVars, bitcoinVars, bscVars, ethereumVars,
                      policyVars, fetchVars, readVars, tronTables, reviews, claims>>
    \/ /\ service = "policy" /\ (LearnEvidence \/ LearnTransfer)
       /\ UNCHANGED <<service, sharedVars, vars, tronVars, bitcoinVars, bscVars, ethereumVars,
                      fetchVars, readVars, tronTables>>
    \/ /\ ChainsNext
       /\ service = "ethereum block" => UNCHANGED snapshot
       /\ service = "ethereum holdings" => UNCHANGED reading
       /\ service \in TronTasks => TronWithinBounds
       /\ UNCHANGED <<visible, request, otherVars>>

ServicesSpec == ServicesInit /\ [][ServicesNext]_allVars

-----------------------------------------------------------------------------
(* Properties *)

\* A BSC answer that is not refused is what one history and one moment say,
\* although it was put together from many queries during a reorganisation.
BscAnswersFit == service = "bsc investigation" => BscRequests!AnswerFitsOneHistory

\* The paths of an Ethereum answer are walks, all of them unless it says that
\* it was cut short, and the parts of a wallet's answer agree as far as the
\* lists are shorter than their limits.
EthereumAnswersHold ==
    service = "ethereum investigation" =>
        /\ EthereumRequests!PathsAreWalks /\ EthereumRequests!PathsAreAll
        /\ EthereumRequests!WalletAgrees

\* What an investigation puts together from many queries is of one moment, and
\* whole unless it says that it was cut or a list of it is full.
AnswersHold == BscAnswersFit /\ EthereumAnswersHold

\* A scan of TRON's exposure finds the best score of every path although it
\* prunes, and readers never take the rest of another run for a complete one.
TronScansHold ==
    service = "tron exposure" => TronScan!ScoresAreBest /\ TronScan!ReaderSeesWholeRuns

\* The Bitcoin search finds every route unless it says it was cut short, its
\* satoshi bounds are exact over every way coins can mix, and what it offers
\* for scoring passes the policy's own recheck.
BitcoinSearchHolds ==
    service = "bitcoin exposure" =>
        BitcoinSearch!NothingMissed /\ BitcoinSearch!BoundsAreTight /\ BitcoinSearch!ScoredIsAccepted

\* A COMPLETE exposure run holds all the paths of its options and of no other
\* run, and an assessment is explained by the signals stored with it.
EthereumRunsHold ==
    service = "ethereum exposure" =>
        EthereumPasses!CurrentRunIsWhole /\ EthereumPasses!AssessmentsAreExplained

\* Evidence counts once: rows that come twice (a store that has not merged
\* its versions yet) or in another order change no score, and a transaction
\* takes part in one forwarding pair at most.
EvidenceCountsOnce ==
    service = "policy" =>
        LET score == Policy!Score(network, data)
            pairs == Policy!PassThrough(data.edges, "w")
        IN  /\ score = Policy!Score(network, [data EXCEPT !.paths = Reverse(@)])
            /\ score = Policy!Score(network, [data EXCEPT !.claims = @ \o @, !.paths = @ \o @,
                                                         !.events = @ \o @, !.edges = @ \o @])
            /\ \A i, j \in DOMAIN pairs :
                  i # j => {pairs[i].incoming, pairs[i].outgoing}
                             \cap {pairs[j].incoming, pairs[j].outgoing} = {}

\* What a wallet is scored by: searches that cut and prune and yet miss nothing,
\* runs that are read whole, and evidence that counts once.
ScoresHold == TronScansHold /\ BitcoinSearchHolds /\ EthereumRunsHold /\ EvidenceCountsOnce
=============================================================================
