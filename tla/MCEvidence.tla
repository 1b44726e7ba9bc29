---------------------------- MODULE MCEvidence ----------------------------
(***************************************************************************)
(* One transaction that grows by logs and call frames, read by the         *)
(* extractors of the three account-based chains.  A transaction has at     *)
(* most MaxLogs logs or MaxFrames frames below its root, one of TRON at    *)
(* most MaxTronLogs logs, two contracts and two internal transactions.  Or  *)
(* one block of Bitcoin that grows by transactions, MaxTransactions of them *)
(* after the coinbase.                                                      *)
(***************************************************************************)
EXTENDS Integers, FiniteSets, FiniteSetsExt, Sequences, SequencesExt, TLC

CONSTANTS MaxLogs, MaxFrames, MaxTronLogs, MaxTransactions

VARIABLES
    tx,     \* the transaction of Ethereum and BSC
    rule,   \* the rule of the BSC registry for the pool p
    trx,    \* the transaction of TRON
    coins   \* the block of Bitcoin, and who knows the outputs it spends
vars == <<tx, rule, trx, coins>>

Eth == INSTANCE EthereumEvidence
Bsc == INSTANCE BscEvidence
Tron == INSTANCE TronEvidence
Bitcoin == INSTANCE BitcoinEvidence WITH MaxPrevouts <- 5, MaxLegs <- 10, MaxChain <- 3

Accounts == {"a", "b", "c"}
Zero == "zero"

-----------------------------------------------------------------------------
(* Transactions *)

Log(event, emitter, topics, words, ids, amounts, from, to) ==
    [event |-> event, emitter |-> emitter, topics |-> topics, words |-> words, ids |-> ids,
     amounts |-> amounts, from |-> from, to |-> to, removed |-> FALSE, assets |-> <<"x", "y">>,
     receiver |-> "", message |-> "", index |-> 0]

Moves == {<<"a", "p">>, <<"p", "a">>, <<"a", "r">>, <<"r", "p">>, <<"zero", "a">>, <<"a", "a">>}

Logs ==
    {Log("transfer", "x", 3, 1, <<>>, <<1>>, m[1], m[2]) : m \in Moves}
      \cup {Log("transfer", "y", 3, 1, <<>>, <<2>>, "p", "a"),
            Log("transfer", "x", 4, 0, <<"1">>, <<>>, "a", "p"),
            Log("transfer", "x", 4, 1, <<"1">>, <<3>>, "a", "p"),
            Log("batch", "x", 4, 8, <<"1", "1">>, <<1, 1>>, "a", "p"),
            Log("batch", "x", 4, 8, <<"1", "2">>, <<0, 1>>, "a", "p"),
            Log("swap_v2", "p", 3, 4, <<>>, <<1>>, "a", "p"),
            Log("mixer_deposit", "p", 2, 2, <<>>, <<1>>, "a", "a"),
            Log("bridge_initiated", "p", 4, 3, <<>>, <<2>>, "a", "c")}

Frames == {[from |-> m[1], to |-> m[2], value |-> 1, type |-> type, failed |-> failed] :
              m \in {<<"b", "c">>, <<"c", "a">>, <<"b", "b">>},
              type \in {"CALL", "DELEGATECALL"}, failed \in BOOLEAN}

Root(to, value, success) ==
    <<>> :> [from |-> "a", to |-> to, value |-> value, type |-> "CALL", failed |-> ~success]

Transactions ==
    {[id |-> "t", index |-> 0, network |-> "l1", from |-> "a", to |-> to, created |-> "",
      success |-> success, value |-> value, method |-> "m", logs |-> <<>>,
      trace |-> Root(to, value, success)] :
        to \in {"a", "b"}, value \in {0, 2}, success \in BOOLEAN}

NoMap == [s \in {} |-> ""]
Rule(address, type, decoder, methods, topics) ==
    [address |-> address, enabled |-> TRUE, status |-> "approved", reviewer |-> "r",
     protocol |-> address, type |-> type, decoder |-> decoder, methods |-> methods,
     topics |-> topics, confidence |-> 90]

\* The rules that a reviewer may have entered for the pool p.
Rules == {Rule("p", type, decoder, methods, topics) :
            type \in {"dex", "mixer"}, decoder \in {"amm_v2", "tornado_cash_v1"},
            methods \in {NoMap, "m" :> "swap"}, topics \in {NoMap, "swap_v2" :> "swap"}}
Router == Rule("r", "dex", "aggregator", NoMap, NoMap)
Registry == <<rule, Router>>
Bridges == {[address |-> "p", enabled |-> TRUE, type |-> "bridge", protocol |-> "p",
             remote |-> "l2", confidence |-> 90]}
BridgesAbroad == {[b EXCEPT !.remote = "l1"] : b \in Bridges}

\* The same bridge's log on the other chain, and others that differ in one part.
InboundLogs == {[Log("bridge_finalized", "p", 4, 3, <<>>, <<amount>>, "a", to)
                   EXCEPT !.assets = assets] :
                  amount \in {2, 3}, to \in {"a", "c"}, assets \in {<<"x", "y">>, <<"y", "x">>}}

PlainRule == Rule("p", "dex", "amm_v2", NoMap, NoMap)

\* TRON: calls of the pool p or the token x, and transfers.
Contract(type, to, contract, amount, token, tokenAmount, method) ==
    [type |-> type, owner |-> "a", to |-> to, contract |-> contract, amount |-> amount,
     token |-> token, tokenAmount |-> tokenAmount, method |-> method]
Contracts == {Contract("TriggerSmartContract", "", "p", amount, "1001", amount, "swap") :
                 amount \in {0, 1}}
               \cup {Contract("TransferContract", "b", "", 1, "", 0, ""),
                     Contract("TransferAssetContract", "b", "", 1, "1001", 0, "")}

TronLog(event, emitter, from, to, amount, words) ==
    [event |-> event, topics |-> 3, emitter |-> emitter, from |-> from, to |-> to,
     amount |-> amount, words |-> words]
TronLogs == {TronLog("transfer", m[1], m[2], m[3], m[4], <<>>) :
               m \in {<<"x", "a", "p", 1>>, <<"y", "p", "a", 2>>, <<"l", "zero", "a", 1>>,
                      <<"y", "a", "p", 1>>, <<"l", "a", "zero", 1>>}}
              \cup {TronLog("swap", "p", "", "", 0, <<1, 0, 0, 2>>)}
Internals == {[rejected |-> rejected, from |-> "p", to |-> "a",
               values |-> <<[asset |-> "TRX", amount |-> 1], [asset |-> "TRX", amount |-> 1]>>] :
                rejected \in BOOLEAN}

NoTrx == [id |-> "t", contracts |-> <<>>, status |-> 1, logs |-> <<>>, internals |-> <<>>]

\* Bitcoin: outputs of two older transactions, which the node adds to its
\* inputs ("node"), the warehouse has ("stored") or only an index may find.
Subject(name) == [name |-> name, script |-> name = "s"]
Output(subject, value) == [subject |-> Subject(subject), value |-> value]
Old == [o |-> <<Output("a", 60), Output("b", 3)>>,
        q |-> <<Output("c", 3), Output("a", 3), Output("s", 3)>>]
OldPoints == UNION {{<<id, n - 1>> : n \in DOMAIN Old[id]} : id \in DOMAIN Old}
OldOutput(point) == Old[point[1]][point[2] + 1]
Known == {[point \in OldPoints |-> "node"]}
           \cup {[point \in OldPoints |-> IF point = <<"o", 0>> THEN first
                                         ELSE IF point = <<"o", 1>> THEN second ELSE "node"] :
                    first, second \in {"node", "stored", "none"}}

Funded == [id |-> "t1", vin |-> <<[tx |-> "none", n |-> 0, coinbase |-> TRUE, prevout |-> Bitcoin!Unknown]>>,
           vout |-> <<Output("a", 5) @@ [n |-> 0]>>]
NoCoins == [known |-> [point \in OldPoints |-> "node"], indexed |-> {}, block |-> <<>>]

\* What a transaction may do with its inputs: one output, a small one split
\* off, three or five equal ones, or more than there is.
SplitOff(total) == <<total - 1 - total \div 6, total \div 6>>
Shares(total) == {<<total>>, SplitOff(total), [n \in 1 .. 3 |-> total \div 3],
                  [n \in 1 .. 5 |-> total \div 5], <<total + 1>>}
Receivers == <<"b", "c", "a", "b", "s">>

Init ==
    /\ tx \in Transactions
    /\ rule \in Rules
    /\ trx = NoTrx
    /\ coins = NoCoins

AddLog ==
    /\ trx = NoTrx /\ coins = NoCoins
    /\ tx.success /\ Len(tx.logs) < MaxLogs /\ DOMAIN tx.trace = {<<>>}
    /\ \E log \in Logs :
          tx' = [tx EXCEPT !.logs = Append(@, [log EXCEPT !.index = Len(tx.logs)])]
    /\ UNCHANGED <<rule, trx, coins>>

\* The call tree says nothing to a rule: one is enough.
AddFrame ==
    /\ rule = PlainRule /\ trx = NoTrx /\ coins = NoCoins
    /\ tx.logs = <<>> /\ Cardinality(DOMAIN tx.trace) <= MaxFrames
    /\ \E parent \in DOMAIN tx.trace, frame \in Frames :
          LET next == CHOOSE n \in 1 .. 3 :
                         /\ Append(parent, n) \notin DOMAIN tx.trace
                         /\ \A k \in 1 .. n - 1 : Append(parent, k) \in DOMAIN tx.trace
          IN tx' = [tx EXCEPT !.trace = @ @@ (Append(parent, next) :> frame)]
    /\ UNCHANGED <<rule, trx, coins>>

\* The parts of the TRON transaction; the other one stays the simplest.
Simplest == /\ rule = PlainRule /\ tx.value = 0 /\ tx.to = "a" /\ tx.success
            /\ tx.logs = <<>> /\ DOMAIN tx.trace = {<<>>}

AddContract ==
    /\ Simplest /\ coins = NoCoins
    /\ Len(trx.contracts) < 2 /\ trx.logs = <<>> /\ trx.internals = <<>>
    /\ \E c \in Contracts : trx' = [trx EXCEPT !.contracts = Append(@, c)]
    /\ UNCHANGED <<tx, rule, coins>>

AddTronLog ==
    /\ trx.contracts # <<>> /\ Len(trx.logs) < MaxTronLogs
    /\ \E log \in TronLogs : trx' = [trx EXCEPT !.logs = Append(@, log)]
    /\ UNCHANGED <<tx, rule, coins>>

AddInternal ==
    /\ trx.contracts # <<>> /\ Len(trx.internals) < 2
    /\ \E internal \in Internals : trx' = [trx EXCEPT !.internals = Append(@, internal)]
    /\ UNCHANGED <<tx, rule, coins>>

(* Bitcoin *)
Stored == [point \in {p \in OldPoints : coins.known[p] = "stored"} |-> OldOutput(point)]
Indexed == [id \in coins.indexed |-> Old[id]]
ResolvedCoins == Bitcoin!Resolved(coins.block, Stored, Indexed)
Extracts == /\ Bitcoin!Resolves(coins.block, Stored, Indexed)
            /\ Bitcoin!Extracts(coins.block, ResolvedCoins)
Evidence == Bitcoin!Extracted(coins.block, ResolvedCoins)

Made == UNION {{<<t.id, n - 1>> : n \in DOMAIN t.vout} : t \in {coins.block[i] : i \in DOMAIN coins.block}}
OutputAt(point) ==
    IF point \in OldPoints THEN OldOutput(point)
    ELSE Bitcoin!Content((CHOOSE t \in {coins.block[i] : i \in DOMAIN coins.block} : t.id = point[1]).vout[point[2] + 1])
OutputsOfAll == [point \in OldPoints \cup Made |-> OutputAt(point)]
InputOf(point) ==
    [tx |-> point[1], n |-> point[2], coinbase |-> FALSE,
     prevout |-> IF point \in OldPoints /\ coins.known[point] = "node" THEN OldOutput(point) ELSE Bitcoin!Unknown]

StartBlock ==
    /\ Simplest /\ trx = NoTrx /\ coins.block = <<>>
    /\ \E known \in Known, indexed \in SUBSET {"o"} :
          coins' = [known |-> known, indexed |-> indexed, block |-> <<Funded>>]
    /\ UNCHANGED <<tx, rule, trx>>

\* The first transaction after the coinbase takes one input or every output
\* there is, the next ones an input of the last one's; only a block of one of
\* them meets outputs that are hard to find, and from the third on they split off.
AddTransaction ==
    LET size == Len(coins.block)
        plain == coins.known = NoCoins.known /\ coins.indexed = {}
        new == {point \in Made : point[1] = Last(coins.block).id}
        choices == IF size = 1 THEN {{p} : p \in OldPoints \cup Made} \cup {OldPoints \cup Made}
                   ELSE {{p} : p \in new \cup {Bitcoin!Outpoint(Last(coins.block).vin[1])}}
    IN  /\ coins.block # <<>> /\ Extracts
        /\ size <= (IF plain THEN MaxTransactions ELSE 1)
        /\ \E points \in choices :
              LET total == FoldSet(LAMBDA p, sum : sum + OutputAt(p).value, 0, points)
              IN  \E share \in (IF size <= 2 THEN Shares(total) ELSE {SplitOff(total)}) :
                    coins' = [coins EXCEPT !.block = Append(@,
                        [id |-> "t" \o ToString(size + 1),
                         vin |-> FoldSet(LAMBDA p, vin : Append(vin, InputOf(p)), <<>>, points),
                         vout |-> [n \in DOMAIN share |-> Output(Receivers[n], share[n]) @@ [n |-> n - 1]]])]
    /\ UNCHANGED <<tx, rule, trx>>

Next == AddLog \/ AddFrame \/ AddContract \/ AddTronLog \/ AddInternal \/ StartBlock \/ AddTransaction

Spec == Init /\ [][Next]_vars

-----------------------------------------------------------------------------
(* What the extractors should agree on *)

\* Reference: the call tree is executed; a frame that fails undoes what it and
\* its callees did.
CarriesValue == {"CALL", "CREATE", "CREATE2", "SELFDESTRUCT"}

Moved(frame, balance) ==
    [balance EXCEPT ![frame.from] = @ - frame.value, ![frame.to] = @ + frame.value]

RECURSIVE Execute(_, _, _)
Execute(trace, a, balance) ==
    LET before == IF trace[a].type \in CarriesValue THEN Moved(trace[a], balance) ELSE balance
        children == SelectSeq([n \in 1 .. 3 |-> Append(a, n)], LAMBDA b : b \in DOMAIN trace)
    IN IF trace[a].failed THEN balance
       ELSE FoldLeft(LAMBDA bal, child : Execute(trace, child, bal), before, children)

Net(flows, account) == Eth!Total({f \in flows : f.to = account})
                         - Eth!Total({f \in flows : f.from = account})
NativeOf(flows, asset) == {f \in flows : f.asset = asset}

\* The native flows that extractor.rs (Ethereum) and transfers.rs (BSC) record
\* are the net effect of executing the call tree: nothing from a call that was
\* undone, nothing twice, nothing left out.
FlowsMatchExecution ==
    LET effect == Execute(tx.trace, <<>>, [a \in Accounts |-> 0])
    IN \A a \in Accounts :
          /\ Net(NativeOf(Eth!Relationships(tx), Eth!Eth), a) = effect[a]
          /\ Net(NativeOf(Bsc!Relationships(tx, TRUE), Bsc!Bnb), a) = effect[a]

\* No two flows of a transaction get one identifier, also when a batch names
\* a token twice: the store would keep one of them and lose the other.
FlowsAreDistinct ==
    /\ Eth!FlowsAreDistinct(Eth!Relationships(tx))
    /\ Bsc!FlowsAreDistinct(Bsc!Relationships(tx, TRUE))
    /\ trx.contracts # <<>> => Tron!FlowsAreDistinct(trx)

\* The two chains' evidence of a bridge message gets one key, and an inbound
\* event with another amount, receiver or asset gets another.
BridgeSidesJoin ==
    \A log \in InboundLogs :
       LET in == [tx EXCEPT !.network = "l2", !.logs = <<log>>]
           sent == Eth!Events(Bridges, tx)
           received == Eth!Events(BridgesAbroad, in)
       IN \A e \in sent, f \in received :
             e.direction = "outbound" =>
                (e.key = f.key <=> /\ log.amounts = <<2>> /\ log.to = "c"
                                   /\ log.assets = <<"y", "x">>)

\* Several rules of the registry may recognise one log; it stays one event.
OneEventPerLog == Bsc!OneEventPerLog(Registry, tx, TRUE)

\* The amounts of a protocol event are what one party gave or took: a leg that
\* passes through a router counts once.
AmountsCountOnce == Bsc!AmountsCountOnce(Registry, tx, TRUE)

\* A rule that passed ProtocolRegistryInput::validate shows events of its own
\* kind only, whatever logs the contract emits.
EventsFitTheirRule == Bsc!EventsFitTheirRule(rule, tx, TRUE)

\* decode_v2_swaps takes a pool's transfers as the legs of a swap once, however
\* many swap logs the receipt has.
LegsCountOnce == trx.contracts # <<>> => Tron!LegsCountOnce(trx)

\* The evidence, with one row lost, repeated, moved or changed; or two changes
\* that make up for each other.
Without(s, i) == SubSeq(s, 1, i - 1) \o SubSeq(s, i + 1, Len(s))
Damaged(e) ==
    UNION {{[e EXCEPT !.inputs = Without(@, i)], [e EXCEPT !.inputs = Append(@, e.inputs[i])],
            [e EXCEPT !.inputs[i].value = @ + 1], [e EXCEPT !.inputs[i].leg = @ + 1],
            [e EXCEPT !.inputs[i].prev = e.inputs[1].prev], [e EXCEPT !.inputs[i].tx = "t2"],
            [e EXCEPT !.inputs[i].block = "c"],
            [e EXCEPT !.inputs[i].value = @ + 1, !.inputs[1].value = @ - 1]} : i \in DOMAIN e.inputs}
    \cup
    UNION {{[e EXCEPT !.outputs = Without(@, i)], [e EXCEPT !.outputs[i].value = @ + 1],
            [e EXCEPT !.outputs[i].tx = "t2"], [e EXCEPT !.outputs[i].coinbase = ~@],
            [e EXCEPT !.outputs[i].value = @ + 1, !.transactions[e.outputs[i].index + 1].sent = @ + 1]} :
              i \in DOMAIN e.outputs}
    \cup
    UNION {{[e EXCEPT !.transactions = Without(@, i)], [e EXCEPT !.transactions[i].fee = @ + 1],
            [e EXCEPT !.transactions[i].index = 0], [e EXCEPT !.transactions[i].id = "t1"]} :
              i \in DOMAIN e.transactions}

\* Bitcoin's evidence passes its own checks, shows what was really spent, and
\* whatever is damaged in it is refused or harmless.
BitcoinFlowsHold ==
    Extracts => /\ Bitcoin!ExtractedIsValid(coins.block, Evidence)
                /\ Bitcoin!InputsAreTheirOutputs(OutputsOfAll, Evidence)
                /\ Len(coins.block) <= 3 =>
                      \A e \in Damaged(Evidence) : Bitcoin!ValidIsSound(Len(coins.block), e)

\* What the extractors write as flows is what happened, each flow once.
FlowsHold ==
    /\ FlowsMatchExecution /\ FlowsAreDistinct
    /\ coins.block # <<>> => BitcoinFlowsHold

\* What they make of logs and rules: one event per log, of its rule's kind, with
\* amounts and legs that count once, and the two sides of a bridge under one key;
\* and of Bitcoin's transactions what every later reader finds in them too.
EventsHold ==
    /\ OneEventPerLog /\ EventsFitTheirRule /\ AmountsCountOnce
    /\ BridgeSidesJoin /\ LegsCountOnce
    /\ coins.block # <<>> /\ Extracts => Bitcoin!RereadIsSame(Evidence) /\ Bitcoin!ChainsLink(Evidence)

\* Whatever the extractors write of a transaction, on any of the chains.
FlowsAndEventsHold == FlowsHold /\ EventsHold
===========================================================================
