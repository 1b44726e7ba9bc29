---------------------------- MODULE TronEvidence ----------------------------
(***************************************************************************)
(* What dockerizd_tron reads out of a transaction: fetcher.rs process_tx   *)
(* with the extractors, detectors and classifiers it calls.                *)
(*                                                                         *)
(* A transaction has contracts, and a receipt with logs and internal       *)
(* transactions.  Assets are "TRX" or an identifier.  Left out: the        *)
(* confidences, which no decision reads once the priorities of the         *)
(* candidates differ, the wording of sources, and fees.                    *)
(***************************************************************************)
EXTENDS Integers, FiniteSets, FiniteSetsExt, Sequences, SequencesExt, Functions

Zero == "zero"
Trx == "TRX"
None == ""

-----------------------------------------------------------------------------
(* Transfers *)

Transfer(id, asset, from, to, amount, kind) ==
    [id |-> id, asset |-> asset, from |-> from, to |-> to, amount |-> amount, kind |-> kind]

\* The parts of a sequence that qualify, in order.
Collect(s, Part(_)) == FlattenSeq([i \in DOMAIN s |-> Part(i)])
Optional(condition, transfer) == IF condition THEN <<transfer>> ELSE <<>>

\* A call may carry TRX and a TRC-10 token: the second has value index 1.
ContractTransfers(tx) ==
    Collect(tx.contracts, LAMBDA i :
       LET c == tx.contracts[i]
           leg(value, asset, to, amount, kind) ==
               Optional(c.owner # None /\ to # None /\ asset # None /\ amount > 0,
                        Transfer(<<tx.id, "contract", i - 1, value>>, asset, c.owner, to, amount, kind))
       IN CASE c.type = "TransferContract" -> leg(0, Trx, c.to, c.amount, "native")
            [] c.type = "TransferAssetContract" -> leg(0, c.token, c.to, c.amount, "trc10")
            [] c.type = "TriggerSmartContract" ->
                  leg(0, Trx, c.contract, c.amount, "native")
                    \o leg(1, c.token, c.contract, c.tokenAmount, "trc10")
            [] OTHER -> <<>>)

\* Any Transfer log of three or more topics; that of an NFT has no data, which
\* reads as zero.
Trc20Transfers(tx) ==
    Collect(tx.logs, LAMBDA i :
       LET log == tx.logs[i]
       IN Optional(log.event = "transfer" /\ log.topics >= 3 /\ log.amount > 0,
                   Transfer(<<tx.id, "log", i - 1>>, log.emitter, log.from, log.to, log.amount, "trc20")))

InternalId(tx, internal, value) == <<tx.id, "internal", internal - 1, value - 1>>

InternalTransfers(tx) ==
    Collect(tx.internals, LAMBDA i :
       LET internal == tx.internals[i]
       IN IF internal.rejected \/ None \in {internal.from, internal.to} THEN <<>>
          ELSE Collect(internal.values, LAMBDA v :
                  Optional(internal.values[v].amount > 0,
                           Transfer(InternalId(tx, i, v), internal.values[v].asset, internal.from,
                                    internal.to, internal.values[v].amount, "internal"))))

\* A transaction that failed moved nothing.
Transfers(tx) ==
    IF tx.status = 1 THEN ContractTransfers(tx) \o Trc20Transfers(tx) \o InternalTransfers(tx)
    ELSE <<>>

DiscoveredTokens(tx) == {t.asset : t \in {u \in Range(Transfers(tx)) : u.kind = "trc20"}}

\* primary_contract_summary: the first call, else the first contract.
Primary(tx) ==
    LET calls == SelectSeq(tx.contracts, LAMBDA c : c.type = "TriggerSmartContract")
    IN IF calls # <<>> THEN Head(calls) ELSE Head(tx.contracts)

ContractType(tx) == IF Len(tx.contracts) > 1 THEN "MultiContract" ELSE tx.contracts[1].type
Initiator(tx) == Primary(tx).owner
Target(tx) ==
    LET first == ContractTransfers(tx)
    IN IF first # <<>> THEN Head(first).to ELSE Primary(tx).contract

IsCall(tx) == \E i \in DOMAIN tx.contracts : tx.contracts[i].type = "TriggerSmartContract"

-----------------------------------------------------------------------------
(* Net flows and what they show *)

Net(transfers, account, asset) ==
    FoldLeft(LAMBDA sum, t : IF t.asset # asset THEN sum
                             ELSE sum + (IF t.to = account THEN t.amount ELSE 0)
                                      - (IF t.from = account THEN t.amount ELSE 0),
             0, transfers)

Accounts(transfers) == {t.from : t \in Range(transfers)} \cup {t.to : t \in Range(transfers)}
Assets(transfers) == {t.asset : t \in Range(transfers)}
Sent(transfers, a) == {x \in Assets(transfers) : Net(transfers, a, x) < 0}
Received(transfers, a) == {x \in Assets(transfers) : Net(transfers, a, x) > 0}

\* The keys of a map in their order: the same one whenever they are read.
Ordered(set) == SetToSeq(set)

\* The accounts that a detector looks at; without an actor it looks at all.
Subjects(transfers, actor) ==
    Ordered({a \in Accounts(transfers) \ {Zero} : actor \in {None, a}})

Event(type, subject, in, out) == [type |-> type, subject |-> subject, in |-> in, out |-> out]
The(set) == CHOOSE x \in set : TRUE

DetectSwaps(transfers, actor) ==
    LET who == Subjects(transfers, actor)
    IN Collect(who, LAMBDA i :
          LET sent == Sent(transfers, who[i])
              received == Received(transfers, who[i])
          IN Optional(Cardinality(sent) = 1 /\ Cardinality(received) = 1,
                      Event("swap", who[i], The(sent), The(received))))

\* Two assets for a minted one, or a burned one for two.
DetectLiquidity(transfers, actor) ==
    LET who == Subjects(transfers, actor)
        moved(asset, from, to) ==
            \E t \in Range(transfers) : t.asset = asset /\ t.from \in from /\ t.to \in to
    IN Collect(who, LAMBDA i :
          LET sent == Sent(transfers, who[i])
              received == Received(transfers, who[i])
          IN Optional(/\ Cardinality(sent) >= 2 /\ Cardinality(received) = 1
                      /\ moved(The(received), {Zero}, {who[i]}),
                      Event("liquidity_add", who[i], Ordered(sent)[1], The(received)))
             \o Optional(/\ Cardinality(sent) = 1 /\ Cardinality(received) >= 2
                         /\ moved(The(sent), Accounts(transfers), {Zero}),
                         Event("liquidity_remove", who[i], The(sent), Ordered(received)[1])))

DetectMintsAndBurns(transfers) ==
    Collect(transfers, LAMBDA i :
       LET t == transfers[i]
       IN Optional(t.from = Zero, Event("mint", t.to, None, t.asset))
            \o Optional(t.to = Zero, Event("burn", t.from, t.asset, None)))

DetectBridges(transfers) ==
    LET who == Subjects(transfers, None)
        direct(asset, from, to) ==
            \E t \in Range(transfers) : t.asset = asset /\ t.from = from /\ t.to = to
    IN Collect(who, LAMBDA i :
          LET assets == Ordered(Assets(transfers))
          IN Collect(assets, LAMBDA k :
                Optional(/\ Net(transfers, who[i], assets[k]) > 0
                         /\ direct(assets[k], Zero, who[i]),
                         Event("bridge_in", who[i], None, assets[k]))
                \o Optional(/\ Net(transfers, who[i], assets[k]) < 0
                            /\ direct(assets[k], who[i], Zero),
                            Event("bridge_out", who[i], assets[k], None))))

\* decode_v2_swaps: the log of a pool that swapped once, with amounts (in0,
\* in1, out0, out1) that are what the pool took and gave.
SwapLogs(tx, pool) == {i \in DOMAIN tx.logs : tx.logs[i].event = "swap" /\ tx.logs[i].emitter = pool}

OnlySwap(tx, i) == SwapLogs(tx, tx.logs[i].emitter) = {i}

Legs(transfers, pool) ==
    [in |-> SelectSeq(transfers, LAMBDA t : t.to = pool /\ t.from # pool),
     out |-> SelectSeq(transfers, LAMBDA t : t.from = pool /\ t.to # pool)]

SumOf(transfers) == FoldLeft(LAMBDA sum, t : sum + t.amount, 0, transfers)

NamedAmounts(log) ==
    LET w == log.words
    IN CASE w[1] > 0 /\ w[4] > 0 /\ w[2] = 0 /\ w[3] = 0 -> {<<w[1], w[4]>>}
         [] w[2] > 0 /\ w[3] > 0 /\ w[1] = 0 /\ w[4] = 0 -> {<<w[2], w[3]>>}
         [] OTHER -> {}

DecodeSwaps(tx) ==
    LET transfers == Transfers(tx)
    IN Collect(tx.logs, LAMBDA i :
          LET log == tx.logs[i]
              legs == Legs(transfers, log.emitter)
          IN Optional(/\ log.event = "swap" /\ log.topics = 3 /\ OnlySwap(tx, i)
                      /\ Cardinality(Assets(legs.in)) = 1 /\ Cardinality(Assets(legs.out)) = 1
                      /\ Assets(legs.in) # Assets(legs.out)
                      /\ <<SumOf(legs.in), SumOf(legs.out)>> \in NamedAmounts(log)
                      /\ Initiator(tx) # None,
                      [id |-> <<tx.id, "swap", "receipt", i - 1>>,
                       event |-> Event("swap", Initiator(tx), legs.in[1].asset, legs.out[1].asset),
                       in |-> {t.id : t \in Range(legs.in)},
                       out |-> {t.id : t \in Range(legs.out)}]))

-----------------------------------------------------------------------------
(* Classification *)

\* standard_transfer_evidence looks at the called contract's logs only.
HasTransfer(tx, events, topics) ==
    /\ Primary(tx).contract # None
    /\ \E i \in DOMAIN tx.logs : /\ tx.logs[i].emitter = Primary(tx).contract
                                 /\ tx.logs[i].event \in events /\ tx.logs[i].topics \in topics

Trc20Evidence(tx) == HasTransfer(tx, {"transfer"}, {3})
NftEvidence(tx) == HasTransfer(tx, {"transfer"}, {4}) \/ HasTransfer(tx, {"single", "batch"}, 0 .. 4)

\* A map with entries for the approved and official addresses.
RegistryCategory(registry, tx) ==
    LET known == {a \in {Primary(tx).contract, Target(tx)} : a \in DOMAIN registry}
    IN CASE Primary(tx).contract \in known -> registry[Primary(tx).contract]
         [] Primary(tx).contract \notin known /\ Target(tx) \in known -> registry[Target(tx)]
         [] OTHER -> None

NativeHints == [FreezeBalanceContract |-> <<"staking", "stake">>,
                UnfreezeBalanceContract |-> <<"staking", "unstake">>,
                WithdrawBalanceContract |-> <<"staking", "withdraw">>,
                DelegateResourceContract |-> <<"staking", "delegate_resource">>,
                VoteWitnessContract |-> <<"staking", "vote">>,
                TransferAssetContract |-> <<"token", "transfer">>,
                AccountCreateContract |-> <<"wallet", "account_create">>]

\* The selectors of the signature table, by their operation.
MethodHints == [swap |-> "dex", liquidity_add |-> "dex", liquidity_remove |-> "dex",
                supply |-> "lending", borrow |-> "lending", repay |-> "lending",
                stake |-> "staking", unstake |-> "staking", transfer |-> "token",
                mint |-> "token", burn |-> "token", nft_transfer |-> "nft"]

\* analyze_flows: an account that gave one asset and took another.
ExchangesFlows(transfers) ==
    \E a \in Accounts(transfers) : Sent(transfers, a) # {} /\ Received(transfers, a) # {}

\* The candidates in the order of their priority; the first decides.
Classify(registry, tx) ==
    LET method == Primary(tx).method
        candidates ==
            <<IF RegistryCategory(registry, tx) # None
              THEN {[category |-> RegistryCategory(registry, tx), operation |-> None]} ELSE {},
              IF ContractType(tx) \in DOMAIN NativeHints
              THEN {[category |-> NativeHints[ContractType(tx)][1],
                     operation |-> NativeHints[ContractType(tx)][2]]} ELSE {},
              IF method \in DOMAIN MethodHints
              THEN {[category |-> MethodHints[method], operation |-> method]} ELSE {},
              IF ExchangesFlows(Transfers(tx)) THEN {[category |-> "dex", operation |-> "swap"]} ELSE {},
              IF NftEvidence(tx) THEN {[category |-> "nft", operation |-> "nft_transfer"]} ELSE {},
              IF Trc20Evidence(tx) THEN {[category |-> "token", operation |-> "transfer"]} ELSE {},
              {[category |-> "unknown", operation |-> None]}>>
        winner == The(Head(SelectSeq(candidates, LAMBDA c : c # {})))
        \* An operation that the winner lacks comes from the method's selector.
    IN IF winner.operation = None /\ method \in DOMAIN MethodHints
       THEN [winner EXCEPT !.operation = method] ELSE winner

-----------------------------------------------------------------------------
(* What process_tx writes *)

Found(registry, tx) ==
    LET transfers == Transfers(tx)
        class == Classify(registry, tx)
        decoded == DecodeSwaps(tx)
        liquidity == IF class.category = "dex" THEN DetectLiquidity(transfers, Initiator(tx)) ELSE <<>>
        inferred == IF class.category = "dex" /\ liquidity = <<>>
                    THEN DetectSwaps(transfers, Initiator(tx)) ELSE <<>>
    IN [class |-> class, decoded |-> decoded, liquidity |-> liquidity,
        swaps |-> IF decoded # <<>> THEN [i \in DOMAIN decoded |-> decoded[i].event] ELSE inferred,
        bridges |-> IF class.category = "bridge" THEN DetectBridges(transfers) ELSE <<>>,
        lifecycle |-> DetectMintsAndBurns(transfers)]

\* build_semantic_event_rows numbers the events of all detectors in one count;
\* a decoded swap is named by its log instead.
EventRows(registry, tx) ==
    LET found == Found(registry, tx)
        events == (IF found.decoded = <<>> THEN found.swaps ELSE <<>>)
                    \o found.bridges \o found.lifecycle \o found.liquidity
    IN {[id |-> d.id, event |-> d.event, observed |-> FALSE] : d \in Range(found.decoded)}
         \cup {[id |-> <<tx.id, events[i].type, i - 1, events[i].subject>>, event |-> events[i],
                observed |-> events[i].type \in {"mint", "burn"}] : i \in DOMAIN events}

\* classify_transaction_semantics: the first that applies.
Feature(registry, tx) ==
    LET found == Found(registry, tx)
        transfers == Transfers(tx)
        shows(events, type, operation) ==
            (\E e \in Range(events) : e.type = type) \/ found.class.operation = operation
        add == shows(found.liquidity, "liquidity_add", "liquidity_add")
        remove == shows(found.liquidity, "liquidity_remove", "liquidity_remove")
        mint == shows(found.lifecycle, "mint", "mint")
        burn == shows(found.lifecycle, "burn", "burn")
        bridge == found.bridges # <<>> \/ found.class.category = "bridge"
        swap == (found.swaps # <<>> \/ found.class.operation = "swap") /\ ~add /\ ~remove
        types == <<<<bridge, "bridge">>, <<add, "liquidity">>, <<remove, "liquidity">>,
                   <<swap, "swap">>, <<mint /\ burn, "token_lifecycle">>, <<mint, "mint">>,
                   <<burn, "burn">>,
                   <<found.class.category \notin {"unknown", "bridge"}, found.class.category>>,
                   <<IsCall(tx), "contract_call">>,
                   <<\E t \in Range(transfers) : t.asset # Trx, "token_transfer">>,
                   <<transfers # <<>>, "native_transfer">>, <<TRUE, "unknown">>>>
    IN [type |-> Head(SelectSeq(types, LAMBDA t : t[1]))[2],
        swap |-> swap, bridge |-> bridge, mint |-> mint, burn |-> burn, add |-> add,
        remove |-> remove, call |-> IsCall(tx)]

-----------------------------------------------------------------------------
(* What should hold of them *)

FlowsAreDistinct(tx) ==
    LET transfers == Transfers(tx)
    IN \A i, j \in DOMAIN transfers : transfers[i].id = transfers[j].id => i = j

\* No leg of a pool pays for two swaps.
LegsCountOnce(tx) ==
    LET swaps == DecodeSwaps(tx)
    IN \A i, j \in DOMAIN swaps :
          i # j => swaps[i].in \cap swaps[j].in = {} /\ swaps[i].out \cap swaps[j].out = {}

=============================================================================
