-------------------------- MODULE EthereumEvidence --------------------------
(***************************************************************************)
(* What dockerizd_ethereum reads out of a block: the value flows of        *)
(* ethereum/extractor.rs and domain/transfer.rs, and the events of         *)
(* ethereum/semantic.rs.  Addresses, assets, topics and hashes are model   *)
(* values; an identifier is the tuple that the code hashes.                *)
(*                                                                         *)
(* A transaction is a record of its fields, its logs and its call tree: a  *)
(* function from trace addresses (sequences of child numbers; the root is  *)
(* <<>>) to frames.                                                        *)
(***************************************************************************)
EXTENDS Integers, FiniteSets, FiniteSetsExt, Sequences, SequencesExt

Zero == "zero"         \* the zero address
Eth == "native:eth"
NoToken == "no token id"
NoTx == "system"

-----------------------------------------------------------------------------
(* Value flows *)

\* relationship_id: neither the block hash nor the amount is part of it.
RelationshipId(r) ==
    <<r.tx, r.txIndex, r.event, r.sub, r.trace, r.from, r.to, r.asset, r.token, r.kind>>

Flow(tx, from, to, asset, amount, kind) ==
    [tx |-> tx.id, txIndex |-> tx.index, event |-> 0, sub |-> 0, trace |-> <<>>,
     from |-> from, to |-> to, asset |-> asset, token |-> NoToken,
     amount |-> amount, kind |-> kind]

Destination(tx) == IF tx.to # "" THEN tx.to ELSE tx.created

NativeTransfers(tx) ==
    IF tx.success /\ tx.value > 0 /\ Destination(tx) # ""
    THEN {Flow(tx, tx.from, Destination(tx), Eth, tx.value, "native_external")} ELSE {}

\* Transfer events by their number of topics and the length of their data.
TokenMovements(log) ==
    LET movement(standard, token, amount, sub) ==
            [standard |-> standard, contract |-> log.emitter, from |-> log.from,
             to |-> log.to, token |-> token, amount |-> amount, sub |-> sub]
    IN CASE log.event = "transfer" /\ log.topics = 3 /\ log.words = 1 ->
                {movement("erc20", NoToken, log.amounts[1], 0)}
         [] log.event = "transfer" /\ log.topics = 4 /\ log.words = 0 ->
                {movement("erc721", log.ids[1], 1, 0)}
         [] log.event = "single" /\ log.topics = 4 /\ log.words = 2 ->
                {movement("erc1155", log.ids[1], log.amounts[1], 0)}
         [] log.event = "batch" /\ log.topics = 4 /\ Len(log.ids) = Len(log.amounts) ->
                {movement("erc1155", log.ids[i], log.amounts[i], i - 1) : i \in DOMAIN log.ids}
         [] OTHER -> {}

\* A movement from and to the zero address is a mint.
MovementKind(m) == CASE m.from = Zero -> m.standard \o "_mint"
                     [] m.from # Zero /\ m.to = Zero -> m.standard \o "_burn"
                     [] OTHER -> m.standard

TokenTransfers(tx) ==
    {[Flow(tx, m.from, m.to, m.standard \o ":" \o m.contract, m.amount, MovementKind(m))
         EXCEPT !.event = i - 1, !.sub = m.sub, !.token = m.token] :
       <<i, m>> \in {<<j, n>> \in UNION {{j} \X TokenMovements(tx.logs[j]) : j \in DOMAIN tx.logs} :
                       n.amount > 0}}

\* Tokens that get a metadata job: zero amounts count, ERC-1155 wins.
DiscoveredTokens(tx) ==
    LET seen == UNION {TokenMovements(tx.logs[i]) : i \in DOMAIN tx.logs}
    IN {m \in seen : m.standard = "erc1155"
           \/ \A n \in seen : n.contract = m.contract => n.standard # "erc1155"}

\* Only these frames move the value they name.
CarriesValue == {"CALL", "CREATE", "CREATE2", "SELFDESTRUCT"}

Mutant_Reached(trace, address) == ~trace[address].failed

\* append_call_frame does not descend into a frame that failed.
Reached(trace, address) == \A n \in 1 .. Len(address) : ~trace[SubSeq(address, 1, n)].failed

InternalTransfers(tx) ==
    IF ~tx.success THEN {}
    ELSE {[Flow(tx, tx.trace[a].from, tx.trace[a].to, Eth, tx.trace[a].value, "native_internal")
             EXCEPT !.trace = a] :
            a \in {b \in DOMAIN tx.trace \ {<<>>} :
                     /\ Reached(tx.trace, b)
                     /\ tx.trace[b].type \in CarriesValue
                     /\ tx.trace[b].value > 0
                     /\ tx.trace[b].from # tx.trace[b].to}}

Relationships(tx) == NativeTransfers(tx) \cup TokenTransfers(tx) \cup InternalTransfers(tx)

\* extract_block as a whole; the withdrawals have no transaction.
Withdrawal(index, to, amount) ==
    [tx |-> NoTx, txIndex |-> -1, event |-> index, sub |-> 0, trace |-> <<>>, from |-> Zero,
     to |-> to, asset |-> Eth, token |-> NoToken, amount |-> amount,
     kind |-> "validator_withdrawal"]

\* A block whose parts do not fit together is refused as a whole.
Accepted(block) ==
    LET ids == {tx.id : tx \in block.txs}
    IN /\ {r.tx : r \in block.receipts} = ids
       /\ Cardinality(block.receipts) = Cardinality(block.txs)
       /\ \A r \in block.receipts : r.block = block.hash
       /\ \A tx \in block.txs, r \in block.receipts : r.tx = tx.id => r.index = tx.index
       /\ \A tx \in block.txs : \A i \in DOMAIN tx.logs : ~tx.logs[i].removed
       /\ \A w \in block.withdrawals : w.amount > 0

BlockRelationships(block) ==
    UNION {Relationships(tx) : tx \in block.txs}
      \cup {Withdrawal(w.index, w.to, w.amount) : w \in block.withdrawals}

-----------------------------------------------------------------------------
(* Events *)

\* A registry is a set of contracts; disabled rows are not loaded.
Registered(registry, address) == {c \in registry : c.address = address /\ c.enabled}
Dex(registry, address) == {c \in Registered(registry, address) : c.type = "dex"}

Event(tx, i, type) ==
    [id |-> <<tx.network, tx.id, i - 1, type, tx.logs[i].emitter>>,
     type |-> type, subject |-> tx.from, counterparty |-> tx.logs[i].emitter,
     protocol |-> "", in |-> {}, out |-> {}, direction |-> "", key |-> <<>>, confidence |-> 0]

\* Sums by asset.
Total(flows) == MapThenSumSet(LAMBDA f : f.amount, flows)
Sums(flows) == {<<a, Total({f \in flows : f.asset = a})>> : a \in {f.asset : f \in flows}}

PoolFlows(flows, pool, inbound) ==
    {f \in flows : IF inbound THEN f.to = pool /\ f.from # pool ELSE f.from = pool /\ f.to # pool}

\* The evidence of one bridge message, on either chain, gets one key: the
\* endpoints are sorted.
BridgeKey(protocol, endpoint, remote, log) ==
    <<protocol, {endpoint, remote}, log.from, log.to, log.amounts[1]>>

\* An outbound event is about its sender, an inbound event about its receiver.
DecodeBridge(registry, tx, i) ==
    LET log == tx.logs[i]
        outbound == log.event = "bridge_initiated"
        asset == {<<log.assets[1], log.amounts[1]>>}
    IN {[Event(tx, i, "bridge_transfer") EXCEPT
            !.subject = IF outbound THEN log.from ELSE log.to,
            !.counterparty = IF outbound THEN log.to ELSE log.from,
            !.protocol = c.protocol,
            !.in = IF outbound THEN asset ELSE {},
            !.out = IF outbound THEN {} ELSE asset,
            !.direction = IF outbound THEN "outbound" ELSE "inbound",
            !.key = BridgeKey(c.protocol, <<tx.network, log.assets[1]>>,
                              <<c.remote, log.assets[2]>>, log),
            !.confidence = c.confidence] :
          c \in {d \in Registered(registry, log.emitter) :
                   /\ d.type = "bridge"
                   /\ log.event \in {"bridge_initiated", "bridge_finalized"}
                   /\ log.amounts[1] > 0}}

DecodeMixer(registry, tx, i) ==
    LET log == tx.logs[i]
        deposit == log.event = "mixer_deposit"
        flows == {f \in PoolFlows(Relationships(tx), log.emitter, deposit) : f.token = NoToken}
    IN {[Event(tx, i, log.event) EXCEPT
            !.subject = IF deposit \/ log.to = "" THEN tx.from ELSE log.to,
            !.protocol = c.protocol,
            !.in = IF deposit THEN Sums(flows) ELSE {},
            !.out = IF deposit THEN {} ELSE Sums(flows),
            !.key = <<c.protocol, log.event, log.to>>,
            !.confidence = IF flows # {} THEN c.confidence ELSE Min({c.confidence, 82})] :
          c \in {d \in Registered(registry, log.emitter) :
                   d.type = "mixer" /\ log.event \in {"mixer_deposit", "mixer_withdrawal"}}}

DecodeLiquidity(registry, tx, i) ==
    LET log == tx.logs[i]
        add == log.event = "liquidity_add"
        flows == {f \in PoolFlows(Relationships(tx), log.emitter, add) : f.token = NoToken}
        dex == Dex(registry, log.emitter)
    IN IF log.event \notin {"liquidity_add", "liquidity_remove"} THEN {}
       ELSE {[Event(tx, i, log.event) EXCEPT
                !.protocol = IF dex = {} THEN "family" ELSE (CHOOSE c \in dex : TRUE).protocol,
                !.in = IF add THEN Sums(flows) ELSE {},
                !.out = IF add THEN {} ELSE Sums(flows),
                !.confidence = Max({IF flows # {} THEN 88 ELSE 72}
                                     \cup {c.confidence : c \in dex})]}

\* What a pool took and gave in this transaction, when that is one asset each.
InferPoolFlows(tx, pool) ==
    LET in == Sums(PoolFlows(TokenTransfers(tx), pool, TRUE))
        out == Sums(PoolFlows(TokenTransfers(tx), pool, FALSE))
    IN IF Cardinality(in) = 1 /\ Cardinality(out) = 1 THEN {[in |-> in, out |-> out]} ELSE {}

DecodeSwap(registry, tx, i) ==
    LET log == tx.logs[i]
        dex == Dex(registry, log.emitter)
        named == IF log.event = "balancer_swap"
                 THEN {[in |-> {<<log.assets[1], log.amounts[1]>>},
                        out |-> {<<log.assets[2], log.amounts[2]>>}]} ELSE {}
        inferred == InferPoolFlows(tx, log.emitter)
        flows == IF named # {} THEN named ELSE inferred
        confidence == CASE named # {} -> 95 [] named = {} /\ inferred # {} -> 86 [] OTHER -> 72
    IN IF log.event \notin {"swap", "balancer_swap"} THEN {}
       ELSE {[Event(tx, i, "swap") EXCEPT
                !.protocol = IF dex = {} THEN "family" ELSE (CHOOSE c \in dex : TRUE).protocol,
                !.in = UNION {f.in : f \in flows},
                !.out = UNION {f.out : f \in flows},
                !.confidence = Max({confidence} \cup {c.confidence : c \in dex})]}

\* The first decoder that recognises a log takes it.
DecodeLog(registry, tx, i) ==
    LET bridge == DecodeBridge(registry, tx, i)
        mixer == DecodeMixer(registry, tx, i)
        liquidity == DecodeLiquidity(registry, tx, i)
    IN CASE bridge # {} -> bridge
         [] bridge = {} /\ mixer # {} -> mixer
         [] bridge = {} /\ mixer = {} /\ liquidity # {} -> liquidity
         [] OTHER -> DecodeSwap(registry, tx, i)

Events(registry, tx) == UNION {DecodeLog(registry, tx, i) : i \in DOMAIN tx.logs}

TransactionType(events) ==
    LET types == {e.type : e \in events}
    IN CASE types \cap {"mixer_deposit", "mixer_withdrawal"} # {} -> "mixer"
         [] types \cap {"mixer_deposit", "mixer_withdrawal"} = {}
              /\ "bridge_transfer" \in types -> "bridge"
         [] types # {} /\ types \subseteq {"liquidity_add", "liquidity_remove", "swap"}
              /\ types # {"swap"} -> "liquidity"
         [] types = {"swap"} -> "swap"
         [] OTHER -> "contract_call"

Features(registry, tx) ==
    LET events == Events(registry, tx)
        flows == Relationships(tx)
    IN IF events = {} THEN {}
       ELSE {[type |-> TransactionType(events),
              protocols |-> {e.protocol : e \in events},
              mint |-> \E f \in flows : f.kind \in {"erc20_mint", "erc721_mint", "erc1155_mint"},
              assets |-> Cardinality({f.asset : f \in flows}),
              participants |-> Cardinality({f.from : f \in flows} \cup {f.to : f \in flows}),
              confidence |-> Max({e.confidence : e \in events}),
              evidence |-> {e.id : e \in events}]}

-----------------------------------------------------------------------------
(* What should hold of them *)

\* No two flows of a block share an identifier: the later one would replace
\* the earlier one in the store.
FlowsAreDistinct(flows) ==
    \A r, s \in flows : RelationshipId(r) = RelationshipId(s) => r = s

\* The two chains' evidence of one bridge message joins, and only that: an
\* inbound event with another amount, receiver or asset has another key.
BridgeSidesJoin(registry, out, in) ==
    \A e \in Events(registry, out), f \in Events(registry, in) :
       e.direction = "outbound" /\ f.direction = "inbound" =>
          (e.key = f.key <=>
             /\ e.subject = f.counterparty /\ e.counterparty = f.subject
             /\ \E i \in DOMAIN out.logs, j \in DOMAIN in.logs :
                   /\ out.logs[i].amounts[1] = in.logs[j].amounts[1]
                   /\ out.logs[i].assets = Reverse(in.logs[j].assets))
=============================================================================
