---------------------------- MODULE BscEvidence ----------------------------
(***************************************************************************)
(* What dockerizd_bsc reads out of a block: ingestion/model.rs checks that *)
(* its parts fit together, ingestion/transfers.rs extracts the value flows *)
(* and the tokens, semantic.rs validates the protocol registry and         *)
(* classifies the transactions with it.  The transactions have the form of *)
(* EthereumEvidence, plus the block-wide index of each log, the topics     *)
(* that a rule may point at, and the selector of the input.                *)
(*                                                                         *)
(* Left out: the 256 flows and 32 assets a summary is cut at, and the 4096 *)
(* items of a batch, which no case here reaches.                           *)
(***************************************************************************)
EXTENDS Integers, FiniteSets, FiniteSetsExt, Sequences, SequencesExt

Zero == "zero"
Bnb == <<"native", "bnb">>
NoToken == "no token id"
NoAddress == ""

-----------------------------------------------------------------------------
(* Blocks *)

\* validate_block_reference
Refers(item, block, index) ==
    item.hash = block.hash /\ item.number = block.number /\ item.index = index

\* normalize_block: one receipt for each transaction, which agrees with it.
TransactionFits(block, i) ==
    LET tx == block.txs[i]
        receipts == {r \in block.receipts : r.tx = tx.id}
    IN /\ Cardinality(receipts) = 1
       /\ \A r \in receipts :
             /\ Refers(tx.ref, block, i - 1) /\ Refers(r.ref, block, i - 1)
             /\ r.from = tx.from /\ r.to = tx.to
             /\ r.to = NoAddress \/ r.created = NoAddress
             /\ r.type = tx.type /\ r.status \in {0, 1}
             /\ r.gasUsed <= tx.gasLimit
             /\ \A log \in r.logs : ~log.removed /\ log.tx = tx.id
                                      /\ Refers(log.ref, block, i - 1)

BlockFits(block) ==
    LET logs == UNION {r.logs : r \in block.receipts}
    IN /\ Cardinality(block.receipts) = Len(block.txs)
       /\ \A i \in DOMAIN block.txs : TransactionFits(block, i)
       /\ {log.index : log \in logs} = 0 .. Cardinality(logs) - 1

-----------------------------------------------------------------------------
(* Value flows *)

RelationshipId(r) ==
    <<r.tx, r.txIndex, r.event, r.sub, r.trace, r.from, r.to, r.asset, r.token, r.kind>>

Native(tx, event, trace, from, to, amount, kind) ==
    [tx |-> tx.id, txIndex |-> tx.index, event |-> event, sub |-> 0, trace |-> trace,
     from |-> from, to |-> to, asset |-> Bnb, token |-> NoToken, amount |-> amount,
     kind |-> kind]

Destination(tx) == IF tx.to = NoAddress THEN tx.created ELSE tx.to

\* A transfer to oneself is no flow.
NativeTransfers(tx) ==
    IF tx.success /\ tx.value > 0 /\ tx.from # Destination(tx)
    THEN {Native(tx, tx.index, <<>>, tx.from, Destination(tx), tx.value, "native")} ELSE {}

\* A malformed event is no movement, and no error.
TokenMovements(log) ==
    LET movement(standard, token, amount, sub) ==
            [standard |-> standard, contract |-> log.emitter, from |-> log.from,
             to |-> log.to, token |-> token, amount |-> amount, sub |-> sub]
    IN CASE log.event = "transfer" /\ log.topics = 3 /\ log.words = 1 ->
                {movement("erc20", NoToken, log.amounts[1], 0)}
         [] log.event = "transfer" /\ log.topics = 4 /\ log.words = 0 ->
                {movement("erc721", log.ids[1], 1, 0)}
         [] log.event = "single" /\ log.topics = 4 /\ log.words = 2 ->
                {movement("erc1155", log.ids[1], log.amounts[1], 0)}
         [] log.event = "batch" /\ log.topics = 4 /\ Len(log.ids) = Len(log.amounts) ->
                {movement("erc1155", log.ids[i], log.amounts[i], i - 1) : i \in DOMAIN log.ids}
         [] OTHER -> {}

\* The asset of a token that is not fungible carries its identifier.
TokenAsset(m) ==
    IF m.standard = "erc20" THEN <<"erc20", m.contract>> ELSE <<m.standard, m.contract, m.token>>

TokenTransfers(tx) ==
    {[Native(tx, tx.logs[p[1]].index, <<>>, p[2].from, p[2].to, p[2].amount, p[2].standard)
        EXCEPT !.sub = p[2].sub, !.asset = TokenAsset(p[2]), !.token = p[2].token] :
       p \in {q \in UNION {{i} \X TokenMovements(tx.logs[i]) : i \in DOMAIN tx.logs} :
                q[2].amount > 0 /\ q[2].from # q[2].to}}

\* One metadata job for each contract and standard.
DiscoveredTokens(tx) ==
    {<<m.contract, m.standard>> : m \in UNION {TokenMovements(tx.logs[i]) : i \in DOMAIN tx.logs}}

CarriesValue == {"CALL", "CREATE", "CREATE2", "SELFDESTRUCT"}
CarriesNone == {"DELEGATECALL", "STATICCALL", "CALLCODE"}

Mutant_Reached(trace, address) == ~trace[address].failed

\* append_call_frame stops at a frame that reverted.
Reached(trace, address) == \A n \in 1 .. Len(address) : ~trace[SubSeq(address, 1, n)].failed

InternalTransfers(tx) ==
    IF ~tx.success THEN {}
    ELSE {Native(tx, a[1] - 1, a, tx.trace[a].from, tx.trace[a].to, tx.trace[a].value, "internal") :
            a \in {b \in DOMAIN tx.trace \ {<<>>} :
                     /\ Reached(tx.trace, b)
                     /\ tx.trace[b].type \in CarriesValue
                     /\ tx.trace[b].value > 0
                     /\ tx.trace[b].from # tx.trace[b].to}}

\* What makes append_internal_transfers refuse a trace.
TraceFits(tx) ==
    /\ tx.trace[<<>>].from = tx.from
    /\ tx.success => ~tx.trace[<<>>].failed
    /\ tx.success => \A a \in DOMAIN tx.trace \ {<<>>} :
          Reached(tx.trace, a) => tx.trace[a].type \in CarriesValue \cup CarriesNone

\* extract_block_evidence; without traces the internal transfers are missing.
EvidenceFits(tx, traced) ==
    /\ ~tx.success => tx.logs = <<>>
    /\ tx.success /\ tx.value > 0 => Destination(tx) # NoAddress
    /\ traced => TraceFits(tx)

Relationships(tx, traced) ==
    NativeTransfers(tx) \cup TokenTransfers(tx) \cup (IF traced THEN InternalTransfers(tx) ELSE {})

-----------------------------------------------------------------------------
(* The protocol registry *)

DecodersOf == [dex |-> {"amm_v2", "amm_v3", "aggregator"}, bridge |-> {"bridge_generic"},
               lending |-> {"lending_generic"}, staking |-> {"staking_generic"},
               mixer |-> {"tornado_cash_v1", "mixer_generic"},
               scam |-> {"reviewed_interaction"}, system |-> {"bsc_system"}]

EventsOf ==
    [dex |-> {"swap", "liquidity_add", "liquidity_remove"},
     bridge |-> {"bridge_deposit", "bridge_withdrawal"},
     lending |-> {"lending_supply", "lending_withdrawal", "lending_borrow", "lending_repay",
                  "lending_liquidation"},
     staking |-> {"staking_deposit", "staking_withdrawal", "staking_claim"},
     mixer |-> {"mixer_deposit", "mixer_withdrawal"},
     scam |-> {"scam_interaction"}, system |-> {"bsc_system_transaction"}]

TypesMapped(rule) == {rule.methods[m] : m \in DOMAIN rule.methods}
                       \cup {rule.topics[t] : t \in DOMAIN rule.topics}

DecoderFits(rule) == rule.decoder \in DecodersOf[rule.type]

\* ProtocolRegistryInput::validate, without the form of names and addresses.
Valid(rule) ==
    /\ rule.type \in DOMAIN DecodersOf
    /\ DecoderFits(rule)
    /\ rule.status = "approved" => rule.reviewer # ""
    /\ rule.confidence \in 0 .. 100
    /\ TypesMapped(rule) \subseteq EventsOf[rule.type]

\* SemanticRegistry: a sequence of rules in the order of their addresses.
Active(rule) == rule.status = "approved" /\ rule.enabled

Matching(registry, tx) ==
    LET addresses == ({tx.to} \ {NoAddress}) \cup {tx.logs[i].emitter : i \in DOMAIN tx.logs}
    IN SelectSeq(registry, LAMBDA rule :
          /\ Active(rule)
          /\ \/ rule.address \in addresses
             \/ rule.type = "system" /\ rule.address = tx.from)

-----------------------------------------------------------------------------
(* Events *)

Total(flows) == MapThenSumSet(LAMBDA f : f.amount, flows)
Sums(flows) == {<<a, Total({f \in flows : f.asset = a})>> : a \in {f.asset : f \in flows}}

\* subject_flow: what crosses the protocol's boundary, or the sender's when
\* the protocol moved nothing; never both.
Boundary(flows, rule) == \E f \in flows : rule.address \in {f.from, f.to}

Inbound(f, flows, subject, rule) ==
    IF Boundary(flows, rule) THEN f.to = rule.address ELSE f.from = subject
Outbound(f, flows, subject, rule) ==
    IF Boundary(flows, rule) THEN f.from = rule.address ELSE f.to = subject

SubjectFlow(flows, subject, rule) ==
    LET fungible == {f \in flows : f.token = NoToken}
        in == {f \in fungible : Inbound(f, flows, subject, rule) /\ f.to # Zero}
        out == {f \in fungible : Outbound(f, flows, subject, rule) /\ f.from # Zero}
        leaving == {f \in out : f.from = rule.address}
    IN [in |-> Sums(in), out |-> Sums(out),
        recipient |-> IF leaving = {} THEN NoAddress
                      ELSE (CHOOSE f \in leaving : \A g \in leaving : f.event <= g.event).to]

\* Which summary an event of this type carries.
CarriesIn == {"swap", "bridge_deposit", "liquidity_add", "lending_supply", "lending_repay",
              "staking_deposit", "mixer_deposit"}
CarriesOut == {"swap", "bridge_withdrawal", "liquidity_remove", "lending_withdrawal",
               "lending_borrow", "lending_liquidation", "staking_withdrawal", "staking_claim",
               "mixer_withdrawal"}

Subject(tx, type, log, flow) ==
    CASE type = "mixer_withdrawal" /\ log # {} -> (CHOOSE l \in log : TRUE).to
      [] type = "bridge_withdrawal" /\ \E l \in log : l.receiver # NoAddress ->
            (CHOOSE l \in log : TRUE).receiver
      [] type \in {"mixer_withdrawal", "bridge_withdrawal"} /\ flow.recipient # NoAddress ->
            flow.recipient
      [] OTHER -> tx.from

EventId(tx, type, contract, index) == <<tx.id, type, contract, index>>

\* log is the set of the log that shows the event, or empty.
RegistryEvent(tx, flow, rule, type, log, source, quality) ==
    LET contract == IF log = {} THEN rule.address ELSE (CHOOSE l \in log : TRUE).emitter
        index == IF log = {} THEN tx.index ELSE (CHOOSE l \in log : TRUE).index
    IN [id |-> EventId(tx, type, contract, index), type |-> type, index |-> index,
        subject |-> Subject(tx, type, log, flow), contract |-> contract,
        protocol |-> rule.protocol,
        in |-> IF type \in CarriesIn THEN flow.in ELSE {},
        out |-> IF type \in CarriesOut THEN flow.out ELSE {},
        message |-> {l.message : l \in log} \ {""},
        source |-> source, confidence |-> Min({rule.confidence, quality})]

\* The topics that name an event without the registry's mapping.
StandardType(decoder, event) ==
    CASE event = "swap_v2" /\ decoder \in {"amm_v2", "aggregator"} -> "swap"
      [] event = "swap_v3" /\ decoder \in {"amm_v3", "aggregator"} -> "swap"
      [] event = "swap_other" /\ decoder = "aggregator" -> "swap"
      [] event = "mint_v2" /\ decoder \in {"amm_v2", "aggregator"} -> "liquidity_add"
      [] event = "burn_v2" /\ decoder \in {"amm_v2", "aggregator"} -> "liquidity_remove"
      [] event = "mint_v3" /\ decoder \in {"amm_v3", "aggregator"} -> "liquidity_add"
      [] event = "burn_v3" /\ decoder \in {"amm_v3", "aggregator"} -> "liquidity_remove"
      [] event \in {"mixer_deposit", "mixer_withdrawal"} /\ decoder = "tornado_cash_v1" -> event
      [] OTHER -> ""

\* push_directional_fallback, and the fallbacks of bridges and aggregators:
\* what the flows alone say when nothing else did.
FallbackTypes ==
    [bridge_generic |-> <<"bridge_deposit", "bridge_withdrawal", 74>>,
     lending_generic |-> <<"lending_supply", "lending_withdrawal", 72>>,
     staking_generic |-> <<"staking_deposit", "staking_withdrawal", 72>>,
     mixer_generic |-> <<"mixer_deposit", "mixer_withdrawal", 72>>]

Fallback(tx, flow, rule) ==
    LET event(type, quality) == <<RegistryEvent(tx, flow, rule, type, {}, "fund_flow", quality)>>
        assets == {s[1] : s \in flow.in \cup flow.out}
    IN CASE rule.decoder \in DOMAIN FallbackTypes /\ flow.in # {} ->
              event(FallbackTypes[rule.decoder][1], FallbackTypes[rule.decoder][3])
         [] rule.decoder \in DOMAIN FallbackTypes /\ flow.in = {} /\ flow.out # {} ->
              event(FallbackTypes[rule.decoder][2], FallbackTypes[rule.decoder][3])
         [] rule.decoder = "aggregator" /\ flow.in # {} /\ flow.out # {} /\ Cardinality(assets) >= 2 ->
              event("swap", 76)
         [] OTHER -> <<>>

Mutant_KeepFirst(events) == events

KeepFirst(events) ==
    LET first == {i \in DOMAIN events : \A j \in 1 .. i - 1 : events[j].id # events[i].id}
    IN [n \in 1 .. Cardinality(first) |->
          events[CHOOSE i \in first : Cardinality({j \in first : j <= i}) = n]]

\* classify_protocol.  An exchange's rule takes the standard topics of every
\* log of the transaction, a mixer's rule its own only.
RuleEvents(tx, flows, rule) ==
    LET flow == SubjectFlow(flows, tx.from, rule)
        method == IF tx.method \in DOMAIN rule.methods
                  THEN <<RegistryEvent(tx, flow, rule, rule.methods[tx.method], {}, "method", 88)>>
                  ELSE <<>>
        own == SelectSeq(tx.logs, LAMBDA l : l.emitter = rule.address)
        mapped == SelectSeq(own, LAMBDA l : l.event \in DOMAIN rule.topics)
        topics == [i \in DOMAIN mapped |->
                     RegistryEvent(tx, flow, rule, rule.topics[mapped[i].event], {mapped[i]},
                                   "event_topic", 98)]
        shown == SelectSeq(IF rule.type = "dex" THEN tx.logs ELSE own,
                           LAMBDA l : StandardType(rule.decoder, l.event) # "")
        quality == CASE rule.decoder = "tornado_cash_v1" -> 99
                     [] rule.type = "dex" /\ flow.in # {} /\ flow.out # {} -> 98
                     [] OTHER -> 90
        standard == [i \in DOMAIN shown |->
                       RegistryEvent(tx, flow, rule, StandardType(rule.decoder, shown[i].event),
                                     {shown[i]}, "standard_topic", quality)]
        always == CASE rule.decoder = "reviewed_interaction" ->
                         <<RegistryEvent(tx, flow, rule, "scam_interaction", {}, "interaction", 100)>>
                    [] rule.decoder = "bsc_system" ->
                         <<RegistryEvent(tx, flow, rule, "bsc_system_transaction", {},
                                         "system_actor", 100)>>
                    [] OTHER -> <<>>
        decoded == method \o topics \o standard \o always
    IN KeepFirst(IF decoded = <<>> THEN Fallback(tx, flow, rule) ELSE decoded)

\* token_lifecycle_events
Lifecycle(flows) ==
    {[id |-> <<f.tx, IF f.from = Zero THEN "token_mint" ELSE "token_burn", RelationshipId(f)>>,
      type |-> IF f.from = Zero THEN "token_mint" ELSE "token_burn", index |-> f.event,
      subject |-> IF f.from = Zero THEN f.to ELSE f.from, contract |-> f.asset[2],
      protocol |-> "token_contract",
      in |-> IF f.from = Zero THEN {<<f.asset, f.amount>>} ELSE {},
      out |-> IF f.from = Zero THEN {} ELSE {<<f.asset, f.amount>>},
      message |-> {}, source |-> "canonical_transfer", confidence |-> 100] :
       f \in {g \in flows : g.kind \in {"erc20", "erc721", "erc1155"} /\ Zero \in {g.from, g.to}}}

\* classify_block; of two rules that emit one event, the first keeps it.
Events(registry, tx, traced) ==
    LET flows == Relationships(tx, traced)
        rules == Matching(registry, tx)
        emitted == FlattenSeq([i \in DOMAIN rules |-> RuleEvents(tx, flows, rules[i])])
    IN IF tx.success THEN Lifecycle(flows) \cup Range(KeepFirst(emitted)) ELSE {}

\* transaction_feature
FeatureType(types) ==
    CASE "bsc_system_transaction" \in types -> "system"
      [] "bsc_system_transaction" \notin types /\ "scam_interaction" \in types -> "intelligence"
      [] types \cap (EventsOf.system \cup EventsOf.scam) = {}
           /\ types \cap EventsOf.mixer # {} -> "privacy"
      [] types \cap (EventsOf.system \cup EventsOf.scam \cup EventsOf.mixer) = {}
           /\ types \cap EventsOf.bridge # {} -> "bridge"
      [] types \cap (EventsOf.system \cup EventsOf.scam \cup EventsOf.mixer \cup EventsOf.bridge) = {}
           /\ types \cap (EventsOf.lending \cup EventsOf.staking \cup EventsOf.dex) # {} -> "defi"
      [] OTHER -> "token"

Features(registry, tx, traced) ==
    LET events == Events(registry, tx, traced)
        flows == Relationships(tx, traced)
    IN IF events = {} THEN {}
       ELSE {[type |-> FeatureType({e.type : e \in events}),
              protocols |-> {e.protocol : e \in events},
              assets |-> Cardinality({f.asset : f \in flows}),
              participants |-> Cardinality(UNION {{f.from, f.to} : f \in flows} \ {Zero}),
              confidence |-> Max({e.confidence : e \in events}),
              evidence |-> {e.id : e \in events}]}

-----------------------------------------------------------------------------
(* What should hold of them *)

\* Several rules may look at one log; it is one event all the same.
OneEventPerLog(registry, tx, traced) ==
    \A e, f \in {g \in Events(registry, tx, traced) : g.source \in {"event_topic", "standard_topic"}} :
       e.index = f.index /\ e.type = f.type => e = f

\* An event's amounts are what one party gave or took: a leg that is passed on
\* by a router counts once.
AmountsCountOnce(registry, tx, traced) ==
    LET flows == Relationships(tx, traced)
        gave(p) == Sums({f \in flows : f.token = NoToken /\ f.from = p /\ f.to # Zero})
        took(p) == Sums({f \in flows : f.token = NoToken /\ f.to = p})
    IN \A e \in Events(registry, tx, traced) :
          e.type \in CarriesIn =>
             \E p \in {tx.from} \cup {registry[i].address : i \in DOMAIN registry} :
                e.in \in {gave(p), took(p)}

\* A rule that was accepted shows events of its own kind only.
EventsFitTheirRule(rule, tx, traced) ==
    Valid(rule) =>
       \A e \in Events(<<rule>>, tx, traced) :
          e.source # "canonical_transfer" => e.type \in EventsOf[rule.type]

FlowsAreDistinct(flows) ==
    \A r, s \in flows : RelationshipId(r) = RelationshipId(s) => r = s
=============================================================================
