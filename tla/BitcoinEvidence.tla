---------------------------- MODULE BitcoinEvidence ----------------------------
(***************************************************************************)
(* What Bitcoin's ingestion makes of one block of the node: the outputs its *)
(* inputs spend (bitcoin/resolver.rs), the evidence (domain/model.rs        *)
(* extract), the checks that every writer repeats and the rows of the       *)
(* warehouse (db/warehouse.rs), what a reader rebuilds of them              *)
(* (bitcoin/transactions.rs) and the patterns found in either               *)
(* (semantics.rs).  Amounts stay far below 2^64.                            *)
(*                                                                         *)
(* A block is a sequence of [id, vin, vout]; an input [tx, n, coinbase,      *)
(* prevout] spends output n of tx, an output is [n, subject, value] and a    *)
(* subject [name, script], where a script stands for one without an address. *)
(***************************************************************************)
EXTENDS Integers, Sequences, FiniteSets, FiniteSetsExt, SequencesExt, Functions

CONSTANTS MaxPrevouts,  \* config.max_prevouts
          MaxLegs,      \* semantics.rs MAX_LEGS, 256
          MaxChain      \* semantics.rs MAX_CHAIN, 5

Unknown == [subject |-> [name |-> "", script |-> FALSE], value |-> -1]  \* no such output
NoPoint == <<"", 0>>

Members(s) == {s[i] : i \in DOMAIN s}
Total(legs) == FoldLeft(LAMBDA sum, leg : sum + leg.value, 0, legs)
Outpoint(input) == <<input.tx, input.n>>
Content(output) == [subject |-> output.subject, value |-> output.value]

-----------------------------------------------------------------------------
(* The spent outputs: from the node's answer, the warehouse or the node's   *)
(* transaction index                                                        *)

Earlier(block, i) == {block[j].id : j \in 1 .. i - 1}
Inputs(block, i) == {input \in Members(block[i].vin) : ~input.coinbase}

\* An input may refer to an earlier transaction of its block, never to a later one.
Ordered(block) ==
    \A i \in DOMAIN block : \A input \in Inputs(block, i) :
        input.tx \in {tx.id : tx \in Members(block)} => input.tx \in Earlier(block, i)

Needed(block) ==
    UNION {{Outpoint(input) : input \in {x \in Inputs(block, i) :
                                            x.prevout = Unknown /\ x.tx \notin Earlier(block, i)}} :
              i \in DOMAIN block}

FromIndex(indexed, point) ==
    IF point[1] \in DOMAIN indexed /\ point[2] + 1 \in DOMAIN indexed[point[1]]
    THEN Content(indexed[point[1]][point[2] + 1]) ELSE Unknown

\* `stored` holds the warehouse's outputs by their points, `indexed` the
\* outputs of the transactions that the node finds by their ids.
Resolved(block, stored, indexed) ==
    [point \in Needed(block) |->
        IF point \in DOMAIN stored THEN stored[point] ELSE FromIndex(indexed, point)]

Resolves(block, stored, indexed) ==
    /\ Ordered(block) /\ Cardinality(Needed(block)) <= MaxPrevouts
    /\ \A point \in Needed(block) : Resolved(block, stored, indexed)[point] # Unknown

-----------------------------------------------------------------------------
(* extract: a known output, else the one the node adds to the input          *)

Spent(block, resolved, i, input) ==
    LET made == {block[j] : j \in {j \in 1 .. i - 1 : block[j].id = input.tx /\ input.n < Len(block[j].vout)}}
    IN  IF made # {} THEN Content((CHOOSE tx \in made : TRUE).vout[input.n + 1])
        ELSE IF Outpoint(input) \in DOMAIN resolved THEN resolved[Outpoint(input)]
        ELSE input.prevout

Coinbase(tx) == Len(tx.vin) = 1 /\ tx.vin[1].coinbase
Row(block, i, leg) == [tx |-> block[i].id, index |-> i - 1, leg |-> leg - 1, block |-> "b"]

InputRows(block, resolved, i) ==
    IF i = 1 THEN <<>> ELSE
    [k \in DOMAIN block[i].vin |->
        Row(block, i, k) @@ [prev |-> Outpoint(block[i].vin[k])]
                         @@ Spent(block, resolved, i, block[i].vin[k])]
OutputRows(block, i) ==
    [k \in DOMAIN block[i].vout |-> Row(block, i, k) @@ [coinbase |-> i = 1] @@ Content(block[i].vout[k])]

SpentKnown(block, resolved) ==
    \A i \in DOMAIN block : \A input \in Inputs(block, i) : Spent(block, resolved, i, input) # Unknown

Extracts(block, resolved) ==
    /\ block # <<>> /\ SpentKnown(block, resolved)
    /\ \A i \in DOMAIN block :
          /\ block[i].vin # <<>> /\ block[i].vout # <<>>
          /\ Coinbase(block[i]) <=> i = 1
          /\ i # 1 => \A k \in DOMAIN block[i].vin : ~block[i].vin[k].coinbase
          /\ \A k \in DOMAIN block[i].vout : block[i].vout[k].n = k - 1
          /\ i # 1 => Total(block[i].vout) <= Total(InputRows(block, resolved, i))
    /\ \A i, j \in DOMAIN block \ {1} : \A k \in DOMAIN block[i].vin, l \in DOMAIN block[j].vin :
          Outpoint(block[i].vin[k]) = Outpoint(block[j].vin[l]) => <<i, k>> = <<j, l>>

Extracted(block, resolved) ==
    [transactions |-> [i \in DOMAIN block |->
        [id |-> block[i].id, index |-> i - 1, block |-> "b", coinbase |-> i = 1,
         inputs |-> Len(block[i].vin), outputs |-> Len(block[i].vout), sent |-> Total(block[i].vout),
         fee |-> IF i = 1 THEN 0 ELSE Total(InputRows(block, resolved, i)) - Total(block[i].vout)]],
     inputs  |-> FlattenSeq([i \in DOMAIN block |-> InputRows(block, resolved, i)]),
     outputs |-> FlattenSeq([i \in DOMAIN block |-> OutputRows(block, i)])]

-----------------------------------------------------------------------------
(* validate_evidence, of a block that claims a number of transactions        *)

Of(legs, id) == SelectSeq(legs, LAMBDA leg : leg.tx = id)
Count(tx, legs) == Len(Of(legs, tx.id))
Sum(tx, legs) == Total(Of(legs, tx.id))

Conserves(tx, e) ==
    IF tx.coinbase THEN tx.fee = 0 ELSE Sum(tx, e.inputs) - Sum(tx, e.outputs) = tx.fee

\* The indexes of a transaction's legs count from zero without a gap.
Contiguous(legs) ==
    \A i \in DOMAIN legs :
        legs[i].leg = Cardinality({j \in 1 .. i - 1 : legs[j].tx = legs[i].tx})

LegFits(leg, coinbase, e) ==
    \E tx \in Members(e.transactions) :
        tx.id = leg.tx /\ tx.index = leg.index /\ tx.coinbase = coinbase

Valid(count, e) ==
    /\ Len(e.transactions) = count /\ count > 0
    /\ \A i \in DOMAIN e.transactions :
          LET tx == e.transactions[i]
          IN  /\ tx.index = i - 1 /\ tx.coinbase = (i = 1)
              /\ tx.fee >= 0 /\ Conserves(tx, e)
              /\ tx.outputs = Count(tx, e.outputs) /\ tx.sent = Sum(tx, e.outputs)
              /\ tx.inputs = Count(tx, e.inputs) + (IF tx.coinbase THEN 1 ELSE 0)
    /\ IsInjective([i \in DOMAIN e.transactions |-> e.transactions[i].id])
    /\ IsInjective([i \in DOMAIN e.inputs |-> e.inputs[i].prev])
    /\ \A leg \in Members(e.inputs) : LegFits(leg, FALSE, e)
    /\ \A leg \in Members(e.outputs) : LegFits(leg, leg.coinbase, e)
    /\ Contiguous(e.inputs) /\ Contiguous(e.outputs)
    /\ \A row \in Members(e.transactions) \cup Members(e.inputs) \cup Members(e.outputs) : row.block = "b"

-----------------------------------------------------------------------------
(* map_evidence: the relationships; Reader::load: a transaction of them      *)

Relationships(e) ==
    {[id |-> <<leg.tx, "in", leg.leg>>, tx |-> leg.tx, leg |-> leg.leg, incoming |-> TRUE,
      subject |-> leg.subject, value |-> leg.value, prev |-> leg.prev] : leg \in Members(e.inputs)}
    \cup
    {[id |-> <<leg.tx, "out", leg.leg>>, tx |-> leg.tx, leg |-> leg.leg, incoming |-> FALSE,
      subject |-> leg.subject, value |-> leg.value, prev |-> NoPoint] : leg \in Members(e.outputs)}

ByIndex(rows) ==
    [i \in 1 .. Cardinality(rows) |->
        CHOOSE row \in rows : Cardinality({other \in rows : other.leg < row.leg}) = i - 1]

Loaded(rows, tx) ==
    LET own == {row \in rows : row.tx = tx.id}
    IN  [id |-> tx.id, position |-> tx.index, coinbase |-> tx.coinbase, fee |-> tx.fee,
         inputs |-> ByIndex({row \in own : row.incoming}), outputs |-> ByIndex({row \in own : ~row.incoming})]

\* block_facts: the same transaction from the evidence itself.
Built(e, tx) ==
    LET leg(side, row) == [id |-> <<row.tx, side, row.leg>>, tx |-> row.tx, leg |-> row.leg,
                           incoming |-> side = "in", subject |-> row.subject, value |-> row.value,
                           prev |-> IF side = "in" THEN row.prev ELSE NoPoint]
        ins == Of(e.inputs, tx.id)
        outs == Of(e.outputs, tx.id)
    IN  [id |-> tx.id, position |-> tx.index, coinbase |-> tx.coinbase, fee |-> tx.fee,
         inputs |-> [i \in DOMAIN ins |-> leg("in", ins[i])],
         outputs |-> [i \in DOMAIN outs |-> leg("out", outs[i])]]

-----------------------------------------------------------------------------
(* detect: descriptive patterns of one transaction                          *)

Positive(tx) == SelectSeq(tx.outputs, LAMBDA leg : leg.value > 0)
Subjects(legs) == {leg.subject : leg \in Members(legs)}
NoPeel == -1

\* The index of the larger of two outputs, at least four times the other.
Peel(tx) ==
    LET outs == Positive(tx)
        large == IF outs[1].value > outs[2].value THEN outs[1] ELSE outs[2]
        small == IF outs[1].value > outs[2].value THEN outs[2] ELSE outs[1]
    IN  IF /\ ~tx.coinbase /\ Len(tx.inputs) = 1 /\ 1 + Len(tx.outputs) <= MaxLegs
           /\ Len(outs) = 2
           /\ large.value \div small.value >= 4 /\ large.value < tx.inputs[1].value
        THEN large.leg ELSE NoPeel

EqualAddresses(tx, value) ==
    {s \in Subjects(SelectSeq(Positive(tx), LAMBDA leg : leg.value = value)) : ~s.script}
MayJoin(tx) == {leg.value : leg \in {l \in Members(Positive(tx)) : Cardinality(EqualAddresses(tx, l.value)) >= 3}}

\* The largest group of equal outputs, of the highest value.
Joined(tx) ==
    CHOOSE v \in MayJoin(tx) : \A w \in MayJoin(tx) :
        LET size(value) == Cardinality(EqualAddresses(tx, value))
        IN  size(w) < size(v) \/ (size(w) = size(v) /\ w <= v)

Detected(tx) ==
    LET found(kind, on, holds) == IF holds THEN {[kind |-> kind, on |-> on]} ELSE {}
        outs == Positive(tx)
    IN  IF tx.coinbase \/ Len(tx.inputs) + Len(tx.outputs) > MaxLegs THEN {}
        ELSE found("consolidation", Len(tx.inputs), Len(tx.inputs) >= 5 /\ Len(outs) = 1)
               \cup found("fan_out", Len(outs), /\ Len(tx.inputs) \in 1 .. 2 /\ Len(outs) >= 5
                                                /\ Cardinality(Subjects(outs)) >= 3)
               \cup found("possible_coinjoin", Joined(tx),
                          Cardinality(Subjects(tx.inputs)) >= 3 /\ MayJoin(tx) # {})
               \cup found("peel_step", Peel(tx), Peel(tx) # NoPeel)

-----------------------------------------------------------------------------
(* chain: two peel steps back at most, then forward                         *)

Before(txs, tx) == {p \in txs : p.id = tx.inputs[1].prev[1] /\ p.position < tx.position}
SpendersOf(txs, tx, n) ==
    {c \in txs : c.position > tx.position /\ \E k \in DOMAIN c.inputs : c.inputs[k].prev = <<tx.id, n>>}

\* A parent whose larger output is the one that was spent.
StepBack(txs, steps) ==
    LET parents == {p \in Before(txs, steps[1]) : Peel(p) = steps[1].inputs[1].prev[2]}
    IN  IF parents = {} THEN steps ELSE <<CHOOSE p \in parents : TRUE>> \o steps

StepForward(txs, steps) ==
    LET next == {c \in SpendersOf(txs, Last(steps), Peel(Last(steps))) : Peel(c) # NoPeel}
    IN  IF next = {} THEN steps ELSE Append(steps, CHOOSE c \in next : TRUE)

Chain(txs, root) ==
    IF Peel(root) = NoPeel THEN <<>> ELSE
    LET back == StepBack(txs, StepBack(txs, <<root>>))
        forward[n \in Len(back) .. MaxChain] ==
            IF n = Len(back) THEN back ELSE StepForward(txs, forward[n - 1])
    IN  forward[MaxChain]

-----------------------------------------------------------------------------
(* Properties                                                               *)

\* What ingestion extracts passes the checks of the writer, so that no block is
\* refused after it was extracted (model.rs 141-244, warehouse.rs 63-188).
ExtractedIsValid(block, e) == Valid(Len(block), e)

\* Each input of the evidence is the output that it spends, wherever that was
\* found; `outputs` is what every transaction really made (resolver.rs 22-137).
InputsAreTheirOutputs(outputs, e) ==
    \A leg \in Members(e.inputs) :
        leg.prev \in DOMAIN outputs /\ [subject |-> leg.subject, value |-> leg.value] = outputs[leg.prev]

\* Evidence that passes the checks creates nothing and spends nothing twice,
\* also when a row of the old tables was lost, repeated or changed: the
\* transactions' own checks add up over the block (warehouse.rs 63-188).
ValidIsSound(count, e) ==
    Valid(count, e) =>
        /\ Total(e.inputs) = Total(SelectSeq(e.outputs, LAMBDA leg : ~leg.coinbase))
                               + FoldLeft(LAMBDA sum, tx : sum + tx.fee, 0, e.transactions)
        /\ Cardinality(Relationships(e)) = Len(e.inputs) + Len(e.outputs)
        /\ Cardinality({leg.prev : leg \in Members(e.inputs)}) = Len(e.inputs)

\* A reader rebuilds of the rows the transaction that ingestion saw, and finds
\* the patterns that ingestion stored (semantics.rs 169-218, 283-305).
RereadIsSame(e) ==
    \A tx \in Members(e.transactions) :
        /\ Loaded(Relationships(e), tx) = Built(e, tx)
        /\ Detected(Loaded(Relationships(e), tx)) = Detected(Built(e, tx))

\* A chain is of peel steps, each of which spends the larger output of the one
\* before, it has its root and at most MaxChain steps, and one that starts at its
\* first step is never the shorter (semantics.rs 230-256).
ChainsLink(e) ==
    LET txs == {Built(e, tx) : tx \in Members(e.transactions)}
    IN  \A root \in txs :
          LET steps == Chain(txs, root)
          IN  steps # <<>> =>
                /\ root \in Members(steps) /\ Len(steps) <= MaxChain
                /\ \A i \in DOMAIN steps : Peel(steps[i]) # NoPeel
                /\ \A i \in 2 .. Len(steps) : steps[i].inputs[1].prev = <<steps[i - 1].id, Peel(steps[i - 1])>>
                /\ Len(Chain(txs, steps[1])) >= Len(steps)
=============================================================================
