--------------------------- MODULE BitcoinExposure ----------------------------
(***************************************************************************)
(* The search of the Bitcoin service for exposure of one address           *)
(* (src/dockerizd_bitcoin/src/exposure/trace.rs) over the canonical        *)
(* transactions of one snapshot (bitcoin/transactions.rs).  From every     *)
(* transaction of the address it follows spent outpoints, backwards from   *)
(* its outputs and forwards from its inputs, until it meets a labelled     *)
(* seed, a service, the hop limit or one of its budgets, and gives every   *)
(* route an interval of satoshis.                                          *)
(*                                                                         *)
(* The chain is built first (Ingest); it and the labels stand still during *)
(* the search, as AnalysisPublication shows the code insists.  Each step   *)
(* of the search examines one input or output of one transaction.          *)
(* A subject is an address; the number of a transaction is                 *)
(* its position, its hash and its time.  An input whose transaction is     *)
(* older than the stored history has position 0.  Left out: scripts        *)
(* without an address, repeated transaction hashes (BIP30) and the         *)
(* budgets on legs, edges and response bytes, which act as the budget on   *)
(* transactions does.                                                      *)
(***************************************************************************)
EXTENDS Integers, Sequences, FiniteSets, SequencesExt

CONSTANTS Address,         \* the analysed address
          Others,          \* the other addresses
          Older,           \* outpoints of the time before the history: a sequence of [subject, value]
          Values,          \* satoshis of an output
          Labels,          \* the ways the addresses can be labelled: address -> record
          MaxIngested,     \* bound: transactions
          MaxHops, MaxTransactions, MaxStates, MaxQueue, MaxPaths, MaxLabels

VARIABLES chain,    \* the canonical transactions in their order
          labels,   \* address -> label
          phase,    \* "building", "searching" or "done"
          queue,    \* work still to be examined
          leg,      \* the next leg of the work at the head of the queue
          search    \* what the search has found and spent

vars == <<chain, labels, phase, queue, leg, search>>

Policy == INSTANCE RiskPolicy WITH PairsForSignal <- 3

Addresses == Others \cup {Address}
NoLabel == [seed |-> FALSE, service |-> FALSE, from |-> 0, to |-> 0]

Sum(legs) == FoldLeft(LAMBDA n, l : n + l.value, 0, legs)
Fee(tx) == Sum(tx.inputs) - Sum(tx.outputs)

Outpoints ==
    {<<0, i>> : i \in DOMAIN Older}
        \cup UNION {{<<p, i>> : i \in DOMAIN chain[p].outputs} : p \in DOMAIN chain}
Spent == UNION {{i.prev : i \in Range(tx.inputs)} : tx \in Range(chain)}
Output(outpoint) ==
    IF outpoint[1] = 0 THEN Older[outpoint[2]] ELSE chain[outpoint[1]].outputs[outpoint[2]]
InputOf(outpoint) ==
    [prev |-> outpoint, subject |-> Output(outpoint).subject, value |-> Output(outpoint).value]

EmptySearch ==
    [paths |-> {}, loaded |-> {}, read |-> {}, states |-> 0, truncated |-> FALSE]

Init ==
    /\ chain = <<>>
    /\ labels \in Labels
    /\ phase = "building"
    /\ queue = <<>>
    /\ leg = 1
    /\ search = EmptySearch

----------------------------------------------------------------------------
(* The world: what ingestion has stored *)

\* A transaction spends outpoints that are free and leaves the fee.
Ingest ==
    /\ phase = "building" /\ Len(chain) < MaxIngested
    /\ \E coins \in (SUBSET (Outpoints \ Spent)) \ {{}} :
       \E outputs \in UNION {[1..n -> [subject : Addresses, value : Values]] : n \in 1..2} :
        LET inputs == SetToSeq({InputOf(o) : o \in coins})
        IN  /\ Cardinality(coins) <= 2
            /\ Sum(outputs) <= Sum(inputs)
            /\ chain' = Append(chain, [inputs |-> inputs, outputs |-> outputs])
    /\ UNCHANGED <<labels, phase, queue, leg, search>>

----------------------------------------------------------------------------
(* Reading under budgets: s is the search, the result the search after the reading *)

\* intelligence of one subject; beyond the budget it reads as unlabelled.
ReadLabels(s, a) ==
    IF a \in s.read THEN s
    ELSE IF Cardinality(s.read) >= MaxLabels THEN [s EXCEPT !.truncated = TRUE]
    ELSE [s EXCEPT !.read = @ \cup {a}]
LabelOf(s, a) == IF a \in s.read THEN labels[a] ELSE NoLabel

Load(s, p) ==
    IF p \in s.loaded THEN s
    ELSE IF Cardinality(s.loaded) >= MaxTransactions THEN [s EXCEPT !.truncated = TRUE]
    ELSE [s EXCEPT !.loaded = @ \cup {p}]

\* The transaction that made the coin of an input; 0 when it is not stored.
Previous(input) == input.prev[1]
\* The input that spends an output, as <<position, index>>.
Spenders(p, i) ==
    {q \in (DOMAIN chain) \X (1..2) :
        /\ q[2] \in DOMAIN chain[q[1]].inputs
        /\ chain[q[1]].inputs[q[2]].prev = <<p, i>>}

----------------------------------------------------------------------------
(* Routes *)

\* A hop: transaction p, the inputs the value comes in by, the output it leaves by.
Hop(p, ins, out) == [tx |-> p, ins |-> ins, out |-> out]

Mutant_Allocate(interval, total, output) ==
    << IF interval[1] > total - output THEN interval[1] - (total - output) ELSE 0, interval[2] >>

\* bounds::allocate: the tight bounds of what one output holds of the value
\* that came in, when it may have gone to any other output or the fee.
Allocate(interval, total, output) ==
    << IF interval[1] > total - output THEN interval[1] - (total - output) ELSE 0,
       IF interval[2] < output THEN interval[2] ELSE output >>

Bounds(route) ==
    LET first == chain[route[1].tx]
        origin == FoldLeft(LAMBDA n, i : n + first.inputs[i].value, 0, route[1].ins)
    IN  FoldLeft(LAMBDA is, h :
                     Append(is, Allocate(Last(is), Sum(chain[h.tx].inputs),
                                         chain[h.tx].outputs[h.out].value)),
                 << <<origin, origin>> >>, route)

\* make_path; a route that cannot carry anything is none.
Path(route, incoming, seed, mediated) ==
    LET bounds == Bounds(route)
        n == Len(route)
        tx(i) == chain[route[i].tx]
        out(i) == tx(i).outputs[route[i].out]
    IN  [ id |-> <<incoming, seed, route>>,
          direction |-> IF incoming THEN "received" ELSE "sent",
          seed |-> seed,
          claim |-> [approved |-> TRUE, seed |-> labels[seed].seed, address |-> seed,
                     from |-> labels[seed].from, to |-> labels[seed].to],
          low |-> bounds[n + 1][1], high |-> bounds[n + 1][2],
          eligible |-> bounds[n + 1][1] > 0 /\ ~mediated,
          mediated |-> mediated,
          steps |-> [i \in 1..n |->
                        [entering |-> bounds[i], leaving |-> bounds[i + 1],
                         total |-> Sum(tx(i).inputs), output |-> out(i).value, fee |-> Fee(tx(i))]],
          hops |-> [i \in 1..n |->
                        [position |-> route[i].tx,
                         inputs |-> [j \in DOMAIN route[i].ins |-> tx(i).inputs[route[i].ins[j]]],
                         output |-> [subject |-> out(i).subject, value |-> out(i).value,
                                     index |-> route[i].out]]] ]

\* The inputs of a transaction that spend coins of subject a, in their order.
InputsOf(p, a) ==
    SelectSeq([i \in DOMAIN chain[p].inputs |-> i], LAMBDA i : chain[p].inputs[i].subject = a)

SeedAt(label, at) == label.seed /\ label.from <= at /\ (label.to = 0 \/ label.to > at)

----------------------------------------------------------------------------
(* The search *)

Work(incoming, p, indices, route) ==
    [incoming |-> incoming, tx |-> p, indices |-> indices, route |-> route]

\* What a transaction of the address starts: one work per output it received,
\* one for all the inputs it spent.
WorkOf(p) ==
    LET received == SelectSeq([i \in DOMAIN chain[p].outputs |-> i],
                              LAMBDA i : chain[p].outputs[i].subject = Address)
        spent == InputsOf(p, Address)
    IN  [k \in DOMAIN received |-> Work(TRUE, p, <<received[k]>>, <<>>)]
            \o IF spent = <<>> THEN <<>> ELSE <<Work(FALSE, p, spent, <<>>)>>

Touches(p) ==
    \E l \in Range(chain[p].inputs) \cup Range(chain[p].outputs) : l.subject = Address

\* The newest transactions of the address become the roots.
Start ==
    LET touching == SelectSeq(Reverse([p \in DOMAIN chain |-> p]), Touches)
        roots == SubSeq(touching, 1, Min({Len(touching), MaxTransactions}))
        works == FlattenSeq([k \in DOMAIN roots |-> WorkOf(roots[k])])
        read == ReadLabels(EmptySearch, Address)
    IN  /\ phase = "building"
        /\ phase' = "searching"
        /\ queue' = SubSeq(works, 1, Min({Len(works), MaxQueue}))
        /\ search' = [read EXCEPT !.loaded = Range(roots),
                                  !.truncated = @ \/ Len(touching) > MaxTransactions
                                                  \/ Len(works) > MaxQueue]
        /\ UNCHANGED <<chain, labels, leg>>

SubjectService(s) == LabelOf(s, Address).service

Legs(work) == IF work.incoming THEN chain[work.tx].inputs ELSE chain[work.tx].outputs

\* The route extended by the leg that is examined.
Extended(work, i) ==
    IF work.incoming THEN <<Hop(work.tx, <<i>>, work.indices[1])>> \o work.route
    ELSE Append(work.route, Hop(work.tx, work.indices, i))

\* At a seed all the inputs it paid by count, not the examined one only.
Origin(work, i) ==
    LET route == Extended(work, i)
    IN  IF work.incoming
        THEN [route EXCEPT ![1].ins = InputsOf(work.tx, Legs(work)[i].subject)]
        ELSE route

AddPath(s, path) ==
    IF path.high = 0 \/ path \in s.paths THEN s
    ELSE IF Cardinality(s.paths) >= MaxPaths THEN [s EXCEPT !.truncated = TRUE]
    ELSE [s EXCEPT !.paths = @ \cup {path}]

\* The transaction the leg leads to: where its coin was made or is spent.
Continuations(work, i) ==
    IF work.incoming
    THEN IF Previous(Legs(work)[i]) = 0 THEN {}
         ELSE {Legs(work)[i].prev}
    ELSE Spenders(work.tx, i)

\* A route ends at a seed, at a service, everywhere when the address is a
\* service itself, and at the hop limit.
Ends(s, label, found, route) ==
    found \/ label.service \/ SubjectService(s) \/ Len(route) >= MaxHops

Enqueue(s, work, next, route) ==
    LET loaded == Load(s, next[1])
    IN  IF next[1] \notin loaded.loaded THEN [s |-> loaded, work |-> <<>>]
        ELSE IF Len(queue) - 1 >= MaxQueue THEN [s |-> [loaded EXCEPT !.truncated = TRUE], work |-> <<>>]
        ELSE [s |-> loaded, work |-> <<Work(work.incoming, next[1], <<next[2]>>, route)>>]

\* One leg: labels, a path if it is a seed's, and the work it leads to.
Examine ==
    /\ phase = "searching" /\ queue # <<>>
    /\ leg <= Len(Legs(Head(queue)))
    /\ search.states < MaxStates
    /\ LET work == Head(queue)
           subject == Legs(work)[leg].subject
           read == ReadLabels([search EXCEPT !.states = @ + 1], subject)
           label == LabelOf(read, subject)
           found == subject # Address /\ SeedAt(label, work.tx)
           mediated == SubjectService(read) \/ label.service
           added == IF found THEN AddPath(read, Path(Origin(work, leg), work.incoming, subject, mediated))
                    ELSE read
           next == Continuations(work, leg)
           step == IF Ends(read, label, found, Extended(work, leg)) \/ next = {}
                   THEN [s |-> added, work |-> <<>>]
                   ELSE Enqueue(added, work, CHOOSE q \in next : TRUE, Extended(work, leg))
       IN  /\ search' = step.s
           /\ queue' = queue \o step.work
           /\ leg' = leg + 1
    /\ UNCHANGED <<chain, labels, phase>>

NextWork ==
    /\ phase = "searching" /\ queue # <<>>
    /\ leg > Len(Legs(Head(queue)))
    /\ queue' = Tail(queue) /\ leg' = 1
    /\ UNCHANGED <<chain, labels, phase, search>>

\* The budget of states ends the whole walk.
OutOfStates ==
    /\ phase = "searching" /\ queue # <<>>
    /\ leg <= Len(Legs(Head(queue)))
    /\ search.states >= MaxStates
    /\ search' = [search EXCEPT !.truncated = TRUE]
    /\ phase' = "done"
    /\ UNCHANGED <<chain, labels, queue, leg>>

Finish ==
    /\ phase = "searching" /\ queue = <<>>
    /\ phase' = "done"
    /\ UNCHANGED <<chain, labels, queue, leg, search>>

Next == Ingest \/ Start \/ Examine \/ NextWork \/ OutOfStates \/ Finish
Spec == Init /\ [][Next]_vars

----------------------------------------------------------------------------
(* What compute publishes: a truncated search is stored without scores *)

Published(s) ==
    IF s.truncated THEN {[p EXCEPT !.eligible = FALSE] : p \in s.paths} ELSE s.paths
Frame(s) ==
    [current |-> ~s.truncated, truncated |-> s.truncated, address |-> Address,
     ids |-> {p.id : p \in s.paths}]

----------------------------------------------------------------------------
(* Properties *)

\* The routes there are, told without a search: from all the coins a seed (or
\* the address) put into a transaction, along spent outpoints, with no seed and
\* no service in between.
Hops(p) ==
    {Hop(p, ins, out) :
        ins \in {<<i>> : i \in DOMAIN chain[p].inputs} \cup {InputsOf(p, a) : a \in Addresses},
        out \in DOMAIN chain[p].outputs}
Linked(h, g) ==
    Len(g.ins) = 1 /\ chain[g.tx].inputs[g.ins[1]].prev = <<h.tx, h.out>>
AllHops == UNION {Hops(p) : p \in DOMAIN chain}
LinkedRoutes[n \in 1..MaxHops] ==
    IF n = 1 THEN {<<h>> : h \in {h \in AllHops : h.ins # <<>>}}
    ELSE {Append(r, h) : <<r, h>> \in
             {pair \in LinkedRoutes[n - 1] \X AllHops : Linked(Last(pair[1]), pair[2])}}

Payer(h) == chain[h.tx].inputs[h.ins[1]].subject
Payee(h) == chain[h.tx].outputs[h.out].subject
SeedLeg(a, at) == a # Address /\ SeedAt(labels[a], at)
Passes(a, at) == ~SeedLeg(a, at) /\ ~labels[a].service

ReceivedRoute(r) ==
    /\ r[1].ins = InputsOf(r[1].tx, Payer(r[1]))
    /\ SeedLeg(Payer(r[1]), r[1].tx)
    /\ Payee(Last(r)) = Address
    /\ \A i \in 2..Len(r) : Passes(Payer(r[i]), r[i].tx)
SentRoute(r) ==
    /\ r[1].ins = InputsOf(r[1].tx, Address)
    /\ SeedLeg(Payee(Last(r)), Last(r).tx)
    /\ \A i \in 1..Len(r) - 1 : Passes(Payee(r[i]), r[i].tx)

Routes ==
    {r \in UNION {LinkedRoutes[n] : n \in 1..MaxHops} :
        (labels[Address].service => Len(r) = 1) /\ Last(Bounds(r))[2] > 0}
RouteIds ==
    {<<TRUE, Payer(r[1]), r>> : r \in {r \in Routes : ReceivedRoute(r)}}
        \cup {<<FALSE, Payee(Last(r)), r>> : r \in {r \in Routes : SentRoute(r)}}

\* A search that does not say it was cut short has found every route between
\* the address and a seed.  The budgets sit in five places of the walk and of
\* the reader below it, and whether the answer may be scored hangs on each of
\* them (trace.rs 221-378).
NothingMissed ==
    phase = "done" /\ ~search.truncated => {p.id : p \in search.paths} = RouteIds

\* What the tagged coins in a transaction can leave in one output: any way of
\* spreading them over the outputs and the fee.
Spread(tagged, p, out) ==
    LET n == Len(chain[p].outputs)
        room == [k \in 1..n + 1 |-> IF k <= n THEN chain[p].outputs[k].value ELSE Fee(chain[p])]
    IN  {f[out] : f \in {f \in [1..n + 1 -> 0..tagged] :
                            /\ FoldFunction(LAMBDA x, y : x + y, 0, f) = tagged
                            /\ \A k \in 1..n + 1 : f[k] <= room[k]}}
Deliverable(route) ==
    LET first == chain[route[1].tx]
        origin == FoldLeft(LAMBDA n, i : n + first.inputs[i].value, 0, route[1].ins)
    IN  FoldLeft(LAMBDA amounts, h : UNION {Spread(x, h.tx, h.out) : x \in amounts},
                 {origin}, route)

\* The interval of a path is exactly what the coins of its origin can leave at
\* its end, over all ways the transactions in between can have mixed them
\* (bounds.rs 3-15, over the whole route and not one transaction).
BoundsAreTight ==
    \A p \in search.paths :
        LET amounts == Deliverable(p.id[3])
        IN  p.low = Min(amounts) /\ p.high = Max(amounts)

\* Every path stored as fit for scoring passes the policy's own recheck
\* (src/shared/risk_policy/src/lib.rs 390-548), which repeats the computation
\* from the stored evidence and refuses the path otherwise.
ScoredIsAccepted ==
    phase = "done" =>
        \A p \in Published(search) : p.eligible => Policy!BitcoinExposure(p, Frame(search))
=============================================================================
