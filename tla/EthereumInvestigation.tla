------------------------- MODULE EthereumInvestigation -------------------------
(***************************************************************************)
(* What an analyst asks of an Ethereum wallet                              *)
(* (dockerizd_ethereum/src/investigation.rs): the wallet with its newest   *)
(* transfers, its totals, flows and counterparties, which come from        *)
(* queries that run at once, and the paths to another wallet, searched     *)
(* breadth first with one query per address.  Ingestion goes on beneath,   *)
(* so every query sees the transfers of its own moment.                    *)
(*                                                                         *)
(* Left out: the texts of transfers and labels, amounts, and the projection *)
(* into a graph database, which the API no longer makes.                   *)
(***************************************************************************)
EXTENDS Integers, Sequences, FiniteSets, FiniteSetsExt, SequencesExt

CONSTANTS Transfers,   \* id -> [block, from, to, asset]
          Published,   \* what may be canonical at first: sets of ids
          Address, Target,
          Limits,      \* how many transfers of a wallet an analyst may ask for
          FlowLimit, CounterpartyLimit,
          PathLimit, MaxHops,
          PerAddress,  \* transfers read of one address of a search
          MaxExpanded, MaxEdges, MaxQueue

VARIABLES visible,     \* the transfers that are canonical
          request

vars == <<visible, request>>

None == [kind |-> "none"]
Init == visible \in Published /\ request = None

Ingest ==
    /\ \E id \in DOMAIN Transfers \ visible : visible' = visible \cup {id}
    /\ UNCHANGED request

----------------------------------------------------------------------------
(* Queries *)

Of(address) == {id \in visible : address \in {Transfers[id].from, Transfers[id].to}}
Newer(a, b) ==
    Transfers[a].block > Transfers[b].block \/ (Transfers[a].block = Transfers[b].block /\ a < b)

\* load_edges_for_address: the newest, up to a limit.
Edges(address, limit) ==
    LET sorted == SetToSortSeq(Of(address), Newer)
    IN  SubSeq(sorted, 1, Min({Len(sorted), limit}))

Other(id, address) == IF Transfers[id].from = address THEN Transfers[id].to ELSE Transfers[id].from

Fingerprint(address) ==
    [transfers |-> Cardinality(Of(address)),
     inbound |-> Cardinality({id \in Of(address) : Transfers[id].to = address}),
     outbound |-> Cardinality({id \in Of(address) : Transfers[id].from = address}),
     counterparties |-> Cardinality({Other(id, address) : id \in Of(address)})]

\* The rows with the most transfers, up to a limit; which of equal ones is open.
Largest(rows, limit) ==
    {cut \in SUBSET rows :
        /\ Cardinality(cut) = Min({Cardinality(rows), limit})
        /\ \A c \in cut, o \in rows \ cut : c.transfers >= o.transfers}

\* `asset` stands for the pair of asset_id and token_id.
AssetFlows(address) ==
    Largest({[asset |-> a, transfers |-> Cardinality({id \in Of(address) : Transfers[id].asset = a})] :
                a \in {Transfers[id].asset : id \in Of(address)}}, FlowLimit)

\* build_wallet_graph
Truncated(edges, limit) == Len(edges) >= limit

\* counterparties, of the transfers of the graph; the other end as the receiver's
\* side sees it.
Counterparties(address, edges) ==
    LET other(id) == IF Transfers[id].to = address THEN Transfers[id].from ELSE Transfers[id].to
    IN  Largest({[address |-> c, transfers |-> Cardinality({i \in DOMAIN edges : other(edges[i]) = c})] :
                    c \in {other(edges[i]) : i \in DOMAIN edges}}, CounterpartyLimit)

\* build_nodes
Nodes(focus, edges) ==
    {[address |-> n, isFocus |-> n = focus,
      inbound |-> Cardinality({i \in DOMAIN edges : Transfers[edges[i]].to = n}),
      outbound |-> Cardinality({i \in DOMAIN edges : Transfers[edges[i]].from = n})] :
        n \in {focus} \cup UNION {{Transfers[edges[i]].from, Transfers[edges[i]].to} : i \in DOMAIN edges}}

----------------------------------------------------------------------------
(* investigate_wallet *)

StartWallet ==
    /\ request = None
    /\ \E limit \in Limits :
        request' = [kind |-> "wallet", limit |-> limit, base |-> visible,
                    open |-> {"edges", "fingerprint", "flows"},
                    edges |-> <<>>, fingerprint |-> Fingerprint(""), flows |-> {}, counterparties |-> {}]
    /\ UNCHANGED visible

\* Three queries in any order; the counterparties are counted on the edges.
ReadEdges ==
    LET edges == Edges(Address, request.limit)
    IN  \E top \in Counterparties(Address, edges) :
            request' = [request EXCEPT !.open = @ \ {"edges"}, !.edges = edges, !.counterparties = top]
ReadFingerprint ==
    request' = [request EXCEPT !.open = @ \ {"fingerprint"}, !.fingerprint = Fingerprint(Address)]
ReadFlows ==
    \E flows \in AssetFlows(Address) :
        request' = [request EXCEPT !.open = @ \ {"flows"}, !.flows = flows]

ReadPart ==
    /\ request.kind = "wallet"
    /\ \/ "edges" \in request.open /\ ReadEdges
       \/ "fingerprint" \in request.open /\ ReadFingerprint
       \/ "flows" \in request.open /\ ReadFlows
    /\ UNCHANGED visible

----------------------------------------------------------------------------
(* find_paths *)

StartPaths ==
    /\ request = None
    /\ \E direction \in {"outbound", "both"} :
        request' = [kind |-> "paths", direction |-> direction, base |-> visible,
                    queue |-> << [addresses |-> <<Address>>, edges |-> <<>>] >>,
                    cache |-> <<>>, discovered |-> {}, paths |-> <<>>, truncated |-> FALSE, done |-> FALSE]
    /\ UNCHANGED visible

Cached(s, address) == \E i \in DOMAIN s.cache : s.cache[i].address = address
Page(s, address) ==
    IF Cached(s, address) THEN (CHOOSE c \in ToSet(s.cache) : c.address = address).edges
    ELSE Edges(address, PerAddress)

Leads(id, address, direction) ==
    Transfers[id].from = address \/ (direction = "both" /\ Transfers[id].to = address)

\* A transfer that leads on and not back to an address of the path.
Usable(s, entry, id) ==
    /\ Leads(id, Last(entry.addresses), s.direction)
    /\ Other(id, Last(entry.addresses)) \notin ToSet(entry.addresses)

\* One transfer of the page; "out" once the loop over the page was left.
Follow(entry, s, id) ==
    LET next == [addresses |-> Append(entry.addresses, Other(id, Last(entry.addresses))),
                 edges |-> Append(entry.edges, id)]
        seen == [s EXCEPT !.discovered = @ \cup {id}]
    IN  IF s.out \/ ~Usable(s, entry, id) THEN s
        ELSE IF Last(next.addresses) = Target
        THEN [seen EXCEPT !.paths = Append(@, next), !.out = Len(s.paths) + 1 >= PathLimit]
        ELSE IF Len(next.edges) >= MaxHops THEN seen
        ELSE IF Len(s.queue) >= MaxQueue THEN [seen EXCEPT !.truncated = TRUE, !.out = TRUE]
        ELSE [seen EXCEPT !.queue = Append(@, next)]

\* One turn of the loop over the queue.
Turn ==
    /\ request.kind = "paths" /\ ~request.done
    /\ LET entry == Head(request.queue)
           address == Last(entry.addresses)
           rest == [request EXCEPT !.queue = Tail(@)]
           page == Page(request, address)
           loaded == IF Cached(request, address) THEN rest
                     ELSE [rest EXCEPT !.cache = Append(@, [address |-> address, edges |-> page])]
           followed == FoldLeft(LAMBDA s, id : Follow(entry, s, id),
                                [out |-> FALSE] @@ loaded, page)
       IN  request' =
            IF request.queue = <<>> \/ Len(request.paths) >= PathLimit THEN [request EXCEPT !.done = TRUE]
            ELSE IF Len(entry.edges) >= MaxHops THEN rest
            ELSE IF Len(request.cache) >= MaxExpanded \/ Cardinality(request.discovered) >= MaxEdges
            THEN [rest EXCEPT !.truncated = TRUE, !.done = TRUE]
            ELSE [f \in DOMAIN request |-> followed[f]]
    /\ UNCHANGED visible

\* The transfers of the answer: those of the paths, or all when there is no path.
Returned(s) ==
    LET chosen == UNION {ToSet(s.paths[i].edges) : i \in DOMAIN s.paths}
    IN  IF chosen = {} THEN s.discovered ELSE chosen

Answered ==
    \/ request.kind = "paths" /\ request.done
    \/ request.kind = "wallet" /\ request.open = {}

Finish == Answered /\ request' = None /\ UNCHANGED visible

Next == Ingest \/ StartWallet \/ ReadPart \/ StartPaths \/ Turn \/ Finish
Spec == Init /\ [][Next]_vars

----------------------------------------------------------------------------
(* Properties *)

\* A path of an answer is a walk over canonical transfers from the wallet to the
\* target, without an address twice, and shorter ones come first
\* (investigation.rs 580-655).
PathsAreWalks ==
    request.kind = "paths" =>
        \A i \in DOMAIN request.paths :
            LET p == request.paths[i]
            IN  /\ Len(p.edges) \in 1..MaxHops /\ Len(p.addresses) = Len(p.edges) + 1
                /\ p.addresses[1] = Address /\ Last(p.addresses) = Target
                /\ Cardinality(ToSet(p.addresses)) = Len(p.addresses)
                /\ \A k \in DOMAIN p.edges :
                    /\ p.edges[k] \in visible \cap Returned(request)
                    /\ Leads(p.edges[k], p.addresses[k], request.direction)
                    /\ p.addresses[k + 1] = Other(p.edges[k], p.addresses[k])
                /\ \A j \in 1..i : Len(request.paths[j].edges) <= Len(p.edges)

\* An answer that is not cut off and in which no address had a full page names
\* every path that was there when the search began (investigation.rs 555-655).
PathsAreAll ==
    request.kind = "paths" =>
        ((/\ request.done /\ ~request.truncated /\ Len(request.paths) < PathLimit
          /\ \A i \in DOMAIN request.cache : Len(request.cache[i].edges) < PerAddress) =>
            \A walk \in UNION {[1..n -> request.base] : n \in 1..MaxHops} :
                LET at[k \in 0..Len(walk)] == IF k = 0 THEN Address ELSE Other(walk[k], at[k - 1])
                IN  (/\ \A k \in DOMAIN walk : Leads(walk[k], at[k - 1], request.direction)
                     /\ \A j, k \in 0..Len(walk) : j # k => at[j] # at[k]
                     /\ at[Len(walk)] = Target) =>
                        \E i \in DOMAIN request.paths : request.paths[i].edges = walk)

\* As long as nothing is ingested meanwhile, the parts of an answer agree: a graph
\* that is not cut off has every transfer the totals count, as many as the degrees
\* of the wallet's node; and the flows and the counterparties, of which a list that
\* is full may be cut and does not say so, add up to the totals when the list is
\* shorter than its limit and never to more (investigation.rs 449-506, 754-885,
\* 1201-1285).
SumOf(rows) == MapThenSumSet(LAMBDA row : row.transfers, rows)

WalletAgrees ==
    request.kind = "wallet" =>
        ((request.open = {} /\ visible = request.base) =>
            LET total == request.fingerprint
                Adds(rows, limit) == /\ SumOf(rows) <= total.transfers
                                     /\ Cardinality(rows) < limit => SumOf(rows) = total.transfers
            IN  /\ Adds(request.flows, FlowLimit)
                /\ SumOf(request.counterparties) <= total.transfers
                /\ ~Truncated(request.edges, request.limit) =>
                    /\ Len(request.edges) = total.transfers
                    /\ Adds(request.counterparties, CounterpartyLimit)
                    /\ Cardinality(request.counterparties) = Min({total.counterparties, CounterpartyLimit})
                    /\ \A n \in Nodes(Address, request.edges) :
                        n.isFocus => n.inbound = total.inbound /\ n.outbound = total.outbound)
=============================================================================
