--------------------------- MODULE BscInvestigation ---------------------------
(***************************************************************************)
(* An investigation of the BSC service: the answers of one request are put *)
(* together from many queries of a history that ingestion goes on          *)
(* changing (src/dockerizd_bsc/src/investigation/{api,wallet,graph}.rs and *)
(* intelligence.rs).  The request first reads what is ingested (status),   *)
(* then counts the transfers of the wallet, walks its neighbourhood,       *)
(* searches for exposure to labelled seeds - or searches paths to a second *)
(* wallet - with one query per address, and before it answers it compares  *)
(* the canonical history with what status saw (check_epoch).               *)
(*                                                                         *)
(* A block holds one transaction, so the number of a block orders the      *)
(* transactions.  A transfer is [block, log, from, to, asset].  Labels     *)
(* stand still.  Left out: filters by time and asset, the tables that are  *)
(* read once and shown as they are (events, metadata, activity, holdings), *)
(* and the strength of an exposure.                                        *)
(***************************************************************************)
EXTENDS Integers, Sequences, FiniteSets, SequencesExt

CONSTANTS Addresses,       \* wallets, the zero address among them
          Zero, Wallet, Target,
          Assets,
          Blocks,          \* the contents a block can have: sets of [log, from, to, asset]
          Labellings,      \* address -> [seed, service]
          Depth,           \* depth of the neighbourhood
          Limit,           \* transfers of the neighbourhood
          MaxHops,         \* hops of an exposure or a path
          PerAddress,      \* transfers read of one address
          MaxAddresses,    \* addresses expanded
          MaxResults,      \* paths kept
          MaxReads,        \* addresses whose labels are read
          MaxQueue,
          MaxStates,       \* turns of a search
          MaxBlocks,       \* bound: blocks of the history
          MaxReorgs        \* bound: replaced blocks

VARIABLES history,   \* the canonical blocks: a sequence of [content, revision]
          labels,
          reorgs,
          request    \* the request in progress

vars == <<history, labels, reorgs, request>>

Directions == {"outgoing", "incoming", "both"}
NoRequest == [kind |-> "none", step |-> "status"]

Init ==
    /\ history = <<>>
    /\ labels \in Labellings
    /\ reorgs = 0
    /\ request = NoRequest

----------------------------------------------------------------------------
(* The canonical history *)

TransfersOf(h) ==
    UNION {{[block |-> b, log |-> t.log, from |-> t.from, to |-> t.to, asset |-> t.asset] :
              t \in h[b].content} : b \in DOMAIN h}

PublishBlock ==
    /\ Len(history) < MaxBlocks
    /\ \E content \in Blocks : history' = Append(history, [content |-> content, revision |-> 1])
    /\ UNCHANGED <<labels, reorgs, request>>

\* A reorganisation or a replay publishes a block again under a new revision.
RepublishBlock ==
    /\ reorgs < MaxReorgs
    /\ \E b \in DOMAIN history, content \in Blocks :
        history' = [history EXCEPT ![b] = [content |-> content, revision |-> @.revision + 1]]
    /\ reorgs' = reorgs + 1
    /\ UNCHANGED <<labels, request>>

\* sum of the hashes of (number, hash, revision) over the blocks up to a height
Epoch(height) == SubSeq(history, 1, height)

----------------------------------------------------------------------------
(* Queries: each sees the history of its own moment, up to the height of status *)

Incident(t, a) == a \in {t.from, t.to}

Newer(t, u) == t.block > u.block \/ (t.block = u.block /\ t.log > u.log)

\* edges: the newest transfers of an address, one more than the limit.
Edges(a, limit) ==
    LET all == {t \in TransfersOf(history) : t.block <= request.height /\ Incident(t, a)}
        sorted == SetToSortSeq(all, Newer)
    IN  SubSeq(sorted, 1, Min({Len(sorted), limit + 1}))

Counted == Cardinality({t \in TransfersOf(history) : t.block <= request.height /\ Incident(t, Wallet)})

----------------------------------------------------------------------------
(* A request *)

Search(start) ==
    [queue |-> start, states |-> 0, cache |-> <<>>, results |-> {}, truncated |-> FALSE]

\* status: the height and the epoch everything else is read at.
Status ==
    /\ request.step = "status"
    /\ \E kind \in {"wallet", "paths"}, direction \in Directions :
        /\ kind = "wallet" => direction = "outgoing"
        /\ request' = [kind |-> kind, direction |-> direction,
                       step |-> IF kind = "wallet" THEN "counts" ELSE "search",
                       height |-> Len(history), epoch |-> Epoch(Len(history)), count |-> 0,
                       walk |-> [queue |-> << <<Wallet, 0>> >>, visited |-> {}, found |-> {},
                                 truncated |-> FALSE],
                       search |-> Search(
                            IF kind = "wallet"
                            THEN <<[addresses |-> <<Wallet>>, path |-> <<>>, incoming |-> FALSE],
                                   [addresses |-> <<Wallet>>, path |-> <<>>, incoming |-> TRUE]>>
                            ELSE <<[addresses |-> <<Wallet>>, path |-> <<>>,
                                    incoming |-> direction = "incoming"]>>),
                       read |-> {Wallet}]
    /\ UNCHANGED <<history, labels, reorgs>>

Fingerprint ==
    /\ request.step = "counts"
    /\ request' = [request EXCEPT !.count = Counted, !.step = "graph"]
    /\ UNCHANGED <<history, labels, reorgs>>

----------------------------------------------------------------------------
(* wallet_graph: breadth first, each address once, at its smallest depth *)

\* One transfer of the batch; after the limit nothing more is taken.
Take(walk, t, depth) ==
    IF walk.truncated THEN walk
    ELSE IF Cardinality(walk.found) >= Limit /\ t \notin walk.found
         THEN [walk EXCEPT !.truncated = TRUE]
    ELSE [walk EXCEPT !.found = @ \cup {t},
                      !.queue = IF depth + 1 < Depth
                                THEN @ \o << <<t.from, depth + 1>>, <<t.to, depth + 1>> >> ELSE @]

Visit(walk) ==
    LET a == Head(walk.queue)[1]
        depth == Head(walk.queue)[2]
        rest == [walk EXCEPT !.queue = Tail(@), !.visited = @ \cup {a}]
    IN  IF a \in walk.visited \/ a = Zero THEN rest
        ELSE IF Cardinality(rest.visited) > MaxAddresses THEN [rest EXCEPT !.truncated = TRUE]
        ELSE FoldLeft(LAMBDA w, t : Take(w, t, depth), rest, Edges(a, Limit))

WalletGraph ==
    /\ request.step = "graph"
    /\ LET walk == request.walk
       IN  IF walk.queue = <<>> \/ walk.truncated
           THEN request' = [request EXCEPT !.step = "search"]
           ELSE request' = [request EXCEPT !.walk = Visit(walk)]
    /\ UNCHANGED <<history, labels, reorgs>>

----------------------------------------------------------------------------
(* exposure and paths: ordered transactions of one asset, simple in addresses *)

Continues(previous, next, incoming) ==
    /\ previous.asset = next.asset
    /\ IF incoming THEN next.block < previous.block ELSE next.block > previous.block

\* The address a transfer leads to from a; Zero when it does not go that way.
Neighbour(t, a, direction) ==
    CASE direction = "incoming" -> IF t.to = a THEN t.from ELSE Zero
      [] direction = "outgoing" -> IF t.from = a THEN t.to ELSE Zero
      [] OTHER -> IF t.from = a THEN t.to ELSE t.from

DirectionOf(work) ==
    IF request.kind = "wallet" THEN IF work.incoming THEN "incoming" ELSE "outgoing"
    ELSE request.direction

Grows(work, t) ==
    LET next == Neighbour(t, Last(work.addresses), DirectionOf(work))
    IN  /\ Incident(t, Last(work.addresses))
        /\ next # Zero /\ next \notin Range(work.addresses)
        /\ (DirectionOf(work) # "both" /\ work.path # <<>>)
               => Continues(Last(work.path), t, work.incoming)

Longer(work, t) ==
    [addresses |-> Append(work.addresses, Neighbour(t, Last(work.addresses), DirectionOf(work))),
     path |-> Append(work.path, t), incoming |-> work.incoming]

Boundary(a) == labels[Wallet].service \/ labels[a].service

Enqueue(search, work) ==
    IF Len(search.queue) >= MaxQueue THEN [search EXCEPT !.truncated = TRUE]
    ELSE [search EXCEPT !.queue = Append(@, work)]

Mutant_Exposed(state, work) ==
    LET a == Last(work.addresses)
        read == state.read \cup {a}
        found == IF labels[a].seed THEN [state.search EXCEPT !.results = @ \cup {work}]
                 ELSE state.search
    IN  [read |-> read,
         search |-> IF Len(work.path) < MaxHops THEN Enqueue(found, work) ELSE found]

\* One transfer of an exposure search: label, result, and further unless a
\* service stands in the way.
Exposed(state, work) ==
    LET a == Last(work.addresses)
        read == state.read \cup {a}
        found == IF labels[a].seed THEN [state.search EXCEPT !.results = @ \cup {work}]
                 ELSE state.search
    IN  IF a \notin state.read /\ Cardinality(state.read) >= MaxReads
        THEN [state EXCEPT !.search.truncated = TRUE]
        ELSE [read |-> read,
              search |-> IF ~Boundary(a) /\ Len(work.path) < MaxHops THEN Enqueue(found, work)
                         ELSE found]

\* One transfer of a path search; at the maximum of results it stops.
Reached(state, work) ==
    IF Cardinality(state.search.results) >= MaxResults THEN state
    ELSE IF Last(work.addresses) = Target
    THEN LET results == state.search.results \cup {work}
         IN  [state EXCEPT !.search.results = results,
                           !.search.truncated = @ \/ Cardinality(results) >= MaxResults]
    ELSE IF Len(work.path) < MaxHops THEN [state EXCEPT !.search = Enqueue(@, work)]
    ELSE state

\* The transfers of an address are read once and kept.
Cached(search, a) ==
    IF a \in {c.address : c \in Range(search.cache)} THEN search
    ELSE LET rows == Edges(a, PerAddress)
         IN  [search EXCEPT !.truncated = @ \/ Len(rows) > PerAddress,
                            !.cache = Append(@, [address |-> a,
                                                 rows |-> SubSeq(rows, 1, Min({Len(rows), PerAddress}))])]
RowsOf(search, a) ==
    (CHOOSE c \in Range(search.cache) : c.address = a).rows

Expand(state) ==
    LET work == Head(state.search.queue)
        a == Last(work.addresses)
        popped == Cached([state.search EXCEPT !.queue = Tail(@), !.states = @ + 1], a)
        growing == SelectSeq(RowsOf(popped, a), LAMBDA t : Grows(work, t))
    IN  FoldLeft(LAMBDA s, t : IF request.kind = "wallet" THEN Exposed(s, Longer(work, t))
                               ELSE Reached(s, Longer(work, t)),
                 [state EXCEPT !.search = popped], growing)

OutOfBudget(search) ==
    \/ search.states >= MaxStates
    \/ Len(search.cache) >= MaxAddresses
    \/ Cardinality(search.results) >= MaxResults

Explore ==
    /\ request.step = "search"
    /\ LET state == [read |-> request.read, search |-> request.search]
       IN  IF state.search.queue = <<>> THEN request' = [request EXCEPT !.step = "rank"]
           ELSE IF OutOfBudget(state.search)
           THEN request' = [request EXCEPT !.step = "rank", !.search.truncated = TRUE]
           ELSE LET after == Expand(state)
                IN  request' = [request EXCEPT !.read = after.read, !.search = after.search]
    /\ UNCHANGED <<history, labels, reorgs>>

\* The strongest exposures are kept; strength is left out, so any may be.
Rank ==
    /\ request.step = "rank"
    /\ LET results == request.search.results
       IN  \E kept \in kSubset(Min({Cardinality(results), MaxResults}), results) :
            request' = [request EXCEPT !.step = "check", !.search.results = kept,
                                       !.search.truncated = @ \/ kept # results]
    /\ UNCHANGED <<history, labels, reorgs>>

----------------------------------------------------------------------------
(* The answer *)

\* check_epoch: the same blocks under the same revisions up to the height.
Unchanged == Epoch(request.height) = request.epoch

CheckEpoch ==
    /\ request.step = "check"
    /\ request' = [request EXCEPT !.step = IF Unchanged THEN "answered" ELSE "refused"]
    /\ UNCHANGED <<history, labels, reorgs>>

\* The client has its answer, or the request was dropped at its time limit.
Leave ==
    /\ request.step # "status"
    /\ request' = NoRequest
    /\ UNCHANGED <<history, labels, reorgs>>

Next ==
    \/ PublishBlock \/ RepublishBlock
    \/ Status \/ Fingerprint \/ WalletGraph \/ Explore \/ Rank \/ CheckEpoch \/ Leave
Spec == Init /\ [][Next]_vars

----------------------------------------------------------------------------
(* Properties *)

Old == TransfersOf(request.epoch)

\* The neighbourhood told without a walk: the transfers of every wallet fewer
\* than Depth steps away, never stepping through the zero address.
Around[d \in 0..Depth] ==
    IF d = 0 THEN {Wallet}
    ELSE Around[d - 1] \cup
         UNION {{t.from, t.to} : t \in {t \in Old : \E a \in Around[d - 1] \ {Zero} : Incident(t, a)}}
Neighbourhood ==
    {t \in Old : \E a \in Around[Depth - 1] \ {Zero} : Incident(t, a)}

\* All simple routes of linked transfers, with their addresses.
Start(incoming) == [addresses |-> <<Wallet>>, path |-> <<>>, incoming |-> incoming]
RoutesFrom[n \in 0..MaxHops, incoming \in BOOLEAN] ==
    IF n = 0 THEN {Start(incoming)}
    ELSE {Longer(w, t) : <<w, t>> \in
            {p \in RoutesFrom[n - 1, incoming] \X Old :
                /\ Grows(p[1], p[2])
                /\ IF request.kind = "wallet"
                   THEN p[1].path = <<>> \/ ~Boundary(Last(p[1].addresses))
                   ELSE Last(p[1].addresses) # Target}}
Ways ==
    {w \in UNION {RoutesFrom[n, incoming] : n \in 1..MaxHops,
                    incoming \in IF request.kind = "wallet" THEN BOOLEAN
                                 ELSE {request.direction = "incoming"}} :
        IF request.kind = "wallet" THEN labels[Last(w.addresses)].seed
        ELSE Last(w.addresses) = Target}

\* An answered request is the answer to one history, although every query of it
\* read another moment: the counts, the neighbourhood and the paths are those of
\* the history status saw, complete unless the part says it was cut short
\* (wallet.rs 33-52 and 171-174, api.rs 150-158).
AnswerFitsOneHistory ==
    request.step = "answered" =>
        /\ request.kind = "wallet" =>
            /\ request.count = Cardinality({t \in Old : Incident(t, Wallet)})
            /\ request.walk.found \subseteq Neighbourhood
            /\ ~request.walk.truncated => request.walk.found = Neighbourhood
        /\ request.search.results \subseteq Ways
        /\ ~request.search.truncated => request.search.results = Ways
=============================================================================
