--------------------------- MODULE Investigations ---------------------------
(***************************************************************************)
(* The investigations that the analytical node keeps in one Neo4j          *)
(* (analytical_node/src/main.rs, store.rs, bitcoin_clusters.rs).  One is   *)
(* created from the answer of a chain's service, kept for a while, and for *)
(* good once it was exported; a janitor removes what has expired.  An      *)
(* investigation of Bitcoin is compared with the service again whenever it *)
(* is shown, part by part, one call after the other, while the service     *)
(* goes on; only then its risk may be used.                                *)
(*                                                                         *)
(* A statement of the database is one transaction; one that locks a record *)
(* after it found it is two steps.  What a part of an answer depends on is *)
(* a version: of the published history, of the labels, of the cluster      *)
(* reviews, which never return (modules Publication, AnalysisPublication   *)
(* and ClusterReviews), and of the service's release, which may.           *)
(*                                                                         *)
(* Left out: owners, addresses and sizes, the form of the graph, the       *)
(* hashes that bind the parts to each other, the limit of eight requests   *)
(* at once, and the listing.                                               *)
(***************************************************************************)
EXTENDS Integers, Sequences, FiniteSets

CONSTANTS
    Clients,
    Answers,      \* what the services answer: [bitcoin, parts, scored]
    Releases,     \* of the Bitcoin service
    Ttl,          \* AML_GRAPH_TTL_HOURS
    SweepLimit,   \* 10: what the janitor removes at once
    MaxClock, MaxCreated, MaxChanges, MaxFailures   \* bounds

VARIABLES
    upstream,       \* the Bitcoin service: [source, labels, reviews, release]
    investigations, \* id -> [bitcoin, parts, seen, risk, historical, saved, expires]
    clock,
    request,        \* each client's request
    janitor,        \* its sweep: the investigations it found
    exported,       \* history: the investigations a client knows to be saved
    bounds          \* changes and failures so far

vars == <<upstream, investigations, clock, request, janitor, exported, bounds>>

Idle == [kind |-> "none", at |-> "idle"]
NoSweep == [now |-> -1, found |-> {}]

Init ==
    /\ upstream = [source |-> 1, labels |-> 1, reviews |-> 1, release |-> CHOOSE r \in Releases : TRUE]
    /\ investigations = <<>> /\ clock = 0
    /\ request = [c \in Clients |-> Idle]
    /\ janitor = NoSweep
    /\ exported = {}
    /\ bounds = [changes |-> 0, failures |-> 0]

Removed == [removed |-> TRUE]
Kept(id) == id \in DOMAIN investigations /\ investigations[id] # Removed

Goto(c, place) == request' = [request EXCEPT ![c].at = place]
Fail == /\ bounds.failures < MaxFailures
        /\ bounds' = [bounds EXCEPT !.failures = @ + 1]

-----------------------------------------------------------------------------
(* Source validity: refresh_source_validity, annotate_source_validity *)

\* The order of the calls; a part that an answer lacks is not asked for.
\* Holdings are compared with the answer of the first one.
Order == <<"status", "intelligence", "exposure", "semantics", "clusters", "risk">>
Asked(data) == {i \in DOMAIN Order : Order[i] = "status" \/ Order[i] \in data.parts}
Left(r) == {i \in Asked(r.data) : i > r.calls}

Same(data, fields) == \A f \in fields : data.seen[f] = upstream[f]

ClustersCurrent(data) == Same(data, {"source", "reviews", "release"})

\* What a call finds unchanged.  Exposure runs, clusters and assessments come
\* with the service's own word for it, which holds for one moment.
Unchanged(data, call) ==
    CASE call = "status" ->
            Same(data, {"source"} \cup IF "holdings" \in data.parts THEN {"release"} ELSE {})
      [] call = "intelligence" -> Same(data, {"labels"})
      [] call = "semantics" -> Same(data, {"release"})
      [] call = "clusters" -> ClustersCurrent(data)
      [] call \in {"exposure", "risk"} -> Same(data, {"source", "labels"})

WhollyUnchanged(data) == \A i \in Asked(data) : Unchanged(data, Order[i])

\* One call, the next in the order: it answers, or it fails and ends the comparison.
Check(c) ==
    LET r == request[c]
        next(i) == [r EXCEPT !.calls = i, !.same = @ /\ Unchanged(r.data, Order[i]),
                             !.held = @ \/ WhollyUnchanged(r.data)]
    IN /\ r.at = "check" /\ Left(r) # {}
       /\ \/ /\ \E i \in Left(r) : /\ \A j \in Left(r) : i <= j
                                   /\ request' = [request EXCEPT ![c] = next(i)]
             /\ UNCHANGED bounds
          \/ request' = [request EXCEPT ![c] = [r EXCEPT !.at = "annotate", !.failed = TRUE]] /\ Fail
       /\ UNCHANGED <<upstream, investigations, clock, janitor, exported>>

Status(r) == IF r.failed THEN "unverified" ELSE IF r.same THEN "current" ELSE "stale"

\* A score that may not be used any more moves into the history, the first time.
Suppressed(data) ==
    IF data.risk = "none" THEN data
    ELSE [data EXCEPT !.risk = "unknown",
                      !.historical = IF @ = "none" THEN data.risk ELSE @]

Annotate(c) ==
    LET r == request[c]
        status == Status(r)
    IN /\ \/ r.at = "check" /\ Left(r) = {}
          \/ r.at = "annotate"
       /\ request' = [request EXCEPT ![c] =
                        [r EXCEPT !.status = status,
                                  !.data = IF status = "current" THEN @ ELSE Suppressed(@),
                                  !.at = IF r.kind = "create" THEN "store" ELSE "answered"]]
       /\ UNCHANGED <<upstream, investigations, clock, janitor, exported, bounds>>

\* Data that is about to be compared, or not if it is of another chain.
Compared(kind, id, data) ==
    [kind |-> kind, id |-> id, data |-> data, calls |-> 0, same |-> TRUE, failed |-> FALSE,
     held |-> FALSE, status |-> "none",
     at |-> IF data.bitcoin THEN "check" ELSE IF kind = "create" THEN "store" ELSE "answered"]

-----------------------------------------------------------------------------
(* Requests *)

Content(record) == [bitcoin |-> record.bitcoin, parts |-> record.parts, seen |-> record.seen,
                    risk |-> record.risk, historical |-> record.historical]

\* create: the answer of the chain's service is of one moment (its
\* investigation compares that itself) and is scored, unless it shows paths.
Create(c) ==
    /\ request[c].at = "idle" /\ Len(investigations) < MaxCreated
    /\ \E a \in Answers :
          request' = [request EXCEPT ![c] =
             Compared("create", 0, [bitcoin |-> a.bitcoin, parts |-> a.parts, seen |-> upstream,
                                    risk |-> IF a.scored THEN "score" ELSE "none",
                                    historical |-> "none"])]
    /\ UNCHANGED <<upstream, investigations, clock, janitor, exported, bounds>>

\* store.create: it may be carried out although its answer is lost.
Store(c) ==
    LET r == request[c]
        new == [saved |-> FALSE, expires |-> clock + Ttl, bitcoin |-> r.data.bitcoin,
                parts |-> r.data.parts, seen |-> r.data.seen, risk |-> r.data.risk,
                historical |-> r.data.historical]
    IN /\ r.at = "store" /\ Len(investigations) < MaxCreated
       /\ \/ /\ investigations' = Append(investigations, new)
             /\ request' = [request EXCEPT ![c] =
                              [r EXCEPT !.at = "answered", !.id = Len(investigations) + 1]]
             /\ UNCHANGED bounds
          \/ /\ investigations' \in {investigations, Append(investigations, new)}
             /\ Goto(c, "refused") /\ Fail
       /\ UNCHANGED <<upstream, clock, janitor, exported>>

\* A request reads the clock before it asks the database.
Begin(c, kind, id, place) ==
    request' = [request EXCEPT ![c] = [kind |-> kind, at |-> place, id |-> id, now |-> clock]]

Reopen(c) ==
    /\ request[c].at = "idle"
    /\ \E id \in DOMAIN investigations : Begin(c, "reopen", id, "read")
    /\ UNCHANGED <<upstream, investigations, clock, janitor, exported, bounds>>

StartExport(c) ==
    /\ request[c].at = "idle"
    /\ \E id \in DOMAIN investigations : Begin(c, "export", id, "export")
    /\ UNCHANGED <<upstream, investigations, clock, janitor, exported, bounds>>

Available(id, now) ==
    Kept(id) /\ (investigations[id].saved \/ investigations[id].expires > now)

\* store.read, of a request to reopen and, of Bitcoin's, at the end of an export.
Read(c) ==
    LET r == request[c]
    IN /\ r.at = "read"
       /\ IF Available(r.id, r.now)
          THEN request' = [request EXCEPT ![c] =
                             Compared(r.kind, r.id, Content(investigations[r.id]))]
          ELSE Goto(c, "refused")
       /\ UNCHANGED <<upstream, investigations, clock, janitor, exported, bounds>>

\* store.export holds the lock of the record when it looks at its state.
Export(c) ==
    LET r == request[c]
        saved == [investigations EXCEPT ![r.id].saved = TRUE]
    IN /\ r.at = "export"
       /\ \/ /\ ~Available(r.id, r.now)
             /\ Goto(c, "refused") /\ UNCHANGED <<investigations, exported, bounds>>
          \/ /\ Available(r.id, r.now)
             /\ investigations' = saved /\ exported' = exported \cup {r.id}
             /\ request' = [request EXCEPT ![c] =
                    IF investigations[r.id].bitcoin THEN [r EXCEPT !.at = "read", !.now = clock]
                    ELSE [r EXCEPT !.at = "done"]]
             /\ UNCHANGED bounds
          \/ /\ Available(r.id, r.now)
             /\ investigations' \in {investigations, saved}
             /\ Goto(c, "refused") /\ Fail /\ UNCHANGED exported
       /\ UNCHANGED <<upstream, clock, janitor>>

End(c) ==
    /\ request[c].at \in {"answered", "done", "refused"}
    /\ request' = [request EXCEPT ![c] = Idle]
    /\ UNCHANGED <<upstream, investigations, clock, janitor, exported, bounds>>

-----------------------------------------------------------------------------
(* The janitor: store.cleanup *)

\* Mutant: whether it is saved was looked at before.
ExpiredUnlocked(id, now) == Kept(id) /\ investigations[id].expires <= now

Expired(id, now) ==
    Kept(id) /\ ~investigations[id].saved /\ investigations[id].expires <= now

\* It finds the oldest without their locks ...
Find ==
    /\ janitor = NoSweep
    /\ LET old == {id \in DOMAIN investigations : Expired(id, clock)}
       IN \E found \in SUBSET old :
             /\ found # {} /\ Cardinality(found) <= SweepLimit
             /\ Cardinality(found) = SweepLimit \/ found = old
             /\ \A i \in found, j \in old \ found :
                   investigations[i].expires <= investigations[j].expires
             /\ janitor' = [now |-> clock, found |-> found]
    /\ UNCHANGED <<upstream, investigations, clock, request, exported, bounds>>

\* ... and looks again when it has them, or fails as a whole.
RemoveFound ==
    /\ janitor # NoSweep
    /\ \/ /\ investigations' = [id \in DOMAIN investigations |->
                                  IF id \in janitor.found /\ Expired(id, janitor.now)
                                  THEN Removed ELSE investigations[id]]
          /\ UNCHANGED bounds
       \/ UNCHANGED investigations /\ Fail
    /\ janitor' = NoSweep
    /\ UNCHANGED <<upstream, clock, request, exported>>

-----------------------------------------------------------------------------
(* The world *)

Tick ==
    /\ clock < MaxClock /\ clock' = clock + 1
    /\ UNCHANGED <<upstream, investigations, request, janitor, exported, bounds>>

\* Bitcoin publishes, labels or reviews change, another release is started.
Change ==
    /\ bounds.changes < MaxChanges
    /\ \/ \E f \in {"source", "labels", "reviews"} : upstream' = [upstream EXCEPT ![f] = @ + 1]
       \/ \E r \in Releases \ {upstream.release} : upstream' = [upstream EXCEPT !.release = r]
    /\ bounds' = [bounds EXCEPT !.changes = @ + 1]
    /\ UNCHANGED <<investigations, clock, request, janitor, exported>>

\* The node is stopped: its requests and its sweep are gone.
Stop ==
    /\ Fail
    /\ request' = [c \in Clients |-> Idle] /\ janitor' = NoSweep
    /\ UNCHANGED <<upstream, investigations, clock, exported>>

Next ==
    \/ \E c \in Clients : \/ Create(c) \/ Check(c) \/ Annotate(c) \/ Store(c) \/ Reopen(c)
                          \/ StartExport(c) \/ Read(c) \/ Export(c) \/ End(c)
    \/ Find \/ RemoveFound \/ Tick \/ Change \/ Stop

Spec == Init /\ [][Next]_vars

-----------------------------------------------------------------------------
(* Properties *)

\* What a client knows to be saved stays, although the janitor may have found
\* it expired before; so the read that ends an export cannot miss it.
ExportsStay ==
    /\ \A id \in exported : Kept(id) /\ investigations[id].saved
    /\ \A c \in Clients : request[c].at = "read" /\ request[c].kind = "export" =>
          Available(request[c].id, request[c].now)

\* An answer that calls itself current was, with all its parts, at one moment
\* of the comparison, although each part is asked for by a call of its own.
CurrentWasTrue ==
    \A c \in Clients : request[c].at \in {"store", "answered"} /\ request[c].status = "current" =>
       request[c].held

\* A score is shown as the present one only with evidence that is current, and
\* is otherwise kept as history, however often the comparison is repeated.
ScoreIsKept ==
    \A c \in Clients : request[c].at = "answered" =>
       LET r == request[c]
       IN /\ r.data.bitcoin /\ r.data.risk = "score" => r.status = "current"
          /\ r.data.risk = "unknown" => r.data.historical = "score"

InvestigationsHold == ExportsStay /\ CurrentWasTrue /\ ScoreIsKept
=============================================================================
