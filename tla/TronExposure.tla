---------------------------- MODULE TronExposure ----------------------------
(***************************************************************************)
(* Exposure scans of dockerizd_tron: propagation.rs searches the transfers *)
(* from a seed, exposure_task.rs publishes what it found, and              *)
(* wallet_exposure.rs reads it.  The analytics worker and the command      *)
(* tron_propagate_exposure may scan one seed at the same time.             *)
(*                                                                         *)
(* A score is a product of factors of at most 1; a path has the sum of the *)
(* losses of its edges here, and the least loss is the best score.  The    *)
(* transfers do not grow during a scan.                                    *)
(***************************************************************************)
EXTENDS Integers, Sequences, FiniteSets, FiniteSetsExt, Functions

CONSTANTS
    Scanners,
    Seed,
    Graphs,         \* sets of edges [from, to, asset, block, loss, service]
    MaxHops,
    MaxExpanded,    \* 50000: a search that is larger is refused
    MaxRuns         \* bound: scans that are started

VARIABLES
    edges,
    scans,      \* each scanner's search
    run,        \* the seed's row of exposure_runs
    exposure,   \* address_exposure: one row for each exposed address
    started,    \* how many scans were started; it names the next run
    overlapped  \* whether two scans ran at once
vars == <<edges, scans, run, exposure, started, overlapped>>

Idle == [phase |-> "idle", run |-> 0, queue |-> <<>>, best |-> [k \in {} |-> 0],
         found |-> [a \in {} |-> 0], expanded |-> 0]
NoRun == [run |-> 0, status |-> "NONE", count |-> 0]

Init ==
    /\ edges \in Graphs
    /\ scans = [s \in Scanners |-> Idle]
    /\ run = NoRun /\ exposure = [a \in {} |-> 0]
    /\ started = 0 /\ overlapped = FALSE

-----------------------------------------------------------------------------
(* The search *)

\* load_outgoing_edges: after the first hop the same asset, in a later block.
Outgoing(entry) ==
    {e \in edges : /\ e.from = entry.at /\ e.to \notin {entry.at, Seed}
                   /\ entry.arrival # <<>> =>
                         e.asset = entry.arrival[1] /\ e.block > entry.arrival[2]}

\* What has been reached is told apart by the address, the asset and the
\* block: an early arrival of a lower score can go where a late one cannot.
Mutant_Arrival(e) == <<e.to, e.asset>>
Arrival(e) == <<e.to, e.asset, e.block>>

Better(known, key, loss) == key \in DOMAIN known => loss < known[key]

\* The least loss with which each key is reached by these edges.
Least(known, set, Key(_), Loss(_)) ==
    [k \in DOMAIN known \cup {Key(e) : e \in set} |->
       Min({Loss(e) : e \in {f \in set : Key(f) = k}}
             \cup (IF k \in DOMAIN known THEN {known[k]} ELSE {}))]

\* Where the search goes on, by the better of two edges to one key; the funds
\* that a service pools belong to nobody.
Expandable(scan, set, Loss(_)) ==
    {e \in set : /\ ~e.service /\ Better(scan.best, Arrival(e), Loss(e))
                 /\ \A f \in set : Arrival(f) = Arrival(e) /\ ~f.service => Loss(f) >= Loss(e)}

-----------------------------------------------------------------------------
(* A scan *)

\* The RUNNING row hides the run before.
Running(id) == [run |-> id, status |-> "RUNNING", count |-> 0]

Start(s) ==
    /\ scans[s].phase = "idle" /\ started < MaxRuns
    /\ started' = started + 1
    /\ run' = Running(started')
    /\ scans' = [scans EXCEPT ![s] =
                   [Idle EXCEPT !.phase = "search", !.run = started',
                      !.queue = <<[at |-> Seed, loss |-> 0, hops |-> 0, arrival |-> <<>>]>>]]
    /\ overlapped' = (overlapped \/ \E t \in Scanners \ {s} : scans[t].phase # "idle")
    /\ UNCHANGED <<edges, exposure>>

\* One address of the queue.
Expand(s) ==
    LET scan == scans[s]
        entry == Head(scan.queue)
        out == IF entry.hops < MaxHops THEN Outgoing(entry) ELSE {}
        Loss(e) == entry.loss + e.loss
        next == Expandable(scan, out, Loss)
    IN /\ scan.phase = "search" /\ scan.queue # <<>>
       /\ entry.hops < MaxHops => scan.expanded < MaxExpanded
       /\ \E order \in {q \in [1 .. Cardinality(next) -> next] : Range(q) = next} :
             scans' = [scans EXCEPT ![s] =
                [scan EXCEPT
                   !.expanded = IF entry.hops < MaxHops THEN @ + 1 ELSE @,
                   !.found = Least(@, out, LAMBDA e : e.to, Loss),
                   !.best = Least(@, {e \in out : ~e.service}, Arrival, Loss),
                   !.queue = Tail(@) \o
                      [i \in DOMAIN order |->
                         [at |-> order[i].to, loss |-> Loss(order[i]), hops |-> entry.hops + 1,
                          arrival |-> <<order[i].asset, order[i].block>>]]]]
       /\ UNCHANGED <<edges, run, exposure, started, overlapped>>

\* The rows go out in one insert; each replaces the seed's row of that address.
Insert(s) ==
    LET scan == scans[s]
    IN /\ scan.phase = "search" /\ scan.queue = <<>>
       /\ exposure' = [a \in DOMAIN exposure \cup DOMAIN scan.found |->
                         IF a \in DOMAIN scan.found THEN [run |-> scan.run, loss |-> scan.found[a]]
                         ELSE exposure[a]]
       /\ scans' = [scans EXCEPT ![s].phase = "inserted"]
       /\ UNCHANGED <<edges, run, started, overlapped>>

Complete(s) ==
    /\ scans[s].phase = "inserted"
    /\ run' = [run |-> scans[s].run, status |-> "COMPLETE", count |-> Cardinality(DOMAIN scans[s].found)]
    /\ scans' = [scans EXCEPT ![s] = Idle]
    /\ UNCHANGED <<edges, exposure, started, overlapped>>

\* An error, a limit that is reached, or a crash: no COMPLETE row.
Fail(s) ==
    /\ scans[s].phase # "idle"
    /\ scans' = [scans EXCEPT ![s] = Idle]
    /\ UNCHANGED <<edges, run, exposure, started, overlapped>>

Next == \E s \in Scanners : Start(s) \/ Expand(s) \/ Insert(s) \/ Complete(s) \/ Fail(s)

Spec == Init /\ [][Next]_vars

\* load_wallet_exposure_summary joins the rows with the complete run.
Visible == {a \in DOMAIN exposure : run.status = "COMPLETE" /\ exposure[a].run = run.run}

-----------------------------------------------------------------------------
(* Properties *)

\* Reference: the paths that funds could have taken, forward in time, of one
\* asset, through no service.
IsPath(p) ==
    /\ p[1].from = Seed
    /\ \A i \in DOMAIN p : p[i].to \notin {p[i].from, Seed}
    /\ \A i \in 1 .. Len(p) - 1 : /\ p[i].to = p[i + 1].from /\ ~p[i].service
                                  /\ p[i].asset = p[i + 1].asset /\ p[i].block < p[i + 1].block

Paths(a) == {p \in UNION {[1 .. n -> edges] : n \in 1 .. MaxHops} : IsPath(p) /\ p[Len(p)].to = a}
PathLoss(p) == MapThenSumSet(LAMBDA i : p[i].loss, DOMAIN p)

\* A search that ended gave each address the best score of any path to it,
\* although it prunes what it has reached before.
ScoresAreBest ==
    \A s \in Scanners : scans[s].phase = "inserted" =>
       \A a \in {e.to : e \in edges} :
          IF Paths(a) = {} THEN a \notin DOMAIN scans[s].found
          ELSE /\ a \in DOMAIN scans[s].found
               /\ scans[s].found[a] = Min({PathLoss(p) : p \in Paths(a)})

\* A reader never takes the rest of an older run, or a part of one, for a run
\* that was completed, unless two scans of the seed overlapped.
ReaderSeesWholeRuns ==
    run.status = "COMPLETE" /\ ~overlapped => Cardinality(Visible) = run.count
=============================================================================
