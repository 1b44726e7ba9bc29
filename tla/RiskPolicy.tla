------------------------------ MODULE RiskPolicy ------------------------------
(***************************************************************************)
(* The evidence policy every chain's assessment goes through               *)
(* (src/shared/risk_policy/src/lib.rs): which labels, exposure paths,      *)
(* mixer events and transfers of a wallet count, how the score is put      *)
(* together from the strongest of each kind, when there is no score at     *)
(* all, and the recheck of a Bitcoin path's satoshi bounds that repeats    *)
(* what the tracer (BitcoinExposure) computed.                             *)
(*                                                                         *)
(* A strength is a number of quarters, so a score is counted in quarters   *)
(* of a point.  The texts of signals and limitations, the digests that     *)
(* bind an assessment to its inputs and the truncation notes are left out. *)
(* Evidence is a record of what the policy asks of it:                     *)
(*   claim     approved, bound (to the address and snapshot, Bitcoin),     *)
(*             active (TRON: the active entity's own label), seed,         *)
(*             service, risk 0..4                                          *)
(*   path      evidenced, approved (its seed claim), mediated, hops,       *)
(*             direction, strength 0..4                                    *)
(*   event     mixer, confident, evidenced                                 *)
(*   edge      from, to, tx, asset, at, amount                             *)
(***************************************************************************)
EXTENDS Integers, Sequences, FiniteSets, SequencesExt

CONSTANT PairsForSignal  \* 3 in the code: pairs that make a forwarding signal

LabelWeight == 70
IncomingWeight == 55
OutgoingWeight == 45
IndirectWeight == 25
MixerWeight == 15
ForwardingWeight == 5
Medium == 25
High == 60
Quarters == 4

Best(scores) == Max(scores \cup {0})

----------------------------------------------------------------------------
(* Labels *)

\* Approval needs the review, a source and references; a Bitcoin label is in
\* addition bound to the address and the intelligence snapshot it came with.
Counts(network, claim) ==
    claim.approved /\ (network = "bitcoin" => claim.bound)

IdentityScore(network, claims) ==
    IF network = "tron"
    THEN LET mine == SelectSeq(claims, LAMBDA c : c.active /\ c.approved)
         IN  IF mine = <<>> THEN 0 ELSE Last(mine).risk * LabelWeight
    ELSE Best({c.risk * LabelWeight : c \in
                  {c \in Range(claims) : c.seed /\ Counts(network, c)}})

KnownService(network, claims) ==
    \E c \in Range(claims) :
        c.service /\ IF network = "tron" THEN c.active ELSE Counts(network, c)

----------------------------------------------------------------------------
(* Exposure: several paths to one seed are one piece of evidence, so only the strongest counts *)

Eligible(network, path) ==
    /\ path.evidenced
    /\ network = "bsc" => path.approved
    /\ ~path.mediated
    /\ path.hops > 0
    /\ path.direction \in {"received", "sent"}

Weight(path) ==
    IF path.hops > 1 THEN IndirectWeight
    ELSE IF path.direction = "received" THEN IncomingWeight ELSE OutgoingWeight

ExposureScore(network, paths) ==
    Best({p.strength * Weight(p) : p \in {p \in Range(paths) : Eligible(network, p)}})

MixerScore(events) ==
    IF \E e \in Range(events) : e.mixer /\ e.confident /\ e.evidenced
    THEN MixerWeight * Quarters ELSE 0

----------------------------------------------------------------------------
(* Rapid forwarding: receipts followed within the window by an outgoing      *)
(* transfer of the same asset and about the same amount.  A transaction      *)
(* takes part in one pair at most.                                           *)

Window == 2      \* 600 000 ms
MaxPairs == 10
Tenth == 10

Follows(incoming, outgoing) ==
    /\ outgoing.asset = incoming.asset
    /\ outgoing.tx # incoming.tx
    /\ outgoing.at > incoming.at
    /\ outgoing.at - incoming.at <= Window
    /\ LET difference == IF incoming.amount >= outgoing.amount
                         THEN incoming.amount - outgoing.amount
                         ELSE outgoing.amount - incoming.amount
       IN  difference <= incoming.amount \div Tenth

Receipts(edges, address) ==
    SelectSeq(edges, LAMBDA e : e.to = address)
Payments(edges, address) ==
    SelectSeq(edges, LAMBDA e : e.from = address)

Mutant_Pair(pairs, incoming, payments, address) ==
    LET match == SelectSeq(payments, LAMBDA o : o.to # address /\ Follows(incoming, o))
    IN  IF \/ incoming.amount = 0
           \/ incoming.from = address
           \/ \E p \in Range(pairs) : incoming.tx \in {p.incoming, p.outgoing}
           \/ match = <<>>
           \/ Len(pairs) >= MaxPairs
        THEN pairs
        ELSE Append(pairs, [incoming |-> incoming.tx, outgoing |-> Head(match).tx])

\* The first payment that follows the receipt and is not used yet.
Pair(pairs, incoming, payments, address) ==
    LET used == UNION {{p.incoming, p.outgoing} : p \in Range(pairs)}
        match == SelectSeq(payments, LAMBDA o : /\ o.to # address
                                                /\ o.tx \notin used
                                                /\ Follows(incoming, o))
    IN  IF \/ incoming.amount = 0
           \/ incoming.from = address
           \/ incoming.tx \in used
           \/ match = <<>>
           \/ Len(pairs) >= MaxPairs
        THEN pairs
        ELSE Append(pairs, [incoming |-> incoming.tx, outgoing |-> Head(match).tx])

PassThrough(edges, address) ==
    FoldLeft(LAMBDA pairs, e : Pair(pairs, e, Payments(edges, address), address),
             <<>>, Receipts(edges, address))

ForwardingScore(network, data) ==
    IF /\ network # "bitcoin"
       /\ Len(PassThrough(data.edges, data.address)) >= PairsForSignal
       /\ ~KnownService(network, data.claims)
    THEN ForwardingWeight * Quarters ELSE 0

----------------------------------------------------------------------------
(* The assessment *)

Contributions(network, data) ==
    <<IdentityScore(network, data.claims), ExposureScore(network, data.paths),
      MixerScore(data.events), ForwardingScore(network, data)>>

Available(network, data) ==
    \/ \E i \in 1..4 : Contributions(network, data)[i] > 0
    \/ network # "bitcoin" /\ data.transfers >= 3

Score(network, data) ==
    LET total == FoldLeft(LAMBDA x, y : x + y, 0, Contributions(network, data))
    IN  IF total > 100 * Quarters THEN 100 * Quarters ELSE total

Level(network, data) ==
    LET score == Score(network, data)
    IN  CASE ~Available(network, data) -> "UNKNOWN"
          [] Available(network, data) /\ score >= High * Quarters -> "HIGH"
          [] Available(network, data) /\ score \in Medium * Quarters .. High * Quarters - 1 -> "MEDIUM"
          [] Available(network, data) /\ score \in 1..Medium * Quarters - 1 -> "LOW"
          [] OTHER -> "NO_SIGNALS"

----------------------------------------------------------------------------
(* The recheck of a Bitcoin path.  It recomputes the interval of satoshis    *)
(* that must and that can have taken the route and trusts nothing the        *)
(* tracer says about it.                                                     *)

\* The interval <<low, high>> after one transaction: what other inputs, other
\* outputs and the fee can absorb is taken off the lower end.
Allocated(interval, total, output) ==
    LET other == total - output
    IN  << IF interval[1] > other THEN interval[1] - other ELSE 0,
           IF interval[2] < output THEN interval[2] ELSE output >>

Selected(hop) == FoldLeft(LAMBDA n, i : n + i.value, 0, hop.inputs)

\* intervals[i]: what enters hop i; intervals[Len + 1]: what leaves the route.
Intervals(hops, steps) ==
    FoldLeft(LAMBDA is, i :
                 Append(is, Allocated(Last(is), steps[i].total, hops[i].output.value)),
             << <<Selected(hops[1]), Selected(hops[1])>> >>,
             [i \in 1..Len(hops) |-> i])

OriginHop(hop) ==
    \A i \in DOMAIN hop.inputs : hop.inputs[i].subject = hop.inputs[1].subject

LinkedHop(previous, hop) ==
    /\ Len(hop.inputs) = 1
    /\ hop.inputs[1].prev = <<previous.position, previous.output.index>>
    /\ hop.inputs[1].value = previous.output.value
    /\ hop.inputs[1].subject = previous.output.subject
    /\ previous.position < hop.position

StepStands(hop, step, entering, leaving) ==
    /\ Selected(hop) <= step.total
    /\ entering[2] <= Selected(hop)
    /\ hop.output.value <= step.total
    /\ step.fee <= step.total - hop.output.value
    /\ step.output = hop.output.value
    /\ step.entering = entering
    /\ step.leaving = leaving

\* valid from inclusive, to exclusive; 0 stands for no end.
ValidAt(claim, at) == claim.from <= at /\ (claim.to = 0 \/ claim.to > at)

BitcoinExposure(path, frame) ==
    LET hops == path.hops
        n == Len(hops)
        intervals == Intervals(hops, path.steps)
        ends == <<hops[1].inputs[1].subject, hops[n].output.subject>>
        at == IF path.direction = "received" THEN hops[1].position ELSE hops[n].position
    IN  /\ frame.current /\ ~frame.truncated
        /\ path.eligible
        /\ path.id \in frame.ids
        /\ path.claim.approved /\ path.claim.seed /\ path.claim.address = path.seed
        /\ n \in 1..5 /\ Len(path.steps) = n
        /\ OriginHop(hops[1])
        /\ \A i \in 1..n : IsInjective([j \in DOMAIN hops[i].inputs |-> hops[i].inputs[j].prev])
        /\ \A i \in 2..n : LinkedHop(hops[i - 1], hops[i])
        /\ \A i \in 1..n : StepStands(hops[i], path.steps[i], intervals[i], intervals[i + 1])
        /\ intervals[n + 1][1] > 0
        /\ path.low = intervals[n + 1][1] /\ path.high = intervals[n + 1][2]
        /\ ends = IF path.direction = "received" THEN <<path.seed, frame.address>>
                  ELSE <<frame.address, path.seed>>
        /\ ValidAt(path.claim, at)
=============================================================================
