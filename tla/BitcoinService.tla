-------------------------- MODULE BitcoinService --------------------------
(***************************************************************************)
(* What is done with the Bitcoin service's tables, one of four tasks in    *)
(* each behaviour, as they write no table in common: clients compute,      *)
(* inspect and review clusters (ClusterReviews); investigations store      *)
(* exposure runs and risk assessments that readers inspect                 *)
(* (AnalysisPublication); the old tables are moved into the warehouse      *)
(* (BitcoinBackfill); and the analytical node keeps what the service       *)
(* answered and compares it again (module Investigations).                 *)
(***************************************************************************)
EXTENDS ClusterReviews, Sequences

CONSTANTS   \* AnalysisPublication
    Hashes, NoHash, ParentOf, Addresses, Subject, Tables, Parent, Investigations, Readers,
    MaxRevision, MaxLabel

ASSUME AnalysisAssumption == Subject \in Addresses /\ Investigations # {}

CONSTANTS   \* BitcoinBackfill
    Histories, Foreign, MaxBlocks, MaxChanges, MaxStops, MaxIngested

ASSUME HistoriesAssumption ==
    Histories \subseteq Seq(UNION {{h[i] : i \in DOMAIN h} : h \in Histories})

CONSTANTS   \* Investigations
    Analysts, Answers, Releases, Ttl, SweepLimit, MaxClock, MaxCreated, MaxUpdates, MaxFailures

\* An answer of the Bitcoin service is about paths and has none of the parts,
\* or about a wallet and has clusters and a risk at least.
ASSUME AnswersAssumption ==
    /\ Answers \subseteq [bitcoin : BOOLEAN, scored : BOOLEAN,
                          parts : SUBSET {"intelligence", "exposure", "semantics", "clusters",
                                          "holdings", "risk"}]
    /\ \A a \in Answers : a.bitcoin => a.parts = {} \/ {"clusters", "risk"} \subseteq a.parts
    /\ Releases # {} /\ Ttl \in Nat

VARIABLES
    task,
    snapshot, labels, rows, failed, seals, at, seen, facts, look, current,   \* AnalysisPublication
    legacy, markers, published, revision, backfill, whole, changes,          \* BitcoinBackfill
    upstream, investigations, clock, request, janitor, exported, updates     \* Investigations

analysisVars == <<snapshot, labels, rows, failed, seals, at, seen, facts, look, current>>
backfillVars == <<legacy, markers, published, revision, backfill, whole, changes>>
keptVars == <<upstream, investigations, clock, request, janitor, exported, updates>>
allVars == <<task, vars, analysisVars, backfillVars, keptVars>>

A == INSTANCE AnalysisPublication WITH source <- snapshot, held <- current
B == INSTANCE BitcoinBackfill WITH job <- backfill, bounds <- changes
K == INSTANCE Investigations WITH Clients <- Analysts, MaxChanges <- MaxUpdates, bounds <- updates

\* The tables of another task are as they are at some start, and stay so.
ServiceInit ==
    /\ Init /\ A!Init /\ B!Init /\ K!Init
    /\ task \in {"reviews", "analyses", "backfill", "investigations"}
    /\ task # "analyses" => snapshot.tip = CHOOSE h \in Hashes : TRUE
    /\ task # "backfill" => legacy.history = <<>>

ServiceNext ==
    \/ task = "reviews" /\ Next /\ UNCHANGED <<task, analysisVars, backfillVars, keptVars>>
    \/ task = "analyses" /\ A!Next /\ UNCHANGED <<task, vars, backfillVars, keptVars>>
    \/ task = "backfill" /\ B!Next /\ UNCHANGED <<task, vars, analysisVars, keptVars>>
    \/ task = "investigations" /\ K!Next /\ UNCHANGED <<task, vars, analysisVars, backfillVars>>

ServiceSpec == ServiceInit /\ [][ServiceNext]_allVars

-----------------------------------------------------------------------------
(* Properties *)

\* Whatever is lost, fails or dies: a result the views of the analyses show
\* has all its rows, computed from one published history.
VisibleIsWhole == A!VisibleIsWhole

\* An analysis the views no longer show never comes back, also when a
\* reorganisation is undone.
HiddenForGood == A!HiddenForGood

\* An inspection of an analysis that answers `current` tells the truth about
\* one moment, although it reads source, seals and labels one by one.
AnalysesWereCurrent == A!CurrentWasTrue

\* `current` is true of one moment, of a cluster bundle as of an analysis.
AnswersWereCurrent == CurrentWasTrue /\ AnalysesWereCurrent

\* What a finished investigation returns comes from one history and one set
\* of labels.
ResponseFits == A!ResponseFits

\* A backfill that is said to be ready has published the old history whole, and
\* what is published is always one history.
BackfillHolds == B!ReadyIsWhole /\ B!OneHistory

\* An export of the analytical node outlives the sweep that found it expired,
\* and a risk is shown as current only if all it rests on was, at one moment.
InvestigationsHold == K!InvestigationsHold
=============================================================================
