--------------------------- MODULE BitcoinIngestion ---------------------------
(***************************************************************************)
(* The owner of the Bitcoin cursor: the ingestion loop, its RPC endpoints, *)
(* the persisted failure records that gate it, and the repair and gap-scan *)
(* commands of the operator.                                               *)
(*                                                                         *)
(* Every mutating command holds the kernel lock of the database, so there  *)
(* is one process at a time; it may die at any step, and what it keeps in  *)
(* memory dies with it.  The endpoints are independent nodes: the chain    *)
(* each serves changes between any two calls.                              *)
(*                                                                         *)
(* Abstractions.  A block is its hash.  Publication is the atomic step     *)
(* that module Publication implements; an insert whose outcome the writer  *)
(* does not learn is a failed commit that did publish.  A failing RPC call *)
(* is an endpoint that is Down for the call.  Wall clocks become "due" and *)
(* "cooling", which time sets.                                             *)
(***************************************************************************)
EXTENDS Integers, Sequences, FiniteSets

CONSTANTS
  Hashes, NoHash,      \* block hashes; the tip hash of an uninitialised state
  NumberOf, ParentOf,  \* header fields the hash commits to
  Down,                \* an endpoint that does not answer
  Primary, Fallbacks,  \* RpcPool: endpoints[0] and the rest, in order
  ViewsOf,             \* endpoint -> chains (their head) it may serve
  Start,               \* BITCOIN_START_BLOCK
  Confirmations,       \* BITCOIN_CONFIRMATIONS
  ReorgDepth,          \* BITCOIN_REORG_MAX_DEPTH
  BlockBatch,          \* heights fetched in one window
  MaxAttempts,         \* BITCOIN_FAILURE_MAX_ATTEMPTS
  SettleLimit,         \* records settle_published reads (64 in the code)
  MaxCarried           \* bound: no command starts once a record has more attempts

Endpoints == <<Primary>> \o Fallbacks
EndpointSet == {Endpoints[i] : i \in 1 .. Len(Endpoints)}

ASSUME IngestionAssumption ==
  /\ NoHash \notin Hashes /\ Down \notin Hashes
  /\ NumberOf \in [Hashes -> Nat]
  /\ ParentOf \in [Hashes -> Hashes \cup {NoHash}]
  /\ \A h \in Hashes : ParentOf[h] \in Hashes => NumberOf[h] = NumberOf[ParentOf[h]] + 1
  /\ Fallbacks \in Seq(EndpointSet)
  /\ ViewsOf \in [EndpointSet -> SUBSET (Hashes \cup {Down})]
  /\ Start \in Nat /\ Confirmations \in Nat \ {0} /\ ReorgDepth \in Nat \ {0}
  /\ BlockBatch \in Nat \ {0} /\ MaxAttempts \in Nat \ {0} /\ MaxCarried \in Nat
  /\ SettleLimit \in Nat \ {0}

VARIABLES
  tip,       \* hash of the published checkpoint (aml_sync_state)
  failures,  \* aml_ingestion_failures_current, by height
  damaged,   \* published heights that lost transaction rows
  views,     \* the head of the chain each endpoint serves, or Down
  mode,      \* the command that holds the lock: none, ingest, once or repair
  pc,        \* where it is
  order,     \* endpoints it has still to try, the current one first
  head,      \* height the current endpoint reported
  ancestor,  \* height reconcile compares, then the common ancestor (Start - 1: none)
  window,    \* fetched blocks it has still to commit
  selected,  \* failure heights the repair has still to work on, or those that
             \* settle_published read when the ingestion started
  active,    \* endpoint of the last completed window
  cooling    \* now < retry_primary_at

database == <<tip, failures, damaged>>
process == <<mode, pc, order, head, ancestor, window, selected, active, cooling>>
vars == <<database, views, process>>

-----------------------------------------------------------------------------
(* Chains *)

Heights == {Start} \cup {NumberOf[h] : h \in Hashes} \cup {NumberOf[h] + 1 : h \in Hashes}

\* The branch that ends in h, from the start height.
Chain[h \in Hashes \cup {NoHash}] ==
  IF h = NoHash THEN {}
  ELSE IF NumberOf[h] < Start THEN {} ELSE {h} \cup Chain[ParentOf[h]]

\* block_hash(n) of the database finds a canonical row.
Canonical(n) == \E h \in Chain[tip] : NumberOf[h] = n

\* getblockhash: the block an endpoint serves at height n, if it serves one.
BlockAt(e, n) ==
  IF views[e] = Down THEN {} ELSE {h \in Chain[views[e]] : NumberOf[h] = n}

TipHeight == IF tip = NoHash THEN Start - 1 ELSE NumberOf[tip]
NextHeight == TipHeight + 1

-----------------------------------------------------------------------------
(* Failure records *)

Unresolved == {"retry", "dead_letter", "repairing"}

Record == [status : Unresolved \cup {"none", "gap", "resolved"}, attempts : Nat, due : BOOLEAN]

NoRecord == [status |-> "none", attempts |-> 0, due |-> TRUE]

Status(attempts) == IF attempts >= MaxAttempts THEN "dead_letter" ELSE "retry"

Counted(r, counted) == r.attempts + (IF counted THEN 1 ELSE 0)

\* record: the attempts of a height go on from its previous record, resolved or not.
Recorded(n, counted) ==
  LET attempts == Counted(failures[n], counted)
  IN [failures EXCEPT ![n] = [status |-> Status(attempts), attempts |-> attempts,
                              due |-> attempts >= MaxAttempts]]

\* resolved
Resolved(n, counted) ==
  IF failures[n].status \in {"none", "resolved"} THEN failures
  ELSE [failures EXCEPT ![n] = [status |-> "resolved", due |-> TRUE,
                                attempts |-> Counted(failures[n], counted)]]

\* begin_repair
Repairing(n) ==
  [failures EXCEPT ![n] = [status |-> "repairing", attempts |-> failures[n].attempts + 1,
                           due |-> TRUE]]

\* mark_gap and the rows scan_gaps writes
Gaps(heights) ==
  [n \in Heights |-> IF n \in heights
                     THEN [failures[n] EXCEPT !.status = "gap", !.due = TRUE]
                     ELSE failures[n]]

\* recover_interrupted; of its LIMIT 1000 at most one is met (OneRepair).
Recovered ==
  [n \in Heights |->
     IF failures[n].status = "repairing"
     THEN [failures[n] EXCEPT !.status = Status(failures[n].attempts), !.due = TRUE]
     ELSE failures[n]]

\* gate: may the running command work on height n?
GateOpen(n) ==
  LET r == failures[n]
  IN \/ r.status \in {"none", "resolved"}
     \/ /\ r.status \in {"retry", "repairing"}
        /\ r.attempts < MaxAttempts
        /\ mode = "once" \/ r.due

\* gate persists the verdict when the attempts are used up.
Gated(n) ==
  IF failures[n].status \in {"retry", "repairing"} /\ failures[n].attempts >= MaxAttempts
  THEN [failures EXCEPT ![n].status = "dead_letter"]
  ELSE failures

\* settle_published: records of canonical heights that are still open.
Unsettled == {n \in Heights : Canonical(n) /\ failures[n].status \in Unresolved}

\* The page it reads of them: the highest, up to its limit.
IsPage(page, open) ==
  /\ page \subseteq open
  /\ Cardinality(page) <= SettleLimit
  /\ page # open => Cardinality(page) = SettleLimit /\ \A n \in open \ page, m \in page : n < m

\* Mutant: a height above the tip passes for healthy.
HealthyAnywhere(n) == n \notin damaged

\* healthy
Healthy(n) == Canonical(n) /\ n \notin damaged

-----------------------------------------------------------------------------
(* Starting and stopping *)

Idle ==
  /\ mode' = "none" /\ pc' = "none" /\ order' = <<>> /\ head' = 0 /\ ancestor' = 0
  /\ window' = <<>> /\ selected' = {} /\ active' = Primary /\ cooling' = FALSE

\* run_owned returns: a repair goes on with its verdict, another command is done.
Finish ==
  IF mode = "repair"
  THEN /\ pc' = "outcome" /\ order' = <<>> /\ window' = <<>> /\ head' = 0 /\ ancestor' = 0
       /\ active' = Primary /\ cooling' = FALSE
       /\ UNCHANGED <<mode, selected>>
  ELSE Idle

Automatic == mode # "repair"

Init ==
  /\ tip = NoHash /\ failures = [n \in Heights |-> NoRecord] /\ damaged = {}
  /\ views \in [EndpointSet -> Hashes \cup {Down}]
  /\ \A e \in EndpointSet : views[e] \in ViewsOf[e]
  /\ mode = "none" /\ pc = "none" /\ order = <<>> /\ head = 0 /\ ancestor = 0
  /\ window = <<>> /\ selected = {} /\ active = Primary /\ cooling = FALSE

\* `ingest` or `once` takes the lock.
StartIngest(m) ==
  /\ mode = "none" /\ \A n \in Heights : failures[n].attempts <= MaxCarried
  /\ mode' = m /\ pc' = "settle"
  /\ failures' = Recovered
  /\ UNCHANGED <<tip, damaged, views, order, head, ancestor, window, active, cooling>>
  /\ selected' \in SUBSET Heights /\ IsPage(selected', Unsettled')

Settle(n) ==
  /\ pc = "settle" /\ n \in selected \cap Unsettled
  /\ failures' = Resolved(n, FALSE)
  /\ UNCHANGED <<tip, damaged, views, process>>

\* Mutant: the loop starts before the published heights are settled.
StartWorkAtOnce ==
  /\ pc = "settle"
  /\ pc' = "gate"
  /\ UNCHANGED <<database, views, mode, order, head, ancestor, window, selected, active,
                 cooling>>

StartWork ==
  /\ pc = "settle" /\ selected \cap Unsettled = {}
  /\ pc' = "gate"
  /\ UNCHANGED <<database, views, mode, order, head, ancestor, window, selected, active,
                 cooling>>

\* The process dies, or an error of the database ends the command.
Crash ==
  /\ mode # "none"
  /\ Idle
  /\ UNCHANGED <<database, views>>

-----------------------------------------------------------------------------
(* The ingestion loop *)

\* The fallbacks but the active one, in their order.
Others ==
  LET i == CHOOSE i \in 1 .. Len(Fallbacks) : Fallbacks[i] = active
  IN SubSeq(Fallbacks, 1, i - 1) \o SubSeq(Fallbacks, i + 1, Len(Fallbacks))

PassGate ==
  /\ pc = "gate" /\ (~Automatic \/ GateOpen(NextHeight))
  /\ pc' = "source"
  /\ order' = IF active # Primary /\ cooling
              THEN <<active>> \o Others \o <<Primary>>
              ELSE Endpoints
  /\ UNCHANGED <<database, views, mode, head, ancestor, window, selected, active, cooling>>

\* A follower sleeps and looks again, `once` gives up.
WaitAtGate ==
  /\ pc = "gate" /\ Automatic /\ ~GateOpen(NextHeight)
  /\ failures' = Gated(NextHeight)
  /\ IF mode = "once" THEN Idle ELSE UNCHANGED process
  /\ UNCHANGED <<tip, damaged, views>>

Reached == mode = "repair" /\ \E n \in selected : (\A m \in selected : n <= m) /\ n <= TipHeight

Usable(e) ==
  /\ views[e] # Down /\ NumberOf[views[e]] >= TipHeight
  /\ (tip # NoHash /\ (e # Primary \/ ~Automatic)) => tip \in BlockAt(e, TipHeight)

TrySource ==
  /\ pc = "source" /\ order # <<>> /\ ~Reached
  /\ IF Usable(Head(order))
     THEN /\ head' = NumberOf[views[Head(order)]]
          /\ pc' = IF Head(order) = Primary /\ Automatic THEN "reconcile" ELSE "window"
          /\ UNCHANGED <<failures, order>>
     ELSE /\ failures' = Recorded(NextHeight, Automatic)
          /\ order' = Tail(order)
          /\ UNCHANGED <<head, pc>>
  /\ UNCHANGED <<tip, damaged, views, mode, ancestor, window, selected, active, cooling>>

\* The end of the range is published, or no endpoint is left.
LeaveSources ==
  /\ pc = "source" /\ (Reached \/ order = <<>>)
  /\ IF mode = "ingest"
     THEN /\ pc' = "gate"
          /\ UNCHANGED <<mode, order, head, ancestor, window, selected, active, cooling>>
     ELSE Finish
  /\ UNCHANGED <<database, views>>

NextSource(n) ==
  /\ failures' = Recorded(n, Automatic)
  /\ order' = Tail(order) /\ window' = <<>> /\ head' = 0 /\ pc' = "source"
  /\ UNCHANGED <<tip, damaged, views, mode, ancestor, selected, active, cooling>>

-----------------------------------------------------------------------------
(* Reorganisations *)

Floor == IF TipHeight - ReorgDepth > Start THEN TipHeight - ReorgDepth ELSE Start

Answered(n) == BlockAt(Primary, n) # {}

Shared(n) == \E h \in Chain[tip] : h \in BlockAt(Primary, n)

\* Mutant: the reset of the whole range forgets the rollback bound.
Unbounded == TRUE

\* Without a common height the whole range goes, if it is that short.
Resettable == TipHeight - Start < ReorgDepth

ChainAgrees ==
  /\ pc = "reconcile" /\ (tip = NoHash \/ Shared(TipHeight))
  /\ pc' = "window"
  /\ UNCHANGED <<database, views, mode, order, head, ancestor, window, selected, active,
                 cooling>>

\* The heights are asked for one after the other, from the tip down to the floor; the
\* node may change its chain in between.
LeaveTip ==
  /\ pc = "reconcile" /\ tip # NoHash /\ Answered(TipHeight) /\ ~Shared(TipHeight)
  /\ ancestor' = TipHeight /\ pc' = "search"
  /\ UNCHANGED <<database, views, mode, order, head, window, selected, active, cooling>>

SearchOn ==
  /\ pc = "search" /\ ancestor >= Floor /\ Answered(ancestor) /\ ~Shared(ancestor)
  /\ ancestor' = ancestor - 1
  /\ UNCHANGED <<database, views, mode, pc, order, head, window, selected, active, cooling>>

FindAncestor ==
  /\ pc = "search"
  /\ IF ancestor >= Floor THEN Shared(ancestor) /\ UNCHANGED ancestor
     ELSE Resettable /\ ancestor' = Start - 1
  /\ pc' = "rollback"
  /\ UNCHANGED <<database, views, mode, order, head, window, selected, active, cooling>>

\* The hash of the ancestor is asked for again; publish needs the canonical one.
Target ==
  IF ancestor < Start THEN {NoHash} ELSE BlockAt(Primary, ancestor) \cap Chain[tip]

Rollback(t) ==
  /\ pc = "rollback" /\ t \in Target
  /\ tip' = t /\ pc' = "window" /\ ancestor' = 0
  /\ UNCHANGED <<failures, damaged, views, mode, order, head, window, selected, active,
                 cooling>>

\* reconcile returns an error, perhaps only after it published; the record goes to
\* the frontier of the old state, if the database lets it.
ReconcileFails(t) ==
  /\ \/ /\ t = tip /\ tip # NoHash
        /\ \/ pc = "reconcile" /\ ~Answered(TipHeight)
           \/ pc = "search" /\ (IF ancestor >= Floor THEN ~Answered(ancestor) ELSE ~Resettable)
     \/ pc = "rollback" /\ (t = tip \/ t \in Target)
  /\ tip' = t
  /\ failures' \in {failures, Recorded(NextHeight, TRUE)}
  /\ Idle
  /\ UNCHANGED <<damaged, views>>

-----------------------------------------------------------------------------
(* A window of blocks *)

\* The target of the running repair, the lowest selected height.
RepairHeight == CHOOSE n \in selected : \A m \in selected : n <= m

\* Mutants: one confirmation too many, and a repair that goes on to the source's tip.
LimitShort ==
  IF mode = "repair" /\ RepairHeight < head - Confirmations
  THEN RepairHeight ELSE head - Confirmations

LimitOfSource == head - (Confirmations - 1)

\* confirmed_tip of the source, cut at the end of the range.
Limit ==
  LET confirmed == head - (Confirmations - 1)
  IN IF mode = "repair" /\ RepairHeight < confirmed THEN RepairHeight ELSE confirmed

WindowHeights == {n \in NextHeight .. Limit : n < NextHeight + BlockBatch}

\* The source has nothing confirmed above the tip.
NothingConfirmed ==
  /\ pc = "window" /\ NextHeight > Limit
  /\ IF mode = "ingest"
     THEN /\ pc' = "gate" /\ order' = <<>> /\ head' = 0
          /\ UNCHANGED <<mode, ancestor, window, selected, active, cooling>>
     ELSE Finish
  /\ UNCHANGED <<database, views>>

Fetched == UNION {BlockAt(Head(order), n) : n \in WindowHeights}

Fetch ==
  /\ pc = "window" /\ NextHeight <= Limit
  /\ \A n \in WindowHeights : BlockAt(Head(order), n) # {}
  /\ window' \in [1 .. Cardinality(WindowHeights) -> Fetched]
  /\ \A i \in DOMAIN window' : NumberOf[window'[i]] = NextHeight + i - 1
  /\ pc' = "block" /\ head' = 0
  /\ UNCHANGED <<database, views, mode, order, ancestor, selected, active, cooling>>

FetchFails ==
  /\ pc = "window" /\ NextHeight <= Limit
  /\ \E n \in WindowHeights : BlockAt(Head(order), n) = {}
  /\ NextSource(NextHeight)

Candidate == Head(window)

\* Mutant: the blocks of a window do not pass the gate.
BlockUngated == TRUE

BlockGate == ~Automatic \/ GateOpen(NumberOf[Candidate])

\* The parent is the tip and the source still serves the block.
Prepare ==
  /\ pc = "block" /\ BlockGate
  /\ tip # NoHash => ParentOf[Candidate] = tip
  /\ Candidate \in BlockAt(Head(order), NumberOf[Candidate])
  /\ pc' = "commit"
  /\ UNCHANGED <<database, views, mode, order, head, ancestor, window, selected, active,
                 cooling>>

\* Any of those, a missing previous output or invalid evidence: the next source.
PrepareFails ==
  /\ pc = "block" /\ BlockGate
  /\ NextSource(NumberOf[Candidate])

BlockGated ==
  /\ pc = "block" /\ ~BlockGate
  /\ failures' = Gated(NumberOf[Candidate])
  /\ IF mode = "once"
     THEN Idle
     ELSE /\ pc' = "gate" /\ order' = <<>> /\ window' = <<>>
          /\ UNCHANGED <<mode, head, ancestor, selected, active, cooling>>
  /\ UNCHANGED <<tip, damaged, views>>

Commit ==
  /\ pc = "commit"
  /\ tip' = Candidate
  /\ damaged' = damaged \ {NumberOf[Candidate]}
  /\ pc' = "committed"
  /\ UNCHANGED <<failures, views, mode, order, head, ancestor, window, selected, active,
                 cooling>>

\* A write fails, perhaps only after the fence was inserted; the record of it may
\* fail as well.
CommitFails(published) ==
  /\ pc = "commit"
  /\ IF published
     THEN tip' = Candidate /\ damaged' = damaged \ {NumberOf[Candidate]}
     ELSE UNCHANGED <<tip, damaged>>
  /\ failures' \in {failures, Recorded(NumberOf[Candidate], Automatic)}
  /\ Finish
  /\ UNCHANGED <<views>>

\* The failure of the committed block is resolved.  A completed window makes its
\* source the active one, a fallback's for a cooldown.
Committed ==
  /\ pc = "committed"
  /\ failures' = Resolved(TipHeight, Automatic)
  /\ window' = Tail(window)
  /\ IF window' # <<>>
     THEN pc' = "block" /\ UNCHANGED <<order, active, cooling>>
     ELSE /\ pc' = "gate" /\ order' = <<>>
          /\ active' = Head(order)
          /\ cooling' = (Head(order) # Primary)
  /\ UNCHANGED <<tip, damaged, views, mode, head, ancestor, selected>>
-----------------------------------------------------------------------------
(* Repair and gap scan *)

StartRepair(heights) ==
  /\ mode = "none" /\ heights # {}
  /\ \A n \in Heights : failures[n].attempts <= MaxCarried
  /\ \A n \in heights : failures[n].status # "none"
  /\ mode' = "repair" /\ pc' = "select" /\ selected' = heights
  /\ failures' = Recovered
  /\ UNCHANGED <<tip, damaged, views, order, head, ancestor, window, active, cooling>>

AlreadyCanonical ==
  /\ pc = "select" /\ selected # {} /\ Healthy(RepairHeight)
  /\ failures' = Resolved(RepairHeight, FALSE)
  /\ selected' = selected \ {RepairHeight}
  /\ UNCHANGED <<tip, damaged, views, mode, pc, order, head, ancestor, window, active, cooling>>

HistoricalGap ==
  /\ pc = "select" /\ selected # {}
  /\ RepairHeight <= TipHeight /\ ~Healthy(RepairHeight)
  /\ failures' = Gaps({RepairHeight})
  /\ Idle
  /\ UNCHANGED <<tip, damaged, views>>

BeginRepair ==
  /\ pc = "select" /\ selected # {}
  /\ RepairHeight = NextHeight /\ failures[RepairHeight].status # "resolved"
  /\ failures' = Repairing(RepairHeight)
  /\ pc' = "gate"
  /\ UNCHANGED <<tip, damaged, views, mode, order, head, ancestor, window, selected, active,
                 cooling>>

\* Nothing left, a height that is not next, or one that is resolved already.
EndRepair ==
  /\ pc = "select"
  /\ selected # {} => /\ RepairHeight > TipHeight
                      /\ RepairHeight = NextHeight => failures[RepairHeight].status = "resolved"
  /\ Idle
  /\ UNCHANGED <<database, views>>

\* The verdict of one attempt.
Outcome ==
  /\ pc = "outcome"
  /\ IF Healthy(RepairHeight)
     THEN /\ failures' = Resolved(RepairHeight, FALSE)
          /\ selected' = selected \ {RepairHeight} /\ pc' = "select"
          /\ UNCHANGED <<mode, order, head, ancestor, window, active, cooling>>
     ELSE /\ failures' = IF failures[RepairHeight].status = "repairing"
                         THEN Recorded(RepairHeight, FALSE) ELSE failures
          /\ Idle
  /\ UNCHANGED <<tip, damaged, views>>

ScanGaps(from, to) ==
  /\ mode = "none" /\ tip # NoHash
  /\ Start <= from /\ from <= to /\ to <= TipHeight
  /\ failures' = Gaps({n \in from .. to : n \in damaged})
  /\ UNCHANGED <<tip, damaged, views, process>>

-----------------------------------------------------------------------------
(* The environment *)

\* A node restarts, falls behind, catches up or changes its branch.
ViewChanges(e, v) ==
  /\ views' = [views EXCEPT ![e] = v]
  /\ UNCHANGED <<database, process>>

\* Transaction rows of a published block are lost outside the program.
LoseRows(n) ==
  /\ damaged = {} /\ Canonical(n)
  /\ damaged' = {n}
  /\ UNCHANGED <<tip, failures, views, process>>

RetryDue(n) ==
  /\ ~failures[n].due
  /\ failures' = [failures EXCEPT ![n].due = TRUE]
  /\ UNCHANGED <<tip, damaged, views, process>>

CooldownElapses ==
  /\ cooling
  /\ cooling' = FALSE
  /\ UNCHANGED <<database, views, mode, pc, order, head, ancestor, window, selected, active>>

-----------------------------------------------------------------------------

\* Steps of a running command that can always be taken when they are its turn.
Advance ==
  \/ \E n \in Heights : Settle(n)
  \/ StartWork \/ PassGate \/ WaitAtGate \/ TrySource \/ LeaveSources
  \/ ChainAgrees \/ LeaveTip \/ SearchOn \/ FindAncestor
  \/ \E t \in Hashes \cup {NoHash} : Rollback(t) \/ ReconcileFails(t)
  \/ NothingConfirmed \/ Fetch \/ FetchFails \/ Prepare \/ PrepareFails \/ BlockGated
  \/ Commit \/ Committed
  \/ AlreadyCanonical \/ HistoricalGap \/ BeginRepair \/ EndRepair \/ Outcome

Environment ==
  \/ \E e \in EndpointSet : \E v \in ViewsOf[e] : ViewChanges(e, v)
  \/ \E n \in Heights : LoseRows(n) \/ RetryDue(n)
  \/ CooldownElapses

Next ==
  \/ \E m \in {"ingest", "once"} : StartIngest(m)
  \/ \E heights \in SUBSET Heights : StartRepair(heights)
  \/ \E from, to \in Heights : ScanGaps(from, to)
  \/ \E published \in BOOLEAN : CommitFails(published)
  \/ Crash
  \/ Advance
  \/ Environment

Spec == Init /\ [][Next]_vars

\* A running command is scheduled, and time passes.
FairSpec ==
  /\ Spec
  /\ WF_vars(Advance)
  /\ WF_vars(CooldownElapses)
  /\ \A n \in Heights : WF_vars(RetryDue(n))

-----------------------------------------------------------------------------
(* Properties *)

TypeOK ==
  /\ tip \in Hashes \cup {NoHash}
  /\ failures \in [Heights -> Record]
  /\ damaged \subseteq Heights
  /\ views \in [EndpointSet -> Hashes \cup {Down}]
  /\ mode \in {"none", "ingest", "once", "repair"}
  /\ pc \in {"none", "settle", "gate", "source", "reconcile", "search", "rollback", "window",
             "block", "commit", "committed", "select", "outcome"}
  /\ order \in Seq(EndpointSet) /\ window \in Seq(Hashes)
  /\ head \in Nat /\ ancestor \in Int
  /\ selected \subseteq Heights
  /\ active \in EndpointSet /\ cooling \in BOOLEAN

\* Records that the page, being full, did not reach.
Skipped == {n \in Heights : Cardinality(selected) = SettleLimit /\ \A m \in selected : n < m}

\* Once the loop runs, no record of a published height is open: whatever a crash or
\* an uncertain commit left behind was settled, and the loop leaves nothing itself.
\* Only below a full page of settled records may open ones be left.
PublishedIsSettled ==
  mode \in {"ingest", "once"} =>
    Unsettled \subseteq Skipped \cup (CASE pc = "settle" -> selected
                                      [] pc = "committed" -> {TipHeight}
                                      [] OTHER -> {})

InRepair == {n \in Heights : failures[n].status = "repairing"}

\* No two records are in repair at once, however often repairs are cut off: each
\* start recovers what the one before it left, and never has more to recover.
OneRepair ==
  /\ \A m, n \in InRepair : m = n
  /\ InRepair # {} => mode \in {"none", "repair"}

\* Records and chain agree: the state is well formed, no published height has an open
\* failure record, and one record at most is in repair.
Consistent == TypeOK /\ PublishedIsSettled /\ OneRepair

\* Automatic ingestion never publishes a height whose record is a dead letter or a
\* gap, not even in the middle of a window or after another source failed.
DeadLettersBlock ==
  [][(tip' # tip /\ tip' # NoHash /\ mode \in {"ingest", "once"} /\ ParentOf[tip'] = tip)
       => failures[NumberOf[tip']].status \notin {"dead_letter", "gap"}]_vars

\* A dead letter leaves that state by a repair or a gap scan, or by being published.
DeadLettersStay ==
  [][\A n \in Heights :
       (failures[n].status = "dead_letter" /\ mode # "repair" /\ failures'[n] # failures[n])
         => \/ failures'[n].status \in {"dead_letter", "gap"}
            \/ failures'[n].status = "resolved" /\ Canonical(n)]_vars

\* A record is resolved only when its height is published at that moment.
ResolvedIsPublished ==
  [][\A n \in Heights :
       (failures'[n].status = "resolved" /\ failures[n].status # "resolved") => Canonical(n)]_vars

\* A repair publishes only selected heights and never takes the tip back.
RepairStaysSelected ==
  [][(mode = "repair" /\ tip' # tip) =>
       tip' # NoHash /\ NumberOf[tip'] = NextHeight /\ NumberOf[tip'] \in selected]_vars

\* Automatic rollbacks go to a block of the published chain, within the bound, and
\* the primary has left the old tip.
RollbacksAreBounded ==
  [][(tip # NoHash /\ tip' # tip /\ (tip' = NoHash \/ NumberOf[tip'] <= TipHeight)) =>
       /\ tip' # NoHash => tip' \in Chain[tip] /\ TipHeight - NumberOf[tip'] <= ReorgDepth
       /\ tip' = NoHash => TipHeight - Start < ReorgDepth]_vars

\* Dead letters neither leave their state by themselves nor are passed over.
DeadLettersHold == DeadLettersBlock /\ DeadLettersStay

\* Repairs move the tip by selected heights, reorganisations back within the bound.
TipMovesByRule == RepairStaysSelected /\ RollbacksAreBounded

\* The frontier waits for an operator.
NeedsOperator == failures[NextHeight].status \in {"dead_letter", "gap"}

CaughtUp(v) == NextHeight > NumberOf[v] - (Confirmations - 1)

\* A follower whose primary stays up on one branch reaches its confirmed tip and
\* stays there, unless the frontier needs an operator.
CatchesUp ==
  \A v \in ViewsOf[Primary] \ {Down} :
    <>[](views[Primary] = v /\ mode = "ingest") => <>[](CaughtUp(v) \/ NeedsOperator)

=============================================================================
