------------------------ MODULE BitcoinAnalyticsWorker ------------------------
(***************************************************************************)
(* The continuous analytics worker of the Bitcoin service: bounded sweeps  *)
(* over the addresses of the published chain, a job queue and a checkpoint *)
(* file from which a restarted worker goes on.                             *)
(*                                                                         *)
(* The worker holds its state in memory and writes all of it to the file   *)
(* with each save.  Between its queries the ingestion process republishes  *)
(* the chain (module Publication): every publication has a new revision.   *)
(* A second worker is kept out by the kernel lock.                         *)
(*                                                                         *)
(* Abstractions.  Addresses are numbers, in the order of the discovery     *)
(* query.  Times are "due" flags that time sets.  An analysis succeeds or  *)
(* fails (an error, a deadline or a source that changed).  Phase, reason,  *)
(* heartbeat, receipts and counters are left out.                          *)
(***************************************************************************)
EXTENDS Integers, FiniteSets

CONSTANTS
  Hashes, NoHash,      \* block hashes; the tip of an uninitialised source
  NumberOf, ParentOf,  \* header fields the hash commits to
  Addresses,           \* addresses of the facts, as positive numbers
  AddressesOf,         \* hash -> addresses in the inputs and outputs of the block
  PageSize,            \* BITCOIN_ANALYTICS_PAGE_SIZE
  MaxQueue,            \* MAX_QUEUE, 128 in the code
  MaxAttempts,         \* BITCOIN_ANALYTICS_MAX_ATTEMPTS
  MaxRevision,         \* bound on publications (TLC only; guard of Publish)
  MaxFaults            \* bound on failed queries and failed writes of the file (TLC only)

ASSUME WorkerAssumption ==
  /\ NoHash \notin Hashes
  /\ NumberOf \in [Hashes -> Nat]
  /\ ParentOf \in [Hashes -> Hashes \cup {NoHash}]
  /\ \A h \in Hashes : ParentOf[h] \in Hashes => NumberOf[h] = NumberOf[ParentOf[h]] + 1
  /\ Addresses \subseteq Nat \ {0} /\ IsFiniteSet(Addresses)
  /\ AddressesOf \in [Hashes -> SUBSET Addresses]
  /\ PageSize \in Nat \ {0} /\ MaxQueue \in Nat \ {0} /\ MaxAttempts \in Nat \ {0}
  /\ MaxRevision \in Nat /\ MaxFaults \in Nat

VARIABLES
  source,  \* the published checkpoint: tip, start height and revision
  disk,    \* the checkpoint file
  state,   \* the worker's state
  pc,      \* where the worker is
  seen,    \* the source it read at the start of the cycle
  page,    \* addresses the discovery query returned
  job,     \* address it analyses, 0 for none
  faults,  \* failed queries and writes so far
  runs     \* history: analyses of an address since it was queued or retried

vars == <<source, disk, state, pc, seen, page, job, faults, runs>>

-----------------------------------------------------------------------------
(* The published chain *)

Branch[h \in Hashes \cup {NoHash}] == IF h = NoHash THEN {} ELSE {h} \cup Branch[ParentOf[h]]

Canonical(s) == {b \in Branch[s.tip] : NumberOf[b] >= s.start}

\* block_hash(height) of the database is this hash.
IsCanonical(h) == h \in Canonical(source)

\* Addresses of the canonical facts up to a height.
AddressesBelow(s, height) == UNION {AddressesOf[b] : b \in {c \in Canonical(s) : NumberOf[c] <= height}}

-----------------------------------------------------------------------------
(* The worker's state *)

Job == [status : {"none", "pending", "running", "retry", "failed"},
        attempts : 0 .. MaxAttempts, due : BOOLEAN]

NoJob == [status |-> "none", attempts |-> 0, due |-> TRUE]

NewJob == [NoJob EXCEPT !.status = "pending"]

NoSource == [tip |-> NoHash, start |-> 0, revision |-> 0]

NoScan == [hash |-> NoHash, start |-> 0, after |-> 0, exhausted |-> FALSE]

\* `done` is a history field: addresses analysed in this pass.
State == [scan : [hash : Hashes \cup {NoHash}, start : Nat, after : Nat, exhausted : BOOLEAN],
          queue : [Addresses -> Job],
          sweep : {"unset", "waiting", "due"},
          done : SUBSET Addresses]

New == [scan |-> NoScan, sweep |-> "unset", done |-> {}, queue |-> [a \in Addresses |-> NoJob]]

Scanning(s) == s.scan.hash # NoHash

Queued(s) == {a \in Addresses : s.queue[a].status # "none"}

\* Mutant: jobs that failed for good count as active.
ActiveOrFailed(s) == Queued(s)

Active(s) == {a \in Queued(s) : s.queue[a].status # "failed"}

Full(s) == Cardinality(Queued(s)) >= MaxQueue

\* due: jobs that may run now; new ones go before retries.
Due(s) ==
  LET ready == {a \in Queued(s) : s.queue[a].status \in {"pending", "retry"} /\ s.queue[a].due}
      fresh == {a \in ready : s.queue[a].attempts = 0}
  IN IF fresh # {} THEN fresh ELSE ready

\* What is left of an attempt that ended without success.
Ended(j, due) ==
  [j EXCEPT !.status = IF j.attempts >= MaxAttempts THEN "failed" ELSE "retry", !.due = due]

Interrupted(s) ==
  [s EXCEPT !.queue = [a \in Addresses |-> IF s.queue[a].status = "running"
                                           THEN Ended(s.queue[a], TRUE) ELSE s.queue[a]]]

\* begin_pass: the anchor is the tip of the source that was read.
BeginPass(s) ==
  [s EXCEPT !.scan = [hash |-> seen.tip, start |-> seen.start, after |-> 0, exhausted |-> FALSE],
            !.sweep = "unset", !.done = {}]

Abandoned(s) == [s EXCEPT !.queue = [a \in Addresses |-> NoJob]]

\* open: with another definition_hash than the file's the worker starts over; an
\* interrupted job gets its verdict.
Opened(s, redefined) == Interrupted(IF redefined THEN New ELSE s)

\* load refuses a checkpoint beyond the limits.
Loads(s) == Cardinality(Queued(s)) <= MaxQueue

\* The first n of a set of addresses.
Lowest(set, n) == {a \in set : Cardinality({b \in set : b < a}) < n}

PageRoom ==
  LET free == MaxQueue - Cardinality(Queued(state)) IN IF PageSize < free THEN PageSize ELSE free

-----------------------------------------------------------------------------
(* Saving: the temporary file is renamed, so the checkpoint is old or new.   *)

Fault == faults < MaxFaults /\ faults' = faults + 1

\* A cycle that can save goes on at `next`; otherwise it ends with an error, which
\* the worker notes and tries to save once more.
SaveAndGo(next) ==
  /\ \/ disk' = state' /\ pc' = next /\ UNCHANGED faults
     \/ Fault /\ disk' \in {disk, state'} /\ pc' = "idle"
  /\ seen' = IF pc' = "idle" THEN NoSource ELSE seen

Init ==
  /\ source = NoSource
  /\ disk = New /\ state = New
  /\ pc = "stopped" /\ seen = source /\ page = {} /\ job = 0
  /\ faults = 0 /\ runs = [a \in Addresses |-> 0]

Open(redefined) ==
  /\ pc = "stopped" /\ Loads(disk)
  /\ state' = Opened(disk, redefined)
  /\ disk' = state' /\ pc' = "idle"
  /\ UNCHANGED <<source, seen, page, job, faults, runs>>

\* The operator's `retry JOB_ID` opens the stopped worker's state and pauses it again.
Retry(a) ==
  /\ pc = "stopped" /\ Loads(disk)
  /\ LET opened == Opened(disk, FALSE)
     IN /\ opened.queue[a].status = "failed"
        /\ disk' = [opened EXCEPT !.queue[a] = NewJob]
  /\ runs' = [runs EXCEPT ![a] = 0]
  /\ state' = disk'
  /\ UNCHANGED <<source, pc, seen, page, job, faults>>

\* pause, at one of the points where the worker waits.
Stop ==
  /\ pc \in {"idle", "anchor", "discover", "page", "job"}
  /\ \/ disk' = Interrupted(state) /\ UNCHANGED faults
     \/ Fault /\ UNCHANGED disk
  /\ state' = disk' /\ pc' = "stopped" /\ page' = {} /\ job' = 0 /\ seen' = NoSource
  /\ UNCHANGED <<source, runs>>

Crash ==
  /\ pc # "stopped"
  /\ state' = disk /\ pc' = "stopped" /\ page' = {} /\ job' = 0 /\ seen' = NoSource
  /\ UNCHANGED <<source, disk, faults, runs>>

-----------------------------------------------------------------------------
(* One cycle *)

BeginCycle ==
  /\ pc = "idle"
  /\ UNCHANGED state
  /\ IF source.tip = NoHash THEN SaveAndGo("idle")
     ELSE pc' = "anchor" /\ seen' = source /\ UNCHANGED <<disk, faults>>
  /\ job' = 0 /\ page' = {}
  /\ UNCHANGED <<source, runs>>

\* Mutant: the hash at the anchor's height is not compared.
BranchChangedByHeight ==
  /\ Scanning(state)
  /\ seen.start # state.scan.start \/ NumberOf[seen.tip] < NumberOf[state.scan.hash]

\* The anchor of the pass is not in the published chain any more.
BranchChanged ==
  /\ Scanning(state)
  /\ \/ seen.start # state.scan.start
     \/ NumberOf[seen.tip] < NumberOf[state.scan.hash]
     \/ ~IsCanonical(state.scan.hash)

SweepDue == ~Scanning(state) \/ (state.scan.exhausted /\ Active(state) = {} /\ state.sweep = "due")

Resweep ==
  /\ pc = "anchor" /\ BranchChanged
  /\ state' = BeginPass(Abandoned(state))
  /\ SaveAndGo("discover")
  /\ UNCHANGED <<source, page, job, runs>>

BeginSweep ==
  /\ pc = "anchor" /\ ~BranchChanged /\ SweepDue
  /\ state' = BeginPass(state)
  /\ SaveAndGo("discover")
  /\ UNCHANGED <<source, page, job, runs>>

ContinueSweep ==
  /\ pc = "anchor" /\ ~BranchChanged /\ ~SweepDue
  /\ pc' = "discover"
  /\ UNCHANGED <<source, disk, state, seen, page, job, faults, runs>>

SkipDiscovery ==
  /\ pc = "discover" /\ (Due(state) # {} \/ state.scan.exhausted \/ Full(state))
  /\ pc' = "pick"
  /\ UNCHANGED <<source, disk, state, seen, page, job, faults, runs>>

\* One address more than the page, to learn whether there are more.
ReadPage ==
  /\ pc = "discover" /\ Due(state) = {} /\ ~state.scan.exhausted /\ ~Full(state)
  /\ LET below == AddressesBelow(source, NumberOf[state.scan.hash])
     IN page' = Lowest({a \in below : a > state.scan.after}, PageRoom + 1)
  /\ pc' = "page"
  /\ UNCHANGED <<source, disk, state, seen, job, faults, runs>>

SourceUnchanged == source.revision = seen.revision

Enqueue ==
  /\ pc = "page" /\ SourceUnchanged
  /\ LET taken == Lowest(page, PageRoom)
     IN /\ state' = [state EXCEPT
             !.queue = [a \in Addresses |-> IF a \in taken \ Queued(state) THEN NewJob
                                            ELSE state.queue[a]],
             !.scan.after = IF taken = {} THEN @ ELSE CHOOSE a \in taken : \A b \in taken : b <= a,
             !.scan.exhausted = (taken = page)]
        /\ runs' = [a \in Addresses |-> IF a \in taken \ Queued(state) THEN 0 ELSE runs[a]]
  /\ SaveAndGo("pick")
  /\ page' = {}
  /\ UNCHANGED <<source, job>>

\* The source was republished while the page was read: the cycle ends with an error
\* and keeps the cursor.
SourceMoved ==
  /\ pc = "page" /\ ~SourceUnchanged
  /\ UNCHANGED state
  /\ SaveAndGo("idle")
  /\ page' = {}
  /\ UNCHANGED <<source, job, runs>>

Started(a) == [state EXCEPT !.queue[a].status = "running", !.queue[a].attempts = @ + 1]

\* Mutant: the attempt is saved only with its outcome.
RunUnsaved(a) ==
  /\ pc = "pick" /\ a \in Due(state)
  /\ state' = Started(a)
  /\ pc' = "job" /\ job' = a /\ runs' = [runs EXCEPT ![a] = @ + 1]
  /\ UNCHANGED <<source, disk, seen, page, faults>>

\* The attempt is counted and saved before the analysis starts.
Run(a) ==
  /\ pc = "pick" /\ a \in Due(state)
  /\ state' = Started(a)
  /\ SaveAndGo("job")
  /\ IF pc' = "job" THEN job' = a /\ runs' = [runs EXCEPT ![a] = @ + 1]
     ELSE UNCHANGED <<job, runs>>
  /\ UNCHANGED <<source, page>>

\* Nothing is due; a sweep that has drained starts the refresh interval.
Wait ==
  /\ pc = "pick" /\ Due(state) = {}
  /\ state' = [state EXCEPT !.sweep =
       IF state.scan.exhausted /\ Active(state) = {} /\ @ = "unset" THEN "waiting" ELSE @]
  /\ SaveAndGo("idle")
  /\ UNCHANGED <<source, page, job, runs>>

JobSucceeds ==
  /\ pc = "job"
  /\ state' = [state EXCEPT !.queue[job] = NoJob, !.done = @ \cup {job}]
  /\ SaveAndGo("idle")
  /\ job' = 0
  /\ UNCHANGED <<source, page, runs>>

JobFails ==
  /\ pc = "job"
  /\ state' = [state EXCEPT !.queue[job] = Ended(@, FALSE)]
  /\ SaveAndGo("idle")
  /\ job' = 0
  /\ UNCHANGED <<source, page, runs>>

\* A query fails, or the save of a heartbeat: the cycle ends with an error, which
\* drops the analysis; the note of the error may reach the file.
CycleFails ==
  /\ pc \in {"anchor", "discover", "page", "job"} /\ Fault
  /\ disk' \in {disk, state} /\ pc' = "idle" /\ page' = {} /\ job' = 0 /\ seen' = NoSource
  /\ UNCHANGED <<source, state, runs>>

-----------------------------------------------------------------------------
(* The environment *)

\* The ingestion process publishes a child of the tip or a first block, or takes the
\* tip back to an ancestor or to nothing.
Publish(h) ==
  /\ source.revision < MaxRevision /\ h # source.tip
  /\ \/ h \in Hashes /\ source.tip # NoHash /\ ParentOf[h] = source.tip
     \/ h \in Hashes /\ source.tip = NoHash
     \/ h \in Canonical(source) \cup {NoHash}
  /\ source' = [tip |-> h, revision |-> source.revision + 1,
                start |-> IF h # NoHash /\ source.tip = NoHash THEN NumberOf[h] ELSE source.start]
  /\ UNCHANGED <<disk, state, pc, seen, page, job, faults, runs>>

\* A moment passes that the file's or the worker's state waits for.
JobDue(a) ==
  /\ state.queue[a].status = "retry" /\ ~state.queue[a].due
  /\ state' = [state EXCEPT !.queue[a].due = TRUE]
  /\ disk' = IF disk.queue[a].status = "retry" THEN [disk EXCEPT !.queue[a].due = TRUE] ELSE disk
  /\ UNCHANGED <<source, pc, seen, page, job, faults, runs>>

RefreshDue ==
  /\ state.sweep = "waiting"
  /\ state' = [state EXCEPT !.sweep = "due"]
  /\ disk' = IF disk.sweep = "waiting" THEN [disk EXCEPT !.sweep = "due"] ELSE disk
  /\ UNCHANGED <<source, pc, seen, page, job, faults, runs>>

-----------------------------------------------------------------------------

Cycle ==
  \/ BeginCycle \/ Resweep \/ BeginSweep \/ ContinueSweep
  \/ SkipDiscovery \/ ReadPage \/ Enqueue \/ SourceMoved
  \/ \E a \in Addresses : Run(a)
  \/ Wait \/ JobSucceeds \/ JobFails

Next ==
  \/ \E redefined \in BOOLEAN : Open(redefined)
  \/ \E a \in Addresses : Retry(a) \/ JobDue(a)
  \/ Stop \/ Crash
  \/ Cycle \/ CycleFails
  \/ \E h \in Hashes \cup {NoHash} : Publish(h)
  \/ RefreshDue

Spec == Init /\ [][Next]_vars

\* The worker polls, every job has a deadline, and time passes.
FairSpec ==
  /\ Spec
  /\ WF_vars(Cycle)
  /\ \A a \in Addresses : WF_vars(JobDue(a))
  /\ WF_vars(RefreshDue)

-----------------------------------------------------------------------------
(* Properties *)

TypeOK ==
  /\ source \in [tip : Hashes \cup {NoHash}, start : Nat, revision : Nat]
  /\ seen \in [tip : Hashes \cup {NoHash}, start : Nat, revision : Nat]
  /\ disk \in State /\ state \in State
  /\ pc \in {"stopped", "idle", "anchor", "discover", "page", "pick", "job"}
  /\ page \subseteq Addresses /\ job \in Addresses \cup {0}
  /\ faults \in 0 .. MaxFaults /\ runs \in [Addresses -> Nat]

\* Addresses of the history a pass is anchored in.
Swept(s) ==
  UNION {AddressesOf[b] : b \in {c \in Branch[s.scan.hash] : NumberOf[c] >= s.scan.start}}

\* Whatever the chain did meanwhile, a pass has a job for, or has analysed, every
\* address of its anchor's history up to its cursor, in memory and in the file.
SweepCovers ==
  \A s \in {disk, state} : \A a \in Swept(s) :
    (s.scan.exhausted \/ a <= s.scan.after) => a \in Queued(s) \cup s.done

\* No address is analysed more often than the budget allows before an operator or a
\* new sweep asks again, however often the worker dies.
BudgetSurvivesCrashes == \A a \in Addresses : runs[a] <= MaxAttempts

\* The file can always be loaded again: the queue never outgrows its limit.
CheckpointLoads == Loads(disk)

\* The worker and its file stay sound through crashes, failing saves and a chain that
\* moves: no address is missed, and the file can be loaded.
Consistent == TypeOK /\ SweepCovers /\ CheckpointLoads

\* A job marked as running that the worker does not run.
Stranded(a) == pc # "stopped" /\ state.queue[a].status = "running" /\ job # a

\* As long as the worker stays up and its queries are answered, every address that
\* stays published is analysed again and again, unless a failed or stranded job or a
\* full queue waits for the operator.
SweepsRepeat ==
  \A a \in Addresses :
    <>[](pc # "stopped" /\ a \in AddressesBelow(source, NumberOf[source.tip]))
      => \/ []<>(job = a)
         \/ <>[](state.queue[a].status = "failed" \/ \E b \in Addresses : Stranded(b))
         \/ <>[](Full(state) /\ Active(state) = {})
=============================================================================
