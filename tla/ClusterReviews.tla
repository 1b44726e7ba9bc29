-------------------------- MODULE ClusterReviews --------------------------
(***************************************************************************)
(* Clustering runs of the Bitcoin service and the reviews of the clusters  *)
(* they propose.                                                           *)
(*                                                                         *)
(* A run is sealed once (module AnalysisPublication; here the seal is one  *)
(* step) and visible while its source is the published one.  It carries,   *)
(* for every cluster, the review that was the latest when it was computed. *)
(* A review is a run, too: a copy of the reviewed run with one new review. *)
(* Reviewers exclude each other with a kernel lock; everybody else reads   *)
(* the latest review of one cluster after the other.                       *)
(*                                                                         *)
(* Abstractions.  The source is its revision.  Evidence and detector       *)
(* definition are fixed.  Partial runs, which are never sealed, are left   *)
(* out.                                                                    *)
(***************************************************************************)
EXTENDS Integers, FiniteSets

CONSTANTS
  Clusters,     \* clusters the detector proposes, as numbers in the order of their identifiers
  Scopes,       \* sets of clusters that belong to one investigated address
  None,         \* no cluster, no client
  Clients,      \* API requests and command lines
  Clocks,       \* what a client's clock may say, in any order
  LateSeals,    \* may an insert be applied after its client has gone?
  MaxSource,    \* bound on publications of the chain (TLC only; guard of Publish)
  MaxRuns       \* bound on runs (TLC only; guards of Compute and Decide)

ASSUME ReviewsAssumption ==
  /\ Clusters \subseteq Nat /\ Scopes \subseteq SUBSET Clusters /\ None \notin Clusters \cup Clients
  /\ Clocks \subseteq Nat \ {0}
  /\ LateSeals \in BOOLEAN
  /\ MaxSource \in Nat /\ MaxRuns \in Nat

VARIABLES
  source,  \* revision of the published chain
  runs,    \* sealed runs
  late,    \* runs whose client left while the seal was on its way
  used,    \* run identifiers given out
  lock,    \* the client that holds the review lock
  pc,      \* client -> where it is
  job,     \* client -> what it works on
  held     \* history: has the client's run been current since the client took it up?

vars == <<source, runs, late, used, lock, pc, job, held>>

NoReview == [id |-> 0, previous |-> 0, revision |-> 0]

Review == [id : Nat, previous : Nat, revision : Nat]

\* `reviewed` is the cluster whose version has change_type review.
EmptyRun == [id |-> 0, source |-> 0, reviewed |-> None, reviews |-> [k \in {} |-> NoReview]]

NoJob == [kind |-> "none", run |-> EmptyRun, todo |-> {}, source |-> 0, target |-> None]

-----------------------------------------------------------------------------

\* aml_cluster_runs_visible
Visible(run) == run.source = source

ReviewsOf(k) == {run.reviews[k] : run \in {x \in runs : Visible(x) /\ x.reviewed = k}}

\* latest_review: of reviews with one revision the database returns any.
Latest(k) ==
  IF ReviewsOf(k) = {} THEN {NoReview}
  ELSE {x \in ReviewsOf(k) : \A y \in ReviewsOf(k) : y.revision <= x.revision}

\* max(now, previous revision + 1)
NextRevision(clock, old) == IF clock > old.revision THEN clock ELSE old.revision + 1

\* Mutant: the lock is not taken.
LockIgnored(c) == TRUE

LockFree(c) == lock = None

\* Mutant: only clusters that were reviewed are compared.
ComparedReviewed(j) == {k \in DOMAIN j.run.reviews : j.run.reviews[k] # NoReview}

\* reviews_unchanged looks at every cluster of the run.
Compared(j) == DOMAIN j.run.reviews

Init ==
  /\ source = 1 /\ runs = {} /\ late = {} /\ used = 0 /\ lock = None
  /\ pc = [c \in Clients |-> "idle"]
  /\ job = [c \in Clients |-> NoJob]
  /\ held = [c \in Clients |-> FALSE]

Goto(c, place) == pc' = [pc EXCEPT ![c] = place]

\* A bundle lists its clusters in the order of their identifiers.
IsNext(c, k) == k \in job[c].todo /\ \A other \in job[c].todo : k <= other

\* The lock goes with the client, however it ends: with an answer, because a check
\* fails, or because the process dies.
Leave(c) ==
  /\ Goto(c, "idle") /\ job' = [job EXCEPT ![c] = NoJob]
  /\ lock' = IF lock = c THEN None ELSE lock

-----------------------------------------------------------------------------
(* compute *)

Compute(c, clusters) ==
  /\ pc[c] = "idle" /\ used < MaxRuns
  /\ used' = used + 1
  /\ job' = [job EXCEPT ![c] = [NoJob EXCEPT !.kind = "publish", !.todo = clusters,
               !.run = [id |-> used', source |-> source, reviewed |-> None,
                        reviews |-> [k \in clusters |-> NoReview]]]]
  /\ Goto(c, "publish")
  /\ UNCHANGED <<source, runs, late, lock>>

\* The latest review is copied unless it was made on another source.  Clusters come
\* in the order of their transactions.
Lookup(c, k) ==
  /\ pc[c] = "publish" /\ k \in job[c].todo
  /\ \E x \in Latest(k) :
       job' = [job EXCEPT ![c].todo = @ \ {k},
                          ![c].run.reviews[k] = IF Visible(job[c].run) THEN x ELSE NoReview]
  /\ UNCHANGED <<source, runs, late, used, lock, pc>>

-----------------------------------------------------------------------------
(* inspect: also the first part of a review *)

Inspect(c, run) ==
  /\ pc[c] = "idle" /\ run \in runs
  /\ job' = [job EXCEPT ![c] = [NoJob EXCEPT !.kind = "inspect", !.run = run]]
  /\ Goto(c, "capture")
  /\ UNCHANGED <<source, runs, late, used, lock>>

StartReview(c, run, k) ==
  /\ pc[c] = "idle" /\ LockFree(c) /\ run \in runs /\ k \in DOMAIN run.reviews
  /\ lock' = c
  /\ job' = [job EXCEPT ![c] = [NoJob EXCEPT !.kind = "review", !.run = run, !.target = k]]
  /\ Goto(c, "capture")
  /\ UNCHANGED <<source, runs, late, used>>

Capture(c) ==
  /\ pc[c] = "capture"
  /\ job' = [job EXCEPT ![c].source = source]
  /\ Goto(c, "seal count")
  /\ UNCHANGED <<source, runs, late, used, lock>>

CountSeals(c) ==
  /\ pc[c] = "seal count"
  /\ IF Visible(job[c].run) /\ job[c].run.source = job[c].source
     THEN /\ Goto(c, "compare")
          /\ job' = [job EXCEPT ![c].todo = Compared(job[c])]
          /\ UNCHANGED lock
     ELSE Leave(c)
  /\ UNCHANGED <<source, runs, late, used>>

\* reviews_unchanged, one cluster.
Compare(c, k) ==
  /\ pc[c] = "compare" /\ IsNext(c, k)
  /\ \E x \in Latest(k) :
       IF x.id = job[c].run.reviews[k].id
       THEN job' = [job EXCEPT ![c].todo = @ \ {k}] /\ UNCHANGED <<pc, lock>>
       ELSE Leave(c)
  /\ UNCHANGED <<source, runs, late, used>>

\* The source once more, which ends an inspection and a publication.
Unchanged(c) ==
  /\ pc[c] = "compare" /\ job[c].todo = {}
  /\ IF source = job[c].source
     THEN Goto(c, IF job[c].kind = "review" THEN "decide" ELSE "current") /\ UNCHANGED <<job, lock>>
     ELSE Leave(c)
  /\ UNCHANGED <<source, runs, late, used>>

-----------------------------------------------------------------------------
(* review and publish *)

Decide(c, clock) ==
  /\ pc[c] = "decide" /\ used < MaxRuns
  /\ used' = used + 1
  /\ LET j == job[c]
         old == j.run.reviews[j.target]
         new == [id |-> used', previous |-> old.id, revision |-> NextRevision(clock, old)]
     IN job' = [job EXCEPT ![c] = [NoJob EXCEPT !.kind = "publish", !.run = [id |-> used', source |-> j.run.source, reviewed |-> j.target,
                     reviews |-> [j.run.reviews EXCEPT ![j.target] = new]]]]
  /\ Goto(c, "publish")
  /\ UNCHANGED <<source, runs, late, lock>>

\* publish_analysis: rows without a seal are nobody's business.
Check(c) ==
  /\ pc[c] = "publish" /\ job[c].todo = {}
  /\ IF source = job[c].run.source THEN Goto(c, "seal") /\ UNCHANGED <<job, lock>> ELSE Leave(c)
  /\ UNCHANGED <<source, runs, late, used>>

Seal(c) ==
  /\ pc[c] = "seal"
  /\ runs' = runs \cup {job[c].run}
  /\ Goto(c, "sealed")
  /\ UNCHANGED <<source, late, used, lock, job>>

\* The publication looks at source and reviews again before it answers.
Recheck(c) ==
  /\ pc[c] = "sealed"
  /\ IF source = job[c].run.source
     THEN /\ Goto(c, "compare")
          /\ job' = [job EXCEPT ![c].todo = Compared(job[c]), ![c].source = source]
          /\ UNCHANGED lock
     ELSE Leave(c)
  /\ UNCHANGED <<source, runs, late, used>>

\* The answer that the run is current.
Answer(c) ==
  /\ pc[c] = "current"
  /\ Leave(c)
  /\ UNCHANGED <<source, runs, late, used>>

\* A query fails, the request times out or the process dies.  The server may still
\* apply an insert that is under way.
Fail(c) ==
  /\ pc[c] \notin {"idle", "current"}
  /\ late' = IF LateSeals /\ pc[c] = "seal" THEN late \cup {job[c].run} ELSE late
  /\ Leave(c)
  /\ UNCHANGED <<source, runs, used>>

-----------------------------------------------------------------------------
(* The environment *)

Land(run) ==
  /\ run \in late \ runs
  /\ runs' = runs \cup {run}
  /\ UNCHANGED <<source, late, used, lock, pc, job>>

\* A publication of the chain (module Publication).
Publish ==
  /\ source < MaxSource
  /\ source' = source + 1
  /\ UNCHANGED <<runs, late, used, lock, pc, job>>

-----------------------------------------------------------------------------

\* What an answer promises of a run.
IsCurrent(run) ==
  /\ run \in runs /\ run.source = source
  /\ \A k \in DOMAIN run.reviews : \E x \in Latest(k) : x.id = run.reviews[k].id

TargetCurrent(c) == pc[c] # "idle" /\ IsCurrent(job[c].run)

\* A review that was decided goes on with a run of its own.
Keeps(c) == pc[c] # "idle" /\ (pc[c] # "idle")' /\ job[c].run.id = (job[c].run.id)'

Client(c) ==
  \/ \E clusters \in Scopes : Compute(c, clusters)
  \/ \E k \in Clusters : Lookup(c, k) \/ Compare(c, k)
  \/ \E run \in runs : Inspect(c, run) \/ (\E k \in Clusters : StartReview(c, run, k))
  \/ Capture(c) \/ CountSeals(c) \/ Unchanged(c)
  \/ \E clock \in Clocks : Decide(c, clock)
  \/ Check(c) \/ Seal(c) \/ Recheck(c) \/ Answer(c) \/ Fail(c)

Next ==
  /\ (\E c \in Clients : Client(c)) \/ (\E run \in late : Land(run)) \/ Publish
  /\ held' = [c \in Clients |->
                 TargetCurrent(c)' \/ (held[c] /\ Keeps(c))]

Spec == Init /\ [][Next]_vars

-----------------------------------------------------------------------------
(* Properties *)

\* The reviews of a cluster that a source shows form one chain: every decision was
\* made knowing the one before it, and none is lost or ambiguous.
ReviewsFormChain ==
  \A k \in Clusters : \A x \in ReviewsOf(k) :
    LET before == {y \in ReviewsOf(k) : y # x /\ y.revision <= x.revision}
    IN IF before = {} THEN x.previous = 0
       ELSE \E y \in before : /\ y.id = x.previous
                              /\ \A z \in before : z = y \/ z.revision < y.revision

\* The lock and the comparison under it make that chain, whatever the clocks say, as
\* long as every seal lands while its client is there.
ChainUnlessLate == runs \cap late = {} => ReviewsFormChain

\* What an inspection, a computation or a review answers as current was current at one
\* moment since it began to work on it - a review that was decided: since it is a run of
\* its own - although source and reviews are read one by one.
CurrentWasTrue == \A c \in Clients : pc[c] = "current" => held[c]
=============================================================================
