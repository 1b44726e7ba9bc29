-------------------- MODULE BitcoinAnalyticsWorkerProofs --------------------
(***************************************************************************)
(* Proofs about the continuous analytics worker, for every chain, every    *)
(* set of addresses, every page, queue and attempt limit: a sweep passes   *)
(* no address without a job, whatever the chain, the crashes and the       *)
(* failing saves do, and no address is analysed more often than the        *)
(* attempts allow.  First what a page and a branch are.                    *)
(***************************************************************************)
EXTENDS BitcoinAnalyticsWorker, BranchTheorems, FiniteSetTheorems, TLAPS

-----------------------------------------------------------------------------
(* Pages: the first elements of a set of naturals *)

\* A finite set of naturals that is not empty has a greatest element.
LEMMA GreatestNatural ==
  ASSUME NEW S \in SUBSET Nat, IsFiniteSet(S), S # {}
  PROVE  \E m \in S : \A b \in S : b <= m
<1> DEFINE HasGreatest(T) == T = {} \/ \E m \in T : \A b \in T : b <= m
           Q == {n \in Nat : \A T \in SUBSET S : Cardinality(T) = n => HasGreatest(T)}
<1>1. ASSUME NEW T \in SUBSET S PROVE IsFiniteSet(T) /\ Cardinality(T) \in Nat
  BY FS_Subset, FS_CardinalityType
<1>2. 0 \in Q
  BY <1>1, FS_EmptySet
<1>3. ASSUME NEW n \in Nat, n \in Q PROVE n + 1 \in Q
  <2> SUFFICES ASSUME NEW T \in SUBSET S, Cardinality(T) = n + 1, T # {}
               PROVE  \E m \in T : \A b \in T : b <= m
    OBVIOUS
  <2>1. PICK x \in T : TRUE
    OBVIOUS
  <2>2. Cardinality(T \ {x}) = n
    BY <1>1, <2>1, FS_RemoveElement
  <2>3. HasGreatest(T \ {x})
    <3>1. T \ {x} \in SUBSET S
      OBVIOUS
    <3> QED
      BY <1>3, <2>2, <3>1
  <2>4. CASE T \ {x} = {}
    <3>1. T = {x} /\ x \in Nat
      BY <2>1, <2>4
    <3> QED
      BY <3>1
  <2>5. ASSUME NEW m \in T \ {x}, \A b \in T \ {x} : b <= m
        PROVE  \E k \in T : \A b \in T : b <= k
    <3>1. m \in Nat /\ x \in Nat /\ \A b \in T : b \in Nat
      BY <2>1
    <3>2. CASE x <= m
      BY <2>5, <3>1, <3>2
    <3>3. CASE m <= x
      BY <2>1, <2>5, <3>1, <3>3
    <3> QED
      BY <3>1, <3>2, <3>3
  <2> QED
    BY <2>3, <2>4, <2>5
<1>4. Nat \subseteq Q
  <2> HIDE DEF Q
  <2> QED
    BY <1>2, <1>3, NatSetInduction
<1>5. S \in SUBSET S /\ Cardinality(S) \in Q
  BY <1>1, <1>4
<1> QED
  BY <1>5

Before(S, a) == {b \in S : b < a}

\* Few elements of a set of naturals come before one of them.
LEMMA BeforeFacts ==
  ASSUME NEW S \in SUBSET Nat, NEW a \in Nat
  PROVE  /\ IsFiniteSet(Before(S, a)) /\ Cardinality(Before(S, a)) \in Nat
         /\ \A T \in SUBSET S : Cardinality(Before(T, a)) <= Cardinality(Before(S, a))
<1>1. IsFiniteSet(0 .. a)
  BY FS_Interval
<1>2. Before(S, a) \subseteq 0 .. a
  <2>1. \A b \in Before(S, a) : b \in Nat /\ b < a
    BY DEF Before
  <2> QED
    BY <2>1
<1>3. IsFiniteSet(Before(S, a)) /\ Cardinality(Before(S, a)) \in Nat
  BY <1>1, <1>2, FS_Subset, FS_CardinalityType
<1>4. \A T \in SUBSET S : Before(T, a) \in SUBSET Before(S, a)
  BY DEF Before
<1> QED
  BY <1>3, <1>4, FS_Subset

LEMMA LowestDef ==
  ASSUME NEW S, NEW n
  PROVE  Lowest(S, n) = {a \in S : Cardinality(Before(S, a)) < n}
BY DEF Lowest, Before

\* What comes before an element of a page is in the page.
LEMMA LowestPrefix ==
  ASSUME NEW S \in SUBSET Nat, NEW n \in Nat, NEW m \in Lowest(S, n), NEW a \in S, a <= m
  PROVE  a \in Lowest(S, n)
<1>1. m \in S /\ m \in Nat /\ a \in Nat /\ Cardinality(Before(S, m)) < n
  BY LowestDef
<1>2. Before(S, a) \in SUBSET Before(S, m)
  <2>1. \A b \in S : b \in Nat /\ (b < a => b < m)
    BY <1>1
  <2> QED
    BY <2>1 DEF Before
<1>3. /\ Cardinality(Before(S, a)) <= Cardinality(Before(S, m))
      /\ Cardinality(Before(S, a)) \in Nat /\ Cardinality(Before(S, m)) \in Nat
  BY <1>1, <1>2, BeforeFacts, FS_Subset
<1>4. Cardinality(Before(S, a)) < n
  BY <1>1, <1>3
<1> QED
  BY <1>4, LowestDef

\* A page is no longer than its size.
LEMMA LowestSize ==
  ASSUME NEW S \in SUBSET Nat, IsFiniteSet(S), NEW n \in Nat
  PROVE  /\ Lowest(S, n) \subseteq S /\ IsFiniteSet(Lowest(S, n))
         /\ Cardinality(Lowest(S, n)) \in Nat /\ Cardinality(Lowest(S, n)) <= n
<1> DEFINE T == Lowest(S, n)
<1>1. T \subseteq S /\ IsFiniteSet(T) /\ Cardinality(T) \in Nat
  BY LowestDef, FS_Subset, FS_CardinalityType
<1>2. CASE T = {}
  BY <1>1, <1>2, FS_EmptySet
<1>3. CASE T # {}
  <2>1. PICK m \in T : \A b \in T : b <= m
    <3> HIDE DEF T
    <3> QED
      BY <1>1, <1>3, GreatestNatural
  <2>2. m \in Nat /\ Cardinality(Before(S, m)) < n
    BY <1>1, <2>1, LowestDef
  <2>3. \A b \in T : b \in Nat
    BY <1>1
  <2>4. T \subseteq Before(S, m) \cup {m}
    <3> HIDE DEF T
    <3> QED
      BY <1>1, <2>1, <2>2, <2>3 DEF Before
  <2>5. /\ IsFiniteSet(Before(S, m)) /\ Cardinality(Before(S, m)) \in Nat /\ m \notin Before(S, m)
    BY <2>2, BeforeFacts DEF Before
  <2>6. /\ IsFiniteSet(Before(S, m) \cup {m})
        /\ Cardinality(Before(S, m) \cup {m}) = Cardinality(Before(S, m)) + 1
    BY <2>5, FS_AddElement
  <2>7. Cardinality(T) <= Cardinality(Before(S, m) \cup {m})
    <3> HIDE DEF T
    <3> QED
      BY <2>4, <2>6, FS_Subset
  <2>8. Cardinality(T) <= n
    <3> HIDE DEF T
    <3> QED
      BY <1>1, <2>2, <2>5, <2>6, <2>7
  <2> QED
    BY <1>1, <2>8
<1> QED
  BY <1>1, <1>2, <1>3

\* When one element more than the page was asked for and none came, the page is the
\* whole set.
LEMMA LowestWhole ==
  ASSUME NEW S \in SUBSET Nat, NEW n \in Nat, Lowest(Lowest(S, n + 1), n) = Lowest(S, n + 1)
  PROVE  Lowest(S, n + 1) = S
<1> DEFINE P == Lowest(S, n + 1)
           Rest == S \ P
<1>1. P \subseteq S /\ Rest \subseteq Nat
  BY LowestDef
<1> SUFFICES ASSUME Rest # {} PROVE FALSE
  BY <1>1
<1>2. PICK x \in Rest : \A y \in Rest : x <= y
  <2> HIDE DEF Rest
  <2> QED
    BY <1>1, LeastNatural
<1> DEFINE B == Before(S, x)
<1>3. IsFiniteSet(B) /\ Cardinality(B) \in Nat /\ B \subseteq S /\ x \in Nat
  BY BeforeFacts DEF Before
<1>4. Cardinality(B) >= n + 1
  <2>1. ~(Cardinality(Before(S, x)) < n + 1)
    BY LowestDef
  <2> QED
    BY <1>3, <2>1
<1>5. B \subseteq P
  <2>1. ASSUME NEW b \in S, b < x, b \notin P PROVE FALSE
    <3>1. b \in Rest /\ b \in Nat
      BY <2>1
    <3>2. x <= b
      BY <1>2, <3>1
    <3> QED
      BY <1>3, <2>1, <3>1, <3>2
  <2> QED
    BY <2>1 DEF Before
<1>6. B # {}
  BY <1>3, <1>4, FS_EmptySet
<1>7. PICK m \in B : \A b \in B : b <= m
  <2>1. B \in SUBSET Nat
    BY <1>3
  <2> HIDE DEF B
  <2> QED
    BY <1>3, <1>6, <2>1, GreatestNatural
<1>8. m \in P /\ m \in Nat
  BY <1>3, <1>5, <1>7
<1>9. B \ {m} \in SUBSET Before(P, m)
  <2>1. ASSUME NEW b \in B, b # m PROVE b \in P /\ b < m
    <3>1. b \in P /\ b \in Nat /\ b <= m
      BY <1>3, <1>5, <1>7
    <3> HIDE DEF B, P
    <3> QED
      BY <1>8, <2>1, <3>1
  <2> HIDE DEF B, P
  <2> QED
    BY <2>1 DEF Before
<1>10. Cardinality(B \ {m}) = Cardinality(B) - 1
  <2> HIDE DEF B
  <2> QED
    BY <1>3, <1>7, FS_RemoveElement
<1>11. Cardinality(Before(P, m)) \in Nat /\ IsFiniteSet(Before(P, m))
  <2>1. P \in SUBSET Nat
    BY <1>1
  <2> HIDE DEF P
  <2> QED
    BY <1>8, <2>1, BeforeFacts
<1>12. Cardinality(B \ {m}) <= Cardinality(Before(P, m))
  <2> HIDE DEF B, P
  <2> QED
    BY <1>9, <1>11, FS_Subset
<1>13. Cardinality(Before(P, m)) < n
  <2>1. m \in Lowest(P, n)
    BY <1>8
  <2> HIDE DEF P
  <2> QED
    BY <2>1, LowestDef
<1> HIDE DEF B, P
<1> QED
  BY <1>3, <1>4, <1>10, <1>11, <1>12, <1>13

-----------------------------------------------------------------------------
(* Branches *)

LEMMA BlockTree == Tree(Hashes, NoHash, NumberOf, ParentOf)
<1>1. \A h \in Hashes : ParentOf[h] \in Hashes => NumberOf[ParentOf[h]] < NumberOf[h]
  BY WorkerAssumption
<1> QED
  BY <1>1, WorkerAssumption DEF Tree

LEMMA BranchUnfolds == Branches(Branch, Hashes, NoHash, ParentOf, Hashes)
<1>1. PICK f : Branches(f, Hashes, NoHash, ParentOf, Hashes)
  BY BlockTree, BranchesExist
<1>2. \A h \in Hashes \cup {NoHash} : h = NoHash <=> h \notin Hashes
  BY WorkerAssumption
<1>3. \A g : Branches(g, Hashes, NoHash, ParentOf, Hashes) <=>
             g = [h \in Hashes \cup {NoHash} |-> IF h = NoHash THEN {} ELSE {h} \cup g[ParentOf[h]]]
  BY <1>2 DEF Branches
<1> QED
  BY <1>1, <1>3 DEF Branch

\* A branch ends with its block, and the branch of each of its blocks is part of it.
LEMMA BranchParts ==
  ASSUME NEW h \in Hashes
  PROVE  /\ h \in Branch[h] /\ Branch[h] \subseteq Hashes
         /\ \A x \in Branch[h] : NumberOf[x] <= NumberOf[h] /\ Branch[x] \subseteq Branch[h]
<1>1. h \in Branch[h]
  <2>1. Branch[h] = {h} \cup Branch[ParentOf[h]]
    BY BranchUnfolds DEF Branches
  <2> QED
    BY <2>1
<1>2. /\ Branch[h] \subseteq Hashes
      /\ \A x \in Branch[h] : NumberOf[x] <= NumberOf[h] /\ Branch[x] \subseteq Branch[h]
  BY BlockTree, BranchUnfolds, BranchFacts
<1> QED
  BY <1>1, <1>2

LEMMA NoBranch == Branch[NoHash] = {}
<1>1. NoHash \in Hashes \cup {NoHash} /\ NoHash \notin Hashes
  BY WorkerAssumption
<1> QED
  BY <1>1, BranchUnfolds, BranchStep

-----------------------------------------------------------------------------
(* The invariant *)

StatesTyped == disk \in State /\ state \in State

Sources == [tip : Hashes \cup {NoHash}, start : Nat, revision : Nat]

PlaceTyped ==
  /\ source \in Sources /\ seen \in Sources
  /\ pc \in {"stopped", "idle", "anchor", "discover", "page", "pick", "job"}
  /\ page \subseteq Addresses /\ job \in Addresses \cup {0}
  /\ faults \in 0 .. MaxFaults /\ runs \in [Addresses -> Nat]

\* A pass of s has a job for, or has analysed, all that its cursor has passed.
Covers(s) ==
  \A a \in Swept(s) : (s.scan.exhausted \/ a <= s.scan.after) => a \in Queued(s) \cup s.done

\* A job that may still run has attempts left and has counted every analysis in r.
Budgeted(s, r) ==
  \A a \in Addresses :
    /\ s.queue[a].status = "pending" => s.queue[a].attempts = 0
    /\ s.queue[a].status = "retry" => s.queue[a].attempts < MaxAttempts
    /\ s.queue[a].status # "none" => r[a] <= s.queue[a].attempts

Sound(s, r) == Covers(s) /\ Loads(s) /\ Budgeted(s, r)

Spent == \A a \in Addresses : runs[a] <= MaxAttempts

Unmoved == source.revision = seen.revision

\* The source a cycle works with is the published one as long as its revision is.
Reading ==
  pc \in {"anchor", "discover", "page"} =>
    seen.tip # NoHash /\ seen.revision <= source.revision /\ (Unmoved => seen = source)

\* The published chain then goes on from the anchor, so the page is the next one of
\* the anchor's addresses.
Anchored ==
  pc \in {"discover", "page"} =>
    /\ state.scan.hash \in Hashes
    /\ Unmoved => state.scan.start = source.start /\ state.scan.hash \in Branch[source.tip]

Unswept == {a \in AddressesBelow(source, NumberOf[state.scan.hash]) : a > state.scan.after}

Paged == (pc = "page" /\ Unmoved) => page = Lowest(Unswept, PageRoom + 1)

\* The job that is analysed is marked as running.
Working == pc = "job" => job \in Addresses /\ state.queue[job].status = "running"

IInv ==
  /\ StatesTyped /\ PlaceTyped
  /\ Sound(disk, runs) /\ Sound(state, runs)
  /\ Spent /\ Reading /\ Anchored /\ Paged /\ Working

-----------------------------------------------------------------------------
(* The worker's state *)

LEMMA StateFields ==
  ASSUME NEW s \in State
  PROVE  /\ s.scan \in [hash : Hashes \cup {NoHash}, start : Nat, after : Nat, exhausted : BOOLEAN]
         /\ s.scan.hash \in Hashes \cup {NoHash} /\ s.scan.start \in Nat /\ s.scan.after \in Nat
         /\ s.queue \in [Addresses -> Job] /\ \A a \in Addresses : s.queue[a] \in Job
         /\ s.sweep \in {"unset", "waiting", "due"} /\ s.done \subseteq Addresses
BY DEF State

LEMMA QueuedFacts ==
  ASSUME NEW s
  PROVE  /\ Queued(s) \subseteq Addresses /\ IsFiniteSet(Queued(s))
         /\ Cardinality(Queued(s)) \in Nat
<1>1. Queued(s) \subseteq Addresses
  BY DEF Queued
<1> QED
  BY <1>1, FS_Subset, FS_CardinalityType, WorkerAssumption

LEMMA SweptAddresses ==
  ASSUME NEW s \in State
  PROVE  Swept(s) \subseteq Addresses
<1>1. Branch[s.scan.hash] \subseteq Hashes
  BY StateFields, BranchParts, NoBranch
<1>2. \A b \in Hashes : AddressesOf[b] \subseteq Addresses
  BY WorkerAssumption
<1> QED
  BY <1>1, <1>2 DEF Swept

\* A state stays sound when its pass stays where it is and no address leaves the
\* queue without having been analysed.
LEMMA SoundKept ==
  ASSUME NEW s \in State, NEW t \in State, NEW r, NEW q, Sound(s, r),
         t.scan = s.scan, s.done \subseteq t.done,
         Queued(s) \subseteq Queued(t) \cup t.done, Queued(t) \subseteq Queued(s),
         Budgeted(t, q)
  PROVE  Sound(t, q)
<1>1. Swept(t) = Swept(s)
  BY DEF Swept
<1>2. Covers(t)
  BY <1>1 DEF Sound, Covers
<1>3. Cardinality(Queued(t)) <= Cardinality(Queued(s))
  BY QueuedFacts, FS_Subset
<1>4. Loads(t)
  <2>1. MaxQueue \in Nat
    BY WorkerAssumption
  <2> QED
    BY <1>3, <2>1, QueuedFacts DEF Sound, Loads
<1> QED
  BY <1>2, <1>4 DEF Sound

\* The start of a pass covers nothing yet.
LEMMA SoundAnew ==
  ASSUME NEW t \in State, NEW q, t.scan.after = 0, ~t.scan.exhausted, Loads(t), Budgeted(t, q)
  PROVE  Sound(t, q)
<1>1. \A a \in Swept(t) : a \in Nat \ {0}
  BY SweptAddresses, WorkerAssumption
<1>2. \A a \in Swept(t) : ~(a <= t.scan.after)
  BY <1>1
<1> QED
  BY <1>2 DEF Sound, Covers

LEMMA EmptyLoads ==
  ASSUME NEW s, \A a \in Addresses : s.queue[a].status = "none"
  PROVE  Loads(s) /\ \A r : Budgeted(s, r)
<1>1. Queued(s) = {}
  BY DEF Queued
<1>2. Loads(s)
  BY <1>1, FS_EmptySet, WorkerAssumption DEF Loads
<1> QED
  BY <1>2 DEF Budgeted

LEMMA JobsTyped ==
  /\ NoJob \in Job /\ NewJob \in Job
  /\ NoJob.status = "none" /\ NewJob.status = "pending" /\ NewJob.attempts = 0
<1>1. 0 \in 0 .. MaxAttempts
  BY WorkerAssumption
<1>2. NoJob \in Job /\ NoJob.status = "none" /\ NoJob.attempts = 0
  BY <1>1 DEF NoJob, Job
<1> QED
  BY <1>2 DEF NewJob, Job

LEMMA NewSound == New \in State /\ \A r : Sound(New, r)
<1>1. New \in State
  BY JobsTyped, WorkerAssumption DEF New, NoScan, State
<1>2. \A a \in Addresses : New.queue[a].status = "none"
  BY DEF New, NoJob
<1>3. New.scan.after = 0 /\ ~New.scan.exhausted
  BY DEF New, NoScan
<1> QED
  BY <1>1, <1>2, <1>3, EmptyLoads, SoundAnew

\* An attempt that ended keeps its count, and may be retried only below the limit.
LEMMA EndedFacts ==
  ASSUME NEW j \in Job, NEW due \in BOOLEAN
  PROVE  /\ Ended(j, due) \in Job /\ Ended(j, due).status \in {"failed", "retry"}
         /\ Ended(j, due).attempts = j.attempts
         /\ Ended(j, due).status = "retry" => j.attempts < MaxAttempts
<1>1. j.attempts \in 0 .. MaxAttempts /\ MaxAttempts \in Nat
  BY WorkerAssumption DEF Job
<1> DEFINE verdict == IF j.attempts >= MaxAttempts THEN "failed" ELSE "retry"
           e == [j EXCEPT !.status = verdict, !.due = due]
<1>2. verdict \in {"failed", "retry"} /\ (verdict = "retry" => j.attempts < MaxAttempts)
  BY <1>1
<1>3. e = Ended(j, due)
  BY DEF Ended
<1> HIDE DEF verdict
<1>4. e \in Job /\ e.status = verdict /\ e.attempts = j.attempts
  BY <1>2 DEF Job
<1> HIDE DEF e
<1> QED
  BY <1>2, <1>3, <1>4

LEMMA InterruptedFacts ==
  ASSUME NEW s \in State
  PROVE  /\ Interrupted(s) \in State /\ Queued(Interrupted(s)) = Queued(s)
         /\ \A r : Sound(s, r) => Sound(Interrupted(s), r)
<1> DEFINE t == Interrupted(s)
<1>1. \A a \in Addresses : s.queue[a] \in Job
  BY StateFields
<1>2. t.queue = [a \in Addresses |-> IF s.queue[a].status = "running"
                                     THEN Ended(s.queue[a], TRUE) ELSE s.queue[a]]
  BY DEF Interrupted, State
<1>3. \A a \in Addresses :
        /\ t.queue[a] \in Job /\ t.queue[a].attempts = s.queue[a].attempts
        /\ t.queue[a].status = "none" <=> s.queue[a].status = "none"
        /\ t.queue[a].status = "pending" => s.queue[a].status = "pending"
        /\ t.queue[a].status = "retry" =>
             s.queue[a].status = "retry" \/ s.queue[a].attempts < MaxAttempts
  BY <1>1, <1>2, EndedFacts
<1>4. t.scan = s.scan /\ t.done = s.done /\ t.sweep = s.sweep
  BY DEF Interrupted, State
<1>5. t \in State
  <2>1. t.queue \in [Addresses -> Job]
    BY <1>2, <1>3
  <2>2. t = [s EXCEPT !.queue = t.queue]
    BY <1>2 DEF Interrupted, State
  <2> HIDE DEF t
  <2> QED
    BY <2>1, <2>2 DEF State
<1>6. Queued(t) = Queued(s)
  BY <1>3 DEF Queued
<1>7. ASSUME NEW r, Sound(s, r) PROVE Sound(t, r)
  <2>1. Budgeted(t, r)
    BY <1>3, <1>7 DEF Sound, Budgeted
  <2> HIDE DEF t
  <2> QED
    BY <1>4, <1>5, <1>6, <1>7, <2>1, SoundKept
<1> QED
  BY <1>5, <1>6, <1>7

\* One job of the queue changes.
Put(s, a, j) == [s EXCEPT !.queue[a] = j]

LEMMA PutFacts ==
  ASSUME NEW s \in State, NEW a \in Addresses, NEW j \in Job
  PROVE  /\ Put(s, a, j) \in State
         /\ Put(s, a, j).scan = s.scan /\ Put(s, a, j).done = s.done
         /\ Put(s, a, j).queue[a] = j
         /\ \A b \in Addresses \ {a} : Put(s, a, j).queue[b] = s.queue[b]
         /\ j.status # "none" /\ s.queue[a].status # "none" => Queued(Put(s, a, j)) = Queued(s)
<1>1. s.queue \in [Addresses -> Job]
  BY StateFields
<1>2. Put(s, a, j) = [s EXCEPT !.queue = [s.queue EXCEPT ![a] = j]]
  BY DEF Put, State
<1>3. [s.queue EXCEPT ![a] = j] \in [Addresses -> Job]
  BY <1>1
<1>4. Put(s, a, j).queue = [s.queue EXCEPT ![a] = j]
  BY <1>2 DEF State
<1>5. Put(s, a, j).scan = s.scan /\ Put(s, a, j).done = s.done /\ Put(s, a, j) \in State
  BY <1>2, <1>3 DEF State
<1>6. /\ Put(s, a, j).queue[a] = j
      /\ \A b \in Addresses \ {a} : Put(s, a, j).queue[b] = s.queue[b]
  BY <1>1, <1>4
<1>7. j.status # "none" /\ s.queue[a].status # "none" => Queued(Put(s, a, j)) = Queued(s)
  BY <1>6 DEF Queued
<1> QED
  BY <1>5, <1>6, <1>7

-----------------------------------------------------------------------------
(* Saving *)

\* The file becomes the new state or stays as it is; a cycle that cannot save ends.
LEMMA SaveFacts ==
  ASSUME PlaceTyped, NEW next \in {"idle", "discover", "pick", "job"}, SaveAndGo(next)
  PROVE  /\ disk' \in {disk, state'} /\ pc' \in {next, "idle"} /\ faults' \in 0 .. MaxFaults
         /\ seen' \in Sources /\ (pc' # "idle" => seen' = seen)
<1>1. NoSource \in Sources
  BY DEF NoSource, Sources
<1>2. faults' \in 0 .. MaxFaults
  BY WorkerAssumption DEF PlaceTyped, SaveAndGo, Fault
<1>3. disk' \in {disk, state'} /\ pc' \in {next, "idle"}
  BY DEF SaveAndGo
<1>4. seen' = IF pc' = "idle" THEN NoSource ELSE seen
  BY DEF SaveAndGo
<1> QED
  BY <1>1, <1>2, <1>3, <1>4 DEF PlaceTyped

LEMMA StatesSafe ==
  ASSUME IInv, disk' \in {disk, state'}, state' \in State, Sound(state', runs'),
         Budgeted(disk, runs')
  PROVE  StatesTyped' /\ Sound(disk', runs') /\ Sound(state', runs')
<1>1. Sound(disk, runs')
  BY DEF IInv, Sound
<1>2. disk \in State
  BY DEF IInv, StatesTyped
<1> QED
  BY <1>1, <1>2 DEF StatesTyped

\* What a cycle that waits or ends keeps.
Resting == pc \notin {"anchor", "discover", "page", "job"}

LEMMA RestingFacts ==
  ASSUME Resting' PROVE Reading' /\ Anchored' /\ Paged' /\ Working'
BY DEF Resting, Reading, Anchored, Paged, Working

LEMMA InitSafe == Init => IInv
<1> SUFFICES ASSUME Init PROVE IInv
  OBVIOUS
<1>1. StatesTyped /\ Sound(disk, runs) /\ Sound(state, runs)
  BY NewSound DEF Init, StatesTyped
<1>2. PlaceTyped
  BY WorkerAssumption DEF Init, PlaceTyped, NoSource, Sources
<1>3. Spent
  BY WorkerAssumption DEF Init, Spent
<1>4. Reading /\ Anchored /\ Paged /\ Working
  BY DEF Init, Reading, Anchored, Paged, Working
<1> QED
  BY <1>1, <1>2, <1>3, <1>4 DEF IInv

-----------------------------------------------------------------------------
(* Starting and stopping *)

LEMMA OpenSafe ==
  ASSUME IInv, NEW redefined \in BOOLEAN, Open(redefined) PROVE IInv'
<1>1. disk \in State /\ Sound(disk, runs)
  BY DEF IInv, StatesTyped
<1>2. state' \in State /\ Sound(state', runs)
  <2>1. CASE redefined
    <3>1. state' = Interrupted(New)
      BY <2>1 DEF Open, Opened
    <3> QED
      BY <3>1, NewSound, InterruptedFacts
  <2>2. CASE ~redefined
    <3>1. state' = Interrupted(disk)
      BY <2>2 DEF Open, Opened
    <3> QED
      BY <1>1, <3>1, InterruptedFacts
  <2> QED
    BY <2>1, <2>2
<1>3. runs' = runs /\ disk' = state'
  BY DEF Open
<1>4. StatesTyped' /\ Sound(disk', runs') /\ Sound(state', runs')
  BY <1>2, <1>3 DEF StatesTyped
<1>5. PlaceTyped'
  BY DEF Open, IInv, PlaceTyped
<1>6. Spent'
  BY <1>3 DEF IInv, Spent
<1>7. Resting'
  BY DEF Open, Resting
<1> QED
  BY <1>4, <1>5, <1>6, <1>7, RestingFacts DEF IInv

LEMMA RetrySafe ==
  ASSUME IInv, NEW a \in Addresses, Retry(a) PROVE IInv'
<1> DEFINE opened == Opened(disk, FALSE)
<1>1. opened \in State /\ Sound(opened, runs)
  BY InterruptedFacts DEF IInv, StatesTyped, Opened
<1>2. opened.queue[a].status = "failed" /\ disk' = Put(opened, a, NewJob) /\ state' = disk'
  BY DEF Retry, Put
<1>3. runs' = [runs EXCEPT ![a] = 0] /\ runs \in [Addresses -> Nat]
  BY DEF Retry, IInv, PlaceTyped
<1> HIDE DEF opened
<1>4. disk' \in State /\ disk'.queue[a] = NewJob /\ Queued(disk') = Queued(opened)
      /\ disk'.scan = opened.scan /\ disk'.done = opened.done
      /\ \A b \in Addresses \ {a} : disk'.queue[b] = opened.queue[b]
  BY <1>1, <1>2, PutFacts, JobsTyped
<1>5. runs'[a] = 0 /\ \A b \in Addresses \ {a} : runs'[b] = runs[b]
  BY <1>3
<1>6. Budgeted(disk', runs')
  <2>1. ASSUME NEW b \in Addresses, b # a
        PROVE  /\ disk'.queue[b].status = "pending" => disk'.queue[b].attempts = 0
               /\ disk'.queue[b].status = "retry" => disk'.queue[b].attempts < MaxAttempts
               /\ disk'.queue[b].status # "none" => runs'[b] <= disk'.queue[b].attempts
    BY <1>1, <1>4, <1>5, <2>1 DEF Sound, Budgeted
  <2>2. /\ disk'.queue[a].status = "pending" /\ disk'.queue[a].attempts = 0
        /\ runs'[a] <= disk'.queue[a].attempts
    BY <1>4, <1>5, JobsTyped
  <2> QED
    BY <2>1, <2>2 DEF Budgeted
<1>7. Sound(disk', runs')
  BY <1>1, <1>4, <1>6, SoundKept
<1>8. StatesTyped' /\ Sound(disk', runs') /\ Sound(state', runs')
  BY <1>2, <1>4, <1>7 DEF StatesTyped
<1>9. PlaceTyped'
  BY <1>3 DEF Retry, IInv, PlaceTyped
<1>10. Spent'
  BY <1>3, <1>5, WorkerAssumption DEF IInv, Spent
<1>11. Resting'
  BY DEF Retry, Resting
<1> QED
  BY <1>8, <1>9, <1>10, <1>11, RestingFacts DEF IInv

LEMMA StopSafe == IInv /\ Stop => IInv'
<1> SUFFICES ASSUME IInv, Stop PROVE IInv'
  OBVIOUS
<1>1. /\ disk \in State /\ Sound(disk, runs)
      /\ Interrupted(state) \in State /\ Sound(Interrupted(state), runs)
  BY InterruptedFacts DEF IInv, StatesTyped
<1>2. disk' \in {Interrupted(state), disk} /\ state' = disk' /\ runs' = runs
  BY DEF Stop
<1>3. StatesTyped' /\ Sound(disk', runs') /\ Sound(state', runs')
  BY <1>1, <1>2 DEF StatesTyped
<1>4. PlaceTyped'
  <2>1. faults' \in 0 .. MaxFaults
    BY WorkerAssumption DEF Stop, IInv, PlaceTyped, Fault
  <2> QED
    BY <2>1 DEF Stop, IInv, PlaceTyped, NoSource, Sources
<1>5. Spent'
  BY <1>2 DEF IInv, Spent
<1>6. Resting'
  BY DEF Stop, Resting
<1> QED
  BY <1>3, <1>4, <1>5, <1>6, RestingFacts DEF IInv

LEMMA CrashSafe == IInv /\ Crash => IInv'
<1> SUFFICES ASSUME IInv, Crash PROVE IInv'
  OBVIOUS
<1>1. disk' = disk /\ state' = disk /\ runs' = runs
  BY DEF Crash
<1>2. StatesTyped' /\ Sound(disk', runs') /\ Sound(state', runs')
  BY <1>1 DEF IInv, StatesTyped
<1>3. PlaceTyped'
  BY DEF Crash, IInv, PlaceTyped, NoSource, Sources
<1>4. Spent'
  BY <1>1 DEF IInv, Spent
<1>5. Resting'
  BY DEF Crash, Resting
<1> QED
  BY <1>2, <1>3, <1>4, <1>5, RestingFacts DEF IInv

-----------------------------------------------------------------------------
(* One cycle *)

LEMMA BeginCycleSafe == IInv /\ BeginCycle => IInv'
<1> SUFFICES ASSUME IInv, BeginCycle PROVE IInv'
  OBVIOUS
<1>1. /\ state' = state /\ runs' = runs /\ source' = source /\ job' = 0 /\ page' = {}
      /\ state \in State /\ Sound(state, runs) /\ Budgeted(disk, runs) /\ PlaceTyped
  BY DEF BeginCycle, IInv, StatesTyped, Sound
<1>2. CASE source.tip = NoHash
  <2>1. SaveAndGo("idle")
    BY <1>2 DEF BeginCycle
  <2>2. /\ disk' \in {disk, state'} /\ pc' = "idle" /\ faults' \in 0 .. MaxFaults
        /\ seen' \in Sources
    BY <1>1, <2>1, SaveFacts
  <2>3. StatesTyped' /\ Sound(disk', runs') /\ Sound(state', runs')
    BY <1>1, <2>2, StatesSafe
  <2>4. PlaceTyped'
    BY <1>1, <2>2 DEF PlaceTyped
  <2>5. Spent'
    BY <1>1 DEF IInv, Spent
  <2>6. Resting'
    BY <2>2 DEF Resting
  <2> QED
    BY <2>3, <2>4, <2>5, <2>6, RestingFacts DEF IInv
<1>3. CASE source.tip # NoHash
  <2>1. pc' = "anchor" /\ seen' = source /\ disk' = disk /\ faults' = faults
    BY <1>3 DEF BeginCycle
  <2>2. StatesTyped' /\ Sound(disk', runs') /\ Sound(state', runs')
    BY <1>1, <2>1 DEF IInv, StatesTyped
  <2>3. PlaceTyped'
    BY <1>1, <2>1 DEF PlaceTyped
  <2>4. Spent'
    BY <1>1 DEF IInv, Spent
  <2>5. Reading'
    <3>1. source.revision \in Nat
      BY <1>1 DEF PlaceTyped, Sources
    <3> QED
      BY <1>1, <1>3, <2>1, <3>1 DEF Reading
  <2>6. Anchored' /\ Paged' /\ Working'
    BY <2>1 DEF Anchored, Paged, Working
  <2> QED
    BY <2>2, <2>3, <2>4, <2>5, <2>6 DEF IInv
<1> QED
  BY <1>2, <1>3

LEMMA BeginPassFacts ==
  ASSUME NEW s \in State, NEW r, Loads(s), Budgeted(s, r), seen \in Sources
  PROVE  /\ BeginPass(s) \in State /\ Sound(BeginPass(s), r)
         /\ BeginPass(s).scan.hash = seen.tip /\ BeginPass(s).scan.start = seen.start
<1> DEFINE t == BeginPass(s)
           scan == [hash |-> seen.tip, start |-> seen.start, after |-> 0, exhausted |-> FALSE]
<1>1. scan \in [hash : Hashes \cup {NoHash}, start : Nat, after : Nat, exhausted : BOOLEAN]
  BY DEF Sources
<1>2. t = [s EXCEPT !.scan = scan, !.sweep = "unset", !.done = {}]
  BY DEF BeginPass
<1>3. scan.hash = seen.tip /\ scan.start = seen.start /\ scan.after = 0 /\ ~scan.exhausted
  OBVIOUS
<1> HIDE DEF t, scan
<1>4. t \in State /\ t.scan = scan /\ t.queue = s.queue
  BY <1>1, <1>2 DEF State
<1>5. Loads(t) /\ Budgeted(t, r)
  BY <1>4 DEF Loads, Queued, Budgeted
<1>6. Sound(t, r)
  BY <1>3, <1>4, <1>5, SoundAnew
<1> QED
  BY <1>3, <1>4, <1>6 DEF t

\* The start of a pass, from the state s.
LEMMA PassSafe ==
  ASSUME IInv, pc = "anchor", NEW s \in State, Loads(s), Budgeted(s, runs),
         state' = BeginPass(s), SaveAndGo("discover"), UNCHANGED <<source, page, job, runs>>
  PROVE  IInv'
<1>1. PlaceTyped /\ Budgeted(disk, runs) /\ seen \in Sources /\ Reading
  BY DEF IInv, Sound, PlaceTyped
<1>2. /\ state' \in State /\ Sound(state', runs)
      /\ state'.scan.hash = seen.tip /\ state'.scan.start = seen.start
  BY <1>1, BeginPassFacts
<1>3. /\ disk' \in {disk, state'} /\ pc' \in {"discover", "idle"} /\ faults' \in 0 .. MaxFaults
      /\ seen' \in Sources /\ (pc' # "idle" => seen' = seen)
  BY <1>1, SaveFacts
<1>4. StatesTyped' /\ Sound(disk', runs') /\ Sound(state', runs')
  BY <1>1, <1>2, <1>3, StatesSafe
<1>5. PlaceTyped'
  BY <1>1, <1>3 DEF PlaceTyped
<1>6. Spent'
  BY DEF IInv, Spent
<1>7. CASE pc' = "idle"
  BY <1>4, <1>5, <1>6, <1>7, RestingFacts DEF IInv, Resting
<1>8. CASE pc' = "discover"
  <2>1. /\ seen' = seen /\ source' = source /\ seen.tip \in Hashes
        /\ seen.revision <= source.revision /\ (Unmoved => seen = source)
    BY <1>1, <1>3, <1>8 DEF Reading, Sources
  <2>2. Reading'
    BY <1>1, <1>8, <2>1 DEF Reading, Unmoved
  <2>3. Anchored'
    BY <1>2, <2>1, BranchParts DEF Anchored, Unmoved
  <2>4. Paged' /\ Working'
    BY <1>8 DEF Paged, Working
  <2> QED
    BY <1>4, <1>5, <1>6, <2>2, <2>3, <2>4 DEF IInv
<1> QED
  BY <1>3, <1>7, <1>8

LEMMA ResweepSafe == IInv /\ Resweep => IInv'
<1> SUFFICES ASSUME IInv, Resweep PROVE IInv'
  OBVIOUS
<1> DEFINE s == Abandoned(state)
<1>1. state \in State
  BY DEF IInv, StatesTyped
<1>2. s \in State /\ \A a \in Addresses : s.queue[a].status = "none"
  BY <1>1, JobsTyped DEF Abandoned, State
<1>3. Loads(s) /\ Budgeted(s, runs)
  BY <1>2, EmptyLoads
<1>4. /\ pc = "anchor" /\ state' = BeginPass(s) /\ SaveAndGo("discover")
      /\ UNCHANGED <<source, page, job, runs>>
  BY DEF Resweep
<1> HIDE DEF s
<1> QED
  BY <1>2, <1>3, <1>4, PassSafe

LEMMA BeginSweepSafe == IInv /\ BeginSweep => IInv'
<1> SUFFICES ASSUME IInv, BeginSweep PROVE IInv'
  OBVIOUS
<1>1. state \in State /\ Loads(state) /\ Budgeted(state, runs)
  BY DEF IInv, StatesTyped, Sound
<1>2. /\ pc = "anchor" /\ state' = BeginPass(state) /\ SaveAndGo("discover")
      /\ UNCHANGED <<source, page, job, runs>>
  BY DEF BeginSweep
<1> QED
  BY <1>1, <1>2, PassSafe

LEMMA ContinueSweepSafe == IInv /\ ContinueSweep => IInv'
<1> SUFFICES ASSUME IInv, ContinueSweep PROVE IInv'
  OBVIOUS
<1>1. /\ pc = "anchor" /\ pc' = "discover" /\ ~BranchChanged /\ ~SweepDue
      /\ UNCHANGED <<source, disk, state, seen, page, job, faults, runs>>
  BY DEF ContinueSweep
<1>2. StatesTyped' /\ Sound(disk', runs') /\ Sound(state', runs') /\ Spent'
  BY <1>1 DEF IInv, StatesTyped, Spent
<1>3. PlaceTyped'
  BY <1>1 DEF IInv, PlaceTyped
<1>4. Reading'
  BY <1>1 DEF IInv, Reading, Unmoved
<1>5. Anchored'
  <2>1. state.scan.hash \in Hashes
    <3>1. state \in State /\ Scanning(state)
      BY <1>1 DEF IInv, StatesTyped, SweepDue
    <3> QED
      BY <3>1, StateFields DEF Scanning
  <2>2. seen.start = state.scan.start /\ state.scan.hash \in Branch[source.tip]
    BY <1>1 DEF BranchChanged, SweepDue, IsCanonical, Canonical
  <2>3. Unmoved => seen = source
    BY <1>1 DEF IInv, Reading
  <2> QED
    BY <1>1, <2>1, <2>2, <2>3 DEF Anchored, Unmoved
<1>6. Paged' /\ Working'
  BY <1>1 DEF Paged, Working
<1> QED
  BY <1>2, <1>3, <1>4, <1>5, <1>6 DEF IInv

LEMMA SkipDiscoverySafe == IInv /\ SkipDiscovery => IInv'
<1> SUFFICES ASSUME IInv, SkipDiscovery PROVE IInv'
  OBVIOUS
<1>1. pc' = "pick" /\ UNCHANGED <<source, disk, state, seen, page, job, faults, runs>>
  BY DEF SkipDiscovery
<1>2. StatesTyped' /\ Sound(disk', runs') /\ Sound(state', runs') /\ Spent'
  BY <1>1 DEF IInv, StatesTyped, Spent
<1>3. PlaceTyped'
  BY <1>1 DEF IInv, PlaceTyped
<1>4. Resting'
  BY <1>1 DEF Resting
<1> QED
  BY <1>2, <1>3, <1>4, RestingFacts DEF IInv

LEMMA CanonicalFacts ==
  ASSUME NEW s \in Sources
  PROVE  /\ Canonical(s) \subseteq Hashes
         /\ \A n : AddressesBelow(s, n) \subseteq Addresses
<1>1. Canonical(s) \subseteq Hashes
  BY BranchParts, NoBranch DEF Canonical, Sources
<1>2. \A b \in Hashes : AddressesOf[b] \subseteq Addresses
  BY WorkerAssumption
<1> QED
  BY <1>1, <1>2 DEF AddressesBelow

LEMMA ReadPageSafe == IInv /\ ReadPage => IInv'
<1> SUFFICES ASSUME IInv, ReadPage PROVE IInv'
  OBVIOUS
<1>1. /\ pc = "discover" /\ pc' = "page" /\ page' = Lowest(Unswept, PageRoom + 1)
      /\ UNCHANGED <<source, disk, state, seen, job, faults, runs>>
  BY DEF ReadPage, Unswept
<1>2. StatesTyped' /\ Sound(disk', runs') /\ Sound(state', runs') /\ Spent'
  BY <1>1 DEF IInv, StatesTyped, Spent
<1>3. Unswept \subseteq Addresses
  BY CanonicalFacts DEF Unswept, IInv, PlaceTyped
<1>4. PlaceTyped'
  <2>1. page' \subseteq Addresses
    BY <1>1, <1>3, LowestDef
  <2> QED
    BY <1>1, <2>1 DEF IInv, PlaceTyped
<1>5. Reading' /\ Anchored'
  BY <1>1 DEF IInv, Reading, Anchored, Unmoved
<1>6. Paged'
  BY <1>1 DEF Paged, Unswept, PageRoom
<1>7. Working'
  BY <1>1 DEF Working
<1> QED
  BY <1>2, <1>4, <1>5, <1>6, <1>7 DEF IInv

\* The published addresses up to the anchor include those of the anchor's history.
LEMMA SweptPublished ==
  ASSUME IInv, pc = "page", Unmoved
  PROVE  \A a \in Swept(state) : a > state.scan.after => a \in Unswept
<1> DEFINE h == state.scan.hash
<1>1. h \in Hashes /\ state.scan.start = source.start /\ h \in Branch[source.tip]
  BY DEF IInv, Anchored
<1>2. source.tip \in Hashes
  BY <1>1, NoBranch DEF IInv, PlaceTyped, Sources
<1>3. Branch[h] \subseteq Branch[source.tip] /\ \A b \in Branch[h] : NumberOf[b] <= NumberOf[h]
  BY <1>1, <1>2, BranchParts
<1> HIDE DEF h
<1>4. \A b \in Branch[h] : NumberOf[b] >= state.scan.start =>
        b \in {c \in Canonical(source) : NumberOf[c] <= NumberOf[h]}
  BY <1>1, <1>3 DEF Canonical
<1>5. Swept(state) \subseteq AddressesBelow(source, NumberOf[h])
  BY <1>4 DEF Swept, AddressesBelow, h
<1> QED
  BY <1>5 DEF Unswept, h

\* What the page takes, and the queue with it.
Taken == Lowest(page, PageRoom)

LEMMA TakenFacts ==
  ASSUME IInv
  PROVE  /\ PageRoom \in Nat /\ PageRoom <= MaxQueue - Cardinality(Queued(state))
         /\ page \in SUBSET Nat /\ Taken \subseteq page /\ Taken \subseteq Addresses
         /\ Taken \in SUBSET Nat /\ IsFiniteSet(Taken)
         /\ Cardinality(Taken) \in Nat /\ Cardinality(Taken) <= PageRoom
<1>1. Cardinality(Queued(state)) \in Nat /\ Cardinality(Queued(state)) <= MaxQueue
  BY QueuedFacts DEF IInv, Sound, Loads
<1>2. PageRoom \in Nat /\ PageRoom <= MaxQueue - Cardinality(Queued(state))
  BY <1>1, WorkerAssumption DEF PageRoom
<1>3. page \subseteq Addresses /\ Addresses \in SUBSET Nat /\ IsFiniteSet(Addresses)
  BY WorkerAssumption DEF IInv, PlaceTyped
<1>4. page \in SUBSET Nat /\ IsFiniteSet(page)
  BY <1>3, FS_Subset
<1>5. /\ Taken \subseteq page /\ IsFiniteSet(Taken) /\ Cardinality(Taken) \in Nat
      /\ Cardinality(Taken) <= PageRoom
  BY <1>2, <1>4, LowestSize DEF Taken
<1> QED
  BY <1>2, <1>3, <1>4, <1>5

\* A page that goes up to one of its elements, or is all there is, takes every address
\* it passes.
LEMMA TakenPasses ==
  ASSUME IInv, pc = "page", Unmoved, NEW a \in Unswept,
         Taken = page \/ \E m \in Taken : a <= m
  PROVE  a \in Taken
<1>1. Unswept \in SUBSET Nat
  BY CanonicalFacts, WorkerAssumption DEF Unswept, IInv, PlaceTyped
<1>2. page = Lowest(Unswept, PageRoom + 1) /\ PageRoom \in Nat /\ PageRoom + 1 \in Nat
  BY TakenFacts DEF IInv, Paged
<1>3. CASE Taken = page
  <2>1. Lowest(Lowest(Unswept, PageRoom + 1), PageRoom) = Lowest(Unswept, PageRoom + 1)
    BY <1>2, <1>3 DEF Taken
  <2>2. page = Unswept
    BY <1>1, <1>2, <2>1, LowestWhole
  <2> QED
    BY <1>3, <2>2
<1>4. ASSUME NEW m \in Taken, a <= m PROVE a \in Taken
  <2>1. m \in Lowest(Unswept, PageRoom + 1)
    BY <1>2, TakenFacts
  <2>2. a \in page
    BY <1>1, <1>2, <1>4, <2>1, LowestPrefix
  <2>3. m \in Lowest(page, PageRoom) /\ page \in SUBSET Nat
    BY TakenFacts DEF Taken
  <2>4. a \in Lowest(page, PageRoom)
    BY <1>2, <1>4, <2>2, <2>3, LowestPrefix
  <2> QED
    BY <2>4 DEF Taken
<1> QED
  BY <1>3, <1>4

LEMMA EnqueueSafe == IInv /\ Enqueue => IInv'
<1> SUFFICES ASSUME IInv, Enqueue PROVE IInv'
  OBVIOUS
<1> DEFINE queue == [a \in Addresses |-> IF a \in Taken \ Queued(state) THEN NewJob
                                         ELSE state.queue[a]]
           after == IF Taken = {} THEN state.scan.after
                    ELSE CHOOSE a \in Taken : \A b \in Taken : b <= a
           exhausted == (Taken = page)
           scan == [state.scan EXCEPT !.after = after, !.exhausted = exhausted]
<1>1. /\ pc = "page" /\ Unmoved
      /\ runs' = [a \in Addresses |-> IF a \in Taken \ Queued(state) THEN 0 ELSE runs[a]]
      /\ SaveAndGo("pick") /\ page' = {} /\ source' = source /\ job' = job
  BY DEF Enqueue, Taken, Unmoved, SourceUnchanged
<1>2. state' = [state EXCEPT !.queue = queue, !.scan.after = after, !.scan.exhausted = exhausted]
  BY DEF Enqueue, Taken
<1>3. PlaceTyped /\ state \in State /\ disk \in State
  BY DEF IInv, StatesTyped
<1>4. after \in Nat
  <2>1. CASE Taken = {}
    BY <1>3, <2>1, StateFields
  <2>2. CASE Taken # {}
    <3>1. \E a \in Taken : \A b \in Taken : b <= a
      BY <2>2, TakenFacts, GreatestNatural
    <3>2. after \in Taken
      BY <2>2, <3>1
    <3> QED
      BY <3>2, TakenFacts
  <2> QED
    BY <2>1, <2>2
<1>5. exhausted \in BOOLEAN
  OBVIOUS
<1>6. queue \in [Addresses -> Job]
  BY <1>3, JobsTyped, StateFields
<1>7. \A m \in Taken : m <= after
  <2>1. CASE Taken # {}
    <3>1. \E a \in Taken : \A b \in Taken : b <= a
      BY <2>1, TakenFacts, GreatestNatural
    <3> QED
      BY <2>1, <3>1
  <2> QED
    BY <2>1
<1>8. (Taken = {} /\ after = state.scan.after) \/ after \in Taken
  <2>1. CASE Taken # {}
    <3>1. \E a \in Taken : \A b \in Taken : b <= a
      BY <2>1, TakenFacts, GreatestNatural
    <3> QED
      BY <2>1, <3>1
  <2> QED
    BY <2>1
<1> HIDE DEF queue, after, exhausted
<1>9. /\ scan \in [hash : Hashes \cup {NoHash}, start : Nat, after : Nat, exhausted : BOOLEAN]
      /\ scan.hash = state.scan.hash /\ scan.start = state.scan.start
      /\ scan.after = after /\ (scan.exhausted <=> exhausted)
  BY <1>3, <1>4, <1>5, StateFields
<1>10. state' = [state EXCEPT !.queue = queue, !.scan = scan]
  BY <1>2, <1>3 DEF State
<1> HIDE DEF scan
<1>11. /\ state' \in State /\ state'.queue = queue /\ state'.scan = scan
       /\ state'.done = state.done
  BY <1>3, <1>6, <1>9, <1>10 DEF State
<1>12. /\ \A a \in Taken \ Queued(state) :
            state'.queue[a] = NewJob /\ runs'[a] = 0
       /\ \A a \in Addresses : a \notin Taken \ Queued(state) =>
            state'.queue[a] = state.queue[a] /\ runs'[a] = runs[a]
  BY <1>1, <1>11, TakenFacts DEF queue
<1>13. Queued(state') = Queued(state) \cup Taken
  <2>1. \A a \in Addresses : a \in Queued(state) <=> state.queue[a].status # "none"
    BY DEF Queued
  <2>2. \A a \in Addresses : a \in Queued(state') <=> state'.queue[a].status # "none"
    BY DEF Queued
  <2>3. ASSUME NEW a \in Addresses PROVE a \in Queued(state') <=> a \in Queued(state) \cup Taken
    <3>1. CASE a \in Taken \ Queued(state)
      BY <1>12, <2>2, <3>1, JobsTyped
    <3>2. CASE a \notin Taken \ Queued(state)
      BY <1>12, <2>1, <2>2, <3>2
    <3> QED
      BY <3>1, <3>2
  <2> QED
    BY <2>3, QueuedFacts, TakenFacts
<1>14. Loads(state')
  <2>1. /\ IsFiniteSet(Queued(state)) /\ Cardinality(Queued(state)) \in Nat
        /\ IsFiniteSet(Queued(state) \cap Taken) /\ Cardinality(Queued(state) \cap Taken) \in Nat
    BY QueuedFacts, FS_Intersection, FS_CardinalityType
  <2>2. Cardinality(Queued(state) \cup Taken) =
          Cardinality(Queued(state)) + Cardinality(Taken) - Cardinality(Queued(state) \cap Taken)
    BY <2>1, TakenFacts, FS_Union
  <2>3. Cardinality(Queued(state) \cup Taken) <= MaxQueue
    BY <2>1, <2>2, TakenFacts, WorkerAssumption
  <2> QED
    BY <1>13, <2>3 DEF Loads
<1>15. Covers(state')
  <2>1. Swept(state') = Swept(state)
    BY <1>9, <1>11 DEF Swept
  <2>2. ASSUME NEW a \in Swept(state), exhausted \/ a <= after
        PROVE  a \in Queued(state) \cup Taken \cup state.done
    <3>1. a \in Nat /\ state.scan.after \in Nat
      BY <1>3, SweptAddresses, StateFields, WorkerAssumption
    <3>2. CASE a <= state.scan.after
      BY <3>2 DEF IInv, Sound, Covers
    <3>3. CASE a > state.scan.after
      <4>1. a \in Unswept
        BY <1>1, <3>3, SweptPublished
      <4>2. Taken = page \/ \E m \in Taken : a <= m
        BY <1>8, <2>2, <3>1, <3>3 DEF exhausted
      <4> QED
        BY <1>1, <4>1, <4>2, TakenPasses
    <3> QED
      BY <3>1, <3>2, <3>3
  <2> QED
    BY <1>9, <1>11, <1>13, <2>1, <2>2 DEF Covers
<1>16. Budgeted(state', runs') /\ Budgeted(disk, runs')
  <2>1. Budgeted(state, runs) /\ Budgeted(disk, runs)
    BY DEF IInv, Sound
  <2>2. \A a \in Addresses : disk.queue[a].attempts \in Nat
    <3>1. \A a \in Addresses : disk.queue[a] \in Job
      BY <1>3, StateFields
    <3> QED
      BY <3>1, WorkerAssumption DEF Job
  <2>3. ASSUME NEW a \in Addresses, a \in Taken \ Queued(state)
        PROVE  /\ state'.queue[a].status = "pending" /\ state'.queue[a].attempts = 0
               /\ runs'[a] = 0 /\ runs'[a] <= disk.queue[a].attempts
    BY <1>12, <2>2, <2>3, JobsTyped
  <2>4. ASSUME NEW a \in Addresses, a \notin Taken \ Queued(state)
        PROVE  state'.queue[a] = state.queue[a] /\ runs'[a] = runs[a]
    BY <1>12, <2>4
  <2>5. Budgeted(disk, runs')
    BY <2>1, <2>3, <2>4 DEF Budgeted
  <2>6. Budgeted(state', runs')
    BY <2>1, <2>3, <2>4 DEF Budgeted
  <2> QED
    BY <2>5, <2>6
<1>17. /\ disk' \in {disk, state'} /\ pc' \in {"pick", "idle"} /\ faults' \in 0 .. MaxFaults
       /\ seen' \in Sources
  BY <1>1, <1>3, SaveFacts
<1>18. StatesTyped' /\ Sound(disk', runs') /\ Sound(state', runs')
  BY <1>11, <1>14, <1>15, <1>16, <1>17, StatesSafe DEF Sound
<1>19. PlaceTyped'
  <2>1. runs' \in [Addresses -> Nat]
    BY <1>1, <1>3 DEF PlaceTyped
  <2> QED
    BY <1>1, <1>3, <1>17, <2>1 DEF PlaceTyped
<1>20. Spent'
  <2>1. \A a \in Addresses : runs'[a] = 0 \/ runs'[a] = runs[a]
    BY <1>1
  <2> QED
    BY <2>1, WorkerAssumption DEF IInv, Spent
<1>21. Resting'
  BY <1>17 DEF Resting
<1> QED
  BY <1>18, <1>19, <1>20, <1>21, RestingFacts DEF IInv

LEMMA SourceMovedSafe == IInv /\ SourceMoved => IInv'
<1> SUFFICES ASSUME IInv, SourceMoved PROVE IInv'
  OBVIOUS
<1>1. /\ SaveAndGo("idle") /\ page' = {} /\ PlaceTyped /\ Budgeted(disk, runs)
      /\ UNCHANGED <<source, state, job, runs>> /\ state \in State /\ Sound(state, runs)
  BY DEF SourceMoved, IInv, StatesTyped, Sound
<1>2. /\ disk' \in {disk, state'} /\ pc' = "idle" /\ faults' \in 0 .. MaxFaults
      /\ seen' \in Sources
  BY <1>1, SaveFacts
<1>3. StatesTyped' /\ Sound(disk', runs') /\ Sound(state', runs')
  BY <1>1, <1>2, StatesSafe
<1>4. PlaceTyped' /\ Spent'
  BY <1>1, <1>2 DEF IInv, PlaceTyped, Spent
<1>5. Resting'
  BY <1>2 DEF Resting
<1> QED
  BY <1>3, <1>4, <1>5, RestingFacts DEF IInv

LEMMA RunSafe ==
  ASSUME IInv, NEW a \in Addresses, Run(a) PROVE IInv'
<1> DEFINE j == [state.queue[a] EXCEPT !.status = "running", !.attempts = @ + 1]
<1>1. /\ a \in Due(state) /\ state' = Started(a) /\ SaveAndGo("job") /\ PlaceTyped
      /\ source' = source /\ page' = page
      /\ IF pc' = "job" THEN job' = a /\ runs' = [runs EXCEPT ![a] = @ + 1]
         ELSE job' = job /\ runs' = runs
  BY DEF Run, IInv
<1>2. state \in State /\ disk \in State /\ Sound(state, runs) /\ Budgeted(state, runs)
      /\ Budgeted(disk, runs) /\ runs \in [Addresses -> Nat]
  BY DEF IInv, StatesTyped, Sound, PlaceTyped
<1>3. state.queue[a].status \in {"pending", "retry"}
  BY <1>1 DEF Due
<1>4. /\ state.queue[a] \in Job /\ state.queue[a].attempts \in Nat
      /\ runs[a] \in Nat /\ runs[a] <= state.queue[a].attempts
      /\ state.queue[a].attempts < MaxAttempts /\ MaxAttempts \in Nat
  <2>1. state.queue[a] \in Job /\ MaxAttempts \in Nat \ {0}
    BY <1>2, StateFields, WorkerAssumption
  <2>2. state.queue[a].attempts \in Nat
    BY <2>1 DEF Job
  <2> QED
    BY <1>2, <1>3, <2>1, <2>2 DEF Budgeted
<1>5. /\ j \in Job /\ j.status = "running" /\ j.attempts = state.queue[a].attempts + 1
  <2>1. state.queue[a].attempts + 1 \in 0 .. MaxAttempts
    BY <1>4
  <2> QED
    BY <1>4, <2>1 DEF Job
<1>6. state' = Put(state, a, j)
  BY <1>1, <1>2, <1>4 DEF Started, Put, State, Job
<1> HIDE DEF j
<1>7. /\ state' \in State /\ state'.queue[a] = j
      /\ state'.scan = state.scan /\ state'.done = state.done /\ Queued(state') = Queued(state)
      /\ \A b \in Addresses \ {a} : state'.queue[b] = state.queue[b]
  BY <1>2, <1>3, <1>5, <1>6, PutFacts
<1>8. /\ disk' \in {disk, state'} /\ pc' \in {"job", "idle"} /\ faults' \in 0 .. MaxFaults
      /\ seen' \in Sources /\ (pc' = "job" => disk' = state')
  <2>1. pc' = "job" => disk' = state'
    BY <1>1 DEF SaveAndGo
  <2> QED
    BY <1>1, <2>1, SaveFacts
<1>9. /\ runs' \in [Addresses -> Nat] /\ \A b \in Addresses \ {a} : runs'[b] = runs[b]
      /\ runs'[a] <= runs[a] + 1 /\ (pc' # "job" => runs' = runs)
  BY <1>1, <1>2
<1>10. Budgeted(state', runs')
  <2>1. runs'[a] <= j.attempts /\ state'.queue[a].status = "running"
    BY <1>4, <1>5, <1>7, <1>9
  <2>2. \A b \in Addresses \ {a} : state'.queue[b] = state.queue[b] /\ runs'[b] = runs[b]
    BY <1>7, <1>9
  <2> QED
    BY <1>2, <1>5, <1>7, <2>1, <2>2 DEF Budgeted
<1>11. Sound(state', runs')
  BY <1>2, <1>7, <1>10, SoundKept
<1>12. StatesTyped' /\ Sound(disk', runs') /\ Sound(state', runs')
  <2>1. CASE pc' = "job"
    BY <1>7, <1>8, <1>11, <2>1 DEF StatesTyped
  <2>2. CASE pc' # "job"
    BY <1>2, <1>7, <1>8, <1>9, <1>11, <2>2, StatesSafe
  <2> QED
    BY <2>1, <2>2
<1>13. PlaceTyped'
  BY <1>1, <1>8, <1>9 DEF PlaceTyped
<1>14. Spent'
  <2>1. runs'[a] <= MaxAttempts
    BY <1>4, <1>9
  <2> QED
    BY <1>9, <2>1 DEF IInv, Spent
<1>15. Reading' /\ Anchored' /\ Paged'
  BY <1>8 DEF Reading, Anchored, Paged
<1>16. Working'
  BY <1>1, <1>5, <1>7 DEF Working
<1> QED
  BY <1>12, <1>13, <1>14, <1>15, <1>16 DEF IInv

LEMMA WaitSafe == IInv /\ Wait => IInv'
<1> SUFFICES ASSUME IInv, Wait PROVE IInv'
  OBVIOUS
<1> DEFINE sweep == IF state.scan.exhausted /\ Active(state) = {} /\ state.sweep = "unset"
                    THEN "waiting" ELSE state.sweep
<1>1. /\ state \in State /\ Sound(state, runs) /\ Budgeted(state, runs) /\ Budgeted(disk, runs)
      /\ PlaceTyped
  BY DEF IInv, StatesTyped, Sound
<1>2. state' = [state EXCEPT !.sweep = sweep] /\ SaveAndGo("idle")
      /\ UNCHANGED <<source, page, job, runs>>
  BY DEF Wait
<1>3. sweep \in {"unset", "waiting", "due"}
  BY <1>1, StateFields
<1> HIDE DEF sweep
<1>4. /\ state' \in State /\ state'.scan = state.scan /\ state'.done = state.done
      /\ state'.queue = state.queue
  BY <1>1, <1>2, <1>3 DEF State
<1>5. Queued(state') = Queued(state) /\ Budgeted(state', runs)
  BY <1>1, <1>4 DEF Queued, Budgeted
<1>6. Sound(state', runs)
  BY <1>1, <1>4, <1>5, SoundKept
<1>7. /\ disk' \in {disk, state'} /\ pc' = "idle" /\ faults' \in 0 .. MaxFaults
      /\ seen' \in Sources
  BY <1>1, <1>2, SaveFacts
<1>8. StatesTyped' /\ Sound(disk', runs') /\ Sound(state', runs')
  BY <1>1, <1>2, <1>4, <1>6, <1>7, StatesSafe
<1>9. PlaceTyped' /\ Spent'
  BY <1>1, <1>2, <1>7 DEF IInv, PlaceTyped, Spent
<1>10. Resting'
  BY <1>7 DEF Resting
<1> QED
  BY <1>8, <1>9, <1>10, RestingFacts DEF IInv

\* The analysis ends: its job is j, and the pass may have analysed it.
LEMMA JobEnds ==
  ASSUME IInv, pc = "job", NEW j \in Job, NEW done \in SUBSET Addresses,
         state' = [Put(state, job, j) EXCEPT !.done = done],
         state.done \subseteq done, j.status = "none" => job \in done,
         j.status # "pending",
         j.status = "retry" => j.attempts < MaxAttempts,
         j.status # "none" => state.queue[job].status # "none" /\ j.attempts = state.queue[job].attempts,
         SaveAndGo("idle"), job' = 0, UNCHANGED <<source, page, runs>>
  PROVE  IInv'
<1> DEFINE t == Put(state, job, j)
<1>1. /\ state \in State /\ Sound(state, runs) /\ Budgeted(state, runs) /\ Budgeted(disk, runs)
      /\ PlaceTyped /\ job \in Addresses
  BY DEF IInv, StatesTyped, Sound, Working
<1>2. /\ t \in State /\ t.queue[job] = j /\ t.scan = state.scan
      /\ \A b \in Addresses \ {job} : t.queue[b] = state.queue[b]
  BY <1>1, PutFacts
<1> HIDE DEF t
<1>3. /\ state' \in State /\ state'.scan = t.scan /\ state'.queue = t.queue /\ state'.done = done
  BY <1>2 DEF State, t
<1>4. \A b \in Addresses : b \in Queued(state') <=> state'.queue[b].status # "none"
  BY DEF Queued
<1>5. \A b \in Addresses : b \in Queued(state) <=> state.queue[b].status # "none"
  BY DEF Queued
<1>6. Queued(state) \subseteq Queued(state') \cup done
  <2>1. ASSUME NEW b \in Queued(state) PROVE b \in Queued(state') \cup done
    <3>1. b \in Addresses
      BY QueuedFacts
    <3>2. CASE b = job
      BY <1>2, <1>3, <1>4, <3>1, <3>2
    <3>3. CASE b # job
      BY <1>2, <1>3, <1>4, <1>5, <3>1, <3>3
    <3> QED
      BY <3>2, <3>3
  <2> QED
    BY <2>1
<1>7. Queued(state') \subseteq Queued(state)
  <2>1. ASSUME NEW b \in Queued(state') PROVE b \in Queued(state)
    <3>1. b \in Addresses
      BY QueuedFacts
    <3>2. CASE b = job
      BY <1>2, <1>3, <1>4, <1>5, <3>1, <3>2
    <3>3. CASE b # job
      BY <1>2, <1>3, <1>4, <1>5, <3>1, <3>3
    <3> QED
      BY <3>2, <3>3
  <2> QED
    BY <2>1
<1>8. Budgeted(state', runs)
  <2>1. j.status # "none" => runs[job] <= j.attempts
    BY <1>1 DEF Budgeted
  <2> QED
    BY <1>1, <1>2, <1>3, <2>1 DEF Budgeted
<1>9. Sound(state', runs)
  BY <1>1, <1>2, <1>3, <1>6, <1>7, <1>8, SoundKept
<1>10. /\ disk' \in {disk, state'} /\ pc' = "idle" /\ faults' \in 0 .. MaxFaults
       /\ seen' \in Sources
  BY <1>1, SaveFacts
<1>11. StatesTyped' /\ Sound(disk', runs') /\ Sound(state', runs')
  BY <1>1, <1>3, <1>9, <1>10, StatesSafe
<1>12. PlaceTyped' /\ Spent'
  BY <1>1, <1>10 DEF IInv, PlaceTyped, Spent
<1>13. Resting'
  BY <1>10 DEF Resting
<1> QED
  BY <1>11, <1>12, <1>13, RestingFacts DEF IInv

LEMMA JobSucceedsSafe == IInv /\ JobSucceeds => IInv'
<1> SUFFICES ASSUME IInv, JobSucceeds PROVE IInv'
  OBVIOUS
<1> DEFINE done == state.done \cup {job}
<1>1. /\ pc = "job" /\ SaveAndGo("idle") /\ job' = 0 /\ UNCHANGED <<source, page, runs>>
      /\ state \in State /\ job \in Addresses
  BY DEF JobSucceeds, IInv, Working, StatesTyped
<1>2. state' = [Put(state, job, NoJob) EXCEPT !.done = done]
  BY <1>1 DEF JobSucceeds, Put, State
<1>3. done \in SUBSET Addresses /\ state.done \subseteq done /\ job \in done
  BY <1>1, StateFields
<1> HIDE DEF done
<1> QED
  BY <1>1, <1>2, <1>3, JobsTyped, JobEnds

LEMMA JobFailsSafe == IInv /\ JobFails => IInv'
<1> SUFFICES ASSUME IInv, JobFails PROVE IInv'
  OBVIOUS
<1> DEFINE j == Ended(state.queue[job], FALSE)
           done == state.done
<1>1. /\ pc = "job" /\ SaveAndGo("idle") /\ job' = 0 /\ UNCHANGED <<source, page, runs>>
      /\ state \in State /\ job \in Addresses /\ state.queue[job] \in Job /\ done \subseteq Addresses
  BY StateFields DEF JobFails, IInv, Working, StatesTyped
<1>2. state' = Put(state, job, j)
  BY DEF JobFails, Put
<1>3. /\ j \in Job /\ j.status \in {"failed", "retry"} /\ j.attempts = state.queue[job].attempts
      /\ (j.status = "retry" => j.attempts < MaxAttempts)
  BY <1>1, EndedFacts
<1> HIDE DEF j
<1>4. Put(state, job, j) \in State /\ Put(state, job, j).done = done
  BY <1>1, <1>3, PutFacts
<1>5. state' = [Put(state, job, j) EXCEPT !.done = done]
  BY <1>2, <1>4 DEF State
<1> HIDE DEF done
<1>6. state.queue[job].status # "none"
  BY <1>1 DEF IInv, Working
<1> QED
  BY <1>1, <1>3, <1>5, <1>6, JobEnds DEF done

LEMMA CycleFailsSafe == IInv /\ CycleFails => IInv'
<1> SUFFICES ASSUME IInv, CycleFails PROVE IInv'
  OBVIOUS
<1>1. /\ disk' \in {disk, state} /\ pc' = "idle" /\ page' = {} /\ job' = 0 /\ seen' = NoSource
      /\ Fault /\ UNCHANGED <<source, state, runs>>
  BY DEF CycleFails
<1>2. StatesTyped' /\ Sound(disk', runs') /\ Sound(state', runs') /\ Spent'
  BY <1>1 DEF IInv, StatesTyped, Spent
<1>3. PlaceTyped'
  <2>1. faults' \in 0 .. MaxFaults
    BY <1>1, WorkerAssumption DEF IInv, PlaceTyped, Fault
  <2> QED
    BY <1>1, <2>1 DEF IInv, PlaceTyped, NoSource, Sources
<1>4. Resting'
  BY <1>1 DEF Resting
<1> QED
  BY <1>2, <1>3, <1>4, RestingFacts DEF IInv

-----------------------------------------------------------------------------
(* The environment *)

LEMMA PublishSafe ==
  ASSUME IInv, NEW h \in Hashes \cup {NoHash}, Publish(h) PROVE IInv'
<1>1. /\ source' = [tip |-> h, revision |-> source.revision + 1,
                    start |-> IF h # NoHash /\ source.tip = NoHash THEN NumberOf[h]
                              ELSE source.start]
      /\ UNCHANGED <<disk, state, pc, seen, page, job, faults, runs>>
  BY DEF Publish
<1>2. StatesTyped' /\ Sound(disk', runs') /\ Sound(state', runs') /\ Spent'
  BY <1>1 DEF IInv, StatesTyped, Spent
<1>3. source.revision \in Nat /\ source.start \in Nat /\ seen.revision \in Nat
  BY DEF IInv, PlaceTyped, Sources
<1>4. source' \in Sources /\ source'.revision = source.revision + 1
  <2>1. h \in Hashes => NumberOf[h] \in Nat
    BY WorkerAssumption
  <2> QED
    BY <1>1, <1>3, <2>1 DEF Sources
<1>5. PlaceTyped'
  BY <1>1, <1>4 DEF IInv, PlaceTyped
<1>6. pc \in {"anchor", "discover", "page"} =>
        seen.tip # NoHash /\ seen.revision <= source'.revision /\ ~Unmoved'
  BY <1>1, <1>3, <1>4 DEF IInv, Reading, Unmoved
<1>7. Reading'
  BY <1>1, <1>6 DEF Reading
<1>8. Anchored' /\ Paged'
  BY <1>1, <1>6 DEF IInv, Anchored, Paged
<1>9. Working'
  BY <1>1 DEF IInv, Working
<1> QED
  BY <1>2, <1>5, <1>7, <1>8, <1>9 DEF IInv

\* Nothing a cycle relies on changes with the flags that time sets.
LEMMA TimeSafe ==
  ASSUME IInv, disk' \in State, state' \in State, Sound(disk', runs), Sound(state', runs),
         state'.scan = state.scan, Queued(state') = Queued(state),
         \A a \in Addresses : state.queue[a].status = "running" =>
           state'.queue[a].status = "running",
         UNCHANGED <<source, pc, seen, page, job, faults, runs>>
  PROVE  IInv'
<1>1. StatesTyped' /\ Sound(disk', runs') /\ Sound(state', runs') /\ Spent'
  BY DEF IInv, StatesTyped, Spent
<1>2. PlaceTyped'
  BY DEF IInv, PlaceTyped
<1>3. Reading' /\ Anchored'
  BY DEF IInv, Reading, Anchored, Unmoved
<1>4. Paged'
  BY DEF IInv, Paged, Unswept, Unmoved, PageRoom
<1>5. Working'
  BY DEF IInv, Working
<1> QED
  BY <1>1, <1>2, <1>3, <1>4, <1>5 DEF IInv

LEMMA DueFacts ==
  ASSUME NEW s \in State, NEW a \in Addresses, Sound(s, runs), s.queue[a].status = "retry"
  PROVE  LET t == [s EXCEPT !.queue[a].due = TRUE]
         IN /\ t \in State /\ Sound(t, runs) /\ t.scan = s.scan /\ Queued(t) = Queued(s)
            /\ \A b \in Addresses : t.queue[b].status = s.queue[b].status
<1> DEFINE j == [s.queue[a] EXCEPT !.due = TRUE]
           t == Put(s, a, j)
<1>1. s.queue[a] \in Job
  BY StateFields
<1>2. j \in Job /\ j.status = "retry" /\ j.attempts = s.queue[a].attempts
  BY <1>1 DEF Job
<1>3. t = [s EXCEPT !.queue[a].due = TRUE]
  BY DEF Put
<1> HIDE DEF j
<1>4. /\ t \in State /\ t.scan = s.scan /\ t.done = s.done /\ t.queue[a] = j
      /\ \A b \in Addresses \ {a} : t.queue[b] = s.queue[b]
      /\ Queued(t) = Queued(s)
  BY <1>2, PutFacts
<1> HIDE DEF t
<1>5. Budgeted(t, runs)
  BY <1>2, <1>4 DEF Sound, Budgeted
<1>6. Sound(t, runs)
  BY <1>4, <1>5, SoundKept
<1>7. \A b \in Addresses : t.queue[b].status = s.queue[b].status
  BY <1>2, <1>4
<1> QED
  BY <1>3, <1>4, <1>6, <1>7

LEMMA JobDueSafe ==
  ASSUME IInv, NEW a \in Addresses, JobDue(a) PROVE IInv'
<1>1. state \in State /\ disk \in State /\ Sound(state, runs) /\ Sound(disk, runs)
  BY DEF IInv, StatesTyped
<1>2. /\ state.queue[a].status = "retry" /\ state' = [state EXCEPT !.queue[a].due = TRUE]
      /\ UNCHANGED <<source, pc, seen, page, job, faults, runs>>
  BY DEF JobDue
<1>3. /\ state' \in State /\ Sound(state', runs) /\ state'.scan = state.scan
      /\ Queued(state') = Queued(state)
      /\ \A b \in Addresses : state'.queue[b].status = state.queue[b].status
  BY <1>1, <1>2, DueFacts
<1>4. disk' \in State /\ Sound(disk', runs)
  <2>1. CASE disk.queue[a].status = "retry"
    <3>1. disk' = [disk EXCEPT !.queue[a].due = TRUE]
      BY <2>1 DEF JobDue
    <3> QED
      BY <1>1, <2>1, <3>1, DueFacts
  <2>2. CASE disk.queue[a].status # "retry"
    BY <1>1, <2>2 DEF JobDue
  <2> QED
    BY <2>1, <2>2
<1> QED
  BY <1>2, <1>3, <1>4, TimeSafe

LEMMA SweepFacts ==
  ASSUME NEW s \in State, Sound(s, runs)
  PROVE  LET t == [s EXCEPT !.sweep = "due"]
         IN /\ t \in State /\ Sound(t, runs) /\ t.scan = s.scan /\ Queued(t) = Queued(s)
            /\ t.queue = s.queue
<1> DEFINE t == [s EXCEPT !.sweep = "due"]
<1>1. /\ t \in State /\ t.scan = s.scan /\ t.done = s.done /\ t.queue = s.queue
  BY DEF State
<1> HIDE DEF t
<1>2. Queued(t) = Queued(s) /\ Budgeted(t, runs)
  BY <1>1 DEF Queued, Sound, Budgeted
<1>3. Sound(t, runs)
  BY <1>1, <1>2, SoundKept
<1> QED
  BY <1>1, <1>2, <1>3 DEF t

LEMMA RefreshDueSafe == IInv /\ RefreshDue => IInv'
<1> SUFFICES ASSUME IInv, RefreshDue PROVE IInv'
  OBVIOUS
<1>1. state \in State /\ disk \in State /\ Sound(state, runs) /\ Sound(disk, runs)
  BY DEF IInv, StatesTyped
<1>2. /\ state' = [state EXCEPT !.sweep = "due"]
      /\ disk' \in {disk, [disk EXCEPT !.sweep = "due"]}
      /\ UNCHANGED <<source, pc, seen, page, job, faults, runs>>
  BY DEF RefreshDue
<1>3. /\ state' \in State /\ Sound(state', runs) /\ state'.scan = state.scan
      /\ Queued(state') = Queued(state) /\ state'.queue = state.queue
  BY <1>1, <1>2, SweepFacts
<1>4. disk' \in State /\ Sound(disk', runs)
  BY <1>1, <1>2, SweepFacts
<1> QED
  BY <1>2, <1>3, <1>4, TimeSafe

-----------------------------------------------------------------------------
(* The theorems *)

LEMMA StutterSafe == IInv /\ UNCHANGED vars => IInv'
<1> SUFFICES ASSUME IInv, UNCHANGED vars PROVE IInv'
  OBVIOUS
<1>1. UNCHANGED <<source, disk, state, pc, seen, page, job, faults, runs>>
  BY DEF vars
<1>2. disk' \in State /\ state' \in State /\ Sound(disk', runs) /\ Sound(state', runs)
  BY <1>1 DEF IInv, StatesTyped
<1> QED
  BY <1>1, <1>2, TimeSafe

LEMMA NextSafe == IInv /\ [Next]_vars => IInv'
<1> SUFFICES ASSUME IInv, [Next]_vars PROVE IInv'
  OBVIOUS
<1>1. ASSUME NEW redefined \in BOOLEAN, Open(redefined) PROVE IInv'
  BY <1>1, OpenSafe
<1>2. ASSUME NEW a \in Addresses, Retry(a) PROVE IInv'
  BY <1>2, RetrySafe
<1>3. ASSUME NEW a \in Addresses, JobDue(a) PROVE IInv'
  BY <1>3, JobDueSafe
<1>4. ASSUME NEW a \in Addresses, Run(a) PROVE IInv'
  BY <1>4, RunSafe
<1>5. ASSUME NEW h \in Hashes \cup {NoHash}, Publish(h) PROVE IInv'
  BY <1>5, PublishSafe
<1>6. CASE Cycle
  <2>1. CASE BeginCycle \/ Resweep \/ BeginSweep \/ ContinueSweep
    BY <2>1, BeginCycleSafe, ResweepSafe, BeginSweepSafe, ContinueSweepSafe
  <2>2. CASE SkipDiscovery \/ ReadPage \/ Enqueue \/ SourceMoved
    BY <2>2, SkipDiscoverySafe, ReadPageSafe, EnqueueSafe, SourceMovedSafe
  <2>3. CASE Wait \/ JobSucceeds \/ JobFails
    BY <2>3, WaitSafe, JobSucceedsSafe, JobFailsSafe
  <2> QED
    BY <1>4, <1>6, <2>1, <2>2, <2>3 DEF Cycle
<1>7. CASE Stop \/ Crash \/ CycleFails \/ RefreshDue
  BY <1>7, StopSafe, CrashSafe, CycleFailsSafe, RefreshDueSafe
<1>8. CASE UNCHANGED vars
  BY <1>8, StutterSafe
<1> QED
  BY <1>1, <1>2, <1>3, <1>5, <1>6, <1>7, <1>8 DEF Next

\* The invariant of the worker: what the file and the memory promise about the pass,
\* and what a cycle may rely on while the ingestion process publishes beside it.
THEOREM InvariantHolds == Spec => []IInv
<1>1. Init => IInv
  BY InitSafe
<1>2. IInv /\ [Next]_vars => IInv'
  BY NextSafe
<1> QED
  BY <1>1, <1>2, PTL DEF Spec

\* Through crashes, failing saves and a chain that moves, the worker's memory and its
\* file pass no address of the anchor's history without a job or an analysis
\* (discover_and_enqueue), and the file can always be loaded again (load).
THEOREM SweepsMissNothing == Spec => []Consistent
<1>1. IInv => Consistent
  <2> SUFFICES ASSUME IInv PROVE Consistent
    OBVIOUS
  <2>1. TypeOK
    BY DEF IInv, StatesTyped, PlaceTyped, Sources, TypeOK
  <2>2. SweepCovers
    <3>1. Covers(disk) /\ Covers(state)
      BY DEF IInv, Sound
    <3> QED
      BY <3>1 DEF SweepCovers, Covers
  <2>3. CheckpointLoads
    BY DEF IInv, Sound, CheckpointLoads
  <2> QED
    BY <2>1, <2>2, <2>3 DEF Consistent
<1> QED
  BY <1>1, InvariantHolds, PTL

\* An attempt is counted and saved before its analysis starts (run_one), so the limit
\* on the attempts bounds the analyses, whenever the worker dies.
THEOREM BudgetHolds == Spec => []BudgetSurvivesCrashes
<1>1. IInv => BudgetSurvivesCrashes
  BY DEF IInv, Spent, BudgetSurvivesCrashes
<1> QED
  BY <1>1, InvariantHolds, PTL
=============================================================================
