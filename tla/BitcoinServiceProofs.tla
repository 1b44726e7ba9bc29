------------------------- MODULE BitcoinServiceProofs -------------------------
(***************************************************************************)
(* Proofs about the Bitcoin service, its backfill and what the analytical  *)
(* node keeps of it, for every set of clients and every chain.             *)
(*                                                                         *)
(* Clusters: the reviews of a cluster are one chain unless a seal landed   *)
(* late.  Analyses: a result the views show is whole, one they no longer   *)
(* show stays hidden, and what an investigation returns fits together.     *)
(* Both: an answer `current` was true at one moment.                       *)
(*                                                                         *)
(* The last parts: a backfill of the old tables never leaves a hole, nor   *)
(* lets ingestion begin over a part; and an investigation the analytical   *)
(* node was asked to keep stays, with a score only as long as all it rests *)
(* on was current at one moment.                                           *)
(***************************************************************************)
EXTENDS BitcoinService, FiniteSetTheorems, SequenceTheorems, TLAPS

-----------------------------------------------------------------------------
(* Clusters: reviews among given runs, on a given source *)

ReviewsIn(rs, s, k) == {r.reviews[k] : r \in {x \in rs : x.source = s /\ x.reviewed = k}}

LatestOf(S) == IF S = {} THEN {NoReview} ELSE {x \in S : \A y \in S : y.revision <= x.revision}

\* Nobody has reviewed the cluster since the run copied its review.
UpToDate(rs, s, r, k) == \E x \in LatestOf(ReviewsIn(rs, s, k)) : x.id = r.reviews[k].id

CurrentIn(rs, s, r) ==
  r \in rs /\ r.source = s /\ \A k \in DOMAIN r.reviews : UpToDate(rs, s, r, k)

Before(S, x) == {y \in S : y # x /\ y.revision <= x.revision}

\* x was decided knowing the latest of the reviews before it.
Follows(S, x) ==
  IF Before(S, x) = {} THEN x.previous = 0
  ELSE \E y \in Before(S, x) : /\ y.id = x.previous
                               /\ \A z \in Before(S, x) : z = y \/ z.revision < y.revision

OneChain(S) ==
  /\ \A x, y \in S : x # y => x.revision # y.revision
  /\ \A x \in S : Follows(S, x)

-----------------------------------------------------------------------------
(* The invariant *)

Places == {"idle", "publish", "capture", "seal count", "compare", "decide", "current", "seal",
           "sealed"}

Kinds == {"none", "publish", "inspect", "review"}

ReviewTables == UNION {[D -> Review] : D \in SUBSET Clusters}

Run == [id : Nat, source : Nat, reviewed : Clusters \cup {None}, reviews : ReviewTables]

Job == [kind : Kinds, run : Run, todo : SUBSET Clusters, source : Nat,
        target : Clusters \cup {None}]

Typed ==
  /\ source \in Nat /\ used \in Nat
  /\ runs \subseteq Run /\ late \subseteq Run
  /\ lock \in Clients \cup {None}
  /\ pc \in [Clients -> Places]
  /\ job \in [Clients -> Job]
  /\ held \in [Clients -> BOOLEAN]

\* A review in a run is the run's own, or a copy from one of the runs rs on its source.
Sourced(rs, r) ==
  /\ r.reviewed # None => r.reviewed \in DOMAIN r.reviews /\ r.reviews[r.reviewed].id = r.id
  /\ \A k \in DOMAIN r.reviews :
       \/ r.reviews[k] = NoReview
       \/ k = r.reviewed
       \/ \E q \in rs : /\ q.reviewed = k /\ q.source = r.source
                        /\ q.id = r.reviews[k].id /\ q.reviews[k] = r.reviews[k]

Numbered(u, s, r) == r.id > 0 /\ r.id <= u /\ r.source <= s

Stored == runs \cup late

\* Run identifiers are given out once.
StoreOK ==
  /\ \A r \in Stored : Numbered(used, source, r) /\ Sourced(runs, r)
  /\ \A r, q \in Stored : r.id = q.id => r = q

Writing(c) == pc[c] \in {"publish", "seal"}

WriterOK(c) ==
  Writing(c) =>
    /\ Numbered(used, source, job[c].run) /\ Sourced(runs, job[c].run)
    /\ \A r \in Stored : r.id # job[c].run.id

WritersDiffer ==
  \A c, d \in Clients : (c # d /\ Writing(c) /\ Writing(d)) => job[c].run.id # job[d].run.id

\* Where a client is, what it works on, and the lock of a reviewer.
PlaceOK(c) ==
  /\ pc[c] \in {"capture", "seal count", "compare", "decide", "current", "sealed"} =>
       job[c].run \in runs
  /\ pc[c] \in {"publish", "compare"} => job[c].todo \subseteq DOMAIN job[c].run.reviews
  /\ pc[c] = "decide" => job[c].kind = "review"
  /\ (pc[c] # "idle" /\ job[c].kind = "review") =>
       lock = c /\ job[c].target \in DOMAIN job[c].run.reviews
  /\ (Writing(c) /\ job[c].run.reviewed # None) => lock = c /\ job[c].todo = {}

\* A run that was not current at any moment since the client took it up has a cluster,
\* among those to compare, that was reviewed again.
Witnessed(c) ==
  /\ pc[c] = "compare" =>
       /\ job[c].run.source = job[c].source
       /\ job[c].run.source = source =>
            held[c] \/ \E k \in job[c].todo : ~UpToDate(runs, source, job[c].run, k)
  /\ pc[c] = "current" => held[c]
  /\ (pc[c] # "idle" /\ CurrentIn(runs, source, job[c].run)) => held[c]

\* As long as no seal landed late, a reviewer has compared the latest review, or has
\* decided knowing it.
Reviewing(c) ==
  /\ /\ pc[c] \in {"compare", "decide"} /\ job[c].kind = "review"
     /\ pc[c] = "compare" => job[c].target \notin job[c].todo
     /\ job[c].run.source = source
     => UpToDate(runs, source, job[c].run, job[c].target)
  /\ (Writing(c) /\ job[c].run.reviewed # None /\ job[c].run.source = source) =>
       \E x \in LatestOf(ReviewsIn(runs, source, job[c].run.reviewed)) :
         /\ x.id = job[c].run.reviews[job[c].run.reviewed].previous
         /\ x.revision < job[c].run.reviews[job[c].run.reviewed].revision

Punctual == runs \cap late = {}

InOrder ==
  /\ \A k \in Clusters : OneChain(ReviewsIn(runs, source, k))
  /\ \A c \in Clients : Reviewing(c)

ClientsOK == \A c \in Clients : WriterOK(c) /\ PlaceOK(c) /\ Witnessed(c)

IInv == Typed /\ StoreOK /\ WritersDiffer /\ ClientsOK /\ (Punctual => InOrder)

-----------------------------------------------------------------------------
(* Reviews and chains *)

LEMMA ReviewsDefs ==
  /\ \A k : ReviewsOf(k) = ReviewsIn(runs, source, k)
  /\ \A k : Latest(k) = LatestOf(ReviewsIn(runs, source, k))
  /\ \A r : IsCurrent(r) <=> CurrentIn(runs, source, r)
<1>1. \A k : ReviewsOf(k) = ReviewsIn(runs, source, k)
  BY DEF ReviewsOf, ReviewsIn, Visible
<1>2. \A k : Latest(k) = LatestOf(ReviewsIn(runs, source, k))
  BY <1>1 DEF Latest, LatestOf
<1>3. \A r : IsCurrent(r) <=> CurrentIn(runs, source, r)
  BY <1>2 DEF IsCurrent, CurrentIn, UpToDate
<1> QED
  BY <1>1, <1>2, <1>3

LEMMA NoReviewTyped == NoReview \in Review /\ NoReview.id = 0 /\ NoReview.previous = 0
                       /\ NoReview.revision = 0
BY DEF NoReview, Review

LEMMA TableFacts ==
  ASSUME NEW r \in Run, NEW k \in DOMAIN r.reviews
  PROVE  r.reviews[k] \in Review /\ k \in Clusters
<1>1. r.reviews \in ReviewTables
  BY DEF Run
<1>2. PICK D \in SUBSET Clusters : r.reviews \in [D -> Review]
  BY <1>1 DEF ReviewTables
<1> QED
  BY <1>2

\* A review that a run of a source made, with the run that made it.
LEMMA ReviewsFacts ==
  ASSUME NEW rs \in SUBSET Run, NEW s, NEW k \in Clusters, NEW x \in ReviewsIn(rs, s, k),
         \A r \in rs : Sourced(rs, r)
  PROVE  /\ x \in Review
         /\ \E q \in rs : q.source = s /\ q.reviewed = k /\ q.reviews[k] = x /\ q.id = x.id
<1>1. PICK q \in rs : q.source = s /\ q.reviewed = k /\ q.reviews[k] = x
  BY DEF ReviewsIn
<1>2. k \in DOMAIN q.reviews /\ q.reviews[k].id = q.id
  BY <1>1, ReviewsAssumption DEF Sourced
<1>3. x \in Review
  BY <1>1, <1>2, TableFacts
<1> QED
  BY <1>1, <1>2, <1>3

LEMMA LatestFacts ==
  ASSUME NEW S \in SUBSET Review, NEW x \in LatestOf(S)
  PROVE  /\ x \in Review
         /\ \/ S = {} /\ x = NoReview
            \/ x \in S /\ \A y \in S : y.revision <= x.revision
BY NoReviewTyped DEF LatestOf

\* More reviews make a run that was reviewed again no better.
LEMMA StaysReviewed ==
  ASSUME NEW rs \in SUBSET Run, NEW more \in SUBSET Run, rs \subseteq more, NEW s,
         \A q \in more : q.id > 0 /\ Sourced(more, q),
         \A q, p \in more : q.id = p.id => q = p,
         NEW r \in rs, r.source = s, Sourced(rs, r), NEW k \in DOMAIN r.reviews,
         UpToDate(more, s, r, k)
  PROVE  UpToDate(rs, s, r, k)
<1> DEFINE S == ReviewsIn(rs, s, k)
           T == ReviewsIn(more, s, k)
<1>1. k \in Clusters
  BY TableFacts
<1>2. S \subseteq T
  BY DEF ReviewsIn
<1>3. \A x \in T : /\ x \in Review
                   /\ \E q \in more : /\ q.source = s /\ q.reviewed = k /\ q.reviews[k] = x
                                      /\ q.id = x.id
  BY <1>1, ReviewsFacts
<1>4. PICK x \in LatestOf(T) : x.id = r.reviews[k].id
  BY DEF UpToDate
<1>5. \/ T = {} /\ x = NoReview
      \/ x \in T /\ \A y \in T : y.revision <= x.revision
  BY DEF LatestOf
<1>6. CASE T = {} /\ x = NoReview
  <2>1. S = {}
    BY <1>2, <1>6
  <2> QED
    BY <1>4, <1>6, <2>1 DEF UpToDate, LatestOf
<1>7. CASE x \in T /\ \A y \in T : y.revision <= x.revision
  <2>1. PICK q \in more : q.source = s /\ q.reviewed = k /\ q.reviews[k] = x /\ q.id = x.id
    BY <1>3, <1>7
  <2>2. r.reviews[k] # NoReview
    BY <1>4, <2>1, NoReviewTyped
  <2>3. \E p \in rs : /\ p.source = s /\ p.reviewed = k /\ p.id = r.reviews[k].id
    BY <1>1, <2>2, ReviewsAssumption DEF Sourced
  <2>4. q \in rs
    BY <1>4, <2>1, <2>3
  <2>5. x \in S
    BY <2>1, <2>4 DEF ReviewsIn
  <2>6. x \in LatestOf(S)
    BY <1>2, <1>7, <2>5 DEF LatestOf
  <2> QED
    BY <1>4, <2>6 DEF UpToDate
<1> QED
  BY <1>5, <1>6, <1>7

\* One more run adds at most its own review.
LEMMA ReviewsGrow ==
  ASSUME NEW rs, NEW r, NEW s, NEW k
  PROVE  ReviewsIn(rs \cup {r}, s, k) =
           IF r.source = s /\ r.reviewed = k THEN ReviewsIn(rs, s, k) \cup {r.reviews[k]}
           ELSE ReviewsIn(rs, s, k)
BY DEF ReviewsIn

\* A decision that knows the latest review prolongs the chain.
LEMMA ChainGrows ==
  ASSUME NEW S \in SUBSET Review, OneChain(S), NEW y \in Review, NEW x \in LatestOf(S),
         x.id = y.previous, x.revision < y.revision
  PROVE  OneChain(S \cup {y})
<1> DEFINE T == S \cup {y}
<1>1. \A z \in S : z.revision \in Nat /\ z.revision < y.revision
  <2>1. x \in Review /\ y.revision \in Nat /\ \A z \in S : z.revision \in Nat
    BY LatestFacts DEF Review
  <2>2. x.revision \in Nat
    BY <2>1 DEF Review
  <2>3. \A z \in S : z.revision <= x.revision
    BY LatestFacts
  <2> QED
    BY <2>1, <2>2, <2>3
<1>2. y \notin S /\ y.revision \in Nat
  BY <1>1 DEF Review
<1>3. Before(T, y) = S
  BY <1>1, <1>2 DEF Before
<1>4. \A z \in S : Before(T, z) = Before(S, z)
  BY <1>1, <1>2 DEF Before
<1>5. \A z \in T, w \in T : z # w => z.revision # w.revision
  BY <1>1, <1>2 DEF OneChain
<1>6. Follows(T, y)
  <2>1. CASE S = {}
    <3>1. x = NoReview
      BY <2>1, LatestFacts
    <3> QED
      BY <1>3, <2>1, <3>1, NoReviewTyped DEF Follows
  <2>2. CASE S # {}
    <3>1. x \in S /\ \A z \in S : z.revision <= x.revision
      BY <2>2, LatestFacts
    <3>2. \A z \in S : z = x \/ z.revision < x.revision
      BY <1>1, <1>5, <3>1
    <3> QED
      BY <1>3, <2>2, <3>1, <3>2 DEF Follows
  <2> QED
    BY <2>1, <2>2
<1>7. \A z \in S : Follows(T, z)
  BY <1>4 DEF OneChain, Follows
<1> QED
  BY <1>5, <1>6, <1>7 DEF OneChain

-----------------------------------------------------------------------------
(* What a step keeps *)

LEMMA HeldStep ==
  ASSUME Typed, Next
  PROVE  /\ held' \in [Clients -> BOOLEAN]
         /\ \A c \in Clients :
              /\ (pc'[c] # "idle" /\ CurrentIn(runs', source', job'[c].run)) => held'[c]
              /\ /\ pc[c] # "idle" /\ pc'[c] # "idle" /\ held[c]
                 /\ job'[c].run.id = job[c].run.id
                 => held'[c]
<1>1. held' = [c \in Clients |-> TargetCurrent(c)' \/ (held[c] /\ Keeps(c))]
  BY DEF Next
<1>2. \A c \in Clients :
        TargetCurrent(c)' <=> pc'[c] # "idle" /\ CurrentIn(runs', source', job'[c].run)
  BY DEF TargetCurrent, IsCurrent, Latest, ReviewsOf, Visible, CurrentIn, UpToDate, LatestOf,
         ReviewsIn
<1>3. \A c \in Clients :
        (pc[c] # "idle" /\ pc'[c] # "idle" /\ job'[c].run.id = job[c].run.id) => Keeps(c)
  BY DEF Keeps
<1> QED
  BY <1>1, <1>2, <1>3

\* What the invariant says of one client.
LEMMA ClientFacts ==
  ASSUME IInv, NEW c \in Clients
  PROVE  /\ Typed /\ StoreOK /\ WriterOK(c) /\ PlaceOK(c) /\ Witnessed(c)
         /\ pc[c] \in Places /\ job[c] \in Job /\ job[c].run \in Run /\ job[c].kind \in Kinds
         /\ job[c].todo \subseteq Clusters /\ job[c].source \in Nat
         /\ job[c].target \in Clusters \cup {None}
         /\ DOMAIN job[c].run.reviews \subseteq Clusters
<1>1. Typed /\ StoreOK /\ WriterOK(c) /\ PlaceOK(c) /\ Witnessed(c)
  BY DEF IInv, ClientsOK
<1>2. pc[c] \in Places /\ job[c] \in Job
  BY <1>1 DEF Typed
<1>3. /\ job[c].run \in Run /\ job[c].kind \in Kinds /\ job[c].todo \subseteq Clusters
      /\ job[c].source \in Nat /\ job[c].target \in Clusters \cup {None}
  BY <1>2 DEF Job
<1> QED
  BY <1>1, <1>2, <1>3, TableFacts

LEMMA SourcedGrows ==
  ASSUME NEW rs, NEW more, rs \subseteq more, NEW r, Sourced(rs, r)
  PROVE  Sourced(more, r)
BY DEF Sourced

\* The others keep what they hold, whatever one client inserts or the chain does.
LEMMA OtherStays ==
  ASSUME IInv, Next, NEW d \in Clients, Typed', StoreOK',
         pc'[d] = pc[d], job'[d] = job[d], lock = d => lock' = d,
         runs \subseteq runs', source <= source', used <= used',
         \A r \in Stored' : r \in Stored \/ (Writing(d) => r.id # job[d].run.id)
  PROVE  WriterOK(d)' /\ PlaceOK(d)' /\ Witnessed(d)'
<1>1. /\ Typed /\ StoreOK /\ WriterOK(d) /\ PlaceOK(d) /\ Witnessed(d)
      /\ job[d].run \in Run
  BY ClientFacts
<1>2. source \in Nat /\ used \in Nat /\ source' \in Nat /\ used' \in Nat
  BY <1>1 DEF Typed
<1>3. job[d].run.source \in Nat /\ job[d].run.id \in Nat
  BY <1>1 DEF Run
<1>4. WriterOK(d)'
  <2> SUFFICES ASSUME Writing(d)
               PROVE  /\ Numbered(used', source', job[d].run) /\ Sourced(runs', job[d].run)
                      /\ \A r \in Stored' : r.id # job[d].run.id
    BY DEF WriterOK, Writing
  <2>1. /\ Numbered(used, source, job[d].run) /\ Sourced(runs, job[d].run)
        /\ \A r \in Stored : r.id # job[d].run.id
    BY <1>1 DEF WriterOK
  <2>2. Numbered(used', source', job[d].run)
    BY <1>2, <1>3, <2>1 DEF Numbered
  <2> QED
    BY <2>1, <2>2, SourcedGrows
<1>5. PlaceOK(d)'
  BY <1>1 DEF PlaceOK, Writing
<1>6. Witnessed(d)'
  <2>1. /\ (pc'[d] # "idle" /\ CurrentIn(runs', source', job'[d].run)) => held'[d]
        /\ (pc[d] # "idle" /\ held[d]) => held'[d]
    BY <1>1, HeldStep
  <2>2. pc[d] = "current" => held'[d]
    BY <1>1, <2>1 DEF Witnessed
  <2>3. ASSUME pc[d] = "compare", job[d].run.source = source'
        PROVE  held'[d] \/ \E k \in job[d].todo : ~UpToDate(runs', source', job[d].run, k)
    <3>1. job[d].run \in runs /\ job[d].todo \subseteq DOMAIN job[d].run.reviews
      BY <1>1, <2>3 DEF PlaceOK
    <3>2. /\ job[d].run.source <= source
          /\ Sourced(runs, job[d].run)
      BY <1>1, <3>1 DEF StoreOK, Stored, Numbered
    <3>3. source' = source
      BY <1>2, <2>3, <3>2
    <3>4. CASE held[d]
      BY <2>1, <2>3, <3>4
    <3>5. ASSUME NEW k \in job[d].todo, ~UpToDate(runs, source, job[d].run, k)
          PROVE  ~UpToDate(runs', source', job[d].run, k)
      <4>1. runs \in SUBSET Run /\ runs' \in SUBSET Run
        BY <1>1 DEF Typed
      <4>2. /\ \A q \in runs' : q.id > 0 /\ Sourced(runs', q)
            /\ \A q, p \in runs' : q.id = p.id => q = p
        BY DEF StoreOK, Stored, Numbered
      <4>3. k \in DOMAIN job[d].run.reviews /\ job[d].run.source = source
        BY <2>3, <3>1, <3>3, <3>5
      <4> QED
        BY <3>1, <3>2, <3>3, <3>5, <4>1, <4>2, <4>3, StaysReviewed
    <3> QED
      BY <1>1, <2>3, <3>3, <3>4, <3>5 DEF Witnessed
  <2>4. pc[d] = "compare" => job[d].run.source = job[d].source
    BY <1>1 DEF Witnessed
  <2> QED
    BY <2>1, <2>2, <2>3, <2>4 DEF Witnessed
<1> QED
  BY <1>4, <1>5, <1>6

\* A reviewer's comparison stays true while it holds the lock.
LEMMA ReviewerStays ==
  ASSUME IInv, NEW d \in Clients, Reviewing(d),
         pc'[d] = pc[d], job'[d] = job[d], source' \in Nat, source <= source',
         source' = source /\ lock = d =>
           \A k \in Clusters : ReviewsIn(runs', source, k) = ReviewsIn(runs, source, k)
  PROVE  Reviewing(d)'
<1> DEFINE r == job[d].run
<1>1. /\ Typed /\ StoreOK /\ WriterOK(d) /\ PlaceOK(d) /\ r \in Run
      /\ DOMAIN r.reviews \subseteq Clusters
  BY ClientFacts
<1>2. source \in Nat /\ r.source \in Nat /\ r.reviewed \in Clusters \cup {None}
  BY <1>1 DEF Typed, Run
<1>3. ASSUME pc[d] \in {"compare", "decide"}, job[d].kind = "review",
             pc[d] = "compare" => job[d].target \notin job[d].todo, r.source = source'
      PROVE  UpToDate(runs', source', r, job[d].target)
  <2>1. r \in runs /\ lock = d /\ job[d].target \in Clusters
    BY <1>1, <1>3 DEF PlaceOK
  <2>2. r.source <= source
    BY <1>1, <2>1 DEF StoreOK, Stored, Numbered
  <2>3. source' = source
    BY <1>2, <1>3, <2>2
  <2>4. UpToDate(runs, source, r, job[d].target)
    BY <1>3, <2>3 DEF Reviewing
  <2> QED
    BY <2>1, <2>3, <2>4 DEF UpToDate
<1>4. ASSUME Writing(d), r.reviewed # None, r.source = source'
      PROVE  \E x \in LatestOf(ReviewsIn(runs', source', r.reviewed)) :
               /\ x.id = r.reviews[r.reviewed].previous
               /\ x.revision < r.reviews[r.reviewed].revision
  <2>1. lock = d /\ r.reviewed \in Clusters
    BY <1>1, <1>2, <1>4 DEF PlaceOK
  <2>2. r.source <= source
    BY <1>1, <1>4 DEF WriterOK, Numbered
  <2>3. source' = source
    BY <1>2, <1>4, <2>2
  <2> QED
    BY <1>4, <2>1, <2>3 DEF Reviewing
<1> QED
  BY <1>3, <1>4 DEF Reviewing, Writing

-----------------------------------------------------------------------------
(* A step of one client *)

Alone(c) ==
  \A d \in Clients \ {c} : pc'[d] = pc[d] /\ job'[d] = job[d] /\ (lock = d => lock' = d)

LEMMA StepOK ==
  ASSUME IInv, Next, NEW c \in Clients, Alone(c), Typed', StoreOK',
         source' = source, runs \subseteq runs', late \subseteq late', used <= used',
         \A r \in Stored' : r \in Stored \/ (Writing(c) /\ r = job[c].run),
         Writing(c)' => \/ Writing(c) /\ job'[c].run.id = job[c].run.id
                        \/ job'[c].run.id > used,
         WriterOK(c)' /\ PlaceOK(c)' /\ Witnessed(c)',
         Punctual /\ InOrder /\ Punctual' =>
           /\ Reviewing(c)'
           /\ \A k \in Clusters :
                /\ OneChain(ReviewsIn(runs', source, k))
                /\ lock # c => ReviewsIn(runs', source, k) = ReviewsIn(runs, source, k)
  PROVE  IInv'
<1>1. Typed /\ source \in Nat /\ used \in Nat
  BY DEF IInv, Typed
<1>2. \A d \in Clients : Writing(d) => job[d].run.id \in Nat /\ job[d].run.id <= used
  <2>1. ASSUME NEW d \in Clients, Writing(d) PROVE job[d].run.id \in Nat /\ job[d].run.id <= used
    BY <2>1, ClientFacts DEF WriterOK, Numbered, Run
  <2> QED
    BY <2>1
<1>3. WritersDiffer
  BY DEF IInv
<1>4. ASSUME NEW d \in Clients \ {c} PROVE WriterOK(d)' /\ PlaceOK(d)' /\ Witnessed(d)'
  <2>1. pc'[d] = pc[d] /\ job'[d] = job[d] /\ (lock = d => lock' = d)
    BY DEF Alone
  <2>2. \A r \in Stored' : r \in Stored \/ (Writing(d) => r.id # job[d].run.id)
    BY <1>3 DEF WritersDiffer
  <2> QED
    BY <1>1, <2>1, <2>2, OtherStays
<1>5. ClientsOK'
  BY <1>4 DEF ClientsOK
<1>6. WritersDiffer'
  <2>1. ASSUME NEW d \in Clients \ {c}, Writing(c)', Writing(d)
        PROVE  job'[c].run.id # job[d].run.id
    <3>1. job[d].run.id \in Nat /\ job[d].run.id <= used
      BY <1>2, <2>1
    <3>2. CASE Writing(c) /\ job'[c].run.id = job[c].run.id
      BY <1>3, <2>1, <3>2 DEF WritersDiffer
    <3>3. CASE job'[c].run.id > used
      BY <1>1, <3>1, <3>3
    <3> QED
      BY <2>1, <3>2, <3>3
  <2>2. \A d \in Clients \ {c} : (Writing(d)' <=> Writing(d)) /\ job'[d] = job[d]
    BY DEF Alone, Writing
  <2> QED
    BY <1>3, <2>1, <2>2 DEF WritersDiffer
<1>7. ASSUME Punctual' PROVE InOrder'
  <2>1. Punctual /\ InOrder
    BY <1>7 DEF Punctual, IInv
  <2>2. /\ Reviewing(c)'
        /\ \A k \in Clusters :
             /\ OneChain(ReviewsIn(runs', source, k))
             /\ lock # c => ReviewsIn(runs', source, k) = ReviewsIn(runs, source, k)
    BY <1>7, <2>1
  <2>3. ASSUME NEW d \in Clients \ {c} PROVE Reviewing(d)'
    <3>1. pc'[d] = pc[d] /\ job'[d] = job[d] /\ Reviewing(d)
      BY <2>1 DEF Alone, InOrder
    <3>2. source' \in Nat /\ source <= source'
      BY <1>1
    <3>3. lock = d => \A k \in Clusters : ReviewsIn(runs', source, k) = ReviewsIn(runs, source, k)
      BY <2>2
    <3> QED
      BY <3>1, <3>2, <3>3, ReviewerStays
  <2> QED
    BY <2>2, <2>3 DEF InOrder
<1> QED
  BY <1>5, <1>6, <1>7 DEF IInv

\* Nothing but the client moves.
LEMMA QuietStep ==
  ASSUME IInv, Next, NEW c \in Clients, Alone(c), UNCHANGED <<source, runs, late, used>>,
         pc' \in [Clients -> Places], job' \in [Clients -> Job], lock' \in Clients \cup {None},
         Writing(c)' => Writing(c) /\ job'[c].run.id = job[c].run.id,
         WriterOK(c)' /\ PlaceOK(c)' /\ Witnessed(c)',
         Reviewing(c) => Reviewing(c)'
  PROVE  IInv'
<1>1. Typed /\ StoreOK
  BY DEF IInv
<1>2. Typed'
  BY <1>1, HeldStep DEF Typed
<1>3. StoreOK' /\ Stored' = Stored
  BY <1>1 DEF StoreOK, Stored
<1>4. used <= used'
  BY <1>1 DEF Typed
<1>5. Punctual /\ InOrder /\ Punctual' =>
        /\ Reviewing(c)'
        /\ \A k \in Clusters :
             /\ OneChain(ReviewsIn(runs', source, k))
             /\ lock # c => ReviewsIn(runs', source, k) = ReviewsIn(runs, source, k)
  BY DEF InOrder
<1> QED
  BY <1>2, <1>3, <1>4, <1>5, StepOK

LEMMA NoJobTyped == NoJob \in Job /\ NoJob.kind = "none"
<1>1. EmptyRun \in Run
  <2>1. [k \in {} |-> NoReview] \in [{} -> Review] /\ {} \in SUBSET Clusters
    OBVIOUS
  <2>2. [k \in {} |-> NoReview] \in ReviewTables
    BY <2>1 DEF ReviewTables
  <2> QED
    BY <2>2 DEF EmptyRun, Run
<1> QED
  BY <1>1 DEF NoJob, Job, Kinds

\* One client goes to a place, with a job.
LEMMA Turn ==
  ASSUME Typed, NEW c \in Clients, NEW p \in Places, NEW j \in Job,
         pc' = [pc EXCEPT ![c] = p], job' = [job EXCEPT ![c] = j],
         lock' = lock \/ lock \in {c, None}
  PROVE  /\ pc' \in [Clients -> Places] /\ job' \in [Clients -> Job]
         /\ pc'[c] = p /\ job'[c] = j /\ Alone(c)
<1>1. /\ pc' \in [Clients -> Places] /\ job' \in [Clients -> Job]
      /\ pc'[c] = p /\ job'[c] = j
  BY DEF Typed
<1>2. ASSUME NEW d \in Clients \ {c} PROVE pc'[d] = pc[d] /\ job'[d] = job[d] /\ (lock = d => lock' = d)
  BY ReviewsAssumption DEF Typed
<1> QED
  BY <1>1, <1>2 DEF Alone

LEMMA LeaveFacts ==
  ASSUME Typed, NEW c \in Clients, Leave(c)
  PROVE  /\ pc' \in [Clients -> Places] /\ job' \in [Clients -> Job]
         /\ lock' \in Clients \cup {None}
         /\ pc'[c] = "idle" /\ Alone(c)
         /\ ~Writing(c)' /\ WriterOK(c)' /\ PlaceOK(c)' /\ Witnessed(c)' /\ Reviewing(c)'
<1>1. /\ pc' = [pc EXCEPT ![c] = "idle"] /\ job' = [job EXCEPT ![c] = NoJob]
      /\ lock' = IF lock = c THEN None ELSE lock
  BY DEF Leave, Goto
<1>2. "idle" \in Places /\ NoJob \in Job /\ (lock' = lock \/ lock \in {c, None})
  BY <1>1, NoJobTyped DEF Places
<1>3. /\ pc' \in [Clients -> Places] /\ job' \in [Clients -> Job]
      /\ pc'[c] = "idle" /\ Alone(c)
  BY <1>1, <1>2, Turn
<1>4. lock' \in Clients \cup {None}
  BY <1>1 DEF Typed
<1>5. ~Writing(c)' /\ WriterOK(c)' /\ PlaceOK(c)' /\ Witnessed(c)' /\ Reviewing(c)'
  BY <1>3 DEF Writing, WriterOK, PlaceOK, Witnessed, Reviewing
<1> QED
  BY <1>3, <1>4, <1>5

LEMMA LeaveStep ==
  ASSUME IInv, Next, NEW c \in Clients, Leave(c), UNCHANGED <<source, runs, late, used>>
  PROVE  IInv'
BY ClientFacts, LeaveFacts, QuietStep

\* What an entry into the comparison owes: either the run is current at that moment,
\* or a cluster is among those to compare that was reviewed again.
LEMMA BeginCompare ==
  ASSUME IInv, Next, NEW c \in Clients, UNCHANGED <<source, runs, late, used, lock>>,
         Goto(c, "compare"), NEW j \in Job, job' = [job EXCEPT ![c] = j],
         j.run = job[c].run, j.kind = job[c].kind, j.target = job[c].target,
         j.todo = DOMAIN j.run.reviews, j.source = j.run.source,
         job[c].run \in runs, pc[c] # "idle"
  PROVE  IInv'
<1>1. Typed /\ PlaceOK(c)
  BY ClientFacts
<1>2. /\ pc' \in [Clients -> Places] /\ job' \in [Clients -> Job]
      /\ pc'[c] = "compare" /\ job'[c] = j /\ Alone(c)
  BY <1>1, Turn DEF Goto, Places
<1>3. lock' \in Clients \cup {None}
  BY <1>1 DEF Typed
<1>4. ~Writing(c)' /\ WriterOK(c)'
  BY <1>2 DEF Writing, WriterOK
<1>5. PlaceOK(c)'
  BY <1>1, <1>2, <1>4 DEF PlaceOK
<1>6. Witnessed(c)'
  <2>1. CurrentIn(runs', source', job'[c].run) => held'[c]
    BY <1>1, <1>2, HeldStep
  <2>2. held'[c] \/ job'[c].run.source # source'
          \/ \E k \in job'[c].todo : ~UpToDate(runs', source', job'[c].run, k)
    BY <1>2, <2>1 DEF CurrentIn
  <2> QED
    BY <1>2, <2>1, <2>2 DEF Witnessed
<1>7. Reviewing(c)'
  <2>1. job'[c].kind = "review" => job'[c].target \in job'[c].todo
    BY <1>1, <1>2 DEF PlaceOK
  <2> QED
    BY <1>2, <1>4, <2>1 DEF Reviewing
<1> QED
  BY <1>2, <1>3, <1>4, <1>5, <1>6, <1>7, QuietStep

-----------------------------------------------------------------------------
(* Steps that insert nothing *)

\* A copy of the latest review comes from a run on the same source.
LEMMA LookupStep ==
  ASSUME IInv, Next, NEW c \in Clients, NEW k \in Clusters, Lookup(c, k) PROVE IInv'
<1>1. PICK x \in Latest(k) :
        /\ pc[c] = "publish" /\ k \in job[c].todo
        /\ job' = [job EXCEPT ![c].todo = @ \ {k},
                              ![c].run.reviews[k] = IF Visible(job[c].run) THEN x ELSE NoReview]
        /\ UNCHANGED <<source, runs, late, used, lock, pc>>
  BY DEF Lookup
<1>2. /\ Typed /\ StoreOK /\ WriterOK(c) /\ PlaceOK(c) /\ Writing(c)
      /\ job[c] \in Job /\ job[c].run \in Run
  BY <1>1, ClientFacts DEF Writing
<1>3. job[c].run.reviewed = None /\ job[c].todo \subseteq DOMAIN job[c].run.reviews
  BY <1>1, <1>2 DEF PlaceOK
<1>4. x \in LatestOf(ReviewsIn(runs, source, k)) /\ runs \in SUBSET Run
  BY <1>2, ReviewsDefs DEF Typed
<1>5. /\ x \in Review
      /\ \/ x = NoReview
         \/ \E q \in runs : q.source = source /\ q.reviewed = k /\ q.reviews[k] = x /\ q.id = x.id
  <2>1. \A r \in runs : Sourced(runs, r)
    BY <1>2 DEF StoreOK, Stored
  <2> QED
    BY <1>4, <2>1, ReviewsFacts, NoReviewTyped DEF LatestOf
<1> DEFINE copy == IF job[c].run.source = source THEN x ELSE NoReview
           table == [job[c].run.reviews EXCEPT ![k] = copy]
           run == [job[c].run EXCEPT !.reviews = table]
           j == [job[c] EXCEPT !.todo = @ \ {k}, !.run = run]
<1>6. copy \in Review
  BY <1>5, NoReviewTyped
<1>7. table \in ReviewTables /\ DOMAIN table = DOMAIN job[c].run.reviews /\ table[k] = copy
      /\ \A i \in DOMAIN table \ {k} : table[i] = job[c].run.reviews[i]
  <2>1. PICK D \in SUBSET Clusters : job[c].run.reviews \in [D -> Review]
    BY <1>2 DEF Run, ReviewTables
  <2> HIDE DEF copy
  <2>2. table \in [D -> Review]
    BY <1>6, <2>1
  <2> QED
    BY <1>1, <1>3, <2>1, <2>2 DEF ReviewTables
<1>8. /\ run \in Run /\ run.id = job[c].run.id /\ run.source = job[c].run.source
      /\ run.reviewed = None /\ run.reviews = table
  <2> HIDE DEF table
  <2> QED
    BY <1>2, <1>3, <1>7 DEF Run
<1>9. /\ j \in Job /\ j.run = run /\ j.todo = job[c].todo \ {k} /\ j.kind = job[c].kind
      /\ j.target = job[c].target
  <2> HIDE DEF run
  <2> QED
    BY <1>2, <1>8 DEF Job
<1>10. job' = [job EXCEPT ![c] = j]
  BY <1>1, <1>2 DEF Typed, Visible, Job, Run
<1>11. pc' = [pc EXCEPT ![c] = "publish"]
  BY <1>1, <1>2 DEF Typed
<1> HIDE DEF copy, table, run, j
<1>12. /\ pc' \in [Clients -> Places] /\ job' \in [Clients -> Job]
       /\ pc'[c] = "publish" /\ job'[c] = j /\ Alone(c)
  BY <1>1, <1>2, <1>9, <1>10, <1>11, Turn DEF Places
<1>13. Sourced(runs, run)
  <2>1. ASSUME NEW i \in DOMAIN table, i # k
        PROVE  \/ table[i] = NoReview
               \/ \E q \in runs : /\ q.reviewed = i /\ q.source = run.source
                                  /\ q.id = table[i].id /\ q.reviews[i] = table[i]
    <3>1. i \in Clusters /\ i # None
      BY <1>2, <1>7, <2>1, TableFacts, ReviewsAssumption
    <3> QED
      BY <1>2, <1>3, <1>7, <1>8, <2>1, <3>1 DEF WriterOK, Sourced
  <2>2. \/ table[k] = NoReview
        \/ \E q \in runs : /\ q.reviewed = k /\ q.source = run.source
                           /\ q.id = table[k].id /\ q.reviews[k] = table[k]
    BY <1>5, <1>7, <1>8 DEF copy
  <2> QED
    BY <1>8, <2>1, <2>2 DEF Sourced
<1>14. WriterOK(c)' /\ Writing(c)' /\ job'[c].run.id = job[c].run.id
  <2>1. Stored' = Stored
    BY <1>1 DEF Stored
  <2> QED
    BY <1>1, <1>2, <1>8, <1>9, <1>12, <1>13, <2>1 DEF WriterOK, Writing, Numbered
<1>15. PlaceOK(c)'
  <2>1. j.todo \subseteq DOMAIN j.run.reviews
    BY <1>3, <1>7, <1>8, <1>9
  <2>2. job[c].kind = "review" => lock = c /\ job[c].target \in DOMAIN table
    BY <1>1, <1>2, <1>7 DEF PlaceOK
  <2> QED
    BY <1>1, <1>8, <1>9, <1>12, <2>1, <2>2 DEF PlaceOK
<1>16. Witnessed(c)' /\ Reviewing(c)'
  BY <1>2, <1>8, <1>9, <1>12, HeldStep DEF Witnessed, Reviewing
<1>17. lock' \in Clients \cup {None}
  BY <1>1, <1>2 DEF Typed
<1> QED
  BY <1>1, <1>2, <1>12, <1>14, <1>15, <1>16, <1>17, QuietStep

\* A client that only reads a run that is sealed.
LEMMA ReadStep ==
  ASSUME IInv, Next, NEW c \in Clients, UNCHANGED <<source, runs, late, used>>,
         pc' = [pc EXCEPT ![c] = "capture"] \/ pc' = [pc EXCEPT ![c] = "seal count"],
         NEW j \in Job, job' = [job EXCEPT ![c] = j], j.run \in runs,
         lock' \in Clients \cup {None}, lock' = lock \/ lock \in {c, None},
         j.kind = "review" => lock' = c /\ j.target \in DOMAIN j.run.reviews
  PROVE  IInv'
<1>1. PICK p \in {"capture", "seal count"} : pc' = [pc EXCEPT ![c] = p]
  OBVIOUS
<1>2. Typed /\ p \in Places
  BY DEF IInv, Places
<1>3. /\ pc' \in [Clients -> Places] /\ job' \in [Clients -> Job]
      /\ pc'[c] = p /\ job'[c] = j /\ Alone(c)
  BY <1>1, <1>2, Turn
<1>4. ~Writing(c)' /\ WriterOK(c)' /\ PlaceOK(c)' /\ Reviewing(c)'
  BY <1>3 DEF Writing, WriterOK, PlaceOK, Reviewing
<1>5. Witnessed(c)'
  BY <1>2, <1>3, HeldStep DEF Witnessed
<1> QED
  BY <1>3, <1>4, <1>5, QuietStep

LEMMA InspectStep ==
  ASSUME IInv, Next, NEW c \in Clients, NEW run \in runs, Inspect(c, run) PROVE IInv'
<1> DEFINE j == [NoJob EXCEPT !.kind = "inspect", !.run = run]
<1>1. /\ job' = [job EXCEPT ![c] = j] /\ pc' = [pc EXCEPT ![c] = "capture"]
      /\ UNCHANGED <<source, runs, late, used, lock>>
  BY DEF Inspect, Goto
<1>2. run \in Run /\ lock' \in Clients \cup {None}
  BY <1>1 DEF IInv, Typed
<1>3. j \in Job /\ j.run = run /\ j.kind = "inspect"
  BY <1>2, NoJobTyped DEF Job, Kinds
<1> HIDE DEF j
<1> QED
  BY <1>1, <1>2, <1>3, ReadStep

LEMMA StartReviewStep ==
  ASSUME IInv, Next, NEW c \in Clients, NEW run \in runs, NEW k \in Clusters,
         StartReview(c, run, k)
  PROVE  IInv'
<1> DEFINE j == [NoJob EXCEPT !.kind = "review", !.run = run, !.target = k]
<1>1. /\ job' = [job EXCEPT ![c] = j] /\ pc' = [pc EXCEPT ![c] = "capture"]
      /\ lock = None /\ lock' = c /\ k \in DOMAIN run.reviews
      /\ UNCHANGED <<source, runs, late, used>>
  BY DEF StartReview, Goto, LockFree
<1>2. run \in Run
  BY DEF IInv, Typed
<1>3. j \in Job /\ j.run = run /\ j.kind = "review" /\ j.target = k
  BY <1>2, NoJobTyped DEF Job, Kinds
<1> HIDE DEF j
<1> QED
  BY <1>1, <1>3, ReadStep

LEMMA CaptureStep ==
  ASSUME IInv, Next, NEW c \in Clients, Capture(c) PROVE IInv'
<1> DEFINE j == [job[c] EXCEPT !.source = source]
<1>1. /\ pc[c] = "capture" /\ job' = [job EXCEPT ![c] = j]
      /\ pc' = [pc EXCEPT ![c] = "seal count"]
      /\ UNCHANGED <<source, runs, late, used, lock>>
  BY DEF Capture, Goto
<1>2. /\ Typed /\ PlaceOK(c) /\ job[c] \in Job /\ source \in Nat
  BY ClientFacts DEF Typed
<1>3. j \in Job /\ j.run = job[c].run /\ j.kind = job[c].kind /\ j.target = job[c].target
  BY <1>2 DEF Job
<1> HIDE DEF j
<1>4. j.run \in runs /\ (j.kind = "review" => lock = c /\ j.target \in DOMAIN j.run.reviews)
  BY <1>1, <1>2, <1>3 DEF PlaceOK
<1>5. lock' \in Clients \cup {None}
  BY <1>1, <1>2 DEF Typed
<1> QED
  BY <1>1, <1>3, <1>4, <1>5, ReadStep

LEMMA CountSealsStep ==
  ASSUME IInv, Next, NEW c \in Clients, CountSeals(c) PROVE IInv'
<1>1. pc[c] = "seal count" /\ UNCHANGED <<source, runs, late, used>>
  BY DEF CountSeals
<1>2. CASE Leave(c)
  BY <1>1, <1>2, LeaveStep
<1>3. CASE ~Leave(c)
  <2> DEFINE j == [job[c] EXCEPT !.todo = Compared(job[c])]
  <2>1. /\ job[c].run.source = job[c].source /\ Goto(c, "compare") /\ lock' = lock
        /\ job' = [job EXCEPT ![c] = j]
    BY <1>3 DEF CountSeals
  <2>2. /\ job[c] \in Job /\ job[c].run \in runs /\ DOMAIN job[c].run.reviews \subseteq Clusters
    BY <1>1, ClientFacts DEF PlaceOK
  <2>3. /\ j \in Job /\ j.run = job[c].run /\ j.kind = job[c].kind /\ j.target = job[c].target
        /\ j.todo = DOMAIN j.run.reviews /\ j.source = j.run.source
    BY <2>1, <2>2 DEF Job, Compared
  <2> HIDE DEF j
  <2> QED
    BY <1>1, <2>1, <2>2, <2>3, BeginCompare
<1> QED
  BY <1>2, <1>3

LEMMA RecheckStep ==
  ASSUME IInv, Next, NEW c \in Clients, Recheck(c) PROVE IInv'
<1>1. pc[c] = "sealed" /\ UNCHANGED <<source, runs, late, used>>
  BY DEF Recheck
<1>2. CASE Leave(c)
  BY <1>1, <1>2, LeaveStep
<1>3. CASE ~Leave(c)
  <2> DEFINE j == [job[c] EXCEPT !.todo = Compared(job[c]), !.source = source]
  <2>1. /\ job[c].run.source = source /\ Goto(c, "compare") /\ lock' = lock
        /\ job' = [job EXCEPT ![c].todo = Compared(job[c]), ![c].source = source]
    BY <1>3 DEF Recheck
  <2>2. /\ job[c] \in Job /\ job[c].run \in runs /\ DOMAIN job[c].run.reviews \subseteq Clusters
        /\ source \in Nat /\ Typed
    BY <1>1, ClientFacts DEF PlaceOK, Typed
  <2>3. job' = [job EXCEPT ![c] = j]
    BY <2>1, <2>2 DEF Typed, Job
  <2>4. /\ j \in Job /\ j.run = job[c].run /\ j.kind = job[c].kind /\ j.target = job[c].target
        /\ j.todo = DOMAIN j.run.reviews /\ j.source = j.run.source
    BY <2>1, <2>2 DEF Job, Compared
  <2> HIDE DEF j
  <2> QED
    BY <1>1, <2>1, <2>2, <2>3, <2>4, BeginCompare
<1> QED
  BY <1>2, <1>3

\* The cluster compared is up to date, so that whatever was reviewed again is still to
\* be compared.
LEMMA CompareStep ==
  ASSUME IInv, Next, NEW c \in Clients, NEW k \in Clusters, Compare(c, k) PROVE IInv'
<1> DEFINE j == [job[c] EXCEPT !.todo = @ \ {k}]
<1>1. /\ pc[c] = "compare" /\ k \in job[c].todo /\ UNCHANGED <<source, runs, late, used>>
      /\ Typed /\ PlaceOK(c) /\ Witnessed(c) /\ job[c] \in Job
  BY ClientFacts DEF Compare, IsNext
<1>2. CASE Leave(c)
  BY <1>1, <1>2, LeaveStep
<1>3. CASE ~Leave(c)
  <2>1. PICK x \in LatestOf(ReviewsIn(runs, source, k)) :
          /\ x.id = job[c].run.reviews[k].id
          /\ job' = [job EXCEPT ![c].todo = @ \ {k}] /\ pc' = pc /\ lock' = lock
    BY <1>3, ReviewsDefs DEF Compare
  <2>2. /\ j \in Job /\ j.run = job[c].run /\ j.kind = job[c].kind /\ j.target = job[c].target
        /\ j.todo = job[c].todo \ {k} /\ j.source = job[c].source
    BY <1>1 DEF Job
  <2>3. job' = [job EXCEPT ![c] = j] /\ pc' = [pc EXCEPT ![c] = "compare"]
    BY <1>1, <2>1 DEF Typed
  <2> HIDE DEF j
  <2>4. /\ pc' \in [Clients -> Places] /\ job' \in [Clients -> Job]
        /\ pc'[c] = "compare" /\ job'[c] = j /\ Alone(c)
    <3>1. "compare" \in Places /\ j \in Job
      BY <2>2 DEF Places
    <3>2. lock' = lock \/ lock \in {c, None}
      BY <2>1
    <3> QED
      BY <1>1, <2>3, <3>1, <3>2, Turn
  <2>5. UpToDate(runs, source, job[c].run, k)
    BY <2>1 DEF UpToDate
  <2>6. ~Writing(c)' /\ WriterOK(c)' /\ PlaceOK(c)' /\ lock' \in Clients \cup {None}
    BY <1>1, <2>1, <2>2, <2>4 DEF Writing, WriterOK, PlaceOK, Typed
  <2>7. Witnessed(c)'
    <3>1. pc[c] # "idle" /\ pc'[c] # "idle" /\ job'[c].run.id = job[c].run.id
      BY <1>1, <2>2, <2>4
    <3>2. /\ CurrentIn(runs', source', job'[c].run) => held'[c]
          /\ held[c] => held'[c]
      BY <1>1, <3>1, HeldStep, Zenon
    <3>3. ASSUME job[c].run.source = source
          PROVE  held'[c] \/ \E i \in j.todo : ~UpToDate(runs, source, job[c].run, i)
      BY <1>1, <2>2, <2>5, <3>2, <3>3 DEF Witnessed
    <3> QED
      BY <1>1, <2>2, <2>4, <3>2, <3>3 DEF Witnessed
  <2>8. Reviewing(c) => Reviewing(c)'
    BY <1>1, <2>2, <2>4, <2>5 DEF Reviewing, Writing
  <2> QED
    BY <1>1, <2>4, <2>6, <2>7, <2>8, QuietStep
<1> QED
  BY <1>2, <1>3

LEMMA UnchangedStep ==
  ASSUME IInv, Next, NEW c \in Clients, Unchanged(c) PROVE IInv'
<1>1. /\ pc[c] = "compare" /\ job[c].todo = {} /\ UNCHANGED <<source, runs, late, used>>
      /\ Typed /\ PlaceOK(c) /\ Witnessed(c) /\ job[c] \in Job
  BY ClientFacts DEF Unchanged
<1>2. CASE Leave(c)
  BY <1>1, <1>2, LeaveStep
<1>3. CASE ~Leave(c)
  <2>1. PICK p \in {"decide", "current"} :
          /\ p = "decide" <=> job[c].kind = "review"
          /\ source = job[c].source
          /\ pc' = [pc EXCEPT ![c] = p] /\ job' = job /\ lock' = lock
    BY <1>3 DEF Unchanged, Goto
  <2>2. job' = [job EXCEPT ![c] = job[c]] /\ p \in Places
    BY <1>1, <2>1 DEF Typed, Places
  <2>3. /\ pc' \in [Clients -> Places] /\ job' \in [Clients -> Job]
        /\ pc'[c] = p /\ job'[c] = job[c] /\ Alone(c)
    BY <1>1, <2>1, <2>2, Turn
  <2>4. ~Writing(c)' /\ WriterOK(c)' /\ PlaceOK(c)' /\ lock' \in Clients \cup {None}
    BY <1>1, <2>1, <2>3 DEF Writing, WriterOK, PlaceOK, Typed
  <2>5. Witnessed(c)'
    <3>1. held[c] /\ held'[c]
      BY <1>1, <2>1, <2>3, HeldStep DEF Witnessed
    <3> QED
      BY <2>1, <2>3, <3>1 DEF Witnessed
  <2>6. Reviewing(c) => Reviewing(c)'
    BY <1>1, <2>1, <2>3 DEF Reviewing, Writing
  <2> QED
    BY <1>1, <2>3, <2>4, <2>5, <2>6, QuietStep
<1> QED
  BY <1>2, <1>3

LEMMA CheckStep ==
  ASSUME IInv, Next, NEW c \in Clients, Check(c) PROVE IInv'
<1>1. /\ pc[c] = "publish" /\ job[c].todo = {} /\ UNCHANGED <<source, runs, late, used>>
      /\ Typed /\ WriterOK(c) /\ PlaceOK(c) /\ Witnessed(c) /\ job[c] \in Job
  BY ClientFacts DEF Check
<1>2. CASE Leave(c)
  BY <1>1, <1>2, LeaveStep
<1>3. CASE ~Leave(c)
  <2>1. pc' = [pc EXCEPT ![c] = "seal"] /\ job' = job /\ lock' = lock
    BY <1>3 DEF Check, Goto
  <2>2. job' = [job EXCEPT ![c] = job[c]] /\ "seal" \in Places
    BY <1>1, <2>1 DEF Typed, Places
  <2>3. /\ pc' \in [Clients -> Places] /\ job' \in [Clients -> Job]
        /\ pc'[c] = "seal" /\ job'[c] = job[c] /\ Alone(c)
    BY <1>1, <2>1, <2>2, Turn
  <2>4. Writing(c) /\ Writing(c)' /\ Stored' = Stored /\ lock' \in Clients \cup {None}
    BY <1>1, <2>1, <2>3 DEF Writing, Stored, Typed
  <2>5. WriterOK(c)'
    BY <1>1, <2>3, <2>4 DEF WriterOK
  <2>6. PlaceOK(c)'
    BY <1>1, <2>1, <2>3, <2>4 DEF PlaceOK
  <2>7. Witnessed(c)'
    BY <1>1, <2>3, HeldStep DEF Witnessed
  <2>8. Reviewing(c) => Reviewing(c)'
    BY <1>1, <2>3, <2>4 DEF Reviewing
  <2> QED
    BY <1>1, <2>3, <2>4, <2>5, <2>6, <2>7, <2>8, QuietStep
<1> QED
  BY <1>2, <1>3

LEMMA AnswerStep ==
  ASSUME IInv, Next, NEW c \in Clients, Answer(c) PROVE IInv'
BY LeaveStep DEF Answer

-----------------------------------------------------------------------------
(* Steps that make a run *)

\* A client holds a run of its own that nobody has seen.
LEMMA OwnRun ==
  ASSUME IInv, Next, NEW c \in Clients, UNCHANGED <<source, runs, late, lock>>,
         used' = used + 1, Goto(c, "publish"), NEW j \in Job, job' = [job EXCEPT ![c] = j],
         j.kind = "publish", j.run.id = used + 1, j.run.source <= source, Sourced(runs, j.run),
         j.todo \subseteq DOMAIN j.run.reviews,
         j.run.reviewed # None => lock = c /\ j.todo = {},
         Punctual /\ InOrder /\ j.run.reviewed # None /\ j.run.source = source =>
           \E x \in LatestOf(ReviewsIn(runs, source, j.run.reviewed)) :
             /\ x.id = j.run.reviews[j.run.reviewed].previous
             /\ x.revision < j.run.reviews[j.run.reviewed].revision
  PROVE  IInv'
<1>1. /\ Typed /\ StoreOK /\ source \in Nat /\ used \in Nat
  BY DEF IInv, Typed
<1>2. /\ pc' \in [Clients -> Places] /\ job' \in [Clients -> Job]
      /\ pc'[c] = "publish" /\ job'[c] = j /\ Alone(c)
  BY <1>1, Turn DEF Goto, Places
<1>3. Typed'
  BY <1>1, <1>2, HeldStep DEF Typed
<1>4. \A r \in Stored : r \in Run /\ r.id \in Nat /\ r.id <= used
  BY <1>1 DEF Stored, Typed, StoreOK, Numbered, Run
<1>5. Stored' = Stored /\ StoreOK'
  <2>1. Stored' = Stored
    BY DEF Stored
  <2>2. \A r \in Stored : Numbered(used', source, r)
    BY <1>1, <1>4 DEF StoreOK, Numbered
  <2> QED
    BY <1>1, <2>1, <2>2 DEF StoreOK
<1>6. Writing(c)' /\ job'[c].run.id > used
  BY <1>1, <1>2 DEF Writing
<1>7. WriterOK(c)'
  <2>1. Numbered(used', source', j.run)
    BY <1>1 DEF Numbered
  <2>2. \A r \in Stored : r.id # j.run.id
    BY <1>1, <1>4
  <2> QED
    BY <1>2, <1>5, <2>1, <2>2 DEF WriterOK
<1>8. PlaceOK(c)'
  BY <1>2, <1>6 DEF PlaceOK
<1>9. Witnessed(c)'
  BY <1>1, <1>2, HeldStep DEF Witnessed
<1>10. Punctual /\ InOrder /\ Punctual' =>
         /\ Reviewing(c)'
         /\ \A k \in Clusters :
              /\ OneChain(ReviewsIn(runs', source, k))
              /\ lock # c => ReviewsIn(runs', source, k) = ReviewsIn(runs, source, k)
  BY <1>2 DEF InOrder, Reviewing
<1>11. used <= used' /\ runs \subseteq runs' /\ late \subseteq late'
  BY <1>1
<1> QED
  BY <1>2, <1>3, <1>5, <1>6, <1>7, <1>8, <1>9, <1>10, <1>11, StepOK

LEMMA ComputeStep ==
  ASSUME IInv, Next, NEW c \in Clients, NEW clusters \in Scopes, Compute(c, clusters)
  PROVE  IInv'
<1> DEFINE table == [k \in clusters |-> NoReview]
           run == [id |-> used + 1, source |-> source, reviewed |-> None, reviews |-> table]
           j == [NoJob EXCEPT !.kind = "publish", !.todo = clusters, !.run = run]
<1>1. /\ UNCHANGED <<source, runs, late, lock>> /\ used' = used + 1 /\ Goto(c, "publish")
      /\ job' = [job EXCEPT ![c] = j]
  BY DEF Compute
<1>2. clusters \in SUBSET Clusters /\ source \in Nat /\ used \in Nat
  BY ReviewsAssumption DEF IInv, Typed
<1>3. table \in ReviewTables /\ DOMAIN table = clusters /\ \A k \in clusters : table[k] = NoReview
  <2>1. table \in [clusters -> Review]
    BY NoReviewTyped
  <2> QED
    BY <1>2, <2>1 DEF ReviewTables
<1> HIDE DEF table
<1>4. run \in Run /\ run.reviews = table /\ run.reviewed = None
      /\ run.id = used + 1 /\ run.source = source
  BY <1>2, <1>3 DEF Run
<1> HIDE DEF run
<1>5. j \in Job /\ j.run = run /\ j.todo = clusters /\ j.kind = "publish"
  BY <1>2, <1>4, NoJobTyped DEF Job, Kinds
<1> HIDE DEF j
<1>6. Sourced(runs, run) /\ run.source <= source
  BY <1>2, <1>3, <1>4 DEF Sourced
<1> QED
  BY <1>1, <1>3, <1>4, <1>5, <1>6, OwnRun

\* The decision knows the latest review, since nobody else reviews under the lock.
LEMMA DecideStep ==
  ASSUME IInv, Next, NEW c \in Clients, NEW time \in Clocks, Decide(c, time) PROVE IInv'
<1> DEFINE r == job[c].run
           k == job[c].target
           old == r.reviews[k]
           new == [id |-> used + 1, previous |-> old.id, revision |-> NextRevision(time, old)]
           table == [r.reviews EXCEPT ![k] = new]
           run == [id |-> used + 1, source |-> r.source, reviewed |-> k, reviews |-> table]
           j == [NoJob EXCEPT !.kind = "publish", !.run = run]
<1>1. /\ UNCHANGED <<source, runs, late, lock>> /\ used' = used + 1 /\ Goto(c, "publish")
      /\ job' = [job EXCEPT ![c] = j] /\ pc[c] = "decide"
  BY DEF Decide
<1>2. /\ Typed /\ StoreOK /\ PlaceOK(c) /\ r \in Run /\ DOMAIN r.reviews \subseteq Clusters
      /\ source \in Nat /\ used \in Nat
  BY ClientFacts DEF Typed
<1>3. /\ r \in runs /\ lock = c /\ k \in DOMAIN r.reviews /\ k \in Clusters /\ k # None
      /\ job[c].kind = "review"
  BY <1>1, <1>2, ReviewsAssumption DEF PlaceOK
<1>4. old \in Review /\ old.id \in Nat /\ old.revision \in Nat
  BY <1>2, <1>3, TableFacts DEF Review
<1>5. r.source <= source /\ Sourced(runs, r) /\ r.source \in Nat
  BY <1>2, <1>3 DEF StoreOK, Stored, Numbered, Run
<1>6. /\ new \in Review /\ new.id = used + 1 /\ new.previous = old.id
      /\ old.revision < new.revision
  <2>1. time \in Nat
    BY ReviewsAssumption
  <2>2. NextRevision(time, old) \in Nat /\ old.revision < NextRevision(time, old)
    BY <1>4, <2>1 DEF NextRevision
  <2> QED
    BY <1>2, <1>4, <2>2 DEF Review
<1> HIDE DEF new
<1>7. /\ table \in ReviewTables /\ DOMAIN table = DOMAIN r.reviews /\ table[k] = new
      /\ \A i \in DOMAIN table \ {k} : table[i] = r.reviews[i]
  <2>1. PICK D \in SUBSET Clusters : r.reviews \in [D -> Review]
    BY <1>2 DEF Run, ReviewTables
  <2>2. table \in [D -> Review]
    BY <1>6, <2>1
  <2> QED
    BY <1>3, <2>1, <2>2 DEF ReviewTables
<1> HIDE DEF table
<1>8. run \in Run /\ run.reviews = table /\ run.reviewed = k
      /\ run.id = used + 1 /\ run.source = r.source
  BY <1>2, <1>3, <1>5, <1>7 DEF Run
<1> HIDE DEF run
<1>9. j \in Job /\ j.run = run /\ j.todo = {} /\ j.kind = "publish"
  BY <1>8, NoJobTyped DEF Job, Kinds, NoJob
<1> HIDE DEF j
<1>10. Sourced(runs, run)
  <2>1. ASSUME NEW i \in DOMAIN table, i # k
        PROVE  \/ table[i] = NoReview
               \/ \E q \in runs : /\ q.reviewed = i /\ q.source = run.source
                                  /\ q.id = table[i].id /\ q.reviews[i] = table[i]
    <3>1. i \in DOMAIN r.reviews /\ table[i] = r.reviews[i] /\ i # None
      BY <1>2, <1>7, <2>1, ReviewsAssumption
    <3>2. \/ r.reviews[i] = NoReview \/ i = r.reviewed
          \/ \E q \in runs : /\ q.reviewed = i /\ q.source = r.source
                             /\ q.id = r.reviews[i].id /\ q.reviews[i] = r.reviews[i]
      BY <1>5, <3>1 DEF Sourced
    <3>3. CASE i = r.reviewed
      BY <1>3, <1>5, <1>8, <3>1, <3>3 DEF Sourced
    <3> QED
      BY <1>8, <3>1, <3>2, <3>3
  <2> QED
    BY <1>3, <1>6, <1>7, <1>8, <2>1 DEF Sourced
<1>11. ASSUME Punctual, InOrder, r.source = source
       PROVE  \E x \in LatestOf(ReviewsIn(runs, source, k)) :
                x.id = new.previous /\ x.revision < new.revision
  <2>1. PICK x \in LatestOf(ReviewsIn(runs, source, k)) : x.id = old.id
    BY <1>1, <1>3, <1>11 DEF InOrder, Reviewing, UpToDate
  <2>2. runs \in SUBSET Run /\ \A q \in runs : Sourced(runs, q) /\ q.id > 0
    BY <1>2 DEF Typed, StoreOK, Stored, Numbered
  <2>3. \A y \in ReviewsIn(runs, source, k) :
          \E q \in runs : /\ q.source = source /\ q.reviewed = k /\ q.reviews[k] = y
                          /\ q.id = y.id
    BY <1>3, <2>2, ReviewsFacts
  <2>4. x = old
    <3>1. \/ old = NoReview
          \/ \E q \in runs : /\ q.reviewed = k /\ q.source = source
                             /\ q.id = old.id /\ q.reviews[k] = old
      BY <1>3, <1>5, <1>11 DEF Sourced
    <3>2. \/ x = NoReview
          \/ \E q \in runs : /\ q.reviewed = k /\ q.source = source
                             /\ q.id = x.id /\ q.reviews[k] = x
      BY <2>3 DEF LatestOf
    <3>3. \A q, p \in runs : q.id = p.id => q = p
      BY <1>2 DEF StoreOK, Stored
    <3> QED
      BY <2>1, <2>2, <3>1, <3>2, <3>3, NoReviewTyped
  <2> QED
    BY <1>6, <2>1, <2>4
<1> QED
  BY <1>1, <1>3, <1>5, <1>6, <1>7, <1>8, <1>9, <1>10, <1>11, OwnRun

-----------------------------------------------------------------------------
(* Steps that insert *)

\* A run that a client holds can be stored beside the others.
LEMMA StoreGrows ==
  ASSUME IInv, NEW c \in Clients, Writing(c),
         UNCHANGED <<source, used>>, runs \subseteq runs', Stored' = Stored \cup {job[c].run}
  PROVE  StoreOK'
<1>1. StoreOK /\ WriterOK(c)
  BY ClientFacts
<1>2. \A r \in Stored' : Numbered(used', source', r) /\ Sourced(runs', r)
  BY <1>1, SourcedGrows DEF StoreOK, WriterOK
<1>3. \A r, q \in Stored' : r.id = q.id => r = q
  BY <1>1 DEF StoreOK, WriterOK
<1> QED
  BY <1>2, <1>3 DEF StoreOK

\* A decision is sealed next to the one it knew, by the only client that may.
LEMMA SealStep ==
  ASSUME IInv, Next, NEW c \in Clients, Seal(c) PROVE IInv'
<1> DEFINE r == job[c].run
<1>1. /\ pc[c] = "seal" /\ runs' = runs \cup {r} /\ pc' = [pc EXCEPT ![c] = "sealed"]
      /\ UNCHANGED <<source, late, used, lock, job>>
  BY DEF Seal, Goto
<1>2. /\ Typed /\ StoreOK /\ WriterOK(c) /\ PlaceOK(c) /\ Writing(c)
      /\ r \in Run /\ job[c] \in Job
  BY <1>1, ClientFacts DEF Writing
<1>3. job' = [job EXCEPT ![c] = job[c]] /\ "sealed" \in Places
  BY <1>1, <1>2 DEF Typed, Places
<1>4. /\ pc' \in [Clients -> Places] /\ job' \in [Clients -> Job]
      /\ pc'[c] = "sealed" /\ job'[c] = job[c] /\ Alone(c)
  BY <1>1, <1>2, <1>3, Turn
<1>5. Typed'
  BY <1>1, <1>2, <1>4, HeldStep DEF Typed
<1>6. Stored' = Stored \cup {r} /\ runs \subseteq runs'
  BY <1>1 DEF Stored
<1>7. StoreOK'
  BY <1>1, <1>2, <1>6, StoreGrows
<1>8. ~Writing(c)' /\ WriterOK(c)'
  BY <1>4 DEF Writing, WriterOK
<1>9. PlaceOK(c)'
  BY <1>1, <1>2, <1>4, <1>8 DEF PlaceOK
<1>10. Witnessed(c)'
  BY <1>2, <1>4, HeldStep, <1>1 DEF Witnessed
<1>11. ASSUME Punctual, InOrder, NEW k \in Clusters
       PROVE  /\ OneChain(ReviewsIn(runs', source, k))
              /\ lock # c => ReviewsIn(runs', source, k) = ReviewsIn(runs, source, k)
  <2> DEFINE S == ReviewsIn(runs, source, k)
  <2>1. OneChain(S)
    BY <1>11 DEF InOrder
  <2>2. CASE r.source = source /\ r.reviewed = k
    <3>1. r.reviewed # None /\ lock = c
      BY <1>2, <2>2, ReviewsAssumption DEF PlaceOK
    <3>2. PICK x \in LatestOf(S) :
            x.id = r.reviews[k].previous /\ x.revision < r.reviews[k].revision
      BY <1>2, <1>11, <2>2, <3>1 DEF InOrder, Reviewing
    <3>3. runs \in SUBSET Run /\ \A q \in runs : Sourced(runs, q)
      BY <1>2 DEF Typed, StoreOK, Stored
    <3>4. S \in SUBSET Review
      BY <3>3, ReviewsFacts
    <3>5. r.reviews[k] \in Review
      BY <1>2, <2>2, <3>1, TableFacts DEF WriterOK, Sourced
    <3>6. OneChain(S \cup {r.reviews[k]})
      BY <2>1, <3>2, <3>4, <3>5, ChainGrows
    <3>7. ReviewsIn(runs', source, k) = S \cup {r.reviews[k]}
      BY <1>1, <2>2, ReviewsGrow
    <3> QED
      BY <3>1, <3>6, <3>7
  <2>3. CASE ~(r.source = source /\ r.reviewed = k)
    <3>1. ReviewsIn(runs', source, k) = S
      BY <1>1, <2>3 DEF ReviewsIn
    <3> QED
      BY <2>1, <3>1
  <2> QED
    BY <2>2, <2>3
<1>12. Reviewing(c)'
  BY <1>4, <1>8 DEF Reviewing
<1>13. used <= used'
  BY <1>1, <1>2 DEF Typed
<1> QED
  BY <1>1, <1>2, <1>4, <1>5, <1>6, <1>7, <1>8, <1>9, <1>10, <1>11, <1>12, <1>13, StepOK

LEMMA FailStep ==
  ASSUME IInv, Next, NEW c \in Clients, Fail(c) PROVE IInv'
<1> DEFINE r == job[c].run
<1>1. /\ Leave(c) /\ UNCHANGED <<source, runs, used>>
      /\ \/ late' = late
         \/ pc[c] = "seal" /\ late' = late \cup {r}
  BY DEF Fail
<1>2. Typed /\ StoreOK /\ r \in Run
  BY ClientFacts
<1>3. CASE late' = late
  BY <1>1, <1>3, LeaveStep
<1>4. CASE pc[c] = "seal" /\ late' = late \cup {r}
  <2>1. /\ pc' \in [Clients -> Places] /\ job' \in [Clients -> Job]
        /\ lock' \in Clients \cup {None} /\ Alone(c)
        /\ ~Writing(c)' /\ WriterOK(c)' /\ PlaceOK(c)' /\ Witnessed(c)' /\ Reviewing(c)'
    BY <1>1, <1>2, LeaveFacts
  <2>2. Typed'
    BY <1>1, <1>2, <1>4, <2>1, HeldStep DEF Typed
  <2>3. Writing(c) /\ Stored' = Stored \cup {r}
    BY <1>1, <1>4 DEF Stored, Writing
  <2>4. StoreOK'
    BY <1>1, <2>3, StoreGrows
  <2>5. InOrder => \A k \in Clusters : OneChain(ReviewsIn(runs', source, k))
    BY <1>1 DEF InOrder
  <2>6. used <= used'
    BY <1>1, <1>2 DEF Typed
  <2> QED
    BY <1>1, <1>4, <2>1, <2>2, <2>3, <2>4, <2>5, <2>6, StepOK
<1> QED
  BY <1>1, <1>3, <1>4

\* A seal that lands late ends what is said of chains; answers stay true.
LEMMA LandStep ==
  ASSUME IInv, Next, NEW run \in late, Land(run) PROVE IInv'
<1>1. /\ runs' = runs \cup {run} /\ UNCHANGED <<source, late, used, lock, pc, job>>
  BY DEF Land
<1>2. Typed /\ StoreOK /\ source \in Nat /\ used \in Nat
  BY DEF IInv, Typed
<1>3. Typed'
  BY <1>1, <1>2, HeldStep DEF Typed
<1>4. Stored' = Stored /\ runs \subseteq runs'
  BY <1>1 DEF Stored
<1>5. StoreOK'
  <2>1. \A r \in Stored : Sourced(runs', r)
    BY <1>2, <1>4, SourcedGrows DEF StoreOK
  <2> QED
    BY <1>1, <1>2, <1>4, <2>1 DEF StoreOK
<1>6. ASSUME NEW d \in Clients PROVE WriterOK(d)' /\ PlaceOK(d)' /\ Witnessed(d)'
  BY <1>1, <1>2, <1>3, <1>4, <1>5, OtherStays
<1>7. ClientsOK'
  BY <1>6 DEF ClientsOK
<1>8. WritersDiffer'
  BY <1>1 DEF IInv, WritersDiffer, Writing
<1>9. ~Punctual'
  BY <1>1 DEF Punctual
<1> QED
  BY <1>3, <1>5, <1>7, <1>8, <1>9 DEF IInv

\* No run has the new source yet.
LEMMA PublishStep ==
  ASSUME IInv, Next, Publish PROVE IInv'
<1>1. source' = source + 1 /\ UNCHANGED <<runs, late, used, lock, pc, job>>
  BY DEF Publish
<1>2. Typed /\ StoreOK /\ source \in Nat /\ used \in Nat
  BY DEF IInv, Typed
<1>3. Typed'
  BY <1>1, <1>2, HeldStep DEF Typed
<1>4. Stored' = Stored /\ \A r \in Stored : r.source \in Nat
  BY <1>1, <1>2 DEF Stored, Typed, Run
<1>5. StoreOK'
  <2>1. \A r \in Stored : Numbered(used', source', r)
    BY <1>1, <1>2, <1>4 DEF StoreOK, Numbered
  <2> QED
    BY <1>1, <1>2, <1>4, <2>1 DEF StoreOK
<1>6. ASSUME NEW d \in Clients PROVE WriterOK(d)' /\ PlaceOK(d)' /\ Witnessed(d)'
  BY <1>1, <1>2, <1>3, <1>4, <1>5, OtherStays
<1>7. ClientsOK'
  BY <1>6 DEF ClientsOK
<1>8. WritersDiffer'
  BY <1>1 DEF IInv, WritersDiffer, Writing
<1>9. ASSUME Punctual' PROVE InOrder'
  <2>1. InOrder
    BY <1>1, <1>9 DEF IInv, Punctual
  <2>2. \A k : ReviewsIn(runs', source', k) = {}
    <3>1. \A r \in runs : r.source # source'
      BY <1>1, <1>2, <1>4 DEF StoreOK, Stored, Numbered
    <3> QED
      BY <1>1, <3>1 DEF ReviewsIn
  <2>3. OneChain({})
    BY DEF OneChain
  <2>4. ASSUME NEW d \in Clients PROVE Reviewing(d)'
    BY <1>1, <1>2, <2>1, ReviewerStays DEF InOrder
  <2> QED
    BY <2>2, <2>3, <2>4 DEF InOrder
<1> QED
  BY <1>3, <1>5, <1>7, <1>8, <1>9 DEF IInv

-----------------------------------------------------------------------------
(* The invariant and what it says *)

LEMMA InitOK == Init => IInv
<1> SUFFICES ASSUME Init PROVE IInv
  OBVIOUS
<1>1. Typed
  BY NoJobTyped DEF Init, Typed, Places
<1>2. StoreOK /\ WritersDiffer
  BY DEF Init, StoreOK, Stored, WritersDiffer, Writing
<1>3. ClientsOK
  BY DEF Init, ClientsOK, WriterOK, PlaceOK, Witnessed, Writing
<1>4. InOrder
  <2>1. \A k : ReviewsIn(runs, source, k) = {}
    BY DEF Init, ReviewsIn
  <2>2. OneChain({})
    BY DEF OneChain
  <2> QED
    BY <2>1, <2>2 DEF Init, InOrder, Reviewing, Writing
<1> QED
  BY <1>1, <1>2, <1>3, <1>4 DEF IInv

LEMMA NextStep == ASSUME IInv, Next PROVE IInv'
<1>1. ASSUME NEW c \in Clients, Client(c) PROVE IInv'
  <2>1. CASE \E clusters \in Scopes : Compute(c, clusters)
    BY <2>1, ComputeStep
  <2>2. CASE \E k \in Clusters : Lookup(c, k) \/ Compare(c, k)
    BY <2>2, LookupStep, CompareStep
  <2>3. CASE \E run \in runs : Inspect(c, run) \/ (\E k \in Clusters : StartReview(c, run, k))
    BY <2>3, InspectStep, StartReviewStep
  <2>4. CASE Capture(c) \/ CountSeals(c) \/ Unchanged(c)
    BY <2>4, CaptureStep, CountSealsStep, UnchangedStep
  <2>5. CASE \E time \in Clocks : Decide(c, time)
    BY <2>5, DecideStep
  <2>6. CASE Check(c) \/ Seal(c) \/ Recheck(c) \/ Answer(c) \/ Fail(c)
    BY <2>6, CheckStep, SealStep, RecheckStep, AnswerStep, FailStep
  <2> QED
    BY <1>1, <2>1, <2>2, <2>3, <2>4, <2>5, <2>6 DEF Client
<1> QED
  BY <1>1, LandStep, PublishStep DEF Next

LEMMA StutterStep == ASSUME IInv, UNCHANGED vars PROVE IInv'
<1>1. Typed' /\ StoreOK' /\ WritersDiffer'
  BY DEF vars, IInv, Typed, StoreOK, Stored, WritersDiffer, Writing
<1>2. ClientsOK'
  BY DEF vars, IInv, ClientsOK, WriterOK, PlaceOK, Witnessed, Writing, Stored
<1>3. Punctual' => InOrder'
  BY DEF vars, IInv, Punctual, InOrder, Reviewing, Writing
<1> QED
  BY <1>1, <1>2, <1>3 DEF IInv

\* Whatever clients, failures and late seals do, the state stays well formed: run
\* identifiers are not reused, a copied review comes from a run on the same source, a
\* reviewer holds the lock from its first read to its seal, and while no seal was late
\* it decides knowing the latest review.
THEOREM InvariantHolds == Spec => []IInv
<1>1. Init => IInv
  BY InitOK
<1>2. IInv /\ [Next]_vars => IInv'
  BY NextStep, StutterStep
<1> QED
  BY <1>1, <1>2, PTL DEF Spec

LEMMA ChainFollows == IInv => ChainUnlessLate
<1> SUFFICES ASSUME IInv, runs \cap late = {}, NEW k \in Clusters, NEW x \in ReviewsOf(k)
             PROVE  LET before == {y \in ReviewsOf(k) : y # x /\ y.revision <= x.revision}
                    IN IF before = {} THEN x.previous = 0
                       ELSE \E y \in before :
                              /\ y.id = x.previous
                              /\ \A z \in before : z = y \/ z.revision < y.revision
  BY DEF ChainUnlessLate, ReviewsFormChain
<1>1. OneChain(ReviewsOf(k))
  BY ReviewsDefs DEF IInv, Punctual, InOrder
<1> QED
  BY <1>1 DEF OneChain, Follows, Before

LEMMA ClustersWereCurrent == IInv => CurrentWasTrue
BY DEF IInv, ClientsOK, Witnessed, CurrentWasTrue

-----------------------------------------------------------------------------
(* Analyses: the invariant *)

Early == {"idle", "attribution", "capture", "scan"}

Storing == {"exposure check", "exposure insert", "exposure count", "exposure fence",
            "exposure seal"}

Recording == {"record", "depend", "inspect exposure", "risk check", "risk dependency",
              "risk insert", "risk count", "risk fence", "risk seal"}

Sealing == {"inspect risk", "withdraw risk", "done"}

Stands == Early \cup Storing \cup Recording \cup Sealing
            \cup {"confirm", "withdraw exposure", "failing", "join", "join labels", "over"}

Steps == {"idle", "source", "seal", "subject", "run", "runSeal", "labels", "runEnd", "end",
          "current", "refused"}

Known == [source : A!Source, subject : Nat \cup {A!Unread}, snapshot : A!Source,
          labels : [Addresses -> Nat \cup {A!Unread}]]

Inspection == [of : A!Results, step : Steps, source : A!Source, exposureSource : A!Source]

TypedA ==
  /\ snapshot \in A!Source
  /\ labels \in [Addresses -> Nat]
  /\ rows \in [A!Results -> SUBSET Tables]
  /\ failed \subseteq Investigations
  /\ seals \in [A!Results -> {"none", "complete", "invalidated"}]
  /\ at \in [Investigations -> Stands]
  /\ seen \in [Investigations -> Known]
  /\ facts \in [Investigations -> SUBSET Nat]
  /\ look \in [A!Askers -> Inspection]
  /\ current \in [A!Askers -> BOOLEAN]

\* s was the source at some time; a revision names one source.
Past(s) == s.revision <= snapshot.revision /\ (s.revision = snapshot.revision => s = snapshot)

\* What an investigation has read, in the order it has read it.
ReadOK(i) ==
  /\ Past(seen[i].source) /\ Past(seen[i].snapshot)
  /\ at[i] \notin {"idle", "attribution", "capture", "over"} =>
       seen[i].source.revision <= seen[i].snapshot.revision
  /\ \A a \in Addresses : seen[i].labels[a] <= labels[a]
  /\ seen[i].subject <= labels[Subject]
  /\ seen[i].labels[Subject] = A!Unread \/ seen[i].subject <= seen[i].labels[Subject]
  /\ \A n \in facts[i] : seen[i].snapshot.revision <= n /\ n <= snapshot.revision
  /\ facts[i] = {} => \A a \in Addresses : seen[i].labels[a] = A!Unread
  /\ at[i] \in {"idle", "attribution", "capture"} => facts[i] = {}

\* What the checks an investigation has passed established.
CheckedOK(i) ==
  /\ at[i] = "exposure check" => facts[i] # {}
  /\ at[i] \notin Early \cup {"over"} => seen[i].labels[Subject] # A!Unread
  /\ at[i] \notin Early \cup {"exposure check", "over"} =>
       facts[i] = {seen[i].snapshot.revision}
  /\ at[i] \in {"join labels"} \cup Recording \cup Sealing => seen[i].snapshot = seen[i].source
  /\ at[i] \in Recording \cup Sealing => seen[i].labels[Subject] = seen[i].subject

\* The rows come after the checks, the seal after all rows, and each once.
StoredOK(i) ==
  /\ at[i] \in Early \cup {"exposure check", "exposure insert"} => rows[<<"exposure", i>>] = {}
  /\ at[i] \in {"exposure fence", "exposure seal"} => rows[<<"exposure", i>>] = Tables
  /\ at[i] \in Early \cup Storing => seals[<<"exposure", i>>] = "none"
  /\ at[i] \notin Early \cup Storing \cup {"over"} => seals[<<"exposure", i>>] # "none"
  /\ seals[<<"exposure", i>>] # "none" =>
       rows[<<"exposure", i>>] = Tables /\ facts[i] = {seen[i].snapshot.revision}
  /\ at[i] \notin {"risk count", "risk fence", "risk seal", "over"} \cup Sealing =>
       rows[<<"risk", i>>] = {}
  /\ at[i] \in {"risk fence", "risk seal"} \cup Sealing => rows[<<"risk", i>>] = Tables
  /\ at[i] \notin Sealing \cup {"over"} => seals[<<"risk", i>>] = "none"
  /\ seals[<<"risk", i>>] # "none" =>
       rows[<<"risk", i>>] = Tables /\ seals[<<"exposure", i>>] # "none"

InvestigationOK(i) == ReadOK(i) /\ CheckedOK(i) /\ StoredOK(i)

\* Labels have changed since they were read, and versions do not come back.
LabelsMoved(i) == \E a \in Addresses : labels[a] # seen[i].labels[a]

SubjectMoved(i) == labels[Subject] # seen[i].subject

\* Either the result was current, or a check that is still to come will fail.
LookOK(c) ==
  look[c].step # "idle" =>
    /\ at[look[c].of[2]] \notin Early
    /\ look[c].of[1] = "risk" /\ look[c].step = "subject" =>
         current[c] \/ LabelsMoved(look[c].of[2]) \/ SubjectMoved(look[c].of[2])
    /\ look[c].of[1] = "risk" /\ look[c].step \in {"run", "runSeal"} =>
         current[c] \/ LabelsMoved(look[c].of[2])
    /\ look[c].step = "labels" => current[c] \/ LabelsMoved(look[c].of[2])
    /\ look[c].step \in {"runEnd", "end", "current"} => current[c]

AnalysisInv ==
  /\ TypedA
  /\ \A i \in Investigations : InvestigationOK(i)
  /\ \A c \in A!Askers : LookOK(c)

-----------------------------------------------------------------------------
(* Analyses: what a step keeps *)

LEMMA UnreadIsInt == A!Unread \in Int /\ \A n \in Nat : A!Unread < n
BY DEF A!Unread

LEMMA AnalysisValues ==
  ASSUME TypedA, NEW i \in Investigations
  PROVE  /\ seen[i] \in Known /\ seen[i].source \in A!Source /\ seen[i].snapshot \in A!Source
         /\ seen[i].source.revision \in Nat /\ seen[i].snapshot.revision \in Nat
         /\ seen[i].subject \in Nat \cup {A!Unread}
         /\ seen[i].labels \in [Addresses -> Nat \cup {A!Unread}]
         /\ snapshot.revision \in Nat /\ at[i] \in Stands /\ facts[i] \in SUBSET Nat
         /\ labels[Subject] \in Nat
         /\ <<"exposure", i>> \in A!Results /\ <<"risk", i>> \in A!Results
BY AnalysisAssumption DEF TypedA, Known, A!Source, A!Results, A!Families

LEMMA SourceRevision == ASSUME TypedA PROVE snapshot.revision \in Nat
BY DEF TypedA, A!Source

LEMMA Versions ==
  ASSUME TypedA, NEW i \in Investigations
  PROVE  /\ \A a \in Addresses : labels[a] \in Int /\ seen[i].labels[a] \in Int
         /\ seen[i].subject \in Int /\ Subject \in Addresses
<1>1. \A a \in Addresses : seen[i].labels[a] \in Int
  <2>1. \A a \in Addresses : seen[i].labels[a] \in Nat \cup {A!Unread}
    BY AnalysisValues
  <2> QED
    BY <2>1, UnreadIsInt
<1>2. seen[i].subject \in Int
  <2>1. seen[i].subject \in Nat \cup {A!Unread}
    BY AnalysisValues
  <2> QED
    BY <2>1, UnreadIsInt
<1>3. \A a \in Addresses : labels[a] \in Int
  BY DEF TypedA
<1> QED
  BY <1>1, <1>2, <1>3, AnalysisAssumption

\* The source only gets new revisions, labels only new versions.
Advance ==
  /\ snapshot' = snapshot \/ snapshot'.revision = snapshot.revision + 1
  /\ \A a \in Addresses : labels[a] <= labels'[a]

LEMMA InvestigationStays ==
  ASSUME TypedA, TypedA', NEW i \in Investigations, InvestigationOK(i), Advance,
         at'[i] = at[i], seen'[i] = seen[i], facts'[i] = facts[i],
         rows'[<<"exposure", i>>] = rows[<<"exposure", i>>],
         rows'[<<"risk", i>>] = rows[<<"risk", i>>],
         seals'[<<"exposure", i>>] = seals[<<"exposure", i>>],
         seals'[<<"risk", i>>] = seals[<<"risk", i>>]
  PROVE  InvestigationOK(i)'
<1>1. CheckedOK(i)' /\ StoredOK(i)'
  BY DEF InvestigationOK, CheckedOK, StoredOK
<1>2. ReadOK(i)'
  <2>1. snapshot.revision \in Nat /\ snapshot'.revision \in Nat
    BY DEF TypedA, A!Source
  <2>2. Past(seen[i].source)' /\ Past(seen[i].snapshot)'
    BY <2>1, AnalysisValues DEF InvestigationOK, ReadOK, Past, Advance
  <2>3. /\ \A a \in Addresses : seen[i].labels[a] <= labels'[a]
        /\ seen[i].subject <= labels'[Subject]
    <3>1. \A a \in Addresses : /\ labels[a] \in Int /\ labels'[a] \in Int
                               /\ seen[i].labels[a] \in Int
      BY AnalysisValues, UnreadIsInt DEF TypedA
    <3>2. seen[i].subject \in Int /\ Subject \in Addresses
      BY AnalysisValues, AnalysisAssumption, UnreadIsInt
    <3> QED
      BY <3>1, <3>2 DEF InvestigationOK, ReadOK, Advance
  <2>4. \A n \in facts[i] : seen[i].snapshot.revision <= n /\ n <= snapshot'.revision
    BY <2>1, AnalysisValues DEF InvestigationOK, ReadOK, Advance
  <2> QED
    BY <2>2, <2>3, <2>4 DEF InvestigationOK, ReadOK
<1> QED
  BY <1>1, <1>2 DEF InvestigationOK

LEMMA HeldFacts ==
  ASSUME A!Next
  PROVE  /\ current' \in [A!Askers -> BOOLEAN]
         /\ \A c \in A!Askers : look'[c].step # "idle" =>
              /\ look[c].step # "idle" /\ current[c] => current'[c]
              /\ \A r : look'[c].of = r /\ A!FullyCurrent(r)' => current'[c]
<1>1. current' = [c \in A!Askers |->
                 A!Looking(c)' /\ (A!TargetCurrent(c)' \/ (A!Looking(c) /\ current[c]))]
  BY DEF A!Next
<1>2. \A c : A!TargetCurrent(c)' <=> (A!Looking(c)' /\ \A r : look'[c].of = r => A!FullyCurrent(r)')
  BY
     DEF A!TargetCurrent, A!FullyCurrent, A!Visible, A!ExposureVisible, A!RiskVisible, A!Shown,
         A!SealVisible, A!SnapshotOf
<1>3. \A c : A!Looking(c)' <=> look'[c].step # "idle"
  BY DEF A!Looking
<1>4. current' \in [A!Askers -> BOOLEAN]
  BY <1>1, <1>3
<1>5. ASSUME NEW c \in A!Askers, look'[c].step # "idle"
      PROVE  /\ look[c].step # "idle" /\ current[c] => current'[c]
             /\ \A r : look'[c].of = r /\ A!FullyCurrent(r)' => current'[c]
  BY <1>1, <1>2, <1>3, <1>5 DEF A!Looking
<1> QED
  BY <1>4, <1>5

LEMMA LookStays ==
  ASSUME TypedA, TypedA', A!Next, Advance, NEW c \in A!Askers, LookOK(c), look'[c] = look[c],
         \A i \in Investigations : ReadOK(i),
         \A i \in Investigations : at[i] \notin Early => at'[i] \notin Early /\ seen'[i] = seen[i]
  PROVE  LookOK(c)'
<1> SUFFICES ASSUME look[c].step # "idle" PROVE LookOK(c)'
  BY DEF LookOK
<1>1. PICK i \in Investigations : look[c].of[2] = i
  BY DEF TypedA, Inspection, A!Results
<1>2. at[i] \notin Early /\ at'[i] \notin Early /\ seen'[i] = seen[i]
  BY <1>1 DEF LookOK
<1>3. current[c] => current'[c]
  BY HeldFacts
<1>4. /\ \A a \in Addresses : /\ labels[a] \in Int /\ labels'[a] \in Int
                              /\ seen[i].labels[a] \in Int /\ seen[i].labels[a] <= labels[a]
                              /\ labels[a] <= labels'[a]
      /\ seen[i].subject \in Int /\ seen[i].subject <= labels[Subject] /\ Subject \in Addresses
  <2>1. \A a \in Addresses : labels'[a] \in Int
    BY DEF TypedA
  <2> QED
    BY <1>1, <2>1, Versions DEF ReadOK, Advance
<1>5. LabelsMoved(i) => LabelsMoved(i)'
  BY <1>2, <1>4 DEF LabelsMoved
<1>6. SubjectMoved(i) => SubjectMoved(i)'
  BY <1>2, <1>4 DEF SubjectMoved
<1>7. LabelsMoved(look[c].of[2])' <=> LabelsMoved(i)'
  BY <1>1 DEF LabelsMoved
<1>8. SubjectMoved(look[c].of[2])' <=> SubjectMoved(i)'
  BY <1>1 DEF SubjectMoved
<1> QED
  BY <1>1, <1>2, <1>3, <1>5, <1>6, <1>7, <1>8 DEF LookOK

\* An investigation takes a step.
LEMMA InvestigationMoves ==
  ASSUME AnalysisInv, A!Next, NEW i \in Investigations, UNCHANGED <<snapshot, labels>>,
         NEW p \in Stands, at' = [at EXCEPT ![i] = p],
         NEW s \in Known, seen' = [seen EXCEPT ![i] = s],
         NEW f \in SUBSET Nat, facts' = [facts EXCEPT ![i] = f],
         rows' \in [A!Results -> SUBSET Tables], failed' \subseteq Investigations,
         seals' \in [A!Results -> {"none", "complete", "invalidated"}],
         \A r \in A!Results : r[2] # i => rows'[r] = rows[r] /\ seals'[r] = seals[r],
         look' \in [A!Askers -> Inspection],
         \A c \in A!Askers : look'[c] = look[c] \/ LookOK(c)',
         at[i] \notin Early => p \notin Early /\ s = seen[i],
         InvestigationOK(i)'
  PROVE  AnalysisInv'
<1>1. TypedA
  BY DEF AnalysisInv
<1>2. TypedA'
  BY <1>1, HeldFacts DEF TypedA
<1>3. Advance
  BY <1>1 DEF Advance, TypedA
<1>4. ASSUME NEW j \in Investigations, j # i PROVE InvestigationOK(j)'
  <2>1. at'[j] = at[j] /\ seen'[j] = seen[j] /\ facts'[j] = facts[j]
    BY <1>1, <1>4 DEF TypedA
  <2>2. /\ rows'[<<"exposure", j>>] = rows[<<"exposure", j>>]
        /\ rows'[<<"risk", j>>] = rows[<<"risk", j>>]
        /\ seals'[<<"exposure", j>>] = seals[<<"exposure", j>>]
        /\ seals'[<<"risk", j>>] = seals[<<"risk", j>>]
    BY <1>1, <1>4, AnalysisValues
  <2>3. InvestigationOK(j)
    BY DEF AnalysisInv
  <2> QED
    BY <1>1, <1>2, <1>3, <2>1, <2>2, <2>3, InvestigationStays
<1>5. \A j \in Investigations : at[j] \notin Early => at'[j] \notin Early /\ seen'[j] = seen[j]
  BY <1>1 DEF TypedA
<1>6. ASSUME NEW c \in A!Askers, look'[c] = look[c] PROVE LookOK(c)'
  <2>1. LookOK(c) /\ \A j \in Investigations : ReadOK(j)
    BY DEF AnalysisInv, InvestigationOK
  <2> QED
    BY <1>1, <1>2, <1>3, <1>5, <1>6, <2>1, LookStays
<1> QED
  BY <1>2, <1>4, <1>6 DEF AnalysisInv

\* A query of an inspection.
LEMMA LookMoves ==
  ASSUME AnalysisInv, A!Next, NEW c \in A!Askers,
         UNCHANGED <<snapshot, labels, A!stored, at, seen, facts>>,
         NEW l \in Inspection, look' = [look EXCEPT ![c] = l],
         LookOK(c)'
  PROVE  AnalysisInv'
<1>1. TypedA
  BY DEF AnalysisInv
<1>2. TypedA'
  BY <1>1, HeldFacts DEF TypedA, A!stored
<1>3. Advance
  BY <1>1 DEF Advance, TypedA
<1>4. ASSUME NEW i \in Investigations PROVE InvestigationOK(i)'
  BY <1>1, <1>2, <1>3, InvestigationStays DEF AnalysisInv, A!stored
<1>5. ASSUME NEW d \in A!Askers, d # c PROVE LookOK(d)'
  <2>1. look'[d] = look[d] /\ LookOK(d) /\ \A j \in Investigations : ReadOK(j)
    BY <1>1, <1>5 DEF AnalysisInv, InvestigationOK, TypedA
  <2> QED
    BY <1>1, <1>2, <1>3, <2>1, LookStays
<1> QED
  BY <1>2, <1>4, <1>5 DEF AnalysisInv

LEMMA EnvironmentStep ==
  ASSUME AnalysisInv, A!Next, UNCHANGED <<A!stored, at, seen, facts, look>>,
         snapshot' \in A!Source, labels' \in [Addresses -> Nat], Advance
  PROVE  AnalysisInv'
<1>1. TypedA
  BY DEF AnalysisInv
<1>2. TypedA'
  BY <1>1, HeldFacts DEF TypedA, A!stored
<1>3. ASSUME NEW i \in Investigations PROVE InvestigationOK(i)'
  BY <1>1, <1>2, InvestigationStays DEF AnalysisInv, A!stored
<1>4. ASSUME NEW c \in A!Askers PROVE LookOK(c)'
  <2>1. LookOK(c) /\ \A j \in Investigations : ReadOK(j)
    BY DEF AnalysisInv, InvestigationOK
  <2> QED
    BY <1>1, <1>2, <2>1, LookStays
<1> QED
  BY <1>2, <1>3, <1>4 DEF AnalysisInv

-----------------------------------------------------------------------------
(* Analyses: inspections *)

LEMMA LookValues ==
  ASSUME AnalysisInv, NEW c \in A!Askers
  PROVE  /\ TypedA /\ LookOK(c) /\ look[c] \in Inspection
         /\ look[c].of \in A!Results /\ look[c].of[2] \in Investigations
         /\ look[c].of[1] \in {"exposure", "risk"}
         /\ look[c].of = <<look[c].of[1], look[c].of[2]>>
BY DEF AnalysisInv, TypedA, Inspection, A!Results, A!Families

LEMMA NoLookTyped == A!NoLook \in Inspection /\ A!NoLook.step = "idle"
<1>1. (CHOOSE i \in Investigations : TRUE) \in Investigations
  BY AnalysisAssumption
<1>2. <<"risk", CHOOSE i \in Investigations : TRUE>> \in A!Results
  BY <1>1 DEF A!Results, A!Families
<1>3. [tip |-> NoHash, revision |-> 0] \in A!Source
  BY DEF A!Source
<1> QED
  BY <1>2, <1>3 DEF A!NoLook, Inspection, Steps

\* A query decides whether the inspection goes on.
LEMMA CheckMoves ==
  ASSUME AnalysisInv, A!Next, NEW c \in A!Askers,
         UNCHANGED <<snapshot, labels, A!stored, at, seen, facts>>,
         NEW ok, NEW next \in Steps, A!Step(c, ok, next), look[c].step # "idle", next # "idle",
         (look'[c].of = look[c].of /\ ok /\ look'[c].step = next) => LookOK(c)'
  PROVE  AnalysisInv'
<1> DEFINE l == [look[c] EXCEPT !.step = IF ok THEN next ELSE "refused"]
<1>1. /\ TypedA /\ LookOK(c) /\ look[c] \in Inspection
  BY LookValues
<1>2. look' = [look EXCEPT ![c] = l]
  BY <1>1 DEF A!Step, TypedA
<1>3. /\ l \in Inspection /\ l.of = look[c].of
      /\ l.step = IF ok THEN next ELSE "refused"
  BY <1>1 DEF Inspection, Steps
<1> HIDE DEF l
<1>4. look'[c] = l
  BY <1>1, <1>2 DEF TypedA
<1>5. LookOK(c)'
  <2>1. CASE ok
    BY <1>3, <1>4, <2>1
  <2>2. CASE ~ok
    <3>1. l.step = "refused" /\ at[l.of[2]] \notin Early
      BY <1>1, <1>3, <2>2 DEF LookOK
    <3> QED
      BY <1>4, <3>1 DEF LookOK
  <2> QED
    BY <2>1, <2>2
<1> QED
  BY <1>2, <1>3, <1>5, LookMoves

LEMMA LookSourceStep ==
  ASSUME AnalysisInv, A!Next, NEW c \in A!Askers,
         UNCHANGED <<snapshot, labels, A!stored, at, seen, facts>>,
         A!LookSource(c)
  PROVE  AnalysisInv'
<1> DEFINE l == [look[c] EXCEPT !.source = snapshot, !.step = "seal"]
<1>1. /\ TypedA /\ LookOK(c) /\ look[c] \in Inspection /\ snapshot \in A!Source
      /\ look[c].step = "source"
  BY LookValues DEF TypedA, A!LookSource
<1>2. look' = [look EXCEPT ![c] = l]
  BY <1>1 DEF A!LookSource, TypedA
<1>3. l \in Inspection /\ l.of = look[c].of /\ l.step = "seal"
  BY <1>1 DEF Inspection, Steps
<1> HIDE DEF l
<1>4. look'[c] = l
  BY <1>1, <1>2 DEF TypedA
<1>5. LookOK(c)'
  BY <1>1, <1>3, <1>4 DEF LookOK
<1> QED
  BY <1>2, <1>3, <1>5, LookMoves

\* The moment an inspected assessment is seen to be visible: it is current then, or its
\* labels have moved already, and a later query will notice.
LEMMA LookSealStep ==
  ASSUME AnalysisInv, A!Next, NEW c \in A!Askers,
         UNCHANGED <<snapshot, labels, A!stored, at, seen, facts>>,
         A!LookSeal(c)
  PROVE  AnalysisInv'
<1>0. PICK i \in Investigations : i = look[c].of[2]
  BY LookValues
<1> DEFINE ok == A!RiskVisible(i) /\ A!Counted(look[c].of) /\ seen[i].source = look[c].source
<1>1. /\ look[c].step = "seal" /\ A!Step(c, ok, "subject") /\ "subject" \in Steps
  BY <1>0 DEF A!LookSeal, Steps
<1>2. TypedA /\ LookOK(c)
      /\ look[c].of = <<look[c].of[1], i>> /\ look[c].of[1] \in {"exposure", "risk"}
  BY <1>0, LookValues
<1>3. ASSUME look'[c].of = look[c].of, ok, look'[c].step = "subject" PROVE LookOK(c)'
  <2>1. ASSUME look[c].of[1] = "risk", ~LabelsMoved(i), ~SubjectMoved(i) PROVE current'[c]
    <3>1. labels = seen[i].labels
      <4>1. labels \in [Addresses -> Nat] /\ seen[i].labels \in [Addresses -> Nat \cup {A!Unread}]
        BY <1>2, AnalysisValues DEF TypedA
      <4> QED
        BY <2>1, <4>1 DEF LabelsMoved
    <3>2. A!FullyCurrent(<<"risk", i>>)
      BY <1>3, <2>1, <3>1 DEF A!FullyCurrent, A!Visible, A!RiskVisible, SubjectMoved
    <3>3. A!FullyCurrent(<<"risk", i>>)'
      BY <3>2
         DEF A!FullyCurrent, A!Visible, A!RiskVisible, A!ExposureVisible, A!Shown,
             A!SealVisible, A!SnapshotOf, A!stored
    <3>4. look'[c].of = <<"risk", i>>
      BY <1>2, <1>3, <2>1
    <3> QED
      BY <1>3, <3>3, <3>4, HeldFacts
  <2>2. at'[i] \notin Early
    BY <1>0, <1>1, <1>2 DEF LookOK
  <2> QED
    BY <1>0, <1>3, <2>1, <2>2 DEF LookOK, LabelsMoved, SubjectMoved
<1> HIDE DEF ok
<1> QED
  BY <1>1, <1>3, CheckMoves

LEMMA LookSubjectStep ==
  ASSUME AnalysisInv, A!Next, NEW c \in A!Askers,
         UNCHANGED <<snapshot, labels, A!stored, at, seen, facts>>,
         A!LookSubject(c)
  PROVE  AnalysisInv'
<1> DEFINE i == look[c].of[2]
           ok == A!SubjectUnchanged(i)
<1>1. /\ look[c].step = "subject" /\ A!Step(c, ok, "run") /\ "run" \in Steps
  BY DEF A!LookSubject, Steps
<1>2. LookOK(c) /\ TypedA
  BY LookValues
<1>3. ASSUME look'[c].of = look[c].of, ok, look'[c].step = "run" PROVE LookOK(c)'
  <2>1. ~SubjectMoved(i)
    BY <1>3 DEF A!SubjectUnchanged, SubjectMoved
  <2>2. /\ at[i] \notin Early
        /\ look[c].of[1] = "risk" => current[c] \/ LabelsMoved(i)
    BY <1>1, <1>2, <2>1 DEF LookOK
  <2>3. current[c] => current'[c]
    BY <1>1, <1>3, HeldFacts
  <2> QED
    BY <1>3, <2>2, <2>3 DEF LookOK, LabelsMoved
<1> HIDE DEF ok
<1> QED
  BY <1>1, <1>3, CheckMoves

LEMMA LookRunStep ==
  ASSUME AnalysisInv, A!Next, NEW c \in A!Askers,
         UNCHANGED <<snapshot, labels, A!stored, at, seen, facts>>,
         A!LookRun(c)
  PROVE  AnalysisInv'
<1> DEFINE i == look[c].of[2]
           step == IF i \notin failed /\ A!Counted(<<"exposure", i>>) THEN "runSeal" ELSE "refused"
           l == [look[c] EXCEPT !.exposureSource = snapshot, !.step = step]
<1>1. /\ TypedA /\ LookOK(c) /\ look[c] \in Inspection /\ snapshot \in A!Source
      /\ look[c].step = "run"
  BY LookValues DEF TypedA, A!LookRun
<1>2. look' = [look EXCEPT ![c] = l]
  BY <1>1 DEF A!LookRun, TypedA
<1>3. step \in {"runSeal", "refused"}
  OBVIOUS
<1> HIDE DEF step
<1>4. l \in Inspection /\ l.of = look[c].of /\ l.step = step
  BY <1>1, <1>3 DEF Inspection, Steps
<1> HIDE DEF l
<1>5. look'[c] = l
  BY <1>1, <1>2 DEF TypedA
<1>6. current[c] => current'[c]
  BY <1>1, <1>3, <1>4, <1>5, HeldFacts
<1>7. LookOK(c)'
  BY <1>1, <1>3, <1>4, <1>5, <1>6 DEF LookOK, LabelsMoved
<1> QED
  BY <1>2, <1>4, <1>7, LookMoves

LEMMA LookRunSealStep ==
  ASSUME AnalysisInv, A!Next, NEW c \in A!Askers,
         UNCHANGED <<snapshot, labels, A!stored, at, seen, facts>>,
         A!LookRunSeal(c)
  PROVE  AnalysisInv'
<1>0. PICK i \in Investigations : i = look[c].of[2]
  BY LookValues
<1> DEFINE ok == A!ExposureVisible(i) /\ seen[i].snapshot = look[c].exposureSource
<1>1. /\ look[c].step = "runSeal" /\ A!Step(c, ok, "labels") /\ "labels" \in Steps
  BY <1>0 DEF A!LookRunSeal, Steps
<1>2. TypedA /\ LookOK(c)
      /\ look[c].of = <<look[c].of[1], i>> /\ look[c].of[1] \in {"exposure", "risk"}
  BY <1>0, LookValues
<1>3. ASSUME look'[c].of = look[c].of, ok, look'[c].step = "labels" PROVE LookOK(c)'
  <2>1. ASSUME look[c].of[1] = "exposure", ~LabelsMoved(i) PROVE current'[c]
    <3>1. labels = seen[i].labels
      <4>1. labels \in [Addresses -> Nat] /\ seen[i].labels \in [Addresses -> Nat \cup {A!Unread}]
        BY <1>2, AnalysisValues DEF TypedA
      <4> QED
        BY <2>1, <4>1 DEF LabelsMoved
    <3>2. A!FullyCurrent(<<"exposure", i>>)
      BY <1>3, <3>1 DEF A!FullyCurrent, A!Visible
    <3>3. A!FullyCurrent(<<"exposure", i>>)'
      BY <3>2
         DEF A!FullyCurrent, A!Visible, A!RiskVisible, A!ExposureVisible, A!Shown,
             A!SealVisible, A!SnapshotOf, A!stored
    <3>4. look'[c].of = <<"exposure", i>>
      BY <1>2, <1>3, <2>1
    <3> QED
      BY <1>3, <3>3, <3>4, HeldFacts
  <2>2. /\ at[i] \notin Early
        /\ look[c].of[1] = "risk" => current[c] \/ LabelsMoved(i)
    BY <1>0, <1>1, <1>2 DEF LookOK
  <2>3. current[c] => current'[c]
    BY <1>1, <1>3, HeldFacts
  <2> QED
    BY <1>0, <1>2, <1>3, <2>1, <2>2, <2>3 DEF LookOK, LabelsMoved
<1> HIDE DEF ok
<1> QED
  BY <1>1, <1>3, CheckMoves

LEMMA LookLabelsStep ==
  ASSUME AnalysisInv, A!Next, NEW c \in A!Askers,
         UNCHANGED <<snapshot, labels, A!stored, at, seen, facts>>,
         A!LookLabels(c)
  PROVE  AnalysisInv'
<1> DEFINE i == look[c].of[2]
           ok == A!LabelsUnchanged(i)
<1>1. /\ look[c].step = "labels" /\ A!Step(c, ok, "runEnd") /\ "runEnd" \in Steps
  BY DEF A!LookLabels, Steps
<1>2. LookOK(c) /\ TypedA
  BY LookValues
<1>3. ASSUME look'[c].of = look[c].of, ok, look'[c].step = "runEnd" PROVE LookOK(c)'
  <2>1. ~LabelsMoved(i)
    BY <1>3 DEF A!LabelsUnchanged, LabelsMoved
  <2>2. at[i] \notin Early /\ current[c]
    BY <1>1, <1>2, <2>1 DEF LookOK
  <2>3. current[c] => current'[c]
    BY <1>1, <1>3, HeldFacts
  <2> QED
    BY <1>3, <2>2, <2>3 DEF LookOK
<1> HIDE DEF ok
<1> QED
  BY <1>1, <1>3, CheckMoves

\* Nothing that the last queries look at can make a held result unheld.
LEMMA LookEndSteps ==
  ASSUME AnalysisInv, A!Next, NEW c \in A!Askers,
         UNCHANGED <<snapshot, labels, A!stored, at, seen, facts>>,
         A!LookRunEnd(c) \/ A!LookEnd(c)
  PROVE  AnalysisInv'
<1>1. PICK ok, next : A!Step(c, ok, next) /\ next \in {"end", "current"}
  <2>1. CASE A!LookRunEnd(c)
    <3> DEFINE ok == A!Unchanged(look[c].exposureSource)
               next == IF look[c].of[1] = "risk" THEN "end" ELSE "current"
    <3>1. A!Step(c, ok, next) /\ next \in {"end", "current"}
      BY <2>1 DEF A!LookRunEnd
    <3> HIDE DEF ok, next
    <3> QED
      BY <3>1
  <2>2. CASE A!LookEnd(c)
    <3> DEFINE ok == A!Unchanged(look[c].source)
    <3>1. A!Step(c, ok, "current")
      BY <2>2 DEF A!LookEnd
    <3> HIDE DEF ok
    <3> QED
      BY <3>1
  <2> QED
    BY <2>1, <2>2
<1>2. LookOK(c) /\ TypedA /\ look[c].step \in {"runEnd", "end"}
  BY LookValues DEF A!LookRunEnd, A!LookEnd
<1>3. ASSUME look'[c].of = look[c].of, ok, look'[c].step = next PROVE LookOK(c)'
  <2>1. at[look[c].of[2]] \notin Early /\ current[c]
    BY <1>2 DEF LookOK
  <2>2. current[c] => current'[c]
    BY <1>1, <1>2, <1>3, HeldFacts
  <2> QED
    BY <1>3, <2>1, <2>2 DEF LookOK
<1> QED
  BY <1>1, <1>2, <1>3, CheckMoves DEF Steps

LEMMA LookStep ==
  ASSUME AnalysisInv, A!Next, NEW c \in A!Askers, A!Look(c) PROVE AnalysisInv'
BY LookSourceStep, LookSealStep, LookSubjectStep, LookRunStep, LookRunSealStep, LookLabelsStep,
   LookEndSteps
   DEF A!Look

\* A reader names a result with rows, so its investigation has read what it reads.
LEMMA AnalysisInspectStep ==
  ASSUME AnalysisInv, A!Next, NEW c \in A!Askers, NEW r \in A!Results, A!Inspect(c, r)
  PROVE AnalysisInv'
<1> DEFINE step == IF r[1] = "risk" THEN "source" ELSE "run"
           l == [A!NoLook EXCEPT !.of = r, !.step = step]
<1>1. /\ look' = [look EXCEPT ![c] = l] /\ Parent \in rows[r]
      /\ UNCHANGED <<snapshot, labels, A!stored, at, seen, facts>>
  BY DEF A!Inspect, A!StartLook
<1>2. l \in Inspection /\ l.of = r /\ l.step = step
  BY NoLookTyped DEF Inspection, Steps
<1>3. PICK i \in Investigations : r = <<"exposure", i>> \/ r = <<"risk", i>>
  BY DEF A!Results, A!Families
<1>4. at[i] \notin Early
  BY <1>1, <1>3 DEF AnalysisInv, InvestigationOK, StoredOK, Early, Sealing
<1>5. look'[c] = l
  BY <1>1 DEF AnalysisInv, TypedA
<1>6. LookOK(c)'
  <2>1. l.of[2] = i /\ l.of[1] = r[1] /\ (step = "source" \/ (step = "run" /\ r[1] # "risk"))
    BY <1>2, <1>3
  <2> HIDE DEF l, step
  <2> QED
    BY <1>1, <1>2, <1>4, <1>5, <2>1 DEF LookOK
<1> HIDE DEF l
<1> QED
  BY <1>1, <1>2, <1>6, LookMoves

LEMMA AnswerSteps ==
  ASSUME AnalysisInv, A!Next, NEW c \in A!Askers, A!Answer(c) PROVE AnalysisInv'
<1>1. /\ look' = [look EXCEPT ![c] = A!NoLook]
      /\ UNCHANGED <<snapshot, labels, A!stored, at, seen, facts>>
  BY DEF A!Answer
<1>2. LookOK(c)'
  BY <1>1, NoLookTyped DEF AnalysisInv, TypedA, LookOK
<1> QED
  BY <1>1, <1>2, NoLookTyped, LookMoves

-----------------------------------------------------------------------------
(* An investigation up to its scan *)

LEMMA InvestigationFacts ==
  ASSUME AnalysisInv, NEW i \in Investigations
  PROVE  /\ TypedA /\ ReadOK(i) /\ CheckedOK(i) /\ StoredOK(i)
BY DEF AnalysisInv, InvestigationOK

\* A step that touches nothing but what the investigation has read.
LEMMA ReadMoves ==
  ASSUME AnalysisInv, A!Next, NEW i \in Investigations,
         UNCHANGED <<snapshot, labels, A!stored, look>>,
         at[i] \in Early, NEW p \in Early, at' = [at EXCEPT ![i] = p],
         NEW s \in Known, seen' = [seen EXCEPT ![i] = s],
         NEW f \in SUBSET Nat, facts' = [facts EXCEPT ![i] = f],
         at'[i] = p /\ seen'[i] = s /\ facts'[i] = f => ReadOK(i)'
  PROVE  AnalysisInv'
<1>1. TypedA /\ CheckedOK(i) /\ StoredOK(i)
  BY InvestigationFacts
<1>2. at'[i] = p /\ seen'[i] = s /\ facts'[i] = f
  BY <1>1 DEF TypedA
<1>3. CheckedOK(i)'
  BY <1>2 DEF CheckedOK, Early, Recording, Sealing
<1>4. StoredOK(i)'
  BY <1>1, <1>2 DEF StoredOK, A!stored, Early, Storing, Sealing
<1>5. /\ rows' \in [A!Results -> SUBSET Tables] /\ failed' \subseteq Investigations
      /\ seals' \in [A!Results -> {"none", "complete", "invalidated"}]
      /\ look' \in [A!Askers -> Inspection] /\ p \in Stands
  BY <1>1 DEF TypedA, A!stored, Stands
<1> QED
  BY <1>2, <1>3, <1>4, <1>5, InvestigationMoves DEF InvestigationOK, A!stored

LEMMA BeginStep ==
  ASSUME AnalysisInv, A!Next, NEW i \in Investigations, A!Begin(i) PROVE AnalysisInv'
<1> DEFINE s == [seen[i] EXCEPT !.source = snapshot]
<1>1. /\ at[i] = "idle" /\ UNCHANGED <<snapshot, labels, A!stored, look>>
      /\ at' = [at EXCEPT ![i] = "attribution"] /\ facts' = facts
      /\ TypedA /\ ReadOK(i)
  BY InvestigationFacts DEF A!Begin, A!Goto
<1>2. seen' = [seen EXCEPT ![i] = s]
  BY <1>1 DEF A!Begin, TypedA, Known
<1>3. s \in Known
  BY <1>1 DEF TypedA, Known
<1>4. s.source = snapshot /\ s.snapshot = seen[i].snapshot /\ s.subject = seen[i].subject
      /\ s.labels = seen[i].labels
  BY <1>1, AnalysisValues DEF Known
<1> HIDE DEF s
<1>5. ASSUME at'[i] = "attribution", seen'[i] = s, facts'[i] = facts[i] PROVE ReadOK(i)'
  <2>1. snapshot.revision <= snapshot.revision
    BY <1>1, SourceRevision
  <2> QED
    BY <1>1, <1>4, <1>5, <2>1 DEF ReadOK, Past
<1>6. facts[i] \in SUBSET Nat /\ facts' = [facts EXCEPT ![i] = facts[i]]
  BY <1>1 DEF TypedA
<1> QED
  BY <1>1, <1>2, <1>3, <1>5, <1>6, ReadMoves DEF Early

LEMMA ReadAttributionStep ==
  ASSUME AnalysisInv, A!Next, NEW i \in Investigations, A!ReadAttribution(i) PROVE AnalysisInv'
<1> DEFINE s == [seen[i] EXCEPT !.subject = labels[Subject]]
<1>1. /\ at[i] = "attribution" /\ UNCHANGED <<snapshot, labels, A!stored, look>>
      /\ at' = [at EXCEPT ![i] = "capture"] /\ facts' = facts
      /\ TypedA /\ ReadOK(i)
  BY InvestigationFacts DEF A!ReadAttribution, A!Goto
<1>2. seen' = [seen EXCEPT ![i] = s]
  BY <1>1 DEF A!ReadAttribution, TypedA, Known
<1>3. s \in Known
  BY <1>1, AnalysisValues DEF Known
<1>4. s.source = seen[i].source /\ s.snapshot = seen[i].snapshot /\ s.subject = labels[Subject]
      /\ s.labels = seen[i].labels
  BY <1>1, AnalysisValues DEF Known
<1> HIDE DEF s
<1>5. ASSUME at'[i] = "capture", seen'[i] = s, facts'[i] = facts[i] PROVE ReadOK(i)'
  <2>1. labels[Subject] <= labels[Subject]
    BY <1>1, Versions
  <2>2. facts[i] = {} /\ seen[i].labels[Subject] = A!Unread
    BY <1>1, AnalysisAssumption DEF ReadOK
  <2> QED
    BY <1>1, <1>4, <1>5, <2>1, <2>2 DEF ReadOK, Past
<1>6. facts[i] \in SUBSET Nat /\ facts' = [facts EXCEPT ![i] = facts[i]]
  BY <1>1 DEF TypedA
<1> QED
  BY <1>1, <1>2, <1>3, <1>5, <1>6, ReadMoves DEF Early

LEMMA CaptureSourceStep ==
  ASSUME AnalysisInv, A!Next, NEW i \in Investigations, A!CaptureSource(i) PROVE AnalysisInv'
<1> DEFINE s == [seen[i] EXCEPT !.snapshot = snapshot]
<1>1. /\ at[i] = "capture" /\ UNCHANGED <<snapshot, labels, A!stored, look>>
      /\ at' = [at EXCEPT ![i] = "scan"] /\ facts' = facts
      /\ TypedA /\ ReadOK(i)
  BY InvestigationFacts DEF A!CaptureSource, A!Goto
<1>2. seen' = [seen EXCEPT ![i] = s]
  BY <1>1 DEF A!CaptureSource, TypedA, Known
<1>3. s \in Known
  BY <1>1 DEF TypedA, Known
<1>4. s.source = seen[i].source /\ s.snapshot = snapshot /\ s.subject = seen[i].subject
      /\ s.labels = seen[i].labels
  BY <1>1, AnalysisValues DEF Known
<1> HIDE DEF s
<1>5. ASSUME at'[i] = "scan", seen'[i] = s, facts'[i] = facts[i] PROVE ReadOK(i)'
  <2>1. facts[i] = {} /\ snapshot.revision <= snapshot.revision
    BY <1>1, SourceRevision DEF ReadOK
  <2>2. seen[i].source.revision <= snapshot.revision
    BY <1>1 DEF ReadOK, Past
  <2> QED
    BY <1>1, <1>4, <1>5, <2>1, <2>2 DEF ReadOK, Past
<1>6. facts[i] \in SUBSET Nat /\ facts' = [facts EXCEPT ![i] = facts[i]]
  BY <1>1 DEF TypedA
<1> QED
  BY <1>1, <1>2, <1>3, <1>5, <1>6, ReadMoves DEF Early

\* The subject's label is read again here, and versions do not come back.
LEMMA ScanStep ==
  ASSUME AnalysisInv, A!Next, NEW i \in Investigations, NEW a \in Addresses, A!Scan(i, a)
  PROVE  AnalysisInv'
<1> DEFINE table == [seen[i].labels EXCEPT ![a] = labels[a]]
           s == [seen[i] EXCEPT !.labels = table]
           f == facts[i] \cup {snapshot.revision}
<1>1. /\ at[i] = "scan" /\ UNCHANGED <<snapshot, labels, A!stored, at, look>>
      /\ seen' = [seen EXCEPT ![i].labels[a] = labels[a]]
      /\ facts' = [facts EXCEPT ![i] = f]
      /\ TypedA /\ ReadOK(i)
  BY InvestigationFacts DEF A!Scan, TypedA
<1>2. seen' = [seen EXCEPT ![i] = s]
  BY <1>1 DEF TypedA, Known
<1>3. /\ table \in [Addresses -> Nat \cup {A!Unread}] /\ table[a] = labels[a]
      /\ \A b \in Addresses : b # a => table[b] = seen[i].labels[b]
  BY <1>1, AnalysisValues DEF TypedA
<1> HIDE DEF table
<1>4. s \in Known
  BY <1>1, <1>3 DEF TypedA, Known
<1>5. s.source = seen[i].source /\ s.snapshot = seen[i].snapshot /\ s.subject = seen[i].subject
      /\ s.labels = table
  BY <1>1, AnalysisValues DEF Known
<1> HIDE DEF s
<1>6. ASSUME at'[i] = "scan", seen'[i] = s, facts'[i] = f PROVE ReadOK(i)'
  <2>1. \A b \in Addresses : table[b] <= labels[b]
    BY <1>1, <1>3, Versions DEF ReadOK
  <2>2. table[Subject] = A!Unread \/ seen[i].subject <= table[Subject]
    BY <1>1, <1>3, AnalysisAssumption DEF ReadOK
  <2>3. \A n \in f : seen[i].snapshot.revision <= n /\ n <= snapshot.revision
    <3>1. seen[i].snapshot.revision <= snapshot.revision /\ snapshot.revision <= snapshot.revision
      BY <1>1, SourceRevision DEF ReadOK, Past
    <3> QED
      BY <1>1, <3>1 DEF ReadOK
  <2>4. f # {}
    OBVIOUS
  <2> HIDE DEF f
  <2> QED
    BY <1>1, <1>5, <1>6, <2>1, <2>2, <2>3, <2>4 DEF ReadOK, Past
<1>7. f \in SUBSET Nat
  BY <1>1, AnalysisValues
<1>8. at' = [at EXCEPT ![i] = "scan"]
  BY <1>1 DEF TypedA
<1> HIDE DEF f
<1> QED
  BY <1>1, <1>2, <1>4, <1>6, <1>7, <1>8, ReadMoves DEF Early

-----------------------------------------------------------------------------
(* Checks and inserts of an investigation *)

\* What an investigation has read stands once the scan is over.
LEMMA ReadStays ==
  ASSUME TypedA, NEW i \in Investigations, ReadOK(i), UNCHANGED <<snapshot, labels>>,
         seen'[i] = seen[i], facts'[i] = facts[i],
         at[i] \notin {"idle", "attribution", "capture", "over"},
         at'[i] \notin {"idle", "attribution", "capture"}
  PROVE  ReadOK(i)'
BY DEF ReadOK, Past

\* A step that moves rows and seals of the investigation, and perhaps its inspection.
LEMMA StoreMoves ==
  ASSUME AnalysisInv, A!Next, NEW i \in Investigations, UNCHANGED <<snapshot, labels, seen, facts>>,
         at[i] \notin {"idle", "attribution", "capture", "over"},
         NEW p \in Stands, p \notin Early, at' = [at EXCEPT ![i] = p],
         rows' \in [A!Results -> SUBSET Tables], failed' \subseteq Investigations,
         seals' \in [A!Results -> {"none", "complete", "invalidated"}],
         \A r \in A!Results : r[2] # i => rows'[r] = rows[r] /\ seals'[r] = seals[r],
         look' \in [A!Askers -> Inspection],
         at'[i] = p => \A c \in A!Askers : look'[c] = look[c] \/ LookOK(c)',
         at'[i] = p => CheckedOK(i)' /\ StoredOK(i)'
  PROVE  AnalysisInv'
<1>1. TypedA /\ ReadOK(i)
  BY InvestigationFacts
<1>2. /\ at'[i] = p /\ seen'[i] = seen[i] /\ facts'[i] = facts[i]
      /\ seen' = [seen EXCEPT ![i] = seen[i]] /\ facts' = [facts EXCEPT ![i] = facts[i]]
      /\ seen[i] \in Known /\ facts[i] \in SUBSET Nat
  BY <1>1 DEF TypedA
<1>3. ReadOK(i)'
  BY <1>1, <1>2, ReadStays DEF Early
<1>4. InvestigationOK(i)'
  BY <1>2, <1>3 DEF InvestigationOK
<1> QED
  BY <1>2, <1>4, InvestigationMoves

LEMMA PlaceMoves ==
  ASSUME AnalysisInv, A!Next, NEW i \in Investigations,
         UNCHANGED <<snapshot, labels, A!stored, seen, facts, look>>,
         at[i] \notin {"idle", "attribution", "capture", "over"},
         NEW p \in Stands, p \notin Early, A!Goto(i, p),
         at'[i] = p => CheckedOK(i)' /\ StoredOK(i)'
  PROVE  AnalysisInv'
<1>1. TypedA
  BY InvestigationFacts
<1>2. /\ rows' \in [A!Results -> SUBSET Tables] /\ failed' \subseteq Investigations
      /\ seals' \in [A!Results -> {"none", "complete", "invalidated"}]
      /\ look' \in [A!Askers -> Inspection]
  BY <1>1 DEF TypedA, A!stored
<1> QED
  BY <1>2, StoreMoves DEF A!Goto, A!stored

LEMMA CheckLabelsStep ==
  ASSUME AnalysisInv, A!Next, NEW i \in Investigations, A!CheckLabels(i) PROVE AnalysisInv'
<1>1. /\ at[i] = "scan" /\ UNCHANGED <<snapshot, labels, A!stored, seen, facts, look>>
      /\ A!Goto(i, "exposure check") /\ \A a \in Addresses : seen[i].labels[a] # A!Unread
  BY DEF A!CheckLabels
<1>2. ReadOK(i) /\ CheckedOK(i) /\ StoredOK(i)
  BY InvestigationFacts
<1>3. facts[i] # {}
  BY <1>1, <1>2, AnalysisAssumption DEF ReadOK
<1>4. ASSUME at'[i] = "exposure check" PROVE CheckedOK(i)' /\ StoredOK(i)'
  <2>1. CheckedOK(i)'
    BY <1>1, <1>3, <1>4, AnalysisAssumption DEF CheckedOK, Recording, Sealing
  <2>2. StoredOK(i)'
    BY <1>1, <1>2, <1>4 DEF StoredOK, A!stored, Early, Storing, Sealing
  <2> QED
    BY <2>1, <2>2
<1> QED
  BY <1>1, <1>4, PlaceMoves DEF Early, Stands, Storing

\* The source has not moved since it was captured, so neither did it during the scan.
LEMMA CheckSourceStep ==
  ASSUME AnalysisInv, A!Next, NEW i \in Investigations, A!CheckSource(i) PROVE AnalysisInv'
<1>1. UNCHANGED <<snapshot, labels, A!stored, seen, facts, look>>
  BY DEF A!CheckSource
<1>2. TypedA /\ ReadOK(i) /\ CheckedOK(i) /\ StoredOK(i)
  BY InvestigationFacts
<1>3. CASE /\ at[i] = "exposure check" /\ snapshot = seen[i].snapshot
           /\ A!Goto(i, "exposure insert")
  <2>1. facts[i] = {seen[i].snapshot.revision}
    <3>1. \A n \in facts[i] : n = snapshot.revision
      <4>1. \A n \in facts[i] : n \in Nat /\ snapshot.revision \in Nat
        BY <1>2, AnalysisValues
      <4>2. \A n \in facts[i] : seen[i].snapshot.revision <= n /\ n <= snapshot.revision
        BY <1>2 DEF ReadOK
      <4>3. seen[i].snapshot.revision = snapshot.revision
        BY <1>3
      <4> QED
        BY <4>1, <4>2, <4>3
    <3>2. facts[i] # {}
      BY <1>2, <1>3 DEF CheckedOK
    <3> QED
      BY <1>3, <3>1, <3>2
  <2>2. ASSUME at'[i] = "exposure insert" PROVE CheckedOK(i)' /\ StoredOK(i)'
    <3>1. CheckedOK(i)'
      BY <1>1, <1>2, <1>3, <2>1, <2>2 DEF CheckedOK, Early, Recording, Sealing
    <3>2. StoredOK(i)'
      BY <1>1, <1>2, <1>3, <2>2 DEF StoredOK, A!stored, Early, Storing, Sealing
    <3> QED
      BY <3>1, <3>2
  <2> QED
    BY <1>1, <1>3, <2>2, PlaceMoves DEF Early, Stands, Storing
<1>4. ASSUME NEW p \in {"risk dependency", "risk insert"}, A!Goto(i, p),
             at[i] \in {"risk check", "risk dependency"}
      PROVE  AnalysisInv'
  <2>1. ASSUME at'[i] = p PROVE CheckedOK(i)' /\ StoredOK(i)'
    <3>1. CheckedOK(i)'
      BY <1>1, <1>2, <1>4, <2>1 DEF CheckedOK, Early, Recording, Sealing
    <3>2. StoredOK(i)'
      BY <1>1, <1>2, <1>4, <2>1 DEF StoredOK, A!stored, Early, Storing, Sealing
    <3> QED
      BY <3>1, <3>2
  <2> QED
    BY <1>1, <1>4, <2>1, PlaceMoves DEF Early, Stands, Recording
<1>5. CASE at[i] = "risk check" /\ A!Goto(i, "risk dependency")
  BY <1>4, <1>5
<1>6. CASE at[i] = "risk dependency" /\ A!Goto(i, "risk insert")
  BY <1>4, <1>6
<1> QED
  BY <1>3, <1>5, <1>6 DEF A!CheckSource, A!Unchanged

LEMMA InsertStep ==
  ASSUME AnalysisInv, A!Next, NEW i \in Investigations, NEW t \in SUBSET Tables, A!Insert(i, t)
  PROVE  AnalysisInv'
<1>1. UNCHANGED <<snapshot, labels, failed, seals, seen, facts, look>>
  BY DEF A!Insert
<1>2. /\ TypedA /\ ReadOK(i) /\ CheckedOK(i) /\ StoredOK(i)
      /\ <<"exposure", i>> \in A!Results /\ <<"risk", i>> \in A!Results
  BY InvestigationFacts, AnalysisValues
<1>3. ASSUME NEW r \in A!Results, r[2] = i, rows' = [rows EXCEPT ![r] = t]
      PROVE  /\ rows' \in [A!Results -> SUBSET Tables] /\ rows'[r] = t
             /\ \A q \in A!Results : q # r => rows'[q] = rows[q]
             /\ failed' \subseteq Investigations
             /\ seals' \in [A!Results -> {"none", "complete", "invalidated"}]
             /\ look' \in [A!Askers -> Inspection]
  BY <1>1, <1>2, <1>3 DEF TypedA
<1>4. CASE /\ at[i] = "exposure insert" /\ A!Goto(i, "exposure count")
           /\ rows' = [rows EXCEPT ![<<"exposure", i>>] = t]
  <2>1. rows'[<<"risk", i>>] = rows[<<"risk", i>>]
    BY <1>2, <1>3, <1>4
  <2>2. ASSUME at'[i] = "exposure count" PROVE CheckedOK(i)' /\ StoredOK(i)'
    <3>1. CheckedOK(i)'
      BY <1>1, <1>2, <1>4, <2>2 DEF CheckedOK, Early, Recording, Sealing
    <3>2. StoredOK(i)'
      BY <1>1, <1>2, <1>4, <2>1, <2>2 DEF StoredOK, Early, Storing, Sealing
    <3> QED
      BY <3>1, <3>2
  <2>3. \A q \in A!Results : q[2] # i => rows'[q] = rows[q] /\ seals'[q] = seals[q]
    <3>1. <<"exposure", i>>[2] = i
      OBVIOUS
    <3>2. \A q \in A!Results : q[2] # i => q # <<"exposure", i>>
      BY <3>1
    <3> QED
      BY <1>1, <1>2, <1>3, <1>4, <3>1, <3>2
  <2>4. /\ rows' \in [A!Results -> SUBSET Tables] /\ failed' \subseteq Investigations
        /\ seals' \in [A!Results -> {"none", "complete", "invalidated"}]
        /\ look' \in [A!Askers -> Inspection]
    BY <1>2, <1>3, <1>4
  <2> QED
    BY <1>1, <1>4, <2>2, <2>3, <2>4, StoreMoves DEF A!Goto, Early, Stands, Storing
<1>5. CASE /\ at[i] = "risk insert" /\ A!Goto(i, "risk count")
           /\ rows' = [rows EXCEPT ![<<"risk", i>>] = t]
  <2>1. rows'[<<"exposure", i>>] = rows[<<"exposure", i>>]
    BY <1>2, <1>3, <1>5
  <2>2. ASSUME at'[i] = "risk count" PROVE CheckedOK(i)' /\ StoredOK(i)'
    <3>1. CheckedOK(i)'
      BY <1>1, <1>2, <1>5, <2>2 DEF CheckedOK, Early, Recording, Sealing
    <3>2. StoredOK(i)'
      BY <1>1, <1>2, <1>5, <2>1, <2>2 DEF StoredOK, Early, Storing, Sealing
    <3> QED
      BY <3>1, <3>2
  <2>3. \A q \in A!Results : q[2] # i => rows'[q] = rows[q] /\ seals'[q] = seals[q]
    <3>1. <<"risk", i>>[2] = i
      OBVIOUS
    <3>2. \A q \in A!Results : q[2] # i => q # <<"risk", i>>
      BY <3>1
    <3> QED
      BY <1>1, <1>2, <1>3, <1>5, <3>1, <3>2
  <2>4. /\ rows' \in [A!Results -> SUBSET Tables] /\ failed' \subseteq Investigations
        /\ seals' \in [A!Results -> {"none", "complete", "invalidated"}]
        /\ look' \in [A!Askers -> Inspection]
    BY <1>2, <1>3, <1>5
  <2> QED
    BY <1>1, <1>5, <2>2, <2>3, <2>4, StoreMoves DEF A!Goto, Early, Stands, Recording
<1> QED
  BY <1>4, <1>5 DEF A!Insert

\* Counting, and the look at the source before the seal.
LEMMA BeforeSealSteps ==
  ASSUME AnalysisInv, A!Next, NEW i \in Investigations, A!Count(i) \/ A!CheckFence(i)
  PROVE  AnalysisInv'
<1>1. UNCHANGED <<snapshot, labels, A!stored, seen, facts, look>>
  BY DEF A!Count, A!CheckFence
<1>2. TypedA /\ ReadOK(i) /\ CheckedOK(i) /\ StoredOK(i)
  BY InvestigationFacts
<1>3. ASSUME NEW p \in {"exposure fence", "exposure seal"}, A!Goto(i, p),
             at[i] \in {"exposure count", "exposure fence"}, rows[<<"exposure", i>>] = Tables
      PROVE  AnalysisInv'
  <2>1. ASSUME at'[i] = p PROVE CheckedOK(i)' /\ StoredOK(i)'
    <3>1. CheckedOK(i)'
      BY <1>1, <1>2, <1>3, <2>1 DEF CheckedOK, Early, Recording, Sealing
    <3>2. StoredOK(i)'
      BY <1>1, <1>2, <1>3, <2>1 DEF StoredOK, A!stored, Early, Storing, Sealing
    <3> QED
      BY <3>1, <3>2
  <2> QED
    BY <1>1, <1>3, <2>1, PlaceMoves DEF Early, Stands, Storing
<1>4. ASSUME NEW p \in {"risk fence", "risk seal"}, A!Goto(i, p),
             at[i] \in {"risk count", "risk fence"}, rows[<<"risk", i>>] = Tables
      PROVE  AnalysisInv'
  <2>1. ASSUME at'[i] = p PROVE CheckedOK(i)' /\ StoredOK(i)'
    <3>1. CheckedOK(i)'
      BY <1>1, <1>2, <1>4, <2>1 DEF CheckedOK, Early, Recording, Sealing
    <3>2. StoredOK(i)'
      BY <1>1, <1>2, <1>4, <2>1 DEF StoredOK, A!stored, Early, Storing, Sealing
    <3> QED
      BY <3>1, <3>2
  <2> QED
    BY <1>1, <1>4, <2>1, PlaceMoves DEF Early, Stands, Recording
<1>5. CASE A!Count(i)
  BY <1>3, <1>4, <1>5 DEF A!Count, A!Counted
<1>6. CASE A!CheckFence(i)
  BY <1>2, <1>3, <1>4, <1>6 DEF A!CheckFence, StoredOK
<1> QED
  BY <1>5, <1>6

-----------------------------------------------------------------------------
(* Seals, inspections and failures of an investigation *)

\* What a seal sets.
LEMMA SealSet ==
  ASSUME TypedA, NEW i \in Investigations, NEW f \in A!Families,
         NEW v \in {"none", "complete", "invalidated"},
         seals' = [seals EXCEPT ![<<f, i>>] = v]
  PROVE  /\ seals' \in [A!Results -> {"none", "complete", "invalidated"}]
         /\ seals'[<<f, i>>] = v
         /\ \A g \in A!Families : g # f => seals'[<<g, i>>] = seals[<<g, i>>]
         /\ \A r \in A!Results : r[2] # i => seals'[r] = seals[r]
<1>1. seals \in [A!Results -> {"none", "complete", "invalidated"}] /\ <<f, i>> \in A!Results
  BY DEF TypedA, A!Results
<1>2. ASSUME NEW g \in A!Families, g # f PROVE seals'[<<g, i>>] = seals[<<g, i>>]
  <2>1. <<g, i>> \in A!Results /\ <<g, i>> # <<f, i>>
    BY <1>2 DEF A!Results
  <2> QED
    BY <1>1, <2>1
<1>3. <<f, i>>[2] = i
  OBVIOUS
<1>4. ASSUME NEW r \in A!Results, r[2] # i PROVE seals'[r] = seals[r]
  <2>1. r # <<f, i>>
    BY <1>3, <1>4
  <2> QED
    BY <1>1, <2>1
<1> QED
  BY <1>1, <1>2, <1>4

\* What an inspection starts from.
LEMMA StartSet ==
  ASSUME TypedA, NEW i \in Investigations, NEW f \in A!Families, A!StartLook(i, <<f, i>>),
         at'[i] \notin Early
  PROVE  /\ look' \in [A!Askers -> Inspection]
         /\ \A c \in A!Askers : look'[c] = look[c] \/ LookOK(c)'
<1> DEFINE step == IF f = "risk" THEN "source" ELSE "run"
           l == [A!NoLook EXCEPT !.of = <<f, i>>, !.step = step]
<1>1. look' = [look EXCEPT ![i] = l] /\ look \in [A!Askers -> Inspection] /\ i \in A!Askers
  BY DEF A!StartLook, TypedA, A!Askers
<1>2. <<f, i>> \in A!Results
  BY DEF A!Results
<1>3. l \in Inspection /\ l.of = <<f, i>> /\ l.step = step
  BY <1>2, NoLookTyped DEF Inspection, Steps
<1>4. l.of[1] = f /\ l.of[2] = i
  BY <1>3
<1> HIDE DEF l
<1>5. look'[i] = l /\ look' \in [A!Askers -> Inspection]
  BY <1>1, <1>3
<1>6. step = "source" \/ (step = "run" /\ f # "risk")
  OBVIOUS
<1> HIDE DEF step
<1>7. LookOK(i)'
  BY <1>3, <1>4, <1>5, <1>6 DEF LookOK
<1>8. \A c \in A!Askers : c # i => look'[c] = look[c]
  BY <1>1
<1> QED
  BY <1>5, <1>7, <1>8

LEMMA EndSet ==
  ASSUME TypedA, NEW i \in Investigations, look' = [look EXCEPT ![i] = A!NoLook]
  PROVE  /\ look' \in [A!Askers -> Inspection]
         /\ \A c \in A!Askers : look'[c] = look[c] \/ LookOK(c)'
<1>1. look \in [A!Askers -> Inspection] /\ i \in A!Askers
  BY DEF TypedA, A!Askers
<1>2. look' \in [A!Askers -> Inspection] /\ look'[i] = A!NoLook
  BY <1>1, NoLookTyped
<1>3. LookOK(i)'
  BY <1>2, NoLookTyped DEF LookOK
<1>4. \A c \in A!Askers : c # i => look'[c] = look[c]
  BY <1>1
<1> QED
  BY <1>2, <1>3, <1>4

LEMMA SealExposureStep ==
  ASSUME AnalysisInv, A!Next, NEW i \in Investigations, A!SealExposure(i) PROVE AnalysisInv'
<1>1. /\ at[i] = "exposure seal" /\ A!Goto(i, "confirm")
      /\ seals' = [seals EXCEPT ![<<"exposure", i>>] = "complete"]
      /\ UNCHANGED <<snapshot, labels, rows, failed, seen, facts, look>>
  BY DEF A!SealExposure
<1>2. TypedA /\ CheckedOK(i) /\ StoredOK(i)
  BY InvestigationFacts
<1>3. /\ seals' \in [A!Results -> {"none", "complete", "invalidated"}]
      /\ seals'[<<"exposure", i>>] = "complete"
      /\ seals'[<<"risk", i>>] = seals[<<"risk", i>>]
      /\ \A r \in A!Results : r[2] # i => seals'[r] = seals[r]
  BY <1>1, <1>2, SealSet DEF A!Families
<1>4. ASSUME at'[i] = "confirm" PROVE CheckedOK(i)' /\ StoredOK(i)'
  <2>1. CheckedOK(i)'
    BY <1>1, <1>2, <1>4 DEF CheckedOK, Early, Recording, Sealing
  <2>2. facts[i] = {seen[i].snapshot.revision}
    BY <1>1, <1>2 DEF CheckedOK, Early
  <2>3. StoredOK(i)'
    BY <1>1, <1>2, <1>3, <1>4, <2>2 DEF StoredOK, Early, Storing, Sealing
  <2> QED
    BY <2>1, <2>3
<1>5. /\ rows' \in [A!Results -> SUBSET Tables] /\ failed' \subseteq Investigations
      /\ look' \in [A!Askers -> Inspection]
  BY <1>1, <1>2 DEF TypedA
<1> QED
  BY <1>1, <1>3, <1>4, <1>5, StoreMoves DEF A!Goto, Early, Stands

LEMMA ConfirmStep ==
  ASSUME AnalysisInv, A!Next, NEW i \in Investigations, A!Confirm(i) PROVE AnalysisInv'
<1>1. PICK p \in {"join", "withdraw exposure"} :
        /\ at[i] = "confirm" /\ A!Goto(i, p)
        /\ UNCHANGED <<snapshot, labels, A!stored, seen, facts, look>>
  BY DEF A!Confirm
<1>2. TypedA /\ CheckedOK(i) /\ StoredOK(i)
  BY InvestigationFacts
<1>3. ASSUME at'[i] = p PROVE CheckedOK(i)' /\ StoredOK(i)'
  <2>1. CheckedOK(i)'
    BY <1>1, <1>2, <1>3 DEF CheckedOK, Early, Recording, Sealing
  <2>2. StoredOK(i)'
    BY <1>1, <1>2, <1>3 DEF StoredOK, A!stored, Early, Storing, Sealing
  <2> QED
    BY <2>1, <2>2
<1> QED
  BY <1>1, <1>3, PlaceMoves DEF Early, Stands

\* The exposure run was captured later than the investigation began, the subject's label
\* read again; what has not changed until now is what was captured and read in between.
LEMMA JoinSteps ==
  ASSUME AnalysisInv, A!Next, NEW i \in Investigations, A!Join(i) PROVE AnalysisInv'
<1>1. UNCHANGED <<snapshot, labels, A!stored, seen, facts, look>>
  BY DEF A!Join
<1>2. TypedA /\ ReadOK(i) /\ CheckedOK(i) /\ StoredOK(i)
  BY InvestigationFacts
<1>3. ASSUME NEW p \in {"join labels", "record", "depend"}, A!Goto(i, p),
             at[i] \in {"join", "join labels", "record"},
             seen[i].snapshot = seen[i].source,
             p \in {"record", "depend"} => seen[i].labels[Subject] = seen[i].subject
      PROVE  AnalysisInv'
  <2>1. ASSUME at'[i] = p PROVE CheckedOK(i)' /\ StoredOK(i)'
    <3>1. CheckedOK(i)'
      BY <1>1, <1>2, <1>3, <2>1 DEF CheckedOK, Early, Recording, Sealing
    <3>2. StoredOK(i)'
      BY <1>1, <1>2, <1>3, <2>1 DEF StoredOK, A!stored, Early, Storing, Sealing
    <3> QED
      BY <3>1, <3>2
  <2> QED
    BY <1>1, <1>3, <2>1, PlaceMoves DEF Early, Stands, Recording
<1>4. CASE at[i] = "join" /\ snapshot = seen[i].source /\ A!Goto(i, "join labels")
  <2>1. seen[i].source.revision <= seen[i].snapshot.revision /\ Past(seen[i].snapshot)
    BY <1>2, <1>4 DEF ReadOK
  <2>2. seen[i].snapshot.revision \in Nat /\ snapshot.revision \in Nat
    BY <1>2, AnalysisValues
  <2>3. /\ snapshot.revision <= seen[i].snapshot.revision
        /\ seen[i].snapshot.revision <= snapshot.revision
        /\ seen[i].snapshot.revision = snapshot.revision => seen[i].snapshot = snapshot
    BY <1>4, <2>1 DEF Past
  <2>4. seen[i].snapshot.revision = snapshot.revision
    BY <2>2, <2>3
  <2>5. seen[i].snapshot = seen[i].source
    BY <1>4, <2>3, <2>4
  <2> QED
    BY <1>3, <1>4, <2>5
<1>5. CASE at[i] = "join labels" /\ labels[Subject] = seen[i].subject /\ A!Goto(i, "record")
  <2>1. /\ seen[i].labels[Subject] # A!Unread /\ seen[i].snapshot = seen[i].source
    BY <1>2, <1>5 DEF CheckedOK, Early
  <2>2. Subject \in Addresses /\ seen[i].labels[Subject] \in Int /\ seen[i].subject \in Int
    BY <1>2, Versions
  <2>3. seen[i].subject <= seen[i].labels[Subject] /\ seen[i].labels[Subject] <= seen[i].subject
    BY <1>2, <1>5, <2>1, <2>2 DEF ReadOK
  <2>4. seen[i].labels[Subject] = seen[i].subject
    BY <2>2, <2>3
  <2> QED
    BY <1>3, <1>5, <2>1, <2>4
<1>6. CASE at[i] = "record" /\ A!Goto(i, "depend")
  <2>1. seen[i].snapshot = seen[i].source /\ seen[i].labels[Subject] = seen[i].subject
    BY <1>2, <1>6 DEF CheckedOK, Recording
  <2> QED
    BY <1>3, <1>6, <2>1
<1> QED
  BY <1>4, <1>5, <1>6 DEF A!Join, A!Unchanged, A!SubjectUnchanged

\* The investigation inspects the exposure run, and goes on when it is current.
LEMMA DependSteps ==
  ASSUME AnalysisInv, A!Next, NEW i \in Investigations, A!Depend(i) \/ A!Depended(i)
  PROVE  AnalysisInv'
<1>1. TypedA /\ CheckedOK(i) /\ StoredOK(i)
  BY InvestigationFacts
<1>2. PICK p \in {"inspect exposure", "risk check"} :
        /\ at[i] \in {"depend", "inspect exposure"} /\ A!Goto(i, p)
        /\ UNCHANGED <<snapshot, labels, A!stored, seen, facts>>
        /\ A!StartLook(i, <<"exposure", i>>) \/ look' = [look EXCEPT ![i] = A!NoLook]
  BY DEF A!Depend, A!Depended
<1>3. at'[i] = p /\ p \notin Early
  BY <1>1, <1>2 DEF A!Goto, TypedA, Early
<1>4. /\ look' \in [A!Askers -> Inspection]
      /\ \A c \in A!Askers : look'[c] = look[c] \/ LookOK(c)'
  BY <1>1, <1>2, <1>3, StartSet, EndSet DEF A!Families
<1>5. CheckedOK(i)'
  BY <1>1, <1>2, <1>3 DEF CheckedOK, Early, Recording, Sealing
<1>6. StoredOK(i)'
  BY <1>1, <1>2, <1>3 DEF StoredOK, A!stored, Early, Storing, Sealing
<1>7. /\ rows' \in [A!Results -> SUBSET Tables] /\ failed' \subseteq Investigations
      /\ seals' \in [A!Results -> {"none", "complete", "invalidated"}]
      /\ rows' = rows /\ seals' = seals
  BY <1>1, <1>2 DEF TypedA, A!stored
<1> QED
  BY <1>2, <1>3, <1>4, <1>5, <1>6, <1>7, StoreMoves DEF A!Goto, Stands, Recording

LEMMA SealRiskStep ==
  ASSUME AnalysisInv, A!Next, NEW i \in Investigations, A!SealRisk(i) PROVE AnalysisInv'
<1>1. /\ at[i] = "risk seal" /\ A!Goto(i, "inspect risk") /\ A!StartLook(i, <<"risk", i>>)
      /\ seals' = [seals EXCEPT ![<<"risk", i>>] = "complete"]
      /\ UNCHANGED <<snapshot, labels, rows, failed, seen, facts>>
  BY DEF A!SealRisk
<1>2. TypedA /\ CheckedOK(i) /\ StoredOK(i)
  BY InvestigationFacts
<1>3. /\ seals' \in [A!Results -> {"none", "complete", "invalidated"}]
      /\ seals'[<<"risk", i>>] = "complete"
      /\ seals'[<<"exposure", i>>] = seals[<<"exposure", i>>]
      /\ \A r \in A!Results : r[2] # i => seals'[r] = seals[r]
  BY <1>1, <1>2, SealSet DEF A!Families
<1>4. at'[i] = "inspect risk"
  BY <1>1, <1>2 DEF A!Goto, TypedA
<1>5. /\ look' \in [A!Askers -> Inspection]
      /\ \A c \in A!Askers : look'[c] = look[c] \/ LookOK(c)'
  BY <1>1, <1>2, <1>4, StartSet DEF A!Families, Early
<1>6. CheckedOK(i)'
  BY <1>1, <1>2, <1>4 DEF CheckedOK, Early, Recording, Sealing
<1>7. StoredOK(i)'
  BY <1>1, <1>2, <1>3, <1>4 DEF StoredOK, Early, Storing, Sealing
<1>8. rows' \in [A!Results -> SUBSET Tables] /\ failed' \subseteq Investigations
  BY <1>1, <1>2 DEF TypedA
<1> QED
  BY <1>1, <1>3, <1>5, <1>6, <1>7, <1>8, StoreMoves DEF A!Goto, Early, Stands, Sealing

LEMMA InspectedStep ==
  ASSUME AnalysisInv, A!Next, NEW i \in Investigations, A!Inspected(i) PROVE AnalysisInv'
<1>1. PICK p \in {"done", "withdraw risk"} :
        /\ at[i] = "inspect risk" /\ A!Goto(i, p) /\ look' = [look EXCEPT ![i] = A!NoLook]
        /\ UNCHANGED <<snapshot, labels, A!stored, seen, facts>>
  BY DEF A!Inspected
<1>2. TypedA /\ CheckedOK(i) /\ StoredOK(i)
  BY InvestigationFacts
<1>3. /\ look' \in [A!Askers -> Inspection]
      /\ \A c \in A!Askers : look'[c] = look[c] \/ LookOK(c)'
  BY <1>1, <1>2, EndSet
<1>4. ASSUME at'[i] = p PROVE CheckedOK(i)' /\ StoredOK(i)'
  <2>1. CheckedOK(i)'
    BY <1>1, <1>2, <1>4 DEF CheckedOK, Early, Recording, Sealing
  <2>2. StoredOK(i)'
    BY <1>1, <1>2, <1>4 DEF StoredOK, A!stored, Early, Storing, Sealing
  <2> QED
    BY <2>1, <2>2
<1>5. /\ rows' \in [A!Results -> SUBSET Tables] /\ failed' \subseteq Investigations
      /\ seals' \in [A!Results -> {"none", "complete", "invalidated"}]
      /\ rows' = rows /\ seals' = seals
  BY <1>1, <1>2 DEF TypedA, A!stored
<1> QED
  BY <1>1, <1>3, <1>4, <1>5, StoreMoves DEF A!Goto, Early, Stands, Sealing

LEMMA WithdrawStep ==
  ASSUME AnalysisInv, A!Next, NEW i \in Investigations, A!Withdraw(i) PROVE AnalysisInv'
<1>1. UNCHANGED <<snapshot, labels, rows, failed, seen, facts, look>>
  BY DEF A!Withdraw
<1>2. TypedA /\ CheckedOK(i) /\ StoredOK(i)
  BY InvestigationFacts
<1>3. /\ rows' \in [A!Results -> SUBSET Tables] /\ failed' \subseteq Investigations
      /\ look' \in [A!Askers -> Inspection]
  BY <1>1, <1>2 DEF TypedA
<1>4. CASE /\ at[i] = "withdraw exposure" /\ A!Goto(i, "failing")
           /\ seals' = [seals EXCEPT ![<<"exposure", i>>] = "invalidated"]
  <2>1. /\ seals' \in [A!Results -> {"none", "complete", "invalidated"}]
        /\ seals'[<<"exposure", i>>] = "invalidated"
        /\ seals'[<<"risk", i>>] = seals[<<"risk", i>>]
        /\ \A r \in A!Results : r[2] # i => seals'[r] = seals[r]
    BY <1>2, <1>4, SealSet DEF A!Families
  <2>2. ASSUME at'[i] = "failing" PROVE CheckedOK(i)' /\ StoredOK(i)'
    <3>1. CheckedOK(i)'
      BY <1>1, <1>2, <1>4, <2>2 DEF CheckedOK, Early, Recording, Sealing
    <3>2. StoredOK(i)'
      BY <1>1, <1>2, <1>4, <2>1, <2>2 DEF StoredOK, Early, Storing, Sealing
    <3> QED
      BY <3>1, <3>2
  <2> QED
    BY <1>1, <1>3, <1>4, <2>1, <2>2, StoreMoves DEF A!Goto, Early, Stands
<1>5. CASE /\ at[i] = "withdraw risk" /\ A!Goto(i, "over")
           /\ seals' = [seals EXCEPT ![<<"risk", i>>] = "invalidated"]
  <2>1. /\ seals' \in [A!Results -> {"none", "complete", "invalidated"}]
        /\ seals'[<<"risk", i>>] = "invalidated"
        /\ seals'[<<"exposure", i>>] = seals[<<"exposure", i>>]
        /\ \A r \in A!Results : r[2] # i => seals'[r] = seals[r]
    BY <1>2, <1>5, SealSet DEF A!Families
  <2>2. ASSUME at'[i] = "over" PROVE CheckedOK(i)' /\ StoredOK(i)'
    <3>1. CheckedOK(i)'
      BY <2>2 DEF CheckedOK, Early, Recording, Sealing
    <3>2. StoredOK(i)'
      BY <1>1, <1>2, <1>5, <2>1, <2>2 DEF StoredOK, Early, Storing, Sealing
    <3> QED
      BY <3>1, <3>2
  <2> QED
    BY <1>1, <1>3, <1>5, <2>1, <2>2, StoreMoves DEF A!Goto, Early, Stands
<1> QED
  BY <1>4, <1>5 DEF A!Withdraw

LEMMA InvestigationFailStep ==
  ASSUME AnalysisInv, A!Next, NEW i \in Investigations, A!Fail(i) PROVE AnalysisInv'
<1>1. /\ at[i] \notin {"idle", "done", "over"} /\ at' = [at EXCEPT ![i] = "over"]
      /\ failed' \subseteq failed \cup {i} /\ look' = [look EXCEPT ![i] = A!NoLook]
      /\ UNCHANGED <<snapshot, labels, rows, seals, seen, facts>>
  BY DEF A!Fail, A!Goto
<1>2. TypedA /\ ReadOK(i) /\ StoredOK(i)
  BY InvestigationFacts
<1>3. /\ look' \in [A!Askers -> Inspection]
      /\ \A c \in A!Askers : look'[c] = look[c] \/ LookOK(c)'
  BY <1>1, <1>2, EndSet
<1>4. /\ at'[i] = "over"
      /\ seen' = [seen EXCEPT ![i] = seen[i]] /\ facts' = [facts EXCEPT ![i] = facts[i]]
      /\ seen[i] \in Known /\ facts[i] \in SUBSET Nat
      /\ rows' \in [A!Results -> SUBSET Tables] /\ failed' \subseteq Investigations
      /\ seals' \in [A!Results -> {"none", "complete", "invalidated"}]
  BY <1>1, <1>2 DEF TypedA
<1>5. ReadOK(i)'
  BY <1>1, <1>2, <1>4 DEF ReadOK, Past
<1>6. CheckedOK(i)'
  BY <1>4 DEF CheckedOK, Early, Recording, Sealing
<1>7. StoredOK(i)'
  BY <1>1, <1>2, <1>4 DEF StoredOK, Early, Storing, Sealing
<1>8. "over" \in Stands /\ "over" \notin Early
  BY DEF Stands, Early
<1> QED
  BY <1>1, <1>3, <1>4, <1>5, <1>6, <1>7, <1>8, InvestigationMoves DEF InvestigationOK

LEMMA InvestigateStep ==
  ASSUME AnalysisInv, A!Next, NEW i \in Investigations, A!Investigate(i) PROVE AnalysisInv'
<1>1. CASE \/ A!Begin(i) \/ A!ReadAttribution(i) \/ A!CaptureSource(i)
           \/ \E a \in Addresses : A!Scan(i, a)
  BY <1>1, BeginStep, ReadAttributionStep, CaptureSourceStep, ScanStep
<1>2. CASE \/ A!CheckLabels(i) \/ A!CheckSource(i) \/ (\E t \in SUBSET Tables : A!Insert(i, t))
           \/ A!Count(i) \/ A!CheckFence(i)
  BY <1>2, CheckLabelsStep, CheckSourceStep, InsertStep, BeforeSealSteps
<1>3. CASE A!SealExposure(i) \/ A!Confirm(i) \/ A!Join(i)
  BY <1>3, SealExposureStep, ConfirmStep, JoinSteps
<1>4. CASE \/ A!Depend(i) \/ A!Depended(i) \/ A!SealRisk(i)
           \/ A!Inspected(i) \/ A!Withdraw(i) \/ A!Fail(i)
  BY <1>4, DependSteps, SealRiskStep, InspectedStep, WithdrawStep, InvestigationFailStep
<1> QED
  BY <1>1, <1>2, <1>3, <1>4 DEF A!Investigate

-----------------------------------------------------------------------------
(* Analyses: the environment, and all steps *)

LEMMA SourceStep ==
  ASSUME AnalysisInv, A!Next, NEW h \in Hashes \cup {NoHash}, A!Publish(h) PROVE AnalysisInv'
<1>1. /\ snapshot' = [tip |-> h, revision |-> snapshot.revision + 1]
      /\ UNCHANGED <<labels, A!stored, at, seen, facts, look>>
  BY DEF A!Publish
<1>2. TypedA
  BY DEF AnalysisInv
<1>3. snapshot.revision \in Nat
  BY <1>2, SourceRevision
<1>4. snapshot' \in A!Source /\ snapshot'.revision = snapshot.revision + 1
  BY <1>1, <1>3 DEF A!Source
<1>5. labels' \in [Addresses -> Nat] /\ \A a \in Addresses : labels[a] <= labels'[a]
  BY <1>1, <1>2 DEF TypedA
<1> QED
  BY <1>1, <1>4, <1>5, EnvironmentStep DEF Advance

LEMMA LabelStep ==
  ASSUME AnalysisInv, A!Next, NEW a \in Addresses, A!Label(a) PROVE AnalysisInv'
<1>1. /\ labels' = [labels EXCEPT ![a] = labels[a] + 1]
      /\ UNCHANGED <<snapshot, A!stored, at, seen, facts, look>>
  BY DEF A!Label
<1>2. TypedA
  BY DEF AnalysisInv
<1>3. labels' \in [Addresses -> Nat] /\ \A b \in Addresses : labels[b] <= labels'[b]
  BY <1>1, <1>2 DEF TypedA
<1>4. snapshot' \in A!Source /\ snapshot' = snapshot
  BY <1>1, <1>2 DEF TypedA
<1> QED
  BY <1>1, <1>3, <1>4, EnvironmentStep DEF Advance

LEMMA AnalysisStep == ASSUME AnalysisInv, A!Next PROVE AnalysisInv'
<1>1. A!System
  BY DEF A!Next
<1> QED
  BY <1>1, InvestigateStep, LookStep, AnswerSteps, AnalysisInspectStep, SourceStep, LabelStep
     DEF A!System

LEMMA AnalysisStutterStep == ASSUME AnalysisInv, UNCHANGED A!vars PROVE AnalysisInv'
<1>1. UNCHANGED <<snapshot, labels, rows, failed, seals, at, seen, facts, look, current>>
  BY DEF A!vars
<1>2. TypedA'
  BY <1>1 DEF AnalysisInv, TypedA
<1>3. ASSUME NEW i \in Investigations PROVE InvestigationOK(i)'
  BY <1>1 DEF AnalysisInv, InvestigationOK, ReadOK, Past, CheckedOK, StoredOK
<1>4. ASSUME NEW c \in A!Askers PROVE LookOK(c)'
  BY <1>1 DEF AnalysisInv, LookOK, LabelsMoved, SubjectMoved
<1> QED
  BY <1>2, <1>3, <1>4 DEF AnalysisInv

LEMMA AnalysisInitOK == A!Init => AnalysisInv
<1> SUFFICES ASSUME A!Init PROVE AnalysisInv
  OBVIOUS
<1>1. snapshot \in A!Source /\ snapshot.revision = 1 /\ labels = [a \in Addresses |-> 0]
  BY DEF A!Init, A!Source
<1> DEFINE known == [source |-> snapshot, subject |-> A!Unread, snapshot |-> snapshot,
                     labels |-> [a \in Addresses |-> A!Unread]]
<1>2. known \in Known
  BY <1>1 DEF Known
<1>3. TypedA
  <2>1. rows \in [A!Results -> SUBSET Tables] /\ failed \subseteq Investigations
        /\ seals \in [A!Results -> {"none", "complete", "invalidated"}]
    BY DEF A!Init
  <2>2. at \in [Investigations -> Stands] /\ facts \in [Investigations -> SUBSET Nat]
    BY DEF A!Init, Stands, Early
  <2>3. seen \in [Investigations -> Known]
    BY <1>2 DEF A!Init
  <2>4. look \in [A!Askers -> Inspection] /\ current \in [A!Askers -> BOOLEAN]
    BY NoLookTyped DEF A!Init
  <2> QED
    BY <1>1, <2>1, <2>2, <2>3, <2>4 DEF TypedA
<1>4. ASSUME NEW i \in Investigations PROVE InvestigationOK(i)
  <2>1. /\ seen[i].source = snapshot /\ seen[i].snapshot = snapshot /\ seen[i].subject = A!Unread
        /\ \A a \in Addresses : seen[i].labels[a] = A!Unread
        /\ at[i] = "idle" /\ facts[i] = {}
    BY DEF A!Init
  <2>2. ReadOK(i)
    <3>1. Past(snapshot)
      BY <1>1 DEF Past
    <3>2. \A a \in Addresses : labels[a] = 0
      BY <1>1
    <3>3. A!Unread <= 0
      BY DEF A!Unread
    <3> QED
      BY <2>1, <3>1, <3>2, <3>3, AnalysisAssumption DEF ReadOK
  <2>3. CheckedOK(i)
    BY <2>1 DEF CheckedOK, Early, Recording, Sealing
  <2>4. <<"exposure", i>> \in A!Results /\ <<"risk", i>> \in A!Results
    BY DEF A!Results, A!Families
  <2>5. StoredOK(i)
    BY <2>1, <2>4 DEF A!Init, StoredOK, Early, Storing, Sealing
  <2> QED
    BY <2>2, <2>3, <2>5 DEF InvestigationOK
<1>5. ASSUME NEW c \in A!Askers PROVE LookOK(c)
  BY NoLookTyped DEF A!Init, LookOK
<1> QED
  BY <1>3, <1>4, <1>5 DEF AnalysisInv

\* Whatever investigations, inspections, failures, publications and label changes do: rows
\* come after the checks and the seal after all rows, what an investigation has read is
\* ordered by the revisions and versions it was read at, and an inspection that goes on
\* holds a result that was current, or will run into a check that fails.
THEOREM AnalysisInvariant == A!Spec => []AnalysisInv
<1>1. AnalysisInv /\ [A!Next]_(A!vars) => AnalysisInv'
  BY AnalysisStep, AnalysisStutterStep
<1> QED
  BY AnalysisInitOK, <1>1, PTL DEF A!Spec

-----------------------------------------------------------------------------
(* Analyses: what the invariant says *)

LEMMA WholeFollows == AnalysisInv => A!VisibleIsWhole
<1> SUFFICES ASSUME AnalysisInv, NEW r \in A!Results, A!Visible(r)
             PROVE  /\ rows[r] = Tables
                    /\ r[1] = "exposure" => facts[r[2]] = {seen[r[2]].snapshot.revision}
  BY DEF A!VisibleIsWhole
<1>1. PICK i \in Investigations : r = <<"exposure", i>> \/ r = <<"risk", i>>
  BY DEF A!Results, A!Families
<1>2. StoredOK(i)
  BY InvestigationFacts
<1>3. CASE r = <<"exposure", i>>
  <2>1. seals[<<"exposure", i>>] # "none"
    BY <1>3 DEF A!Visible, A!ExposureVisible, A!Shown, A!SealVisible
  <2> QED
    BY <1>2, <1>3, <2>1 DEF StoredOK
<1>4. CASE r = <<"risk", i>>
  <2>1. seals[<<"risk", i>>] # "none"
    BY <1>4 DEF A!Visible, A!RiskVisible, A!Shown, A!SealVisible
  <2> QED
    BY <1>2, <1>4, <2>1 DEF StoredOK
<1> QED
  BY <1>1, <1>3, <1>4

LEMMA FitsFollows == AnalysisInv => A!ResponseFits
<1> SUFFICES ASSUME AnalysisInv, NEW i \in Investigations, at[i] = "done"
             PROVE  /\ facts[i] = {seen[i].source.revision}
                    /\ seen[i].snapshot = seen[i].source
                    /\ seen[i].labels[Subject] = seen[i].subject
  BY DEF A!ResponseFits
<1> QED
  BY InvestigationFacts DEF CheckedOK, Early, Recording, Sealing

LEMMA AnalysesTrue == AnalysisInv => A!CurrentWasTrue
BY DEF AnalysisInv, LookOK, A!CurrentWasTrue

-----------------------------------------------------------------------------
(* Analyses: hidden for good *)

\* What no step does to a result that has been sealed.
Kept ==
  /\ snapshot' = snapshot \/ snapshot'.revision = snapshot.revision + 1
  /\ failed \subseteq failed'
  /\ \A i \in Investigations : at[i] \notin Early => seen'[i] = seen[i]
  /\ \A r \in A!Results : seals[r] # "none" =>
       rows'[r] = rows[r] /\ (seals'[r] = "complete" => seals[r] = "complete")

LEMMA KeptByReads ==
  ASSUME AnalysisInv, NEW i \in Investigations,
         \/ A!Begin(i) \/ A!ReadAttribution(i) \/ A!CaptureSource(i)
         \/ \E a \in Addresses : A!Scan(i, a)
  PROVE  Kept
<1>1. UNCHANGED <<snapshot, A!stored>> /\ at[i] \in Early
  BY DEF A!Begin, A!ReadAttribution, A!CaptureSource, A!Scan, Early
<1>2. \A j \in Investigations : j # i => seen'[j] = seen[j]
  BY DEF AnalysisInv, TypedA, A!Begin, A!ReadAttribution, A!CaptureSource, A!Scan
<1> QED
  BY <1>1, <1>2 DEF Kept, A!stored

LEMMA KeptByInserts ==
  ASSUME AnalysisInv, NEW i \in Investigations, NEW t \in SUBSET Tables, A!Insert(i, t)
  PROVE  Kept
<1>1. UNCHANGED <<snapshot, failed, seals, seen>>
  BY DEF A!Insert
<1>2. TypedA /\ StoredOK(i) /\ <<"exposure", i>> \in A!Results /\ <<"risk", i>> \in A!Results
  BY InvestigationFacts, AnalysisValues
<1>3. PICK r \in A!Results : rows' = [rows EXCEPT ![r] = t] /\ seals[r] = "none"
  BY <1>2 DEF A!Insert, StoredOK, Early, Storing, Sealing
<1>4. \A q \in A!Results : q # r => rows'[q] = rows[q]
  BY <1>2, <1>3 DEF TypedA
<1> QED
  BY <1>1, <1>3, <1>4 DEF Kept

LEMMA KeptBySeals ==
  ASSUME AnalysisInv, NEW i \in Investigations, A!SealExposure(i) \/ A!SealRisk(i) \/ A!Withdraw(i)
  PROVE  Kept
<1>1. UNCHANGED <<snapshot, rows, failed, seen>>
  BY DEF A!SealExposure, A!SealRisk, A!Withdraw
<1>2. TypedA /\ StoredOK(i) /\ <<"exposure", i>> \in A!Results /\ <<"risk", i>> \in A!Results
  BY InvestigationFacts, AnalysisValues
<1>3. PICK r \in A!Results, v \in {"complete", "invalidated"} :
        seals' = [seals EXCEPT ![r] = v] /\ (seals[r] = "none" \/ v = "invalidated")
  <2>1. CASE A!SealExposure(i)
    BY <1>2, <2>1 DEF A!SealExposure, StoredOK, Early, Storing, Sealing
  <2>2. CASE A!SealRisk(i)
    BY <1>2, <2>2 DEF A!SealRisk, StoredOK, Early, Storing, Sealing
  <2>3. CASE A!Withdraw(i)
    BY <1>2, <2>3 DEF A!Withdraw
  <2> QED
    BY <2>1, <2>2, <2>3
<1>4. seals'[r] = v /\ \A q \in A!Results : q # r => seals'[q] = seals[q]
  BY <1>2, <1>3 DEF TypedA
<1> QED
  BY <1>1, <1>3, <1>4 DEF Kept

LEMMA KeptByNext == ASSUME AnalysisInv, [A!Next]_(A!vars) PROVE Kept
<1>1. CASE UNCHANGED A!vars
  BY <1>1 DEF Kept, A!vars
<1>2. ASSUME NEW i \in Investigations, A!Investigate(i) PROVE Kept
  <2>1. CASE A!CheckLabels(i) \/ A!CheckSource(i) \/ A!Count(i) \/ A!CheckFence(i) \/ A!Confirm(i)
               \/ A!Join(i) \/ A!Depend(i) \/ A!Depended(i) \/ A!Inspected(i)
    <3>1. UNCHANGED <<snapshot, A!stored, seen>>
      BY <2>1
         DEF A!CheckLabels, A!CheckSource, A!Count, A!CheckFence, A!Confirm, A!Join, A!Depend,
             A!Depended, A!Inspected
    <3> QED
      BY <3>1 DEF Kept, A!stored
  <2>2. CASE A!Fail(i)
    BY <2>2 DEF A!Fail, Kept
  <2> QED
    BY <1>2, <2>1, <2>2, KeptByReads, KeptByInserts, KeptBySeals DEF A!Investigate
<1>3. ASSUME NEW c \in A!Askers, A!Look(c) \/ A!Answer(c) \/ \E r \in A!Results : A!Inspect(c, r)
      PROVE  Kept
  BY <1>3 DEF A!Look, A!Answer, A!Inspect, Kept, A!stored
<1>4. ASSUME NEW h \in Hashes \cup {NoHash}, A!Publish(h) PROVE Kept
  <2>1. snapshot'.revision = snapshot.revision + 1 /\ UNCHANGED <<A!stored, seen>>
    BY <1>4 DEF A!Publish
  <2> QED
    BY <2>1 DEF Kept, A!stored
<1>5. ASSUME NEW a \in Addresses, A!Label(a) PROVE Kept
  BY <1>5 DEF A!Label, Kept, A!stored
<1> QED
  BY <1>1, <1>2, <1>3, <1>4, <1>5 DEF A!Next, A!System

\* A seal is shown for one revision only, and the source does not return to a revision.
LEMMA SealVisibleBack ==
  ASSUME AnalysisInv, Kept, NEW f \in A!Families, NEW i \in Investigations,
         seals[<<f, i>>] # "none", A!Shown(<<f, i>>)'
  PROVE  A!Shown(<<f, i>>) /\ snapshot' = snapshot /\ seen'[i] = seen[i]
<1>1. TypedA /\ ReadOK(i) /\ StoredOK(i) /\ <<f, i>> \in A!Results
  BY InvestigationFacts DEF A!Results
<1>2. at[i] \notin Early
  BY <1>1 DEF StoredOK, Early, Storing, Sealing, A!Families
<1>3. /\ seen'[i] = seen[i] /\ rows'[<<f, i>>] = rows[<<f, i>>]
      /\ seals'[<<f, i>>] = "complete" => seals[<<f, i>>] = "complete"
  BY <1>1, <1>2 DEF Kept
<1>4. A!SnapshotOf(<<f, i>>)' = A!SnapshotOf(<<f, i>>) /\ Past(A!SnapshotOf(<<f, i>>))
  BY <1>1, <1>3 DEF A!SnapshotOf, ReadOK
<1>5. snapshot' = snapshot
  <2>1. A!SnapshotOf(<<f, i>>).revision = snapshot'.revision
    BY <1>4 DEF A!Shown, A!SealVisible
  <2>2. A!SnapshotOf(<<f, i>>).revision <= snapshot.revision
    BY <1>4 DEF Past
  <2>3. snapshot.revision \in Nat
    BY <1>1, SourceRevision
  <2> QED
    BY <2>1, <2>2, <2>3 DEF Kept
<1> QED
  BY <1>3, <1>4, <1>5 DEF A!Shown, A!SealVisible

LEMMA ExposureVisibleBack ==
  ASSUME AnalysisInv, Kept, NEW i \in Investigations, seals[<<"exposure", i>>] # "none",
         A!ExposureVisible(i)'
  PROVE  A!ExposureVisible(i)
<1>1. A!Shown(<<"exposure", i>>)
  BY SealVisibleBack DEF A!ExposureVisible, A!Families
<1> QED
  BY <1>1 DEF A!ExposureVisible, Kept

LEMMA StaysHidden ==
  ASSUME AnalysisInv, [A!Next]_(A!vars), NEW r \in A!Results, seals[r] # "none", A!Visible(r)'
  PROVE  A!Visible(r)
<1>1. Kept
  BY KeptByNext
<1>2. PICK i \in Investigations : r = <<"exposure", i>> \/ r = <<"risk", i>>
  BY DEF A!Results, A!Families
<1>3. CASE r = <<"exposure", i>>
  BY <1>1, <1>3, ExposureVisibleBack DEF A!Visible
<1>4. CASE r = <<"risk", i>>
  <2>1. A!Shown(<<"risk", i>>)' /\ A!ExposureVisible(i)'
        /\ seen'[i].snapshot.revision = seen'[i].source.revision
    BY <1>4 DEF A!Visible, A!RiskVisible
  <2>2. seals[<<"risk", i>>] # "none" /\ seals[<<"exposure", i>>] # "none"
    BY <1>4, InvestigationFacts DEF StoredOK
  <2>3. A!Shown(<<"risk", i>>) /\ seen'[i] = seen[i]
    BY <1>1, <2>1, <2>2, SealVisibleBack DEF A!Families
  <2>4. A!ExposureVisible(i)
    BY <1>1, <2>1, <2>2, ExposureVisibleBack
  <2> QED
    BY <1>4, <2>1, <2>3, <2>4 DEF A!Visible, A!RiskVisible
<1> QED
  BY <1>2, <1>3, <1>4

LEMMA HiddenStays == A!Spec => A!HiddenForGood
<1>1. AnalysisInv /\ [A!Next]_(A!vars) =>
        [\A r \in A!Results : (seals[r] # "none" /\ ~A!Visible(r)) => ~A!Visible(r)']_(A!vars)
  BY StaysHidden
<1> QED
  BY AnalysisInvariant, <1>1, PTL DEF A!Spec, A!HiddenForGood

-----------------------------------------------------------------------------
(* The backfill of the old tables *)

Old == UNION {{h[i] : i \in DOMAIN h} : h \in Histories}

LegacyState == [revision : Nat, history : Seq(Old)]

Backfill == [at : {"idle", "next", "read", "check", "marked", "publish"}, legacy : LegacyState,
             count : Nat, block : Seq(Old), marked : Nat]

Published == [hash : Old \cup Foreign, source : Nat]

BackfillTyped ==
  /\ legacy \in LegacyState
  /\ legacy.history = <<>> <=> legacy.revision = 0
  /\ IsFiniteSet(markers)
  /\ published \in Seq(Published)
  /\ revision \in Nat /\ revision <= Cardinality(markers)
  /\ backfill \in Backfill

\* Markers and blocks are of states the old tables have been in.  A marker of the
\* present state, unless that was published whole, is no further than the next block,
\* and if it is of the tip the checkpoint is behind it.
MarkersFit ==
  /\ \A i \in DOMAIN published : published[i].source <= legacy.revision
  /\ \A m \in markers :
        /\ m.height \in Nat /\ m.source \in Nat /\ m.revision \in Nat
        /\ m.revision <= Cardinality(markers) /\ m.source <= legacy.revision
        /\ m.source # 0 /\ m.source = legacy.revision /\ legacy.revision \notin whole =>
              /\ m.height <= Len(published) + 1
              /\ m.height = Len(legacy.history) => revision < m.revision

\* The old tables have left the state a backfill began with, and nothing is known yet
\* of the new one.
FenceIsGone ==
  /\ backfill.legacy.revision < legacy.revision
  /\ \A m \in markers : m.source # legacy.revision

\* The block in work is the next one of the state the backfill began with.
BlockIsNext ==
  /\ Len(published) + 1 <= Len(backfill.legacy.history)
  /\ backfill.block = SubSeq(backfill.legacy.history, 1, Len(published) + 1)

BackfillFits ==
  backfill.at # "idle" =>
    /\ backfill.legacy.history # <<>> /\ backfill.legacy.revision # 0
    /\ backfill.legacy = legacy \/ FenceIsGone
    /\ \A i \in DOMAIN published : published[i].source \in {0, backfill.legacy.revision}
    /\ backfill.at \in {"marked", "publish"} \/ (backfill.at = "check" /\ backfill.legacy = legacy)
         => BlockIsNext
    /\ backfill.at \in {"marked", "publish"} => backfill.marked <= Cardinality(markers)

BackfillInv == BackfillTyped /\ MarkersFit /\ BackfillFits /\ B!OneHistory

\* A run that answers `ready` has a marker of the tip that the checkpoint reached.
LEMMA ReadyFollows == BackfillInv => B!ReadyIsWhole
<1> SUFFICES ASSUME BackfillInv, B!Ready, legacy.history # <<>>
             PROVE  legacy.revision \in whole
  BY DEF B!ReadyIsWhole
<1>1. legacy.revision # 0 /\ legacy.revision \in Nat /\ revision \in Nat
  BY DEF BackfillInv, BackfillTyped, LegacyState
<1>2. PICK m \in markers : /\ m.height = Len(legacy.history)
                           /\ m.source = legacy.revision /\ m.revision <= revision
  BY DEF B!Ready, B!Received
<1> QED
  BY <1>1, <1>2 DEF BackfillInv, MarkersFit

LEMMA BackfillInit == B!Init => BackfillInv
<1> SUFFICES ASSUME B!Init
             PROVE  BackfillInv
  OBVIOUS
<1>1. PICK h \in Histories : legacy = [revision |-> IF h = <<>> THEN 0 ELSE 1, history |-> h]
  BY DEF B!Init
<1>2. h \in Seq(Old)
  BY HistoriesAssumption DEF Old
<1>3. legacy \in LegacyState /\ (legacy.history = <<>> <=> legacy.revision = 0)
  BY <1>1, <1>2 DEF LegacyState
<1>4. IsFiniteSet(markers) /\ Cardinality(markers) = 0
  BY FS_EmptySet DEF B!Init
<1>5. backfill \in Backfill /\ backfill.at = "idle"
  BY DEF B!Init, B!Idle, Backfill, LegacyState
<1>6. BackfillTyped
  BY <1>3, <1>4, <1>5 DEF BackfillTyped, B!Init
<1> QED
  BY <1>5, <1>6 DEF BackfillInv, MarkersFit, BackfillFits, B!OneHistory, B!Init

LEMMA CardinalityThere == \A S : B!Cardinality(S) = Cardinality(S)
BY DEF B!Cardinality, Cardinality

LEMMA Appended ==
  ASSUME NEW S, NEW s \in Seq(S), NEW e \in S
  PROVE  /\ Append(s, e) \in Seq(S) /\ Len(Append(s, e)) = Len(s) + 1
         /\ DOMAIN Append(s, e) = 1 .. Len(s) + 1 /\ DOMAIN s = 1 .. Len(s)
         /\ \A i \in DOMAIN s : Append(s, e)[i] = s[i]
         /\ Append(s, e)[Len(s) + 1] = e
OBVIOUS

LEMMA Shortened ==
  ASSUME NEW S, NEW s \in Seq(S), Len(s) > 1
  PROVE  /\ SubSeq(s, 1, Len(s) - 1) \in Seq(S)
         /\ \A i \in DOMAIN SubSeq(s, 1, Len(s) - 1) :
               i \in DOMAIN s /\ SubSeq(s, 1, Len(s) - 1)[i] = s[i]
OBVIOUS

\* A marker gets a revision that none has yet.
LEMMA NewMarker ==
  ASSUME BackfillInv
  PROVE  \A m : m.revision = B!NextRevision =>
         /\ B!NextRevision = Cardinality(markers) + 1 /\ Cardinality(markers) \in Nat
         /\ IsFiniteSet(markers \cup {m}) /\ Cardinality(markers \cup {m}) = Cardinality(markers) + 1
<1> SUFFICES ASSUME NEW m, m.revision = B!NextRevision
             PROVE  /\ B!NextRevision = Cardinality(markers) + 1 /\ Cardinality(markers) \in Nat
                    /\ IsFiniteSet(markers \cup {m})
                    /\ Cardinality(markers \cup {m}) = Cardinality(markers) + 1
  OBVIOUS
<1>1. IsFiniteSet(markers) /\ Cardinality(markers) \in Nat
  BY FS_CardinalityType DEF BackfillInv, BackfillTyped
<1>2. B!NextRevision = 1 + Cardinality(markers)
  BY CardinalityThere DEF B!NextRevision
<1>3. m \notin markers
  BY <1>1, <1>2 DEF BackfillInv, MarkersFit
<1>4. IsFiniteSet(markers \cup {m}) /\ Cardinality(markers \cup {m}) = Cardinality(markers) + 1
  BY <1>1, <1>3, FS_AddElement
<1> QED
  BY <1>1, <1>2, <1>4

\* Old tables that move on leave a backfill without its fence.
LEMMA LegacyStep ==
  ASSUME BackfillInv, B!LegacyPublishes
  PROVE  BackfillInv'
<1>1. PICK h \in Histories \ {<<>>, legacy.history} :
         legacy' = [revision |-> legacy.revision + 1, history |-> h]
  BY DEF B!LegacyPublishes
<1>2. h \in Seq(Old)
  BY HistoriesAssumption DEF Old
<1>3. legacy.revision \in Nat /\ legacy'.revision = legacy.revision + 1
  BY <1>1 DEF BackfillInv, BackfillTyped, LegacyState
<1>4. UNCHANGED <<markers, published, revision, backfill, whole>>
  BY DEF B!LegacyPublishes, B!chain
<1>5. legacy' \in LegacyState /\ legacy'.history # <<>> /\ legacy'.revision # 0
  BY <1>1, <1>2, <1>3 DEF LegacyState
<1>6. BackfillTyped'
  BY <1>5, <1>4 DEF BackfillInv, BackfillTyped
<1>7. \A i \in DOMAIN published : published[i] \in Published
  BY DEF BackfillInv, BackfillTyped
<1>8. \A i \in DOMAIN published : published[i].source \in Nat
  BY <1>7 DEF Published
<1>9. MarkersFit'
  BY <1>3, <1>4, <1>8 DEF BackfillInv, MarkersFit
<1>10. BackfillFits'
  <2> SUFFICES ASSUME backfill.at # "idle"
               PROVE  BackfillFits'
    BY <1>4 DEF BackfillFits
  <2>1. backfill.legacy.revision \in Nat /\ backfill.legacy.revision <= legacy.revision
    BY <1>3 DEF BackfillInv, BackfillTyped, Backfill, LegacyState, BackfillFits, FenceIsGone
  <2>2. FenceIsGone'
    BY <2>1, <1>3, <1>4 DEF BackfillInv, MarkersFit, FenceIsGone
  <2>3. backfill.legacy # legacy'
    BY <2>1, <1>3
  <2> QED
    BY <2>2, <2>3, <1>4 DEF BackfillInv, BackfillFits, BlockIsNext
<1>11. B!OneHistory'
  BY <1>3, <1>4, <1>8 DEF BackfillInv, MarkersFit, B!OneHistory
<1> QED
  BY <1>6, <1>9, <1>10, <1>11 DEF BackfillInv

\* Only the backfill's own record changes, and to one that fits.
LEMMA OwnStep ==
  ASSUME BackfillInv, UNCHANGED <<legacy, markers, published, revision, whole>>,
         backfill' \in Backfill, BackfillFits'
  PROVE  BackfillInv'
BY DEF BackfillInv, BackfillTyped, MarkersFit, B!OneHistory

LEMMA RefuseStep ==
  ASSUME BackfillInv, backfill' = B!Idle, UNCHANGED <<legacy, markers, published, revision, whole>>
  PROVE  BackfillInv'
<1>1. backfill' \in Backfill /\ backfill'.at = "idle"
  BY DEF B!Idle, Backfill, LegacyState
<1> QED
  BY <1>1, OwnStep DEF BackfillFits

LEMMA StartStep ==
  ASSUME BackfillInv, B!Start
  PROVE  BackfillInv'
<1>1. CASE B!Refuse
  BY <1>1, RefuseStep DEF B!Start, B!Refuse, B!chain
<1>2. CASE ~B!Refuse
  <2>1. /\ B!Resumable /\ legacy.history # <<>>
        /\ backfill' = [B!Idle EXCEPT !.at = "next", !.legacy = legacy]
        /\ UNCHANGED <<legacy, markers, published, revision, whole>>
    BY <1>2 DEF B!Start, B!chain
  <2>2. legacy.revision # 0
    BY <2>1, Zenon DEF BackfillInv, BackfillTyped
  <2>3. legacy \in LegacyState /\ legacy.revision # 0
    BY <2>2 DEF BackfillInv, BackfillTyped
  <2>4. B!Idle \in Backfill
    BY DEF B!Idle, Backfill, LegacyState
  <2>5. backfill' \in Backfill /\ backfill'.at = "next" /\ backfill'.legacy = legacy
    BY <2>1, <2>3, <2>4 DEF Backfill
  <2>6. \A i \in DOMAIN published : published[i].source \in {0, legacy.revision}
    <3>1. CASE published = <<>>
      BY <3>1
    <3>2. CASE published # <<>>
      <4>1. Len(published) \in DOMAIN published /\ published[Len(published)].source = legacy.revision
        BY <3>2, <2>1 DEF B!Resumable, B!Last, BackfillInv, BackfillTyped
      <4> QED
        BY <4>1, <2>3 DEF BackfillInv, B!OneHistory, B!Ingestion
    <3> QED
      BY <3>1, <3>2
  <2>7. BackfillFits'
    BY <2>1, <2>3, <2>5, <2>6 DEF BackfillFits
  <2> QED
    BY <2>1, <2>5, <2>7, OwnStep
<1> QED
  BY <1>1, <1>2

LEMMA NextBlockStep ==
  ASSUME BackfillInv, B!NextBlock
  PROVE  BackfillInv'
<1>1. CASE B!Refuse
  BY <1>1, RefuseStep DEF B!NextBlock, B!Refuse, B!chain
<1>2. CASE ~B!Refuse
  <2>1. /\ backfill.at = "next" /\ backfill' = [backfill EXCEPT !.at = "read"]
        /\ UNCHANGED <<legacy, markers, published, revision, whole>>
    BY <1>2 DEF B!NextBlock, B!chain
  <2>2. backfill' \in Backfill /\ backfill'.at = "read" /\ backfill'.legacy = backfill.legacy
    BY <2>1 DEF BackfillInv, BackfillTyped, Backfill
  <2>3. BackfillFits'
    BY <2>1, <2>2 DEF BackfillInv, BackfillFits, FenceIsGone
  <2> QED
    BY <2>1, <2>2, <2>3, OwnStep
<1> QED
  BY <1>1, <1>2

LEMMA BlockIsRead ==
  ASSUME BackfillInv, B!Read
  PROVE  BackfillInv'
<1>1. CASE B!Refuse
  BY <1>1, RefuseStep DEF B!Read, B!Refuse, B!chain
<1>2. CASE ~B!Refuse
  <2> DEFINE b == SubSeq(legacy.history, 1, Len(published) + 1)
  <2>1. /\ backfill.at = "read" /\ Len(published) + 1 \in DOMAIN legacy.history
        /\ backfill' = [backfill EXCEPT !.at = "check", !.block = b]
        /\ UNCHANGED <<legacy, markers, published, revision, whole>>
    BY <1>2 DEF B!Read, B!chain
  <2>2. legacy.history \in Seq(Old) /\ Len(published) \in Nat
    BY DEF BackfillInv, BackfillTyped, LegacyState
  <2>3. b \in Seq(Old) /\ Len(published) + 1 <= Len(legacy.history)
    BY <2>1, <2>2
  <2> HIDE DEF b
  <2>4. /\ backfill' \in Backfill /\ backfill'.at = "check" /\ backfill'.block = b
        /\ backfill'.legacy = backfill.legacy
    BY <2>1, <2>3 DEF BackfillInv, BackfillTyped, Backfill
  <2>5. backfill.legacy = legacy => BlockIsNext'
    BY <2>1, <2>3, <2>4 DEF BlockIsNext, b
  <2>6. BackfillFits'
    BY <2>1, <2>4, <2>5 DEF BackfillInv, BackfillFits, FenceIsGone
  <2> QED
    BY <2>1, <2>4, <2>6, OwnStep
<1> QED
  BY <1>1, <1>2

\* The marker of the next block, which the checkpoint has not reached.
LEMMA MarkStep ==
  ASSUME BackfillInv, B!Mark
  PROVE  BackfillInv'
<1>1. CASE B!Refuse
  BY <1>1, RefuseStep DEF B!Mark, B!Refuse, B!chain
<1>2. CASE ~B!Refuse
  <2> DEFINE m == [height |-> Len(backfill.block), hash |-> B!Last(backfill.block),
                   source |-> backfill.legacy.revision, revision |-> B!NextRevision]
  <2>1. /\ backfill.at = "check" /\ legacy = backfill.legacy
        /\ markers' = markers \cup {m}
        /\ backfill' = [backfill EXCEPT !.at = "marked", !.marked = B!NextRevision]
        /\ UNCHANGED <<legacy, published, revision, whole>>
    BY <1>2 DEF B!Mark, B!FenceHolds
  <2>2. BlockIsNext /\ legacy.history \in Seq(Old) /\ Len(published) \in Nat
        /\ legacy.revision \in Nat
    BY <2>1 DEF BackfillInv, BackfillTyped, BackfillFits, LegacyState
  <2>3. Len(backfill.block) = Len(published) + 1
    BY <2>1, <2>2 DEF BlockIsNext
  <2>4. /\ m.height = Len(published) + 1 /\ m.source = legacy.revision
        /\ m.revision = B!NextRevision
    BY <2>1, <2>3
  <2> HIDE DEF m
  <2>5. /\ m.revision = Cardinality(markers) + 1 /\ Cardinality(markers) \in Nat
        /\ IsFiniteSet(markers') /\ Cardinality(markers') = Cardinality(markers) + 1
    BY <2>1, <2>4, NewMarker
  <2>6. B!NextRevision \in Nat /\ B!NextRevision = Cardinality(markers')
    BY <2>4, <2>5
  <2>7. /\ backfill' \in Backfill /\ backfill'.at = "marked" /\ backfill'.block = backfill.block
        /\ backfill'.legacy = backfill.legacy /\ backfill'.marked = Cardinality(markers')
    BY <2>1, <2>6 DEF BackfillInv, BackfillTyped, Backfill
  <2>8. BackfillTyped'
    BY <2>1, <2>5, <2>7 DEF BackfillInv, BackfillTyped
  <2>9. MarkersFit'
    <3>1. \A i \in DOMAIN published' : published'[i].source <= legacy'.revision
      BY <2>1 DEF BackfillInv, MarkersFit
    <3>2. ASSUME NEW x \in markers'
          PROVE  /\ x.height \in Nat /\ x.source \in Nat /\ x.revision \in Nat
                 /\ x.revision <= Cardinality(markers') /\ x.source <= legacy'.revision
                 /\ x.source # 0 /\ x.source = legacy'.revision /\ legacy'.revision \notin whole' =>
                       /\ x.height <= Len(published') + 1
                       /\ x.height = Len(legacy'.history) => revision' < x.revision
      <4>1. CASE x \in markers
        BY <4>1, <2>1, <2>5 DEF BackfillInv, MarkersFit
      <4>2. CASE x = m
        BY <4>2, <2>1, <2>2, <2>4, <2>5 DEF BackfillInv, BackfillTyped
      <4> QED
        BY <2>1, <4>1, <4>2
    <3> QED
      BY <3>1, <3>2 DEF MarkersFit
  <2>10. BackfillFits'
    BY <2>1, <2>2, <2>5, <2>7 DEF BackfillInv, BackfillFits, BlockIsNext
  <2> QED
    BY <2>1, <2>8, <2>9, <2>10 DEF BackfillInv, B!OneHistory
<1> QED
  BY <1>1, <1>2

LEMMA CheckFenceStep ==
  ASSUME BackfillInv, B!CheckFence
  PROVE  BackfillInv'
<1>1. CASE B!Refuse
  BY <1>1, RefuseStep DEF B!CheckFence, B!Refuse, B!chain
<1>2. CASE ~B!Refuse
  <2>1. /\ backfill.at = "marked" /\ backfill' = [backfill EXCEPT !.at = "publish"]
        /\ UNCHANGED <<legacy, markers, published, revision, whole>>
    BY <1>2 DEF B!CheckFence, B!chain
  <2>2. /\ backfill' \in Backfill /\ backfill'.at = "publish" /\ backfill'.block = backfill.block
        /\ backfill'.legacy = backfill.legacy /\ backfill'.marked = backfill.marked
    BY <2>1 DEF BackfillInv, BackfillTyped, Backfill
  <2>3. BackfillFits'
    BY <2>1, <2>2 DEF BackfillInv, BackfillFits, FenceIsGone, BlockIsNext
  <2> QED
    BY <2>1, <2>2, <2>3, OwnStep
<1> QED
  BY <1>1, <1>2

\* The block goes on top of what was published, of the same source.
LEMMA BackfillPublishStep ==
  ASSUME BackfillInv, B!Publish
  PROVE  BackfillInv'
<1> DEFINE e == [hash |-> B!Last(backfill.block), source |-> backfill.legacy.revision]
<1>1. /\ backfill.at = "publish"
      /\ published' = Append(published, e)
      /\ revision' = backfill.marked
      /\ whole' = IF Len(published') = Len(backfill.legacy.history)
                  THEN whole \cup {backfill.legacy.revision} ELSE whole
      /\ backfill' = [backfill EXCEPT !.at = "next", !.count = @ + 1]
      /\ UNCHANGED <<legacy, markers>>
  BY DEF B!Publish
<1>2. /\ backfill \in Backfill /\ legacy \in LegacyState
      /\ published \in Seq(Published)
  BY DEF BackfillInv, BackfillTyped
<1>3. /\ backfill.legacy.history \in Seq(Old) /\ backfill.legacy.revision \in Nat
      /\ Len(published) \in Nat /\ legacy.revision \in Nat /\ backfill.marked \in Nat
  BY <1>2 DEF Backfill, LegacyState
<1>4. /\ BlockIsNext /\ backfill.legacy.revision # 0
      /\ backfill.legacy = legacy \/ FenceIsGone
      /\ \A i \in DOMAIN published : published[i].source \in {0, backfill.legacy.revision}
      /\ backfill.marked <= Cardinality(markers)
  BY <1>1 DEF BackfillInv, BackfillFits
<1>5. B!Last(backfill.block) = backfill.legacy.history[Len(published) + 1]
  BY <1>3, <1>4 DEF BlockIsNext, B!Last
<1>6. e.source = backfill.legacy.revision /\ e.hash = backfill.legacy.history[Len(published) + 1]
      /\ e \in Published
  BY <1>3, <1>4, <1>5 DEF BlockIsNext, Published
<1> HIDE DEF e
<1>7. /\ published' \in Seq(Published)
      /\ Len(published') = Len(published) + 1
      /\ DOMAIN published' = 1 .. Len(published) + 1 /\ DOMAIN published = 1 .. Len(published)
      /\ \A i \in DOMAIN published : published'[i] = published[i]
      /\ published'[Len(published) + 1] = e
  BY <1>1, <1>2, <1>6, Appended
<1>8. backfill.count + 1 \in Nat
  BY <1>2 DEF Backfill
<1>9. backfill' \in Backfill /\ backfill'.at = "next" /\ backfill'.legacy = backfill.legacy
  BY <1>1, <1>2, <1>8 DEF Backfill
<1>10. BackfillTyped'
  BY <1>1, <1>3, <1>4, <1>7, <1>9 DEF BackfillInv, BackfillTyped
<1>11. backfill.legacy.revision <= legacy.revision
  BY <1>3, <1>4 DEF FenceIsGone
<1>12. \A i \in DOMAIN published' : published'[i].source \in {0, backfill.legacy.revision}
  <2> SUFFICES ASSUME NEW i \in DOMAIN published'
               PROVE  published'[i].source \in {0, backfill.legacy.revision}
    OBVIOUS
  <2>1. i \in DOMAIN published \/ i = Len(published) + 1
    BY <1>3, <1>7
  <2> QED
    BY <2>1, <1>4, <1>6, <1>7
<1>13. MarkersFit'
  <2>1. \A i \in DOMAIN published' : published'[i].source <= legacy'.revision
    BY <1>1, <1>3, <1>11, <1>12
  <2>2. ASSUME NEW x \in markers'
        PROVE  /\ x.height \in Nat /\ x.source \in Nat /\ x.revision \in Nat
               /\ x.revision <= Cardinality(markers') /\ x.source <= legacy'.revision
               /\ x.source # 0 /\ x.source = legacy'.revision /\ legacy'.revision \notin whole' =>
                     /\ x.height <= Len(published') + 1
                     /\ x.height = Len(legacy'.history) => revision' < x.revision
    <3>1. /\ x \in markers /\ x.height \in Nat /\ x.source \in Nat /\ x.revision \in Nat
          /\ x.revision <= Cardinality(markers) /\ x.source <= legacy.revision
          /\ x.source # 0 /\ x.source = legacy.revision /\ legacy.revision \notin whole =>
                x.height <= Len(published) + 1
      BY <1>1 DEF BackfillInv, MarkersFit
    <3>2. CASE x.source # 0 /\ x.source = legacy.revision /\ legacy.revision \notin whole'
      <4>1. backfill.legacy = legacy /\ legacy.revision \notin whole
        BY <3>1, <3>2, <1>1, <1>4 DEF FenceIsGone
      <4>2. Len(published) + 1 <= Len(legacy.history) /\ Len(legacy.history) \in Nat
        BY <4>1, <1>3, <1>4 DEF BlockIsNext
      <4>3. Len(published) + 1 # Len(legacy.history)
        BY <4>1, <3>2, <1>1, <1>7
      <4>4. x.height <= Len(published) + 1
        BY <3>1, <3>2, <4>1
      <4> QED
        BY <3>1, <4>2, <4>3, <4>4, <1>1, <1>3, <1>7
    <3> QED
      BY <3>1, <3>2, <1>1
  <2> QED
    BY <2>1, <2>2 DEF MarkersFit
<1>14. BackfillFits'
  BY <1>1, <1>4, <1>9, <1>12 DEF BackfillInv, BackfillFits, FenceIsGone
<1>15. B!OneHistory'
  <2> SUFFICES ASSUME NEW i \in DOMAIN published', published'[i].source # 0,
                      published'[i].source = legacy'.revision
               PROVE  i \in DOMAIN legacy'.history /\ published'[i].hash = legacy'.history[i]
    BY <1>12 DEF B!OneHistory, B!Ingestion
  <2>1. backfill.legacy = legacy
    BY <1>1, <1>3, <1>4, <1>12 DEF FenceIsGone
  <2>2. CASE i \in DOMAIN published
    BY <2>2, <1>1, <1>7 DEF BackfillInv, B!OneHistory, B!Ingestion
  <2>3. CASE i = Len(published) + 1
    BY <2>1, <2>3, <1>1, <1>3, <1>4, <1>6, <1>7 DEF BlockIsNext
  <2> QED
    BY <2>2, <2>3, <1>3, <1>7
<1> QED
  BY <1>10, <1>13, <1>14, <1>15 DEF BackfillInv

LEMMA BackfillStopStep ==
  ASSUME BackfillInv, B!Stop
  PROVE  BackfillInv'
BY RefuseStep DEF B!Stop, B!chain

\* The ingestion goes on above, or below, a history that was moved as a whole.
LEMMA IngestStep ==
  ASSUME BackfillInv, B!Ingest
  PROVE  BackfillInv'
<1>1. /\ backfill.at = "idle" /\ B!Ready /\ revision' = B!NextRevision
      /\ UNCHANGED <<legacy, backfill, whole>>
  BY DEF B!Ingest
<1>2. PICK m : markers' = markers \cup {m} /\ m.height \in Nat /\ m.source = 0
               /\ m.revision = B!NextRevision
  <2>1. Len(published) \in Nat
    BY DEF BackfillInv, BackfillTyped
  <2>2. PICK h, x : /\ h \in Nat
                    /\ markers' = markers \cup {[height |-> h, hash |-> x, source |-> 0,
                                                 revision |-> B!NextRevision]}
    <3>1. CASE \E hash \in Foreign :
                  markers' = markers \cup {[height |-> Len(published) + 1, hash |-> hash,
                                            source |-> 0, revision |-> B!NextRevision]}
      <4>1. Len(published) + 1 \in Nat
        BY <2>1
      <4> QED
        BY <3>1, <4>1, Zenon
    <3>2. CASE markers' = markers \cup {[height |-> Len(published), hash |-> "orphaned",
                                         source |-> 0, revision |-> B!NextRevision]}
      BY <2>1, <3>2
    <3> QED
      BY <3>1, <3>2 DEF B!Ingest, B!Ingestion
  <2> DEFINE m == [height |-> h, hash |-> x, source |-> 0, revision |-> B!NextRevision]
  <2>3. m.height \in Nat /\ m.source = 0 /\ m.revision = B!NextRevision
    BY <2>2
  <2> QED
    BY <2>2, <2>3, Zenon
<1>3. /\ m.revision = Cardinality(markers) + 1 /\ Cardinality(markers) \in Nat
      /\ IsFiniteSet(markers') /\ Cardinality(markers') = Cardinality(markers) + 1
  BY <1>2, NewMarker
<1>4. /\ published' \in Seq(Published)
      /\ \A i \in DOMAIN published' :
            (i \in DOMAIN published /\ published'[i] = published[i]) \/ published'[i].source = 0
  <2>1. published \in Seq(Published)
    BY DEF BackfillInv, BackfillTyped
  <2>2. CASE \E hash \in Foreign :
                published' = Append(published, [hash |-> hash, source |-> B!Ingestion])
    <3>1. PICK hash \in Foreign :
             published' = Append(published, [hash |-> hash, source |-> B!Ingestion])
      BY <2>2
    <3> DEFINE e == [hash |-> hash, source |-> B!Ingestion]
    <3>2. e \in Published /\ e.source = 0
      BY DEF B!Ingestion, Published
    <3> HIDE DEF e
    <3>3. published' = Append(published, e)
      BY <3>1 DEF e
    <3>4. /\ published' \in Seq(Published)
          /\ DOMAIN published' = 1 .. Len(published) + 1
          /\ \A i \in DOMAIN published : published'[i] = published[i]
          /\ published'[Len(published) + 1] = e
      BY <3>2, <3>3, <2>1, Appended
    <3>5. Len(published) \in Nat /\ DOMAIN published = 1 .. Len(published)
      BY <2>1
    <3> QED
      BY <3>2, <3>4, <3>5
  <2>3. CASE Len(published) > 1 /\ published' = B!Front(published)
    <3>1. published' = SubSeq(published, 1, Len(published) - 1)
      BY <2>3 DEF B!Front
    <3> QED
      BY <3>1, <2>1, <2>3, Shortened
  <2> QED
    BY <2>2, <2>3 DEF B!Ingest
<1>5. legacy.revision = 0 \/ legacy.revision \in whole
  BY <1>1, ReadyFollows DEF B!ReadyIsWhole, BackfillInv, BackfillTyped
<1>6. BackfillTyped'
  BY <1>1, <1>2, <1>3, <1>4 DEF BackfillInv, BackfillTyped
<1>7. legacy.revision \in Nat
  BY DEF BackfillInv, BackfillTyped, LegacyState
<1>8. MarkersFit'
  <2>1. \A i \in DOMAIN published' : published'[i].source <= legacy'.revision
    BY <1>1, <1>4, <1>7 DEF BackfillInv, MarkersFit
  <2>2. \A x \in markers' :
          /\ x.height \in Nat /\ x.source \in Nat /\ x.revision \in Nat
          /\ x.revision <= Cardinality(markers') /\ x.source <= legacy'.revision
    BY <1>1, <1>2, <1>3, <1>7 DEF BackfillInv, MarkersFit
  <2> QED
    BY <2>1, <2>2, <1>1, <1>5 DEF MarkersFit
<1>9. BackfillFits'
  BY <1>1 DEF BackfillFits
<1>10. B!OneHistory'
  <2>1. \A i \in DOMAIN published' : published'[i].source # 0 =>
           i \in DOMAIN published /\ published'[i] = published[i]
    BY <1>4
  <2> QED
    BY <2>1, <1>1 DEF BackfillInv, B!OneHistory, B!Ingestion
<1> QED
  BY <1>6, <1>8, <1>9, <1>10 DEF BackfillInv

THEOREM BackfillInvariant == B!Spec => []BackfillInv
<1>1. B!Init => BackfillInv
  BY BackfillInit
<1>2. BackfillInv /\ [B!Next]_(B!vars) => BackfillInv'
  <2> SUFFICES ASSUME BackfillInv, [B!Next]_(B!vars)
               PROVE  BackfillInv'
    OBVIOUS
  <2>1. CASE UNCHANGED B!vars
    BY <2>1 DEF B!vars, BackfillInv, BackfillTyped, MarkersFit, BackfillFits, FenceIsGone,
                BlockIsNext, B!OneHistory
  <2> QED
    BY <2>1, LegacyStep, StartStep, NextBlockStep, BlockIsRead, MarkStep, CheckFenceStep,
       BackfillPublishStep, BackfillStopStep, IngestStep DEF B!Next
<1> QED
  BY <1>1, <1>2, PTL DEF B!Spec

-----------------------------------------------------------------------------
(* What the analytical node keeps *)

Parts == {"intelligence", "exposure", "semantics", "clusters", "holdings", "risk"}

UpstreamState == [source : Nat, labels : Nat, reviews : Nat, release : Releases]

Data == [bitcoin : BOOLEAN, parts : SUBSET Parts, seen : UpstreamState,
         risk : {"none", "score", "unknown"}, historical : {"none", "score"}]

KeptRecord == [saved : BOOLEAN, expires : Int, bitcoin : BOOLEAN, parts : SUBSET Parts,
               seen : UpstreamState, risk : {"none", "score", "unknown"}, historical : {"none", "score"}]

KeptOrRemoved == KeptRecord \cup {K!Removed}

Comparison == [kind : {"create", "reopen", "export"}, id : Nat, data : Data, calls : 0 .. 6,
               same : BOOLEAN, failed : BOOLEAN, held : BOOLEAN,
               status : {"none", "current", "stale", "unverified"},
               at : {"check", "annotate", "store", "answered", "refused"}]

Asking == [kind : {"reopen", "export"}, at : {"read", "export", "done", "refused"}, id : Nat,
           now : Int]

Requests == {K!Idle} \cup Asking \cup Comparison

\* What an answer of the service keeps to, and whatever is made of it later: no version
\* but the release's returns.
Explained(d, up) ==
  /\ d.risk = "unknown" => d.historical = "score"
  /\ d.bitcoin => d.parts = {} \/ {"clusters", "risk"} \subseteq d.parts
  /\ d.seen.source <= up.source /\ d.seen.labels <= up.labels

\* A comparison of a wallet that found everything as it was has seen all of it at once
\* when it asked for the clusters, the fifth call, unless source or labels had changed
\* by then; the risk, which is asked for last, tells.
BorneOut(r, up) ==
  r.same =>
    /\ r.data.parts = {} /\ r.calls >= 1 => r.held
    /\ r.data.parts # {} /\ r.calls >= 5 =>
          r.held \/ r.data.seen.source # up.source \/ r.data.seen.labels # up.labels
    /\ r.data.parts # {} /\ r.calls = 6 => r.held

ComparisonFits(r, up) ==
  /\ Explained(r.data, up)
  /\ r.at \in {"check", "annotate"} => r.data.bitcoin
  /\ r.at = "check" => ~r.failed /\ BorneOut(r, up)
  /\ r.at = "annotate" => r.failed
  /\ r.at \in {"store", "answered"} =>
        /\ r.status = "current" => r.held
        /\ r.data.bitcoin /\ r.data.risk = "score" => r.status = "current"

RequestFits(r, up, ex) ==
  /\ r \in Comparison => ComparisonFits(r, up)
  /\ r \in Asking /\ r.at = "read" /\ r.kind = "export" => r.id \in ex

KeptTyped ==
  /\ upstream \in UpstreamState /\ clock \in Int
  /\ investigations \in Seq(KeptOrRemoved)
  /\ request \in [Analysts -> Requests]
  /\ exported \subseteq DOMAIN investigations

KeptInv ==
  /\ KeptTyped
  /\ \A c \in Analysts : RequestFits(request[c], upstream, exported)
  /\ \A id \in DOMAIN investigations :
        investigations[id] # K!Removed => Explained(investigations[id], upstream)
  /\ \A id \in exported : investigations[id] # K!Removed /\ investigations[id].saved

LEMMA RecordsKept == \A d \in KeptRecord : d # K!Removed
BY DEF KeptRecord, K!Removed

\* The kinds of requests tell themselves apart by their places.
LEMMA RequestKinds ==
  ASSUME NEW r \in Requests
  PROVE  /\ r.at \in {"check", "annotate", "store", "answered"} => r \in Comparison
         /\ r.at \in {"read", "export"} => r \in Asking
         /\ r.at = "idle" => r = K!Idle
         /\ ~(r \in Comparison /\ r \in Asking)
         /\ ~(K!Idle \in Comparison) /\ ~(K!Idle \in Asking)
<1>1. r = K!Idle \/ r \in Asking \/ r \in Comparison
  BY DEF Requests
<1>2. ASSUME NEW x \in Comparison
      PROVE  x \notin Asking /\ x # K!Idle /\ x.at \notin {"idle", "read", "export"}
  BY <1>2 DEF Comparison, Asking, K!Idle
<1>3. ASSUME NEW x \in Asking
      PROVE  x # K!Idle /\ x.at \notin {"idle", "check", "annotate", "store", "answered"}
  BY <1>3 DEF Asking, K!Idle
<1>4. K!Idle.at = "idle"
  BY DEF K!Idle
<1> QED
  BY <1>1, <1>2, <1>3, <1>4

LEMMA KeptInit == K!Init => KeptInv
<1> SUFFICES ASSUME K!Init
             PROVE  KeptInv
  OBVIOUS
<1>1. (CHOOSE r \in Releases : TRUE) \in Releases
  BY AnswersAssumption
<1>2. upstream \in UpstreamState
  BY <1>1 DEF K!Init, UpstreamState
<1>3. request \in [Analysts -> Requests] /\ \A c \in Analysts : request[c] = K!Idle
  BY DEF K!Init, Requests
<1>4. \A c \in Analysts : RequestFits(request[c], upstream, exported)
  BY <1>3, RequestKinds DEF RequestFits
<1> QED
  BY <1>2, <1>3, <1>4 DEF K!Init, KeptInv, KeptTyped

\* One request moves, and nothing else does.
LEMMA RequestMoves ==
  ASSUME KeptInv, NEW c \in Analysts, NEW x \in Requests,
         RequestFits(x, upstream, exported), request' = [request EXCEPT ![c] = x],
         UNCHANGED <<upstream, investigations, clock, exported>>
  PROVE  KeptInv'
<1>1. request' \in [Analysts -> Requests]
  BY DEF KeptInv, KeptTyped
<1>2. \A a \in Analysts : RequestFits(request'[a], upstream, exported)
  BY DEF KeptInv, KeptTyped
<1>3. KeptTyped'
  BY <1>1 DEF KeptInv, KeptTyped
<1> QED
  BY <1>2, <1>3 DEF KeptInv

-----------------------------------------------------------------------------
(* Comparisons *)

\* When the clusters are found unchanged, labels alone decide whether all is.
LEMMA ClustersTell ==
  ASSUME NEW d \in Data, upstream \in UpstreamState,
         K!Unchanged(d, "clusters"), d.seen.labels = upstream.labels
  PROVE  K!WhollyUnchanged(d)
<1>1. /\ d.seen.source = upstream.source /\ d.seen.reviews = upstream.reviews
      /\ d.seen.release = upstream.release
  BY DEF K!Unchanged, K!ClustersCurrent, K!Same, Data, UpstreamState
<1>2. \A f \in {"source", "labels", "reviews", "release"} : d.seen[f] = upstream[f]
  BY <1>1
<1>3. K!Same(d, {"labels"}) /\ K!Same(d, {"release"}) /\ K!Same(d, {"source", "labels"})
      /\ K!ClustersCurrent(d)
      /\ K!Same(d, {"source"} \cup IF "holdings" \in d.parts THEN {"release"} ELSE {})
  BY <1>2 DEF K!Same, K!ClustersCurrent
<1>4. \A call \in {"status", "intelligence", "exposure", "semantics", "clusters", "risk"} :
         K!Unchanged(d, call)
  BY <1>3 DEF K!Unchanged
<1>5. \A i \in DOMAIN K!Order :
         K!Order[i] \in {"status", "intelligence", "exposure", "semantics", "clusters", "risk"}
  BY DEF K!Order
<1> QED
  BY <1>4, <1>5 DEF K!WhollyUnchanged, K!Asked

LEMMA AskedFacts ==
  ASSUME NEW d \in Data
  PROVE  /\ K!Asked(d) \subseteq 1 .. 6 /\ 1 \in K!Asked(d)
         /\ "clusters" \in d.parts => 5 \in K!Asked(d)
         /\ "risk" \in d.parts => 6 \in K!Asked(d)
         /\ d.parts = {} => K!Asked(d) = {1}
BY DEF K!Asked, K!Order

\* One more call of a comparison.
LEMMA CompareMoves ==
  ASSUME KeptInv, NEW c \in Analysts, K!Check(c)
  PROVE  KeptInv'
<1>1. PICK r \in Requests : r = request[c]
  BY DEF KeptInv, KeptTyped
<1>2. r.at = "check" /\ UNCHANGED <<upstream, investigations, clock, exported>>
  BY <1>1 DEF K!Check
<1>3. r \in Comparison /\ ComparisonFits(r, upstream)
  BY <1>1, <1>2, RequestKinds DEF KeptInv, RequestFits
<1>4. r.data \in Data /\ r.calls \in 0 .. 6 /\ upstream \in UpstreamState
  BY <1>3 DEF Comparison, KeptInv, KeptTyped
<1>5. /\ r.data.bitcoin /\ ~r.failed /\ BorneOut(r, upstream) /\ Explained(r.data, upstream)
      /\ r.data.parts = {} \/ {"clusters", "risk"} \subseteq r.data.parts
  BY <1>2, <1>3 DEF ComparisonFits, Explained
<1>6. CASE \E i \in K!Left(r) : /\ \A j \in K!Left(r) : i <= j
                                /\ request' = [request EXCEPT ![c] =
                                     [r EXCEPT !.calls = i,
                                               !.same = @ /\ K!Unchanged(r.data, K!Order[i]),
                                               !.held = @ \/ K!WhollyUnchanged(r.data)]]
  <2>1. PICK i \in K!Left(r) : /\ \A j \in K!Left(r) : i <= j
                               /\ request' = [request EXCEPT ![c] =
                                    [r EXCEPT !.calls = i,
                                              !.same = @ /\ K!Unchanged(r.data, K!Order[i]),
                                              !.held = @ \/ K!WhollyUnchanged(r.data)]]
    BY <1>6
  <2> DEFINE x == [r EXCEPT !.calls = i, !.same = @ /\ K!Unchanged(r.data, K!Order[i]),
                            !.held = @ \/ K!WhollyUnchanged(r.data)]
  <2>2. i \in K!Asked(r.data) /\ i \in 1 .. 6 /\ i > r.calls
    BY <1>4, AskedFacts DEF K!Left
  <2>3. K!Unchanged(r.data, K!Order[i]) \in BOOLEAN /\ K!WhollyUnchanged(r.data) \in BOOLEAN
    <3>1. K!Order[i] \in {"status", "intelligence", "exposure", "semantics", "clusters", "risk"}
      BY <2>2 DEF K!Order
    <3>2. \A call \in {"status", "intelligence", "exposure", "semantics", "clusters", "risk"} :
             K!Unchanged(r.data, call) \in BOOLEAN
      BY DEF K!Unchanged, K!Same, K!ClustersCurrent
    <3> QED
      BY <3>1, <3>2 DEF K!WhollyUnchanged
  <2>4. /\ x \in Comparison /\ x.at = "check" /\ x.data = r.data /\ x.calls = i /\ x.failed = r.failed
        /\ x.same = (r.same /\ K!Unchanged(r.data, K!Order[i]))
        /\ x.held = (r.held \/ K!WhollyUnchanged(r.data))
    <3> DEFINE s == r.same /\ K!Unchanged(r.data, K!Order[i])
               h == r.held \/ K!WhollyUnchanged(r.data)
    <3>1. s \in BOOLEAN /\ h \in BOOLEAN
      BY <2>3
    <3>2. x = [r EXCEPT !.calls = i, !.same = s, !.held = h]
      BY <1>3 DEF Comparison
    <3>3. i \in 0 .. 6
      BY <2>2
    <3> SUFFICES /\ x \in Comparison /\ x.at = "check" /\ x.data = r.data /\ x.calls = i
                 /\ x.failed = r.failed /\ x.same = s /\ x.held = h
      OBVIOUS
    <3> HIDE DEF s, h, x
    <3> QED
      BY <1>2, <1>3, <3>1, <3>2, <3>3 DEF Comparison
  <2>5. request' = [request EXCEPT ![c] = x]
    BY <2>1
  <2> HIDE DEF x
  <2>6. BorneOut(x, upstream)
    <3> SUFFICES ASSUME x.same
                 PROVE  BorneOut(x, upstream)
      BY DEF BorneOut
    <3>1. r.same /\ K!Unchanged(r.data, K!Order[i])
      BY <2>4
    <3>2. CASE r.data.parts = {}
      <4>1. i = 1 /\ K!Asked(r.data) = {1}
        BY <3>2, <2>2, <1>4, AskedFacts
      <4>2. K!WhollyUnchanged(r.data)
        BY <3>1, <4>1 DEF K!WhollyUnchanged
      <4> QED
        BY <3>2, <2>4, <4>2 DEF BorneOut
    <3>3. CASE r.data.parts # {}
      <4>1. 5 \in K!Asked(r.data) /\ 6 \in K!Asked(r.data)
        BY <3>3, <1>4, <1>5, AskedFacts
      <4>2. i <= 5 \/ r.calls >= 5
        <5> SUFFICES ASSUME ~(r.calls >= 5)
                     PROVE  i <= 5
          OBVIOUS
        <5>1. 5 > r.calls
          BY <1>4
        <5>2. 5 \in K!Left(r)
          BY <4>1, <5>1 DEF K!Left
        <5> QED
          BY <5>2, <2>1
      <4>3. CASE i < 5
        BY <4>3, <3>3, <2>2, <2>4 DEF BorneOut
      <4>4. CASE i = 5
        <5>1. K!Unchanged(r.data, "clusters")
          BY <3>1, <4>4 DEF K!Order
        <5>2. r.data.seen.labels = upstream.labels => x.held
          BY <5>1, <1>4, <2>4, ClustersTell
        <5> QED
          BY <5>2, <4>4, <3>3, <2>4 DEF BorneOut
      <4>5. CASE i = 6
        <5>1. r.calls >= 5
          BY <4>2, <4>5, <1>4
        <5>2. K!Unchanged(r.data, "risk")
          BY <3>1, <4>5 DEF K!Order
        <5>3. K!Same(r.data, {"source", "labels"})
          BY <5>2 DEF K!Unchanged
        <5>4. r.data.seen.source = upstream.source /\ r.data.seen.labels = upstream.labels
          BY <5>3 DEF K!Same
        <5>5. r.held
          BY <5>1, <5>4, <3>1, <3>3, <1>5 DEF BorneOut
        <5> QED
          BY <5>5, <2>4 DEF BorneOut
      <4> QED
        BY <4>3, <4>4, <4>5, <2>2
    <3> QED
      BY <3>2, <3>3
  <2>7. RequestFits(x, upstream, exported)
    BY <2>4, <2>6, <1>3, <1>5, RequestKinds DEF RequestFits, ComparisonFits, Requests
  <2> QED
    BY <2>4, <2>5, <2>7, <1>2, RequestMoves DEF Requests
<1>7. CASE request' = [request EXCEPT ![c] = [r EXCEPT !.at = "annotate", !.failed = TRUE]]
  <2> DEFINE x == [r EXCEPT !.at = "annotate", !.failed = TRUE]
  <2>1. x \in Comparison /\ x.at = "annotate" /\ x.failed /\ x.data = r.data
    BY <1>3 DEF Comparison
  <2> HIDE DEF x
  <2>2. RequestFits(x, upstream, exported)
    BY <2>1, <1>5, RequestKinds DEF RequestFits, ComparisonFits, Requests
  <2>3. request' = [request EXCEPT ![c] = x]
    BY <1>7 DEF x
  <2> QED
    BY <2>1, <2>2, <2>3, <1>2, RequestMoves DEF Requests
<1> QED
  BY <1>1, <1>6, <1>7 DEF K!Check

\* What is found out is written beside the evidence; a score that it does not bear is
\* kept as history.
LEMMA AnnotateMoves ==
  ASSUME KeptInv, NEW c \in Analysts, K!Annotate(c)
  PROVE  KeptInv'
<1>1. PICK r \in Requests : r = request[c]
  BY DEF KeptInv, KeptTyped
<1>2. /\ (r.at = "check" /\ K!Left(r) = {}) \/ r.at = "annotate"
      /\ UNCHANGED <<upstream, investigations, clock, exported>>
  BY <1>1 DEF K!Annotate
<1>3. r \in Comparison /\ ComparisonFits(r, upstream)
  BY <1>1, <1>2, RequestKinds DEF KeptInv, RequestFits
<1>4. r.data \in Data /\ r.calls \in 0 .. 6 /\ r.same \in BOOLEAN /\ r.failed \in BOOLEAN
  BY <1>3 DEF Comparison
<1>5. K!Status(r) \in {"current", "stale", "unverified"}
      /\ (K!Status(r) = "current" => r.same /\ ~r.failed)
  BY DEF K!Status
<1> DEFINE d == IF K!Status(r) = "current" THEN r.data ELSE K!Suppressed(r.data)
           place == IF r.kind = "create" THEN "store" ELSE "answered"
           x == [r EXCEPT !.status = K!Status(r), !.data = d, !.at = place]
<1>6. request' = [request EXCEPT ![c] = x]
  BY <1>1 DEF K!Annotate
<1>7. /\ d \in Data /\ d.bitcoin = r.data.bitcoin /\ d.parts = r.data.parts /\ d.seen = r.data.seen
      /\ d.risk = "unknown" => d.historical = "score"
      /\ d.risk = "score" => K!Status(r) = "current"
  BY <1>3, <1>4 DEF K!Suppressed, Data, ComparisonFits, Explained
<1> HIDE DEF d
<1>8. /\ x \in Comparison /\ x.at = place /\ x.data = d /\ x.held = r.held /\ x.status = K!Status(r)
      /\ place \in {"store", "answered"}
  BY <1>3, <1>5, <1>7 DEF Comparison
<1> HIDE DEF x, place
<1>9. K!Status(r) = "current" => r.held
  <2> SUFFICES ASSUME K!Status(r) = "current"
               PROVE  r.held
    OBVIOUS
  <2>1. r.at = "check" /\ K!Left(r) = {} /\ r.same /\ BorneOut(r, upstream) /\ r.data.bitcoin
    BY <1>2, <1>3, <1>5 DEF ComparisonFits
  <2>2. CASE r.data.parts = {}
    <3>1. 1 \in K!Asked(r.data)
      BY <1>4, AskedFacts
    <3>2. r.calls >= 1
      BY <3>1, <2>1, <1>4 DEF K!Left
    <3> QED
      BY <2>1, <2>2, <3>2 DEF BorneOut
  <2>3. CASE r.data.parts # {}
    <3>1. 6 \in K!Asked(r.data)
      BY <2>1, <2>3, <1>3, <1>4, AskedFacts DEF ComparisonFits, Explained
    <3>2. r.calls = 6
      BY <3>1, <2>1, <1>4 DEF K!Left
    <3> QED
      BY <2>1, <2>3, <3>2 DEF BorneOut
  <2> QED
    BY <2>2, <2>3
<1>10. Explained(d, upstream)
  BY <1>3, <1>7 DEF ComparisonFits, Explained
<1>11. RequestFits(x, upstream, exported)
  BY <1>7, <1>8, <1>9, <1>10, RequestKinds DEF RequestFits, ComparisonFits, Requests
<1> QED
  BY <1>2, <1>6, <1>8, <1>11, RequestMoves DEF Requests

-----------------------------------------------------------------------------
(* Requests *)

LEMMA KeptIn ==
  ASSUME KeptInv, NEW id \in DOMAIN investigations, investigations[id] # K!Removed
  PROVE  investigations[id] \in KeptRecord /\ Explained(investigations[id], upstream)
<1>1. investigations[id] \in KeptOrRemoved
  BY DEF KeptInv, KeptTyped
<1> QED
  BY <1>1 DEF KeptInv, KeptOrRemoved

\* Data that explains itself is shown at once, or compared first.
LEMMA ComparedFits ==
  ASSUME NEW kind \in {"create", "reopen", "export"}, NEW id \in Nat, NEW d \in Data,
         Explained(d, upstream)
  PROVE  /\ K!Compared(kind, id, d) \in Requests
         /\ RequestFits(K!Compared(kind, id, d), upstream, exported)
<1> DEFINE place == IF d.bitcoin THEN "check" ELSE IF kind = "create" THEN "store" ELSE "answered"
           x == K!Compared(kind, id, d)
<1>1. /\ place \in {"check", "store", "answered"}
      /\ place = "check" => d.bitcoin
      /\ place \in {"store", "answered"} => ~d.bitcoin
  OBVIOUS
<1>2. x = [kind |-> kind, id |-> id, data |-> d, calls |-> 0, same |-> TRUE, failed |-> FALSE,
           held |-> FALSE, status |-> "none", at |-> place]
  BY DEF K!Compared
<1> HIDE DEF place, x
<1>3. /\ x \in Comparison /\ x.at = place /\ x.data = d /\ x.status = "none" /\ x.failed = FALSE
      /\ x.calls = 0
  BY <1>1, <1>2 DEF Comparison
<1>4. BorneOut(x, upstream)
  BY <1>3 DEF BorneOut
<1>5. ComparisonFits(x, upstream)
  BY <1>1, <1>3, <1>4 DEF ComparisonFits
<1>6. x \in Requests /\ RequestFits(x, upstream, exported)
  BY <1>3, <1>5, RequestKinds DEF RequestFits, Requests
<1> QED
  BY <1>6 DEF x

LEMMA CreateMoves ==
  ASSUME KeptInv, NEW c \in Analysts, K!Create(c)
  PROVE  KeptInv'
<1>1. PICK a \in Answers :
         request' = [request EXCEPT ![c] =
            K!Compared("create", 0, [bitcoin |-> a.bitcoin, parts |-> a.parts, seen |-> upstream,
                                     risk |-> IF a.scored THEN "score" ELSE "none",
                                     historical |-> "none"])]
  BY DEF K!Create
<1> DEFINE d == [bitcoin |-> a.bitcoin, parts |-> a.parts, seen |-> upstream,
                 risk |-> IF a.scored THEN "score" ELSE "none", historical |-> "none"]
<1>2. a.bitcoin \in BOOLEAN /\ a.parts \in SUBSET Parts /\ upstream \in UpstreamState
      /\ (a.bitcoin => a.parts = {} \/ {"clusters", "risk"} \subseteq a.parts)
  BY AnswersAssumption DEF Parts, KeptInv, KeptTyped
<1>3. d \in Data /\ d.bitcoin = a.bitcoin /\ d.parts = a.parts /\ d.seen = upstream
      /\ d.risk # "unknown"
  BY <1>2 DEF Data
<1> HIDE DEF d
<1>4. Explained(d, upstream)
  BY <1>2, <1>3 DEF Explained, UpstreamState
<1>5. request' = [request EXCEPT ![c] = K!Compared("create", 0, d)]
  BY <1>1 DEF d
<1>6. K!Compared("create", 0, d) \in Requests
      /\ RequestFits(K!Compared("create", 0, d), upstream, exported)
  BY <1>3, <1>4, ComparedFits
<1> QED
  BY <1>5, <1>6, RequestMoves DEF K!Create

\* A request that is given up promises nothing.
LEMMA Moved ==
  ASSUME NEW r \in Requests, NEW ex,
         NEW place \in {"refused", "done"}, r \in Comparison => place = "refused",
         r # K!Idle
  PROVE  /\ [r EXCEPT !.at = place] \in Requests
         /\ \A up : ComparisonFits(r, up) =>
                       RequestFits([r EXCEPT !.at = place], up, ex)
         /\ r \in Asking => \A up : RequestFits([r EXCEPT !.at = place], up, ex)
<1> DEFINE x == [r EXCEPT !.at = place]
<1>1. CASE r \in Comparison
  <2>1. x \in Comparison /\ x.at = "refused" /\ x.data = r.data
    BY <1>1 DEF Comparison
  <2> HIDE DEF x
  <2>2. \A up : ComparisonFits(r, up) => RequestFits(x, up, ex)
    BY <2>1, RequestKinds DEF Requests, RequestFits, ComparisonFits
  <2>3. x \in Requests /\ r \notin Asking
    BY <2>1, <1>1, RequestKinds DEF Requests
  <2> QED
    BY <2>2, <2>3 DEF x
<1>2. CASE r \in Asking
  <2>1. x \in Asking /\ x.at = place
    BY <1>2 DEF Asking
  <2> HIDE DEF x
  <2>2. \A up : RequestFits(x, up, ex)
    BY <2>1, RequestKinds DEF Requests, RequestFits
  <2>3. x \in Requests
    BY <2>1 DEF Requests
  <2> QED
    BY <2>2, <2>3 DEF x
<1> QED
  BY <1>1, <1>2 DEF Requests

LEMMA IdleFits == \A up, ex : K!Idle \in Requests /\ RequestFits(K!Idle, up, ex)
BY RequestKinds DEF Requests, RequestFits

\* A request that goes on to ask for what is kept.
LEMMA AskingFits ==
  ASSUME KeptInv, NEW kind \in {"reopen", "export"}, NEW id \in DOMAIN investigations,
         NEW place \in {"read", "export", "done"}, kind = "export" /\ place = "read" => id \in exported,
         NEW t \in Int
  PROVE  /\ [kind |-> kind, at |-> place, id |-> id, now |-> t] \in Requests
         /\ RequestFits([kind |-> kind, at |-> place, id |-> id, now |-> t], upstream, exported)
<1> DEFINE x == [kind |-> kind, at |-> place, id |-> id, now |-> t]
<1>1. id \in Nat
  BY DEF KeptInv, KeptTyped
<1>2. x \in Asking /\ x.kind = kind /\ x.at = place /\ x.id = id
  BY <1>1 DEF Asking
<1> HIDE DEF x
<1>3. x \in Requests /\ RequestFits(x, upstream, exported)
  BY <1>2, RequestKinds DEF Requests, RequestFits
<1> QED
  BY <1>3 DEF x

LEMMA BeginMoves ==
  ASSUME KeptInv, NEW c \in Analysts, K!Reopen(c) \/ K!StartExport(c)
  PROVE  KeptInv'
<1>1. PICK id \in DOMAIN investigations :
         K!Begin(c, "reopen", id, "read") \/ K!Begin(c, "export", id, "export")
  BY DEF K!Reopen, K!StartExport
<1>2. UNCHANGED <<upstream, investigations, clock, exported>>
  BY DEF K!Reopen, K!StartExport
<1>3. clock \in Int
  BY DEF KeptInv, KeptTyped
<1>4. CASE K!Begin(c, "reopen", id, "read")
  BY <1>2, <1>3, <1>4, AskingFits, RequestMoves DEF K!Begin
<1>5. CASE K!Begin(c, "export", id, "export")
  BY <1>2, <1>3, <1>5, AskingFits, RequestMoves DEF K!Begin
<1> QED
  BY <1>1, <1>4, <1>5

LEMMA ReopenMoves ==
  ASSUME KeptInv, NEW c \in Analysts, K!Read(c)
  PROVE  KeptInv'
<1>1. PICK r \in Requests : r = request[c]
  BY DEF KeptInv, KeptTyped
<1>2. r.at = "read" /\ UNCHANGED <<upstream, investigations, clock, exported>>
  BY <1>1 DEF K!Read
<1>3. r \in Asking /\ r.kind \in {"reopen", "export"} /\ r.id \in Nat /\ r # K!Idle
  BY <1>2, RequestKinds DEF Asking
<1>4. CASE K!Available(r.id, r.now)
  <2> DEFINE d == K!Content(investigations[r.id])
  <2>1. r.id \in DOMAIN investigations /\ investigations[r.id] # K!Removed
    BY <1>4 DEF K!Available, K!Kept
  <2>2. investigations[r.id] \in KeptRecord /\ Explained(investigations[r.id], upstream)
    BY <2>1, KeptIn
  <2>3. d \in Data /\ Explained(d, upstream)
    BY <2>2 DEF K!Content, KeptRecord, Data, Explained
  <2>4. request' = [request EXCEPT ![c] = K!Compared(r.kind, r.id, d)]
    BY <1>1, <1>4 DEF K!Read
  <2> HIDE DEF d
  <2>5. K!Compared(r.kind, r.id, d) \in Requests
        /\ RequestFits(K!Compared(r.kind, r.id, d), upstream, exported)
    BY <1>3, <2>3, ComparedFits
  <2> QED
    BY <1>2, <2>4, <2>5, RequestMoves
<1>5. CASE ~K!Available(r.id, r.now)
  <2>1. request' = [request EXCEPT ![c] = [r EXCEPT !.at = "refused"]]
    BY <1>1, <1>5 DEF K!Read, K!Goto, KeptInv, KeptTyped
  <2> QED
    BY <1>2, <1>3, <2>1, Moved, RequestMoves
<1> QED
  BY <1>4, <1>5

LEMMA EndMoves ==
  ASSUME KeptInv, NEW c \in Analysts, K!End(c)
  PROVE  KeptInv'
BY IdleFits, RequestMoves DEF K!End

-----------------------------------------------------------------------------
(* The database *)

LEMMA MoreExported ==
  ASSUME NEW r, NEW up, NEW ex, NEW more, ex \subseteq more, RequestFits(r, up, ex)
  PROVE  RequestFits(r, up, more)
BY DEF RequestFits

\* The records change, and one request with them.
LEMMA RecordsMove ==
  ASSUME KeptInv, NEW c \in Analysts, NEW x \in Requests,
         request' = [request EXCEPT ![c] = x], RequestFits(x, upstream, exported'),
         investigations' \in Seq(KeptOrRemoved), UNCHANGED <<upstream, clock>>,
         \A id \in DOMAIN investigations' :
            investigations'[id] # K!Removed => Explained(investigations'[id], upstream),
         exported \subseteq exported', exported' \subseteq DOMAIN investigations',
         \A id \in exported' : investigations'[id] # K!Removed /\ investigations'[id].saved
  PROVE  KeptInv'
<1>1. request' \in [Analysts -> Requests]
  BY DEF KeptInv, KeptTyped
<1>2. \A a \in Analysts : RequestFits(request'[a], upstream, exported')
  <2> SUFFICES ASSUME NEW a \in Analysts
               PROVE  RequestFits(request'[a], upstream, exported')
    OBVIOUS
  <2>1. CASE a = c
    BY <2>1 DEF KeptInv, KeptTyped
  <2>2. CASE a # c
    BY <2>2, MoreExported DEF KeptInv, KeptTyped
  <2> QED
    BY <2>1, <2>2
<1>3. KeptTyped'
  BY <1>1 DEF KeptInv, KeptTyped
<1> QED
  BY <1>2, <1>3 DEF KeptInv

LEMMA KeepMoves ==
  ASSUME KeptInv, NEW c \in Analysts, K!Store(c)
  PROVE  KeptInv'
<1>1. PICK r \in Requests : r = request[c]
  BY DEF KeptInv, KeptTyped
<1> DEFINE new == [saved |-> FALSE, expires |-> clock + Ttl, bitcoin |-> r.data.bitcoin,
                   parts |-> r.data.parts, seen |-> r.data.seen, risk |-> r.data.risk,
                   historical |-> r.data.historical]
           n == Len(investigations)
           x == [r EXCEPT !.at = "answered", !.id = n + 1]
<1>2. r.at = "store" /\ UNCHANGED <<upstream, clock, exported>>
  BY <1>1 DEF K!Store
<1>3. r \in Comparison /\ ComparisonFits(r, upstream) /\ r # K!Idle
  BY <1>1, <1>2, RequestKinds DEF KeptInv, RequestFits
<1>4. r.data \in Data /\ Explained(r.data, upstream) /\ clock + Ttl \in Int
  BY <1>3, AnswersAssumption DEF Comparison, ComparisonFits, KeptInv, KeptTyped
<1>5. new \in KeptRecord /\ Explained(new, upstream)
  BY <1>4 DEF KeptRecord, Data, Explained
<1>6. investigations \in Seq(KeptOrRemoved) /\ new \in KeptOrRemoved /\ n \in Nat
  BY <1>5 DEF KeptInv, KeptTyped, KeptOrRemoved
<1>7. \/ investigations' = Append(investigations, new) /\ request' = [request EXCEPT ![c] = x]
      \/ /\ investigations' \in {investigations, Append(investigations, new)}
         /\ request' = [request EXCEPT ![c] = [r EXCEPT !.at = "refused"]]
  BY <1>1 DEF K!Store, K!Goto, KeptInv, KeptTyped
<1>8. x \in Requests /\ RequestFits(x, upstream, exported)
  <2>1. n + 1 \in Nat
    BY <1>6
  <2> DEFINE m == n + 1
             y == [r EXCEPT !.at = "answered", !.id = m]
  <2> HIDE DEF m
  <2>2. y \in Comparison /\ y.at = "answered" /\ y.data = r.data /\ y.status = r.status /\ y.held = r.held
    BY <1>3, <2>1 DEF Comparison, m
  <2> HIDE DEF y
  <2>3. y \in Requests /\ RequestFits(y, upstream, exported)
    BY <2>2, <1>2, <1>3, RequestKinds DEF Requests, RequestFits, ComparisonFits
  <2> QED
    BY <2>3 DEF y, m
<1>9. [r EXCEPT !.at = "refused"] \in Requests
      /\ RequestFits([r EXCEPT !.at = "refused"], upstream, exported)
  BY <1>3, Moved
<1> HIDE DEF new, x
<1>10. PICK y \in Requests : request' = [request EXCEPT ![c] = y] /\ RequestFits(y, upstream, exported)
  BY <1>7, <1>8, <1>9
<1>11. CASE investigations' = investigations
  BY <1>2, <1>10, <1>11, RequestMoves
<1>12. CASE investigations' = Append(investigations, new)
  <2>1. /\ Append(investigations, new) \in Seq(KeptOrRemoved)
        /\ DOMAIN Append(investigations, new) = 1 .. n + 1 /\ DOMAIN investigations = 1 .. n
        /\ \A i \in DOMAIN investigations : Append(investigations, new)[i] = investigations[i]
        /\ Append(investigations, new)[n + 1] = new
    BY <1>6, Appended
  <2>2. DOMAIN investigations \subseteq DOMAIN investigations'
    BY <2>1, <1>6, <1>12
  <2>3. \A id \in DOMAIN investigations' : id \in DOMAIN investigations \/ id = n + 1
    BY <2>1, <1>6, <1>12
  <2>4. \A id \in DOMAIN investigations' :
           investigations'[id] # K!Removed => Explained(investigations'[id], upstream)
    BY <2>1, <2>3, <1>5, <1>12 DEF KeptInv
  <2>5. \A id \in exported : investigations'[id] # K!Removed /\ investigations'[id].saved
    BY <2>1, <1>12 DEF KeptInv, KeptTyped
  <2>6. exported' = exported /\ exported \subseteq DOMAIN investigations'
    BY <2>2, <1>2 DEF KeptInv, KeptTyped
  <2>7. investigations' \in Seq(KeptOrRemoved)
    BY <2>1, <1>12
  <2> QED
    BY <2>4, <2>5, <2>6, <2>7, <1>2, <1>10, RecordsMove
<1> QED
  BY <1>7, <1>11, <1>12

LEMMA SavedRecord ==
  ASSUME KeptInv, NEW id \in DOMAIN investigations, investigations[id] # K!Removed
  PROVE  LET saved == [investigations EXCEPT ![id].saved = TRUE]
         IN /\ saved \in Seq(KeptOrRemoved) /\ DOMAIN saved = DOMAIN investigations
            /\ \A i \in DOMAIN saved :
                  /\ saved[i] # K!Removed => Explained(saved[i], upstream)
                  /\ i # id => saved[i] = investigations[i]
            /\ saved[id] # K!Removed /\ saved[id].saved
<1> DEFINE e == [investigations[id] EXCEPT !.saved = TRUE]
           saved == [investigations EXCEPT ![id] = e]
<1>1. e \in KeptRecord /\ e.saved /\ Explained(e, upstream)
  BY KeptIn DEF KeptRecord, Explained
<1>2. saved = [investigations EXCEPT ![id].saved = TRUE]
  OBVIOUS
<1>3. investigations \in Seq(KeptOrRemoved) /\ e \in KeptOrRemoved /\ e # K!Removed
  BY <1>1, RecordsKept DEF KeptInv, KeptTyped, KeptOrRemoved
<1> HIDE DEF e
<1>4. /\ saved \in Seq(KeptOrRemoved) /\ DOMAIN saved = DOMAIN investigations
      /\ \A i \in DOMAIN saved : i # id => saved[i] = investigations[i]
      /\ saved[id] = e
  BY <1>3
<1> HIDE DEF saved
<1>5. \A i \in DOMAIN saved : saved[i] # K!Removed => Explained(saved[i], upstream)
  BY <1>1, <1>4, KeptIn
<1> QED
  BY <1>1, <1>2, <1>3, <1>4, <1>5

LEMMA ExportMoves ==
  ASSUME KeptInv, NEW c \in Analysts, K!Export(c)
  PROVE  KeptInv'
<1>1. PICK r \in Requests : r = request[c]
  BY DEF KeptInv, KeptTyped
<1> DEFINE saved == [investigations EXCEPT ![r.id].saved = TRUE]
<1>2. r.at = "export" /\ UNCHANGED <<upstream, clock>>
  BY <1>1 DEF K!Export
<1>3. r \in Asking /\ r.kind \in {"reopen", "export"} /\ r # K!Idle
  BY <1>2, RequestKinds DEF Asking
<1>4. [r EXCEPT !.at = "refused"] \in Requests
      /\ \A ex : RequestFits([r EXCEPT !.at = "refused"], upstream, ex)
  BY <1>3, Moved
<1>5. \/ /\ request' = [request EXCEPT ![c] = [r EXCEPT !.at = "refused"]]
         /\ UNCHANGED <<investigations, exported>>
      \/ /\ K!Available(r.id, r.now) /\ investigations' = saved /\ exported' = exported \cup {r.id}
         /\ request' = [request EXCEPT ![c] =
                IF investigations[r.id].bitcoin THEN [r EXCEPT !.at = "read", !.now = clock]
                ELSE [r EXCEPT !.at = "done"]]
      \/ /\ K!Available(r.id, r.now) /\ investigations' = saved
         /\ request' = [request EXCEPT ![c] = [r EXCEPT !.at = "refused"]] /\ UNCHANGED exported
  BY <1>1 DEF K!Export, K!Goto, KeptInv, KeptTyped
<1>6. CASE /\ request' = [request EXCEPT ![c] = [r EXCEPT !.at = "refused"]]
           /\ UNCHANGED <<investigations, exported>>
  BY <1>2, <1>4, <1>6, RequestMoves
<1>7. CASE K!Available(r.id, r.now) /\ investigations' = saved
  <2>1. r.id \in DOMAIN investigations /\ investigations[r.id] # K!Removed
    BY <1>7 DEF K!Available, K!Kept
  <2>2. /\ saved \in Seq(KeptOrRemoved) /\ DOMAIN saved = DOMAIN investigations
        /\ \A i \in DOMAIN saved :
              /\ saved[i] # K!Removed => Explained(saved[i], upstream)
              /\ i # r.id => saved[i] = investigations[i]
        /\ saved[r.id] # K!Removed /\ saved[r.id].saved
    BY <2>1, SavedRecord
  <2> HIDE DEF saved
  <2>3. \A ex \in {exported, exported \cup {r.id}} :
           /\ exported \subseteq ex /\ ex \subseteq DOMAIN saved
           /\ \A id \in ex : saved[id] # K!Removed /\ saved[id].saved
    BY <2>1, <2>2 DEF KeptInv, KeptTyped
  <2>4. CASE /\ request' = [request EXCEPT ![c] = [r EXCEPT !.at = "refused"]]
             /\ UNCHANGED exported
    <3>1. RequestFits([r EXCEPT !.at = "refused"], upstream, exported')
      BY <1>4
    <3> QED
      BY <1>2, <1>4, <1>7, <2>2, <2>3, <2>4, <3>1, RecordsMove
  <2>5. CASE /\ exported' = exported \cup {r.id}
             /\ request' = [request EXCEPT ![c] =
                    IF investigations[r.id].bitcoin THEN [r EXCEPT !.at = "read", !.now = clock]
                    ELSE [r EXCEPT !.at = "done"]]
    <3> DEFINE y == [r EXCEPT !.at = "read", !.now = clock]
               z == [r EXCEPT !.at = "done"]
    <3>1. clock \in Int
      BY DEF KeptInv, KeptTyped
    <3>2. y \in Asking /\ y.id = r.id /\ y.at = "read"
      BY <3>1, <1>3 DEF Asking
    <3>3. z \in Asking /\ z.at = "done"
      BY <1>3 DEF Asking
    <3> HIDE DEF y, z
    <3>4. y \in Requests /\ RequestFits(y, upstream, exported \cup {r.id})
      BY <3>2, RequestKinds DEF Requests, RequestFits
    <3>5. z \in Requests /\ RequestFits(z, upstream, exported \cup {r.id})
      BY <3>3, RequestKinds DEF Requests, RequestFits
    <3>6. request' = [request EXCEPT ![c] = y] \/ request' = [request EXCEPT ![c] = z]
      BY <2>5 DEF y, z
    <3>7. PICK x \in Requests : request' = [request EXCEPT ![c] = x]
                                /\ RequestFits(x, upstream, exported')
      BY <2>5, <3>4, <3>5, <3>6
    <3> QED
      BY <1>2, <1>7, <2>2, <2>3, <2>5, <3>7, RecordsMove
  <2> QED
    BY <1>5, <1>6, <2>4, <2>5
<1> QED
  BY <1>5, <1>6, <1>7

\* What a client knows to be saved is not removed, because it is looked at again.
LEMMA RemoveFoundMoves ==
  ASSUME KeptInv, K!RemoveFound
  PROVE  KeptInv'
<1>1. UNCHANGED <<upstream, clock, request, exported>>
  BY DEF K!RemoveFound
<1>2. CASE UNCHANGED investigations
  BY <1>1, <1>2 DEF KeptInv, KeptTyped
<1>3. CASE investigations' = [id \in DOMAIN investigations |->
                                IF id \in janitor.found /\ K!Expired(id, janitor.now)
                                THEN K!Removed ELSE investigations[id]]
  <2>1. /\ investigations \in Seq(KeptOrRemoved) /\ DOMAIN investigations = 1 .. Len(investigations)
        /\ Len(investigations) \in Nat
        /\ \A id \in DOMAIN investigations : investigations[id] \in KeptOrRemoved
    BY DEF KeptInv, KeptTyped
  <2>2. \A id \in DOMAIN investigations' :
           /\ id \in DOMAIN investigations
           /\ investigations'[id] = K!Removed \/ investigations'[id] = investigations[id]
           /\ investigations'[id] = K!Removed =>
                 investigations[id] = K!Removed \/ K!Expired(id, janitor.now)
    BY <1>3
  <2>3. \A id \in DOMAIN investigations' : investigations'[id] \in KeptOrRemoved
    BY <2>1, <2>2 DEF KeptOrRemoved
  <2>4. investigations' \in [1 .. Len(investigations) -> KeptOrRemoved]
    BY <1>3, <2>1, <2>3
  <2>5. investigations' \in Seq(KeptOrRemoved)
    BY <2>1, <2>4, SeqDef
  <2>6. \A id \in exported : investigations'[id] = investigations[id]
    BY <2>2, <1>3 DEF K!Expired, KeptInv, KeptTyped
  <2>7. \A id \in DOMAIN investigations' :
           investigations'[id] # K!Removed => Explained(investigations'[id], upstream)
    BY <2>2 DEF KeptInv
  <2>8. DOMAIN investigations' = DOMAIN investigations
    BY <1>3
  <2>9. KeptTyped'
    BY <1>1, <2>5, <2>8 DEF KeptInv, KeptTyped
  <2> QED
    BY <1>1, <2>6, <2>7, <2>9 DEF KeptInv
<1> QED
  BY <1>2, <1>3 DEF K!RemoveFound

-----------------------------------------------------------------------------
(* The service of the chain *)

\* What was explained stays so, and so does what a comparison has witnessed: a version
\* that is behind will not be the present one again.
LEMMA LaterFits ==
  ASSUME NEW up \in UpstreamState, NEW later \in UpstreamState,
         up.source <= later.source, up.labels <= later.labels
  PROVE  /\ \A d \in Data \cup KeptRecord : Explained(d, up) => Explained(d, later)
         /\ \A ex : \A r \in Requests : RequestFits(r, up, ex) => RequestFits(r, later, ex)
<1>1. ASSUME NEW d \in Data \cup KeptRecord, Explained(d, up)
      PROVE  Explained(d, later)
  <2>1. d.seen \in UpstreamState
    BY DEF Data, KeptRecord
  <2> QED
    BY <1>1, <2>1 DEF Explained, UpstreamState
<1>2. ASSUME NEW r \in Requests, NEW ex, RequestFits(r, up, ex)
      PROVE  RequestFits(r, later, ex)
  <2>1. ASSUME r \in Comparison
        PROVE  ComparisonFits(r, later)
    <3>1. r.data \in Data /\ ComparisonFits(r, up)
      BY <1>2, <2>1 DEF Comparison, RequestFits
    <3>2. Explained(r.data, up) /\ Explained(r.data, later)
      BY <1>1, <3>1 DEF ComparisonFits
    <3>3. r.data.seen \in UpstreamState
      BY <3>1 DEF Data
    <3>4. /\ r.data.seen.source # up.source => r.data.seen.source # later.source
          /\ r.data.seen.labels # up.labels => r.data.seen.labels # later.labels
      BY <3>2, <3>3 DEF Explained, UpstreamState
    <3>5. BorneOut(r, up) => BorneOut(r, later)
      BY <3>4 DEF BorneOut
    <3> QED
      BY <3>1, <3>2, <3>5 DEF ComparisonFits
  <2> QED
    BY <1>2, <2>1 DEF RequestFits
<1> QED
  BY <1>1, <1>2

LEMMA ChangeMoves ==
  ASSUME KeptInv, K!Change
  PROVE  KeptInv'
<1>1. UNCHANGED <<investigations, clock, request, exported>>
  BY DEF K!Change
<1>2. upstream \in UpstreamState
  BY DEF KeptInv, KeptTyped
<1>3. /\ upstream' \in UpstreamState
      /\ upstream.source <= upstream'.source /\ upstream.labels <= upstream'.labels
  <2>1. CASE \E f \in {"source", "labels", "reviews"} : upstream' = [upstream EXCEPT ![f] = @ + 1]
    <3>1. PICK f \in {"source", "labels", "reviews"} : upstream' = [upstream EXCEPT ![f] = @ + 1]
      BY <2>1
    <3>2. CASE f = "source"
      <4>1. upstream' = [upstream EXCEPT !.source = upstream.source + 1]
        BY <3>1, <3>2
      <4>2. upstream.source + 1 \in Nat /\ upstream.source \in Nat /\ upstream.labels \in Nat
        BY <1>2 DEF UpstreamState
      <4> QED
        BY <4>1, <4>2, <1>2 DEF UpstreamState
    <3>3. CASE f = "labels"
      <4>1. upstream' = [upstream EXCEPT !.labels = upstream.labels + 1]
        BY <3>1, <3>3
      <4>2. upstream.labels + 1 \in Nat /\ upstream.source \in Nat /\ upstream.labels \in Nat
        BY <1>2 DEF UpstreamState
      <4> QED
        BY <4>1, <4>2, <1>2 DEF UpstreamState
    <3>4. CASE f = "reviews"
      <4>1. upstream' = [upstream EXCEPT !.reviews = upstream.reviews + 1]
        BY <3>1, <3>4
      <4>2. upstream.reviews + 1 \in Nat /\ upstream.source \in Nat /\ upstream.labels \in Nat
        BY <1>2 DEF UpstreamState
      <4> QED
        BY <4>1, <4>2, <1>2 DEF UpstreamState
    <3> QED
      BY <3>2, <3>3, <3>4
  <2>2. CASE \E x \in Releases \ {upstream.release} : upstream' = [upstream EXCEPT !.release = x]
    BY <2>2, <1>2 DEF UpstreamState
  <2> QED
    BY <2>1, <2>2 DEF K!Change
<1>4. PICK up \in UpstreamState, later \in UpstreamState :
         /\ up = upstream /\ later = upstream'
         /\ up.source <= later.source /\ up.labels <= later.labels
  BY <1>2, <1>3
<1>5. \A c \in Analysts : RequestFits(request[c], later, exported)
  BY <1>4, LaterFits DEF KeptInv, KeptTyped
<1>6. \A id \in DOMAIN investigations :
         investigations[id] # K!Removed => Explained(investigations[id], later)
  BY <1>4, LaterFits, KeptIn
<1>7. KeptTyped'
  BY <1>1, <1>3 DEF KeptInv, KeptTyped
<1> QED
  BY <1>1, <1>4, <1>5, <1>6, <1>7 DEF KeptInv

LEMMA QuietMoves ==
  ASSUME KeptInv, K!Find \/ K!Tick \/ K!Stop \/ UNCHANGED K!vars
  PROVE  KeptInv'
<1>1. UNCHANGED <<upstream, investigations, exported>>
  BY DEF K!Find, K!Tick, K!Stop, K!vars
<1>2. clock' \in Int
  BY DEF K!Find, K!Tick, K!Stop, K!vars, KeptInv, KeptTyped
<1>3. \/ UNCHANGED request
      \/ request' = [c \in Analysts |-> K!Idle]
  BY DEF K!Find, K!Tick, K!Stop, K!vars
<1>4. request' \in [Analysts -> Requests] /\ \A c \in Analysts : RequestFits(request'[c], upstream, exported)
  BY <1>3, IdleFits DEF KeptInv, KeptTyped
<1>5. KeptTyped'
  BY <1>1, <1>2, <1>4 DEF KeptInv, KeptTyped
<1> QED
  BY <1>1, <1>4, <1>5 DEF KeptInv

THEOREM KeptInvariant == K!Spec => []KeptInv
<1>1. K!Init => KeptInv
  BY KeptInit
<1>2. KeptInv /\ [K!Next]_(K!vars) => KeptInv'
  BY CreateMoves, CompareMoves, AnnotateMoves, KeepMoves, BeginMoves, ReopenMoves, ExportMoves, EndMoves,
     RemoveFoundMoves, ChangeMoves, QuietMoves
     DEF K!Next
<1> QED
  BY <1>1, <1>2, PTL DEF K!Spec

LEMMA KeptHolds == KeptInv => K!InvestigationsHold
<1> SUFFICES ASSUME KeptInv
             PROVE  K!InvestigationsHold
  OBVIOUS
<1>1. \A c \in Analysts : request[c] \in Requests /\ RequestFits(request[c], upstream, exported)
  BY DEF KeptInv, KeptTyped
<1>2. K!ExportsStay
  <2>1. \A id \in exported : K!Kept(id) /\ investigations[id].saved
    BY DEF KeptInv, KeptTyped, K!Kept
  <2> QED
    BY <1>1, <2>1, RequestKinds DEF K!ExportsStay, K!Available, RequestFits
<1>3. K!CurrentWasTrue
  BY <1>1, RequestKinds DEF K!CurrentWasTrue, RequestFits, ComparisonFits
<1>4. K!ScoreIsKept
  BY <1>1, RequestKinds DEF K!ScoreIsKept, RequestFits, ComparisonFits, Explained
<1> QED
  BY <1>2, <1>3, <1>4 DEF K!InvestigationsHold

-----------------------------------------------------------------------------
(* The service *)

LEMMA ServiceParts == ServiceSpec => Spec /\ A!Spec /\ B!Spec /\ K!Spec
<1>1. ServiceInit => Init /\ A!Init /\ B!Init /\ K!Init
  BY DEF ServiceInit
<1>2. [ServiceNext]_allVars =>
        [Next]_vars /\ [A!Next]_(A!vars) /\ [B!Next]_(B!vars) /\ [K!Next]_(K!vars)
  BY DEF ServiceNext, allVars, analysisVars, backfillVars, keptVars, vars, A!vars, B!vars, K!vars
<1> QED
  BY <1>1, <1>2, PTL DEF ServiceSpec, Spec, A!Spec, B!Spec, K!Spec

\* The decisions on one cluster, on one source, form one chain: the review lock and the
\* comparison of the run's reviews under it see to that, whatever the clocks say,
\* unless the database applied a seal after its client had gone.
THEOREM ReviewsChained == ServiceSpec => []ChainUnlessLate
BY ServiceParts, InvariantHolds, ChainFollows, PTL

\* An answer `current` is right about one moment since the inspection began, though
\* source, seals, labels and reviews are read one after the other: of a cluster bundle,
\* of an exposure run and of a risk assessment.
THEOREM AnswersTrue == ServiceSpec => []AnswersWereCurrent
<1>1. IInv /\ AnalysisInv => AnswersWereCurrent
  BY ClustersWereCurrent, AnalysesTrue DEF AnswersWereCurrent, AnalysesWereCurrent
<1> QED
  BY <1>1, ServiceParts, InvariantHolds, AnalysisInvariant, PTL

\* A result that aml_analysis_publications_visible shows has the rows of all its tables,
\* and an exposure run its facts from the published history it names, whatever was lost
\* and whoever died.
THEOREM ResultsWhole == ServiceSpec => []VisibleIsWhole
<1>1. AnalysisInv => VisibleIsWhole
  BY WholeFollows DEF VisibleIsWhole
<1> QED
  BY <1>1, ServiceParts, AnalysisInvariant, PTL

\* The answers an investigation joins belong to one revision and one version of the
\* subject's labels, although each analysis captured them for itself.
THEOREM ResponsesFit == ServiceSpec => []ResponseFits
<1>1. AnalysisInv => ResponseFits
  BY FitsFollows DEF ResponseFits
<1> QED
  BY <1>1, ServiceParts, AnalysisInvariant, PTL

\* A sealed result the views do not show stays hidden, also when a reorganisation that
\* hid it is undone: seals name a revision, and revisions do not return.
THEOREM Hidden == ServiceSpec => HiddenForGood
BY ServiceParts, HiddenStays, PTL DEF HiddenForGood

\* A backfill that is said to be ready has published every block of the old tables, and
\* what is published is of one history, though it is carried out one block at a time, may
\* be stopped between any two steps, and the old tables may be written meanwhile.
THEOREM OldHistoryWhole == ServiceSpec => []BackfillHolds
<1>1. BackfillInv => BackfillHolds
  BY ReadyFollows DEF BackfillInv, BackfillHolds
<1> QED
  BY <1>1, ServiceParts, BackfillInvariant, PTL

\* What the analytical node keeps: an export that was acknowledged survives the sweep
\* that had found it expired; an answer that calls itself current was wholly so at one
\* moment of its comparison; and without that a score is history only.
THEOREM KeptForClients == ServiceSpec => []InvestigationsHold
<1>1. KeptInv => InvestigationsHold
  BY KeptHolds DEF InvestigationsHold
<1> QED
  BY <1>1, ServiceParts, KeptInvariant, PTL
=============================================================================
