----------------------- MODULE BitcoinIngestionProofs -----------------------
(***************************************************************************)
(* Proofs about the owner of the Bitcoin cursor, for every tree of blocks, *)
(* every set of endpoints and every bound: the tip moves by the next block *)
(* or back within the bound, dead letters hold, and once the loop runs no  *)
(* published height has an open failure record (IInv).  Branches come      *)
(* first, because Chain is recursive.                                      *)
(***************************************************************************)
EXTENDS BitcoinIngestion, BranchTheorems, SequenceTheorems, FiniteSetTheorems, TLAPS

-----------------------------------------------------------------------------
(* Branches *)

States == Hashes \cup {NoHash}

\* The blocks that branches consist of.
Ingested == {h \in Hashes : Start <= NumberOf[h]}

LEMMA BlockTree == Tree(Hashes, NoHash, NumberOf, ParentOf)
<1>1. \A h \in Hashes : ParentOf[h] \in Hashes => NumberOf[ParentOf[h]] < NumberOf[h]
  BY IngestionAssumption
<1> QED
  BY <1>1, IngestionAssumption DEF Tree

LEMMA ChainUnfolds == Branches(Chain, Hashes, NoHash, ParentOf, Ingested)
<1>1. PICK f : Branches(f, Hashes, NoHash, ParentOf, Ingested)
  BY BlockTree, BranchesExist DEF Ingested
<1>2. \A h \in States : h \notin Ingested <=> h = NoHash \/ NumberOf[h] < Start
  <2>1. \A h \in Hashes : NumberOf[h] \in Nat /\ h # NoHash /\ Start \in Nat
    BY IngestionAssumption
  <2> QED
    BY <2>1 DEF States, Ingested
<1>3. \A g : Branches(g, Hashes, NoHash, ParentOf, Ingested) <=>
             g = [h \in States |->
                    IF h = NoHash THEN {}
                    ELSE IF NumberOf[h] < Start THEN {} ELSE {h} \cup g[ParentOf[h]]]
  BY <1>2 DEF Branches, States
<1> QED
  BY <1>1, <1>3 DEF Chain, States

LEMMA ChainOfNone == Chain[NoHash] = {}
<1>1. NoHash \notin Ingested
  BY IngestionAssumption DEF Ingested
<1> QED
  BY <1>1, ChainUnfolds DEF Branches

LEMMA ChainStep ==
  ASSUME NEW h \in Hashes
  PROVE  Chain[h] = IF NumberOf[h] < Start THEN {} ELSE {h} \cup Chain[ParentOf[h]]
<1>1. h \in Ingested <=> ~(NumberOf[h] < Start)
  BY IngestionAssumption DEF Ingested
<1> QED
  BY <1>1, ChainUnfolds DEF Branches

\* A branch consists of blocks from the start height up to its end, and the branch
\* of each of them is a part of it.
LEMMA ChainFacts ==
  ASSUME NEW h \in Hashes, NEW x \in Chain[h]
  PROVE  /\ x \in Hashes /\ Start <= NumberOf[x] /\ NumberOf[x] <= NumberOf[h]
         /\ Chain[x] \subseteq Chain[h]
<1>1. x \in Ingested /\ NumberOf[x] <= NumberOf[h] /\ Chain[x] \subseteq Chain[h]
  <2>1. Ingested \in SUBSET Hashes
    BY DEF Ingested
  <2>2. /\ Chain[h] \subseteq Ingested
        /\ \A y \in Chain[h] : NumberOf[y] <= NumberOf[h] /\ Chain[y] \subseteq Chain[h]
    BY <2>1, BlockTree, ChainUnfolds, BranchFacts
  <2> QED
    BY <2>2
<1> QED
  BY <1>1 DEF Ingested

-----------------------------------------------------------------------------
(* The invariant *)

\* What a command holds at each place: an endpoint that it asks, blocks to commit.
Control ==
  /\ pc = "none" <=> mode = "none"
  /\ pc \in {"settle", "reconcile", "search", "rollback"} => mode \in {"ingest", "once"}
  /\ pc \in {"select", "outcome"} => mode = "repair"
  /\ pc \in {"reconcile", "search", "rollback", "window", "block", "commit", "committed"} =>
       order # <<>>
  /\ pc \in {"block", "commit", "committed"} => window # <<>>

\* The blocks still to commit go on from the tip; a rollback stays within the bound.
Positions ==
  /\ tip # NoHash => Start <= NumberOf[tip]
  /\ pc = "search" => tip # NoHash /\ ancestor \in (Floor - 1) .. TipHeight
  /\ pc = "rollback" =>
       /\ tip # NoHash
       /\ \/ ancestor = Start - 1 /\ TipHeight - Start < ReorgDepth
          \/ ancestor \in Floor .. TipHeight
  /\ pc \in {"block", "commit"} =>
       \A i \in 1 .. Len(window) : NumberOf[window[i]] = NextHeight + i - 1
  /\ pc = "commit" => (tip # NoHash => ParentOf[Candidate] = tip)
  /\ pc = "committed" =>
       /\ tip # NoHash
       /\ \A i \in 1 .. Len(window) : NumberOf[window[i]] = TipHeight + i - 1

\* A repair works on its lowest height, the next one or the one it has just published.
RepairTarget ==
  mode = "repair" =>
    /\ pc \in {"gate", "source", "window", "block", "commit", "committed", "outcome"} =>
         selected # {}
    /\ pc \in {"gate", "source"} => RepairHeight \in {NextHeight, TipHeight}
    /\ pc \in {"window", "block", "commit"} => RepairHeight = NextHeight
    /\ pc = "committed" => RepairHeight = TipHeight
    /\ pc \in {"block", "commit", "committed"} => Len(window) = 1

\* A dead letter used up its attempts; what is about to be committed passed the gate.
Records ==
  /\ \A n \in Heights : failures[n].status = "dead_letter" => failures[n].attempts >= MaxAttempts
  /\ (pc = "commit" /\ Automatic) => failures[NextHeight].status \notin {"dead_letter", "gap"}

\* TypeOK, in parts: the database and the nodes, the place, what the command works on.
StoreOK ==
  /\ tip \in Hashes \cup {NoHash} /\ failures \in [Heights -> Record] /\ damaged \subseteq Heights
  /\ views \in [EndpointSet -> Hashes \cup {Down}]

PlaceOK ==
  /\ mode \in {"none", "ingest", "once", "repair"}
  /\ pc \in {"none", "settle", "gate", "source", "reconcile", "search", "rollback", "window",
             "block", "commit", "committed", "select", "outcome"}
  /\ head \in Nat /\ ancestor \in Int

TimerOK == cooling \in BOOLEAN

WorkOK ==
  /\ order \in Seq(EndpointSet) /\ window \in Seq(Hashes)
  /\ selected \subseteq Heights /\ active \in EndpointSet

IInv ==
  /\ StoreOK /\ PlaceOK /\ TimerOK /\ WorkOK
  /\ Control /\ Positions /\ RepairTarget /\ Records /\ PublishedIsSettled

LEMMA IInvTypeOK == IInv => TypeOK
  BY DEF IInv, StoreOK, PlaceOK, TimerOK, WorkOK, TypeOK

-----------------------------------------------------------------------------
(* What the helpers return *)

TipOK == tip \in States /\ (tip # NoHash => Start <= NumberOf[tip])

LEMMA HeightFacts ==
  ASSUME TipOK
  PROVE  /\ TipHeight \in Int /\ Start - 1 <= TipHeight
         /\ NextHeight \in Nat /\ NextHeight \in Heights /\ NextHeight = TipHeight + 1
         /\ tip # NoHash => TipHeight = NumberOf[tip] /\ TipHeight \in Heights
<1>1. CASE tip = NoHash
  BY <1>1, IngestionAssumption DEF TipHeight, NextHeight, Heights
<1>2. CASE tip # NoHash
  <2>1. tip \in Hashes /\ NumberOf[tip] \in Nat
    BY <1>2, IngestionAssumption DEF TipOK, States
  <2> QED
    BY <1>2, <2>1, IngestionAssumption DEF TipOK, TipHeight, NextHeight, Heights
<1> QED
  BY <1>1, <1>2

LEMMA HeightsAreNat == Heights \subseteq Nat
  BY IngestionAssumption DEF Heights

\* Published heights lie between the start and the tip, and the tip is one.
LEMMA CanonicalFacts ==
  ASSUME TipOK
  PROVE  /\ \A n : Canonical(n) => n \in Heights /\ Start <= n /\ n <= TipHeight
         /\ tip # NoHash => tip \in Chain[tip] /\ Canonical(TipHeight)
<1>1. CASE tip = NoHash
  BY <1>1, ChainOfNone DEF Canonical
<1>2. CASE tip # NoHash
  <2>1. tip \in Hashes /\ NumberOf[tip] \in Nat /\ TipHeight = NumberOf[tip]
    BY <1>2, IngestionAssumption DEF TipOK, States, TipHeight
  <2>2. tip \in Chain[tip]
    <3>1. Chain[tip] = IF NumberOf[tip] < Start THEN {} ELSE {tip} \cup Chain[ParentOf[tip]]
      BY <2>1, ChainStep
    <3>2. ~(NumberOf[tip] < Start)
      BY <1>2, <2>1, IngestionAssumption DEF TipOK
    <3> QED
      BY <3>1, <3>2
  <2>3. \A n : Canonical(n) => n \in Heights /\ Start <= n /\ n <= TipHeight
    BY <2>1, ChainFacts DEF Canonical, Heights
  <2> QED
    BY <2>1, <2>2, <2>3 DEF Canonical
<1> QED
  BY <1>1, <1>2

\* An endpoint answers with a block of the height.
LEMMA BlockAtFacts ==
  ASSUME views \in [EndpointSet -> Hashes \cup {Down}], NEW e \in EndpointSet,
         NEW n, NEW h \in BlockAt(e, n)
  PROVE  h \in Hashes /\ NumberOf[h] = n
<1>1. views[e] \in Hashes /\ h \in Chain[views[e]] /\ NumberOf[h] = n
  BY DEF BlockAt
<1> QED
  BY <1>1, ChainFacts

LEMMA EndpointFacts ==
  Primary \in EndpointSet /\ Endpoints \in Seq(EndpointSet) /\ Endpoints # <<>>
<1>1. Fallbacks \in Seq(EndpointSet)
  BY IngestionAssumption
<1>2. Len(Endpoints) = 1 + Len(Fallbacks) /\ Endpoints[1] = Primary
  BY <1>1 DEF Endpoints
<1>3. Len(Fallbacks) \in Nat
  BY <1>1
<1>4. 1 \in 1 .. Len(Endpoints)
  BY <1>2, <1>3
<1>5. Primary \in EndpointSet
  BY <1>2, <1>4 DEF EndpointSet
<1>6. <<Primary>> \in Seq(EndpointSet)
  BY <1>5
<1>7. Endpoints \in Seq(EndpointSet)
  BY <1>1, <1>6 DEF Endpoints
<1>8. Endpoints # <<>>
  BY <1>2, <1>3
<1> QED
  BY <1>5, <1>7, <1>8

\* Every order in which a window asks the endpoints has one to ask.
LEMMA OrderFacts ==
  ASSUME active \in EndpointSet, active # Primary
  PROVE  <<active>> \o Others \o <<Primary>> \in Seq(EndpointSet)
<1>1. Fallbacks \in Seq(EndpointSet)
  BY IngestionAssumption
<1> DEFINE i == CHOOSE k \in 1 .. Len(Fallbacks) : Fallbacks[k] = active
<1>2. i \in 1 .. Len(Fallbacks)
  <2>1. PICK k \in 1 .. Len(Endpoints) : Endpoints[k] = active
    BY DEF EndpointSet
  <2>2. Len(Endpoints) = 1 + Len(Fallbacks) /\ Len(Fallbacks) \in Nat /\ Endpoints[1] = Primary
    BY <1>1 DEF Endpoints
  <2>3. k - 1 \in 1 .. Len(Fallbacks)
    BY <2>1, <2>2
  <2>4. Endpoints[k] = Fallbacks[k - 1]
    BY <1>1, <2>1, <2>2, <2>3 DEF Endpoints
  <2> QED
    BY <2>1, <2>3, <2>4
<1>3. /\ SubSeq(Fallbacks, 1, i - 1) \in Seq(EndpointSet)
      /\ SubSeq(Fallbacks, i + 1, Len(Fallbacks)) \in Seq(EndpointSet)
  <2>1. Len(Fallbacks) \in Nat
    BY <1>1
  <2> HIDE DEF i
  <2> QED
    BY <1>1, <1>2, <2>1, SubSeqProperties
<1>4. Others \in Seq(EndpointSet)
  BY <1>3, ConcatProperties DEF Others
<1>5. <<active>> \in Seq(EndpointSet) /\ <<Primary>> \in Seq(EndpointSet)
  BY EndpointFacts
<1> QED
  BY <1>4, <1>5, ConcatProperties

\* A repair's target is the lowest selected height.
LEMMA RepairHeightFacts ==
  ASSUME selected \subseteq Heights, selected # {}
  PROVE  /\ RepairHeight \in selected /\ RepairHeight \in Nat
         /\ \A m \in selected : RepairHeight <= m
<1>1. selected \subseteq Nat
  BY HeightsAreNat
<1>2. \E n \in selected : \A m \in selected : n <= m
  BY <1>1, LeastNatural
<1> QED
  BY <1>1, <1>2 DEF RepairHeight

\* A dead letter used up its attempts.
Sound(f) ==
  /\ f \in [Heights -> Record]
  /\ \A n \in Heights : f[n].status = "dead_letter" => f[n].attempts >= MaxAttempts

LEMMA CountedFacts ==
  ASSUME Sound(failures), NEW n \in Heights, NEW counted \in BOOLEAN
  PROVE  /\ Counted(failures[n], counted) \in Nat
         /\ Counted(failures[n], counted) >= failures[n].attempts
  BY DEF Sound, Record, Counted

LEMMA StatusFacts ==
  ASSUME NEW attempts \in Nat
  PROVE  /\ Status(attempts) \in {"retry", "dead_letter"}
         /\ Status(attempts) = "dead_letter" <=> attempts >= MaxAttempts
  BY IngestionAssumption DEF Status

LEMMA RecordedSound ==
  ASSUME Sound(failures), NEW n \in Heights, NEW counted \in BOOLEAN
  PROVE  /\ Sound(Recorded(n, counted))
         /\ \A m \in Heights : m # n => Recorded(n, counted)[m] = failures[m]
         /\ Recorded(n, counted)[n].status \in {"retry", "dead_letter"}
         /\ failures[n].status = "dead_letter" => Recorded(n, counted)[n].status = "dead_letter"
<1> DEFINE a == Counted(failures[n], counted)
           r == [status |-> Status(a), attempts |-> a, due |-> a >= MaxAttempts]
<1>1. a \in Nat /\ a >= failures[n].attempts /\ failures[n].attempts \in Nat
  BY CountedFacts DEF Sound, Record
<1>2. Recorded(n, counted) = [failures EXCEPT ![n] = r]
  BY DEF Recorded
<1>3. /\ r \in Record /\ r.status \in {"retry", "dead_letter"} /\ r.attempts = a
      /\ r.status = "dead_letter" <=> a >= MaxAttempts
  <2> HIDE DEF a
  <2> QED
    BY <1>1, StatusFacts DEF Record, Unresolved
<1>4. failures[n].status = "dead_letter" => a >= MaxAttempts
  <2> HIDE DEF a
  <2> QED
    BY <1>1, IngestionAssumption DEF Sound
<1> HIDE DEF a, r
<1>5. Sound([failures EXCEPT ![n] = r])
  BY <1>3 DEF Sound
<1>6. /\ [failures EXCEPT ![n] = r][n] = r
      /\ \A m \in Heights : m # n => [failures EXCEPT ![n] = r][m] = failures[m]
  BY DEF Sound
<1> QED
  BY <1>2, <1>3, <1>4, <1>5, <1>6

LEMMA ResolvedSound ==
  ASSUME Sound(failures), NEW n \in Heights, NEW counted \in BOOLEAN
  PROVE  /\ Sound(Resolved(n, counted))
         /\ \A m \in Heights : m # n => Resolved(n, counted)[m] = failures[m]
         /\ Resolved(n, counted)[n].status \in {"none", "resolved"}
<1> DEFINE r == [status |-> "resolved", due |-> TRUE,
                 attempts |-> Counted(failures[n], counted)]
<1>1. r \in Record /\ r.status = "resolved"
  BY CountedFacts DEF Record
<1>2. Resolved(n, counted) = IF failures[n].status \in {"none", "resolved"} THEN failures
                             ELSE [failures EXCEPT ![n] = r]
  BY DEF Resolved
<1> HIDE DEF r
<1> QED
  BY <1>1, <1>2 DEF Sound

LEMMA RepairingSound ==
  ASSUME Sound(failures), NEW n \in Heights
  PROVE  /\ Sound(Repairing(n))
         /\ \A m \in Heights : m # n => Repairing(n)[m] = failures[m]
         /\ Repairing(n)[n].status = "repairing"
<1>1. failures[n].attempts + 1 \in Nat
  BY DEF Sound, Record
<1> QED
  BY <1>1 DEF Sound, Repairing, Record, Unresolved

LEMMA GapsSound ==
  ASSUME Sound(failures), NEW T
  PROVE  /\ Sound(Gaps(T))
         /\ \A m \in Heights : Gaps(T)[m] = failures[m] \/ Gaps(T)[m].status = "gap"
  BY DEF Sound, Gaps, Record

LEMMA RecoveredSound ==
  ASSUME Sound(failures)
  PROVE  /\ Sound(Recovered)
         /\ \A m \in Heights : \/ Recovered[m] = failures[m]
                               \/ /\ failures[m].status = "repairing"
                                  /\ Recovered[m].status \in {"retry", "dead_letter"}
         /\ \A m \in Heights : Recovered[m].status # "repairing"
<1>1. ASSUME NEW m \in Heights, failures[m].status = "repairing"
      PROVE  /\ Recovered[m] \in Record
             /\ Recovered[m].status \in {"retry", "dead_letter"}
             /\ Recovered[m].status = "dead_letter" => Recovered[m].attempts >= MaxAttempts
  <2>1. failures[m] \in Record /\ failures[m].attempts \in Nat
    BY DEF Sound, Record
  <2>2. Recovered[m] = [failures[m] EXCEPT !.status = Status(failures[m].attempts), !.due = TRUE]
    BY <1>1 DEF Recovered
  <2> QED
    BY <2>1, <2>2, StatusFacts DEF Record, Unresolved
<1>2. \A m \in Heights : failures[m].status # "repairing" => Recovered[m] = failures[m]
  BY DEF Recovered
<1>3. Recovered \in [Heights -> Record]
  <2>1. Recovered = [m \in Heights |-> Recovered[m]]
    BY DEF Recovered
  <2>2. \A m \in Heights : Recovered[m] \in Record
    BY <1>1, <1>2 DEF Sound
  <2> QED
    BY <2>1, <2>2
<1> QED
  BY <1>1, <1>2, <1>3 DEF Sound

LEMMA GatedSound ==
  ASSUME Sound(failures), NEW n \in Heights
  PROVE  /\ Sound(Gated(n))
         /\ \A m \in Heights : m # n => Gated(n)[m] = failures[m]
         /\ Gated(n)[n] = failures[n] \/ Gated(n)[n].status = "dead_letter"
  BY IngestionAssumption DEF Sound, Gated, Record, Unresolved

-----------------------------------------------------------------------------
(* The invariant is inductive: one lemma per action *)

LEMMA InvFacts ==
  ASSUME IInv
  PROVE  /\ TipOK /\ Sound(failures)
         /\ TipHeight \in Int /\ Start - 1 <= TipHeight
         /\ NextHeight \in Nat /\ NextHeight \in Heights /\ NextHeight = TipHeight + 1
         /\ ~Canonical(NextHeight)
<1>1. TipOK
  BY DEF IInv, StoreOK, Positions, TipOK, States
<1>2. Sound(failures)
  BY DEF IInv, StoreOK, Records, Sound
<1>3. ~Canonical(NextHeight)
  <2>1. TipHeight \in Int /\ NextHeight = TipHeight + 1
    BY <1>1, HeightFacts
  <2>2. Canonical(NextHeight) => NextHeight <= TipHeight
    BY <1>1, CanonicalFacts
  <2> QED
    BY <2>1, <2>2
<1> QED
  BY <1>1, <1>2, <1>3, HeightFacts

LEMMA TipKept ==
  ASSUME tip' = tip
  PROVE  /\ TipHeight' = TipHeight /\ NextHeight' = NextHeight /\ Floor' = Floor
         /\ \A n : Canonical(n)' <=> Canonical(n)
  BY DEF TipHeight, NextHeight, Floor, Canonical

LEMMA SelectedKept ==
  ASSUME selected' = selected
  PROVE  RepairHeight' = RepairHeight /\ Skipped' = Skipped
  BY DEF RepairHeight, Skipped

\* Without a new tip, only a record that opens below it disturbs the settled part.
LEMMA SettledKept ==
  ASSUME tip' = tip,
         \A m \in Heights : Canonical(m) => \/ failures'[m].status = failures[m].status
                                            \/ failures'[m].status \notin Unresolved
  PROVE  Unsettled' \subseteq Unsettled
  BY TipKept DEF Unsettled

LEMMA Nothing == <<>> \in Seq(EndpointSet) /\ <<>> \in Seq(Hashes) /\ Primary \in EndpointSet
  BY EndpointFacts, EmptySeq

LEMMA InitIInv == Init => IInv
<1> SUFFICES ASSUME Init PROVE IInv
  OBVIOUS
<1>1. <<>> \in Seq(EndpointSet) /\ <<>> \in Seq(Hashes) /\ Primary \in EndpointSet
  BY Nothing
<1>2. NoRecord \in Record /\ NoRecord.status = "none"
  BY DEF NoRecord, Record
<1>3. StoreOK /\ PlaceOK /\ TimerOK /\ WorkOK
  <2>1. StoreOK
    BY <1>2 DEF Init, StoreOK
  <2>2. PlaceOK
    BY DEF Init, PlaceOK
  <2>3. WorkOK
    BY <1>1 DEF Init, WorkOK
  <2>4. TimerOK
    BY DEF Init, TimerOK
  <2> QED
    BY <2>1, <2>2, <2>3, <2>4
<1>4. Control /\ Positions /\ RepairTarget
  BY DEF Init, Control, Positions, RepairTarget
<1>5. Records
  BY <1>2 DEF Init, Records
<1>6. PublishedIsSettled
  BY DEF Init, PublishedIsSettled
<1> QED
  BY <1>3, <1>4, <1>5, <1>6 DEF IInv

\* A command ends or dies, whatever it leaves in the database.
LEMMA IdleStep ==
  ASSUME IInv, Idle, TipOK', Sound(failures'), damaged' \subseteq Heights,
         views' \in [EndpointSet -> Hashes \cup {Down}]
  PROVE  IInv'
<1>1. <<>> \in Seq(EndpointSet) /\ <<>> \in Seq(Hashes) /\ Primary \in EndpointSet
  BY Nothing
<1>2. StoreOK' /\ PlaceOK' /\ TimerOK' /\ WorkOK'
  <2>1. StoreOK'
    BY DEF StoreOK, TipOK, States, Sound
  <2>2. PlaceOK'
    BY DEF Idle, PlaceOK
  <2>3. WorkOK'
    BY <1>1 DEF Idle, WorkOK
  <2>4. TimerOK'
    BY DEF Idle, TimerOK
  <2> QED
    BY <2>1, <2>2, <2>3, <2>4
<1>3. Control' /\ RepairTarget'
  BY DEF Idle, Control, RepairTarget
<1>4. Positions'
  BY DEF Idle, Positions, TipOK
<1>5. Records'
  BY DEF Idle, Records, Sound
<1>6. PublishedIsSettled'
  BY DEF Idle, PublishedIsSettled
<1> QED
  BY <1>2, <1>3, <1>4, <1>5, <1>6 DEF IInv

\* A loop returns to its command.
LEMMA FinishStep ==
  ASSUME IInv, Finish, mode = "repair" => selected # {},
         TipOK', Sound(failures'), damaged' \subseteq Heights,
         views' \in [EndpointSet -> Hashes \cup {Down}]
  PROVE  IInv'
<1>1. CASE mode # "repair"
  BY <1>1, IdleStep DEF Finish
<1>2. CASE mode = "repair"
  <2> USE <1>2 DEF Finish
  <2>1. StoreOK' /\ PlaceOK' /\ TimerOK' /\ WorkOK'
    <3>1. StoreOK'
      BY DEF StoreOK, TipOK, States, Sound
    <3>2. PlaceOK'
      BY DEF IInv, PlaceOK
    <3>3. WorkOK'
      BY Nothing DEF IInv, WorkOK
    <3>4. TimerOK'
      BY DEF TimerOK
    <3> QED
      BY <3>1, <3>2, <3>3, <3>4
  <2>2. Control' /\ RepairTarget'
    BY DEF Control, RepairTarget
  <2>3. Positions'
    BY DEF Positions, TipOK
  <2>4. Records'
    BY DEF Records, Sound
  <2>5. PublishedIsSettled'
    BY DEF PublishedIsSettled
  <2> QED
    BY <2>1, <2>2, <2>3, <2>4, <2>5 DEF IInv
<1> QED
  BY <1>1, <1>2

\* The next source after a failure at the frontier.
LEMMA NextSourceStep ==
  ASSUME IInv, NextSource(NextHeight), pc \in {"window", "block"}
  PROVE  IInv'
<1>1. /\ TipOK /\ Sound(failures) /\ NextHeight \in Heights /\ ~Canonical(NextHeight)
      /\ Automatic \in BOOLEAN
  BY InvFacts DEF Automatic
<1>2. /\ Sound(failures')
      /\ \A m \in Heights : m # NextHeight => failures'[m] = failures[m]
  BY <1>1, RecordedSound DEF NextSource
<1>3. StoreOK' /\ PlaceOK' /\ TimerOK' /\ WorkOK'
  <2>1. order # <<>>
    BY DEF IInv, Control
  <2> QED
    BY <1>2, <2>1, Nothing DEF NextSource, IInv, StoreOK, PlaceOK, TimerOK, WorkOK, Sound
<1>4. Control'
  BY DEF NextSource, IInv, Control
<1>5. Positions'
  BY DEF NextSource, IInv, Positions
<1>6. RepairTarget'
  BY TipKept DEF NextSource, IInv, RepairTarget, RepairHeight
<1>7. Records'
  BY <1>2 DEF NextSource, Records, Sound
<1>8. PublishedIsSettled'
  <2>1. Unsettled' \subseteq Unsettled
    BY <1>1, <1>2, SettledKept DEF NextSource
  <2> QED
    BY <2>1, SelectedKept, TipKept DEF NextSource, IInv, PublishedIsSettled
<1> QED
  BY <1>3, <1>4, <1>5, <1>6, <1>7, <1>8 DEF IInv

\* The block whose turn it is lies one above the tip.
LEMMA CandidateFacts ==
  ASSUME IInv, pc \in {"block", "commit"}
  PROVE  Candidate \in Hashes /\ NumberOf[Candidate] = NextHeight
<1>1. window \in Seq(Hashes) /\ window # <<>>
  BY DEF IInv, WorkOK, Control
<1>2. 1 \in 1 .. Len(window) /\ Candidate = window[1] /\ window[1] \in Hashes
  BY <1>1 DEF Candidate
<1>3. NumberOf[window[1]] = NextHeight + 1 - 1
  BY <1>2 DEF IInv, Positions
<1> QED
  BY <1>2, <1>3, InvFacts

\* The published records are settled before the loop starts.
LEMMA StartWorkStep ==
  ASSUME IInv, StartWork
  PROVE  IInv'
<1>1. StoreOK' /\ PlaceOK' /\ TimerOK' /\ WorkOK'
  BY DEF StartWork, database, IInv, StoreOK, PlaceOK, TimerOK, WorkOK
<1>2. Control'
  BY DEF StartWork, database, IInv, Control
<1>3. Positions'
  BY TipKept DEF StartWork, database, IInv, Positions, Candidate
<1>4. RepairTarget'
  BY TipKept, SelectedKept DEF StartWork, database, IInv, RepairTarget, Control
<1>5. Records'
  BY TipKept DEF StartWork, database, IInv, Records, Automatic
<1>6. PublishedIsSettled'
  <2>1. Unsettled' = Unsettled /\ Skipped' = Skipped
    BY TipKept, SelectedKept DEF StartWork, database, Unsettled
  <2>2. mode \in {"ingest", "once"} => Unsettled \subseteq Skipped
    BY DEF StartWork, IInv, PublishedIsSettled
  <2> QED
    BY <2>1, <2>2 DEF StartWork, PublishedIsSettled
<1> QED
  BY <1>1, <1>2, <1>3, <1>4, <1>5, <1>6 DEF IInv

\* A height passes the gate; the endpoints are put in order.
LEMMA PassGateStep ==
  ASSUME IInv, PassGate
  PROVE  IInv'
<1>1. StoreOK' /\ PlaceOK' /\ TimerOK' /\ WorkOK'
  <2>1. order' \in Seq(EndpointSet)
    BY EndpointFacts, OrderFacts DEF PassGate, IInv, WorkOK
  <2> QED
    BY <2>1 DEF PassGate, database, IInv, StoreOK, PlaceOK, TimerOK, WorkOK
<1>2. Control'
  BY DEF PassGate, database, IInv, Control
<1>3. Positions'
  BY TipKept DEF PassGate, database, IInv, Positions, Candidate
<1>4. RepairTarget'
  BY TipKept, SelectedKept DEF PassGate, database, IInv, RepairTarget, Control
<1>5. Records'
  BY TipKept DEF PassGate, database, IInv, Records, Automatic
<1>6. PublishedIsSettled'
  BY SettledKept, SelectedKept, TipKept DEF PassGate, database, IInv, PublishedIsSettled
<1> QED
  BY <1>1, <1>2, <1>3, <1>4, <1>5, <1>6 DEF IInv

\* The primary serves the published tip.
LEMMA ChainAgreesStep ==
  ASSUME IInv, ChainAgrees
  PROVE  IInv'
<1>1. StoreOK' /\ PlaceOK' /\ TimerOK' /\ WorkOK'
  BY DEF ChainAgrees, database, IInv, StoreOK, PlaceOK, TimerOK, WorkOK
<1>2. Control'
  BY DEF ChainAgrees, database, IInv, Control
<1>3. Positions'
  BY TipKept DEF ChainAgrees, database, IInv, Positions, Candidate
<1>4. RepairTarget'
  BY TipKept, SelectedKept DEF ChainAgrees, database, IInv, RepairTarget, Control
<1>5. Records'
  BY TipKept DEF ChainAgrees, database, IInv, Records, Automatic
<1>6. PublishedIsSettled'
  BY SettledKept, SelectedKept, TipKept DEF ChainAgrees, database, IInv, PublishedIsSettled
<1> QED
  BY <1>1, <1>2, <1>3, <1>4, <1>5, <1>6 DEF IInv

\* The primary has left the published tip: the search begins at it.
LEMMA LeaveTipStep ==
  ASSUME IInv, LeaveTip
  PROVE  IInv'
<1>a. TipHeight \in Int /\ Floor \in Int /\ Start <= Floor /\ Start \in Nat /\ ReorgDepth \in Nat \ {0}
      /\ ancestor \in Int
  BY InvFacts, IngestionAssumption DEF Floor, IInv, PlaceOK
<1>1. StoreOK' /\ PlaceOK' /\ TimerOK' /\ WorkOK'
  BY <1>a DEF LeaveTip, database, IInv, StoreOK, PlaceOK, TimerOK, WorkOK
<1>2. Control'
  BY DEF LeaveTip, database, IInv, Control
<1>3. Positions'
  <2>1. Floor <= TipHeight
    <3>1. tip # NoHash /\ Start <= TipHeight
      BY InvFacts DEF LeaveTip, TipOK, TipHeight
    <3> QED
      BY <1>a, <3>1 DEF Floor
  <2> QED
    BY <1>a, <2>1, TipKept DEF LeaveTip, database, IInv, Positions
<1>4. RepairTarget'
  BY TipKept, SelectedKept DEF LeaveTip, database, IInv, RepairTarget, Control
<1>5. Records'
  BY TipKept DEF LeaveTip, database, IInv, Records, Automatic
<1>6. PublishedIsSettled'
  BY SettledKept, SelectedKept, TipKept DEF LeaveTip, database, IInv, PublishedIsSettled
<1> QED
  BY <1>1, <1>2, <1>3, <1>4, <1>5, <1>6 DEF IInv

\* Another height without a common block.
LEMMA SearchOnStep ==
  ASSUME IInv, SearchOn
  PROVE  IInv'
<1>a. TipHeight \in Int /\ Floor \in Int /\ Start <= Floor /\ Start \in Nat /\ ReorgDepth \in Nat \ {0}
      /\ ancestor \in Int
  BY InvFacts, IngestionAssumption DEF Floor, IInv, PlaceOK
<1>1. StoreOK' /\ PlaceOK' /\ TimerOK' /\ WorkOK'
  BY <1>a DEF SearchOn, database, IInv, StoreOK, PlaceOK, TimerOK, WorkOK
<1>2. Control'
  BY DEF SearchOn, database, IInv, Control
<1>3. Positions'
  BY <1>a, TipKept DEF SearchOn, database, IInv, Positions
<1>4. RepairTarget'
  BY TipKept, SelectedKept DEF SearchOn, database, IInv, RepairTarget, Control
<1>5. Records'
  BY TipKept DEF SearchOn, database, IInv, Records, Automatic
<1>6. PublishedIsSettled'
  BY SettledKept, SelectedKept, TipKept DEF SearchOn, database, IInv, PublishedIsSettled
<1> QED
  BY <1>1, <1>2, <1>3, <1>4, <1>5, <1>6 DEF IInv

\* The common ancestor is within the bound, or there is none in a range that short.
LEMMA FindAncestorStep ==
  ASSUME IInv, FindAncestor
  PROVE  IInv'
<1>a. TipHeight \in Int /\ Floor \in Int /\ Start <= Floor /\ Start \in Nat /\ ReorgDepth \in Nat \ {0}
      /\ ancestor \in Int
  BY InvFacts, IngestionAssumption DEF Floor, IInv, PlaceOK
<1>1. StoreOK' /\ PlaceOK' /\ TimerOK' /\ WorkOK'
  BY <1>a DEF FindAncestor, database, IInv, StoreOK, PlaceOK, TimerOK, WorkOK
<1>2. Control'
  BY DEF FindAncestor, database, IInv, Control
<1>3. Positions'
  BY <1>a, TipKept DEF FindAncestor, Resettable, database, IInv, Positions
<1>4. RepairTarget'
  BY TipKept, SelectedKept DEF FindAncestor, database, IInv, RepairTarget, Control
<1>5. Records'
  BY TipKept DEF FindAncestor, database, IInv, Records, Automatic
<1>6. PublishedIsSettled'
  BY SettledKept, SelectedKept, TipKept DEF FindAncestor, database, IInv, PublishedIsSettled
<1> QED
  BY <1>1, <1>2, <1>3, <1>4, <1>5, <1>6 DEF IInv

\* The block that is prepared follows the tip and has passed the gate.
LEMMA PrepareStep ==
  ASSUME IInv, Prepare
  PROVE  IInv'
<1>1. StoreOK' /\ PlaceOK' /\ TimerOK' /\ WorkOK'
  BY DEF Prepare, database, IInv, StoreOK, PlaceOK, TimerOK, WorkOK
<1>2. Control'
  BY DEF Prepare, database, IInv, Control
<1>3. Positions'
  BY TipKept DEF Prepare, database, IInv, Positions, Candidate
<1>4. RepairTarget'
  BY TipKept, SelectedKept DEF Prepare, database, IInv, RepairTarget, Control
<1>5. Records'
  <2>1. NumberOf[Candidate] = NextHeight
    BY CandidateFacts DEF Prepare
  <2>2. Automatic => failures[NextHeight].status \notin {"dead_letter", "gap"}
    BY <2>1 DEF Prepare, BlockGate, GateOpen
  <2> QED
    BY <2>2, TipKept DEF Prepare, database, IInv, Records, Automatic
<1>6. PublishedIsSettled'
  BY SettledKept, SelectedKept, TipKept DEF Prepare, database, IInv, PublishedIsSettled
<1> QED
  BY <1>1, <1>2, <1>3, <1>4, <1>5, <1>6 DEF IInv

\* Settling closes records, whatever they were.
LEMMA SettleStep ==
  ASSUME IInv, NEW n \in Heights, Settle(n)
  PROVE  IInv'
<1>a. Sound(failures')
  BY InvFacts, ResolvedSound DEF Settle
<1>1. StoreOK' /\ PlaceOK' /\ TimerOK' /\ WorkOK'
  BY <1>a DEF Settle, process, IInv, StoreOK, PlaceOK, TimerOK, WorkOK, Sound
<1>2. Control'
  BY DEF Settle, process, IInv, Control
<1>3. Positions'
  BY TipKept DEF Settle, process, IInv, Positions, Candidate
<1>4. RepairTarget'
  BY TipKept, SelectedKept DEF Settle, process, IInv, RepairTarget
<1>5. Records'
  BY <1>a DEF Settle, process, Records, Sound
<1>6. PublishedIsSettled'
  <2>1. \A m \in Heights : \/ failures'[m] = failures[m]
                           \/ failures'[m].status \notin Unresolved
    BY InvFacts, ResolvedSound DEF Settle, Unresolved
  <2>2. Unsettled' \subseteq Unsettled
    BY <2>1, SettledKept DEF Settle
  <2> QED
    BY <2>2, SelectedKept, TipKept DEF Settle, process, IInv, PublishedIsSettled
<1> QED
  BY <1>1, <1>2, <1>3, <1>4, <1>5, <1>6 DEF IInv

\* A source is used, or its failure is recorded at the frontier.
LEMMA TrySourceStep ==
  ASSUME IInv, TrySource
  PROVE  IInv'
<1>a. /\ Sound(failures')
      /\ \A m \in Heights : Canonical(m) => failures'[m] = failures[m]
  <2>1. Automatic \in BOOLEAN /\ Sound(failures) /\ NextHeight \in Heights /\ ~Canonical(NextHeight)
    BY InvFacts DEF Automatic
  <2> QED
    BY <2>1, RecordedSound DEF TrySource
<1>1. StoreOK' /\ PlaceOK' /\ TimerOK' /\ WorkOK'
  <2>1. Head(order) \in EndpointSet /\ Tail(order) \in Seq(EndpointSet)
    BY DEF TrySource, IInv, WorkOK
  <2>2. Usable(Head(order)) => NumberOf[views[Head(order)]] \in Nat
    BY <2>1, IngestionAssumption DEF Usable, IInv, StoreOK
  <2> QED
    BY <1>a, <2>1, <2>2 DEF TrySource, IInv, StoreOK, PlaceOK, TimerOK, WorkOK, Sound
<1>2. Control'
  BY DEF TrySource, IInv, PlaceOK, Control, Automatic
<1>3. Positions'
  BY TipKept DEF TrySource, IInv, Positions, Candidate
<1>4. RepairTarget'
  <2>1. ASSUME mode = "repair" PROVE RepairHeight = NextHeight
    <3>1. selected # {} /\ selected \subseteq Heights /\ RepairHeight \in {NextHeight, TipHeight}
      BY <2>1 DEF TrySource, IInv, RepairTarget, WorkOK
    <3>2. ~(RepairHeight <= TipHeight)
      BY <2>1, <3>1, RepairHeightFacts DEF TrySource, Reached
    <3>3. TipHeight \in Int
      BY InvFacts
    <3> QED
      BY <3>1, <3>2, <3>3
  <2> QED
    BY <2>1, TipKept, SelectedKept DEF TrySource, IInv, RepairTarget
<1>5. Records'
  BY <1>a DEF TrySource, Records, Sound
<1>6. PublishedIsSettled'
  <2>1. Unsettled' \subseteq Unsettled
    BY <1>a, SettledKept DEF TrySource
  <2> QED
    BY <2>1, SelectedKept, TipKept DEF TrySource, IInv, PublishedIsSettled
<1> QED
  BY <1>1, <1>2, <1>3, <1>4, <1>5, <1>6 DEF IInv

\* A follower waits at the gate; what it writes is a verdict of dead letter.
LEMMA WaitAtGateStep ==
  ASSUME IInv, WaitAtGate
  PROVE  IInv'
<1>1. /\ TipOK /\ NextHeight \in Heights /\ ~Canonical(NextHeight)
      /\ Sound(failures') /\ \A m \in Heights : m # NextHeight => failures'[m] = failures[m]
  BY InvFacts, GatedSound DEF WaitAtGate
<1>2. CASE mode = "once"
  BY <1>1, <1>2, IdleStep DEF WaitAtGate, TipOK, IInv, StoreOK
<1>3. CASE mode # "once"
  <2> USE <1>3
  <2>1. StoreOK' /\ PlaceOK' /\ TimerOK' /\ WorkOK'
    BY <1>1 DEF WaitAtGate, process, IInv, StoreOK, PlaceOK, TimerOK, WorkOK, Sound
  <2>2. Control'
    BY DEF WaitAtGate, process, IInv, Control
  <2>3. Positions'
    BY DEF WaitAtGate, process, IInv, Positions
  <2>4. RepairTarget'
    BY DEF WaitAtGate, process, Automatic, RepairTarget
  <2>5. Records'
    BY <1>1 DEF WaitAtGate, process, Records, Sound
  <2>6. PublishedIsSettled'
    <3>1. Unsettled' \subseteq Unsettled
      BY <1>1, SettledKept DEF WaitAtGate
    <3> QED
      BY <3>1, SelectedKept, TipKept DEF WaitAtGate, process, IInv, PublishedIsSettled
  <2> QED
    BY <2>1, <2>2, <2>3, <2>4, <2>5, <2>6 DEF IInv
<1> QED
  BY <1>2, <1>3

\* What a step keeps of the database is as sound as before.
LEMMA DatabaseKept ==
  ASSUME IInv, UNCHANGED <<database, views>>
  PROVE  /\ TipOK' /\ Sound(failures') /\ damaged' \subseteq Heights
         /\ views' \in [EndpointSet -> Hashes \cup {Down}]
<1>1. TipOK /\ Sound(failures)
  BY InvFacts
<1> QED
  BY <1>1 DEF database, TipOK, Sound, IInv, StoreOK

\* No source is left, or the end is reached.
LEMMA LeaveSourcesStep ==
  ASSUME IInv, LeaveSources
  PROVE  IInv'
<1>1. CASE mode # "ingest"
  <2>1. mode = "repair" => selected # {}
    BY DEF LeaveSources, IInv, RepairTarget
  <2> QED
    BY <1>1, <2>1, DatabaseKept, FinishStep DEF LeaveSources
<1>2. CASE mode = "ingest"
  <2> USE <1>2
  <2>1. StoreOK' /\ PlaceOK' /\ TimerOK' /\ WorkOK'
    BY DEF LeaveSources, database, IInv, StoreOK, PlaceOK, TimerOK, WorkOK
  <2>2. Control' /\ RepairTarget'
    BY DEF LeaveSources, IInv, Control, RepairTarget
  <2>3. Positions' /\ Records'
    BY DEF LeaveSources, database, IInv, Positions, Records
  <2>4. PublishedIsSettled'
    BY SettledKept, SelectedKept DEF LeaveSources, database, IInv, PublishedIsSettled
  <2> QED
    BY <2>1, <2>2, <2>3, <2>4 DEF IInv
<1> QED
  BY <1>1, <1>2

\* Nothing is confirmed above the tip.
LEMMA NothingConfirmedStep ==
  ASSUME IInv, NothingConfirmed
  PROVE  IInv'
<1>1. CASE mode # "ingest"
  <2>1. mode = "repair" => selected # {}
    BY DEF NothingConfirmed, IInv, RepairTarget
  <2> QED
    BY <1>1, <2>1, DatabaseKept, FinishStep DEF NothingConfirmed
<1>2. CASE mode = "ingest"
  <2> USE <1>2
  <2>1. StoreOK' /\ PlaceOK' /\ TimerOK' /\ WorkOK'
    BY Nothing DEF NothingConfirmed, database, IInv, StoreOK, PlaceOK, TimerOK, WorkOK
  <2>2. Control' /\ RepairTarget'
    BY DEF NothingConfirmed, IInv, Control, RepairTarget
  <2>3. Positions' /\ Records'
    BY DEF NothingConfirmed, database, IInv, Positions, Records
  <2>4. PublishedIsSettled'
    BY SettledKept, SelectedKept DEF NothingConfirmed, database, IInv, PublishedIsSettled
  <2> QED
    BY <2>1, <2>2, <2>3, <2>4 DEF IInv
<1> QED
  BY <1>1, <1>2

LEMMA CrashStep ==
  ASSUME IInv, Crash
  PROVE  IInv'
  BY DatabaseKept, IdleStep DEF Crash

LEMMA EndRepairStep ==
  ASSUME IInv, EndRepair
  PROVE  IInv'
  BY DatabaseKept, IdleStep DEF EndRepair

\* Where a rollback goes: to a block of the branch within the bound, or below the
\* start of a range that short.
LEMMA TargetFacts ==
  ASSUME IInv, pc = "rollback", NEW t \in Target
  PROVE  /\ tip \in Hashes /\ Chain[t] \subseteq Chain[tip]
         /\ t = NoHash => TipHeight - Start < ReorgDepth
         /\ t # NoHash => /\ t \in Hashes /\ t \in Chain[tip] /\ Start <= NumberOf[t]
                          /\ NumberOf[t] \in Floor .. TipHeight
<1>1. tip \in Hashes /\ TipHeight = NumberOf[tip] /\ NumberOf[tip] \in Nat
  BY IngestionAssumption DEF IInv, StoreOK, Positions, TipHeight
<1>2. CASE ancestor < Start
  <2>1. t = NoHash
    BY <1>2 DEF Target
  <2>2. ~(ancestor \in Floor .. TipHeight)
    <3>1. Floor \in Int /\ Start <= Floor
      BY <1>1, IngestionAssumption DEF Floor
    <3>2. ancestor \in Int
      BY DEF IInv, PlaceOK
    <3> QED
      BY <1>2, <3>1, <3>2, IngestionAssumption
  <2> QED
    BY <1>1, <2>1, <2>2, ChainOfNone, IngestionAssumption DEF IInv, Positions
<1>3. CASE ~(ancestor < Start)
  <2>1. t \in Chain[tip] /\ NumberOf[t] = ancestor
    BY <1>3 DEF Target, BlockAt
  <2>2. ancestor \in Floor .. TipHeight
    BY <1>3, IngestionAssumption DEF IInv, Positions
  <2>3. t \in Hashes /\ Start <= NumberOf[t] /\ Chain[t] \subseteq Chain[tip]
    BY <1>1, <2>1, ChainFacts
  <2> QED
    BY <1>1, <2>1, <2>2, <2>3, IngestionAssumption
<1> QED
  BY <1>2, <1>3

\* A rollback keeps a part of the branch.
LEMMA RollbackStep ==
  ASSUME IInv, NEW t \in States, Rollback(t)
  PROVE  IInv'
<1>a. /\ t # NoHash => t \in Hashes /\ Start <= NumberOf[t]
      /\ Chain[t] \subseteq Chain[tip]
  BY TargetFacts DEF Rollback
<1>1. StoreOK' /\ PlaceOK' /\ TimerOK' /\ WorkOK'
  BY <1>a, IngestionAssumption DEF Rollback, IInv, StoreOK, PlaceOK, TimerOK, WorkOK, States
<1>2. Control'
  BY DEF Rollback, IInv, Control
<1>3. Positions'
  BY <1>a DEF Rollback, Positions
<1>4. RepairTarget'
  BY DEF Rollback, IInv, Control, RepairTarget
<1>5. Records'
  BY DEF Rollback, IInv, Records
<1>6. PublishedIsSettled'
  <2>1. \A n : Canonical(n)' => Canonical(n)
    BY <1>a DEF Rollback, Canonical
  <2> QED
    BY <2>1, SelectedKept DEF Rollback, IInv, PublishedIsSettled, Unsettled
<1> QED
  BY <1>1, <1>2, <1>3, <1>4, <1>5, <1>6 DEF IInv

\* A reorganisation that fails, perhaps after it was published.
LEMMA ReconcileFailsStep ==
  ASSUME IInv, NEW t \in States, ReconcileFails(t)
  PROVE  IInv'
<1>1. TipOK /\ Sound(failures) /\ NextHeight \in Heights
  BY InvFacts
<1>2. Sound(failures')
  BY <1>1, RecordedSound DEF ReconcileFails
<1>3. TipOK'
  <2>1. CASE t = tip
    BY <1>1, <2>1 DEF ReconcileFails, TipOK
  <2>2. CASE t # tip
    BY <2>2, TargetFacts DEF ReconcileFails, TipOK
  <2> QED
    BY <2>1, <2>2
<1> QED
  BY <1>2, <1>3, IdleStep DEF ReconcileFails, IInv, StoreOK

\* A window holds as many blocks as heights, at least the next one, and for a repair
\* only its target.
LEMMA WindowFacts ==
  ASSUME IInv, pc = "window", NextHeight <= Limit
  PROVE  /\ Cardinality(WindowHeights) \in Nat /\ NextHeight \in WindowHeights
         /\ Cardinality(WindowHeights) # 0
         /\ mode = "repair" => \A n \in WindowHeights : n <= NextHeight
<1>1. NextHeight \in Nat
  BY InvFacts
<1>2. Limit \in Int /\ (mode = "repair" => Limit <= NextHeight)
  <2>1. head \in Nat /\ Confirmations \in Nat
    BY IngestionAssumption DEF IInv, PlaceOK
  <2>2. mode = "repair" => RepairHeight = NextHeight
    BY DEF IInv, RepairTarget
  <2> QED
    BY <1>1, <2>1, <2>2 DEF Limit
<1>3. NextHeight \in WindowHeights
  BY <1>1, <1>2, IngestionAssumption DEF WindowHeights
<1>4. IsFiniteSet(WindowHeights)
  <2>1. IsFiniteSet(NextHeight .. Limit)
    BY <1>1, <1>2, FS_Interval
  <2>2. WindowHeights \subseteq NextHeight .. Limit
    BY DEF WindowHeights
  <2> QED
    BY <2>1, <2>2, FS_Subset
<1>5. Cardinality(WindowHeights) \in Nat /\ Cardinality(WindowHeights) # 0
  BY <1>3, <1>4, FS_CardinalityType, FS_EmptySet
<1> QED
  BY <1>1, <1>2, <1>3, <1>5 DEF WindowHeights

\* The blocks of a window go on from the tip.
LEMMA FetchStep ==
  ASSUME IInv, Fetch
  PROVE  IInv'
<1>a. /\ window' \in Seq(Hashes) /\ window' # <<>>
      /\ \A i \in 1 .. Len(window') : NumberOf[window'[i]] = NextHeight + i - 1
      /\ mode = "repair" => Len(window') = 1
  <2> DEFINE k == Cardinality(WindowHeights)
  <2>1. k \in Nat /\ k # 0 /\ (mode = "repair" => \A n \in WindowHeights : n <= NextHeight)
    BY WindowFacts DEF Fetch
  <2>2. Head(order) \in EndpointSet
    BY DEF Fetch, IInv, WorkOK, Control
  <2>3. \A h \in Fetched : h \in Hashes /\ NumberOf[h] \in WindowHeights
    BY <2>2, BlockAtFacts DEF Fetched, IInv, StoreOK
  <2>4. window' \in [1 .. k -> Fetched] /\ \A i \in 1 .. k : NumberOf[window'[i]] = NextHeight + i - 1
    BY DEF Fetch
  <2> HIDE DEF k
  <2>5. window' \in Seq(Hashes) /\ Len(window') = k
    <3>1. window' \in [1 .. k -> Hashes]
      BY <2>3, <2>4
    <3> QED
      BY <2>1, <3>1
  <2>6. window' # <<>>
    BY <2>1, <2>5
  <2>7. ASSUME mode = "repair" PROVE k = 1
    <3>1. k \in 1 .. k
      BY <2>1
    <3>2. NumberOf[window'[k]] = NextHeight + k - 1 /\ NumberOf[window'[k]] <= NextHeight
      BY <2>1, <2>3, <2>4, <2>7, <3>1
    <3>3. NextHeight \in Nat
      BY InvFacts
    <3> QED
      BY <2>1, <3>2, <3>3
  <2> QED
    BY <2>4, <2>5, <2>6, <2>7
<1>1. StoreOK' /\ PlaceOK' /\ TimerOK' /\ WorkOK'
  BY <1>a DEF Fetch, database, IInv, StoreOK, PlaceOK, TimerOK, WorkOK
<1>2. Control'
  BY <1>a DEF Fetch, IInv, Control
<1>3. Positions'
  BY <1>a, TipKept DEF Fetch, database, IInv, Positions
<1>4. RepairTarget'
  <2>1. mode = "repair" => Len(window') = 1
    BY <1>a
  <2> QED
    BY <2>1, TipKept, SelectedKept DEF Fetch, database, IInv, RepairTarget
<1>5. Records'
  BY TipKept DEF Fetch, database, IInv, Records, Automatic
<1>6. PublishedIsSettled'
  BY SettledKept, SelectedKept, TipKept DEF Fetch, database, IInv, PublishedIsSettled
<1> QED
  BY <1>1, <1>2, <1>3, <1>4, <1>5, <1>6 DEF IInv

LEMMA FetchFailsStep ==
  ASSUME IInv, FetchFails
  PROVE  IInv'
  BY NextSourceStep DEF FetchFails

LEMMA PrepareFailsStep ==
  ASSUME IInv, PrepareFails
  PROVE  IInv'
<1>1. NumberOf[Candidate] = NextHeight
  BY CandidateFacts DEF PrepareFails
<1> QED
  BY <1>1, NextSourceStep DEF PrepareFails

\* A block is stopped at the gate, in the middle of a window.
LEMMA BlockGatedStep ==
  ASSUME IInv, BlockGated
  PROVE  IInv'
<1>1. NumberOf[Candidate] = NextHeight
  BY CandidateFacts DEF BlockGated
<1>2. /\ TipOK /\ NextHeight \in Heights /\ ~Canonical(NextHeight)
      /\ Sound(failures') /\ \A m \in Heights : m # NextHeight => failures'[m] = failures[m]
  BY <1>1, InvFacts, GatedSound DEF BlockGated
<1>3. CASE mode = "once"
  BY <1>2, <1>3, IdleStep DEF BlockGated, TipOK, IInv, StoreOK
<1>4. CASE mode # "once"
  <2> USE <1>4
  <2>1. StoreOK' /\ PlaceOK' /\ TimerOK' /\ WorkOK'
    BY <1>2, Nothing DEF BlockGated, IInv, StoreOK, PlaceOK, TimerOK, WorkOK, Sound
  <2>2. Control'
    BY DEF BlockGated, IInv, Control
  <2>3. Positions'
    BY DEF BlockGated, IInv, Positions
  <2>4. RepairTarget'
    BY DEF BlockGated, BlockGate, Automatic, RepairTarget
  <2>5. Records'
    BY <1>2 DEF BlockGated, Records, Sound
  <2>6. PublishedIsSettled'
    <3>1. Unsettled' \subseteq Unsettled
      BY <1>2, SettledKept DEF BlockGated
    <3> QED
      BY <3>1, SelectedKept, TipKept DEF BlockGated, IInv, PublishedIsSettled
  <2> QED
    BY <2>1, <2>2, <2>3, <2>4, <2>5, <2>6 DEF IInv
<1> QED
  BY <1>3, <1>4

\* A block published at the frontier lengthens the branch by itself.
LEMMA CommitFacts ==
  ASSUME IInv, pc = "commit", tip' = Candidate
  PROVE  /\ Candidate \in Hashes /\ Candidate # NoHash /\ NumberOf[Candidate] = NextHeight
         /\ TipOK' /\ TipHeight' = NextHeight
         /\ \A n : Canonical(n)' => Canonical(n) \/ n = NextHeight
<1>1. Candidate \in Hashes /\ NumberOf[Candidate] = NextHeight /\ Candidate # NoHash
  BY CandidateFacts, IngestionAssumption
<1>2. NextHeight \in Nat /\ Start <= NextHeight /\ NextHeight = TipHeight + 1
  BY InvFacts, IngestionAssumption
<1>3. TipOK' /\ TipHeight' = NextHeight
  BY <1>1, <1>2 DEF TipOK, TipHeight, States
<1>4. Chain[Candidate] = {Candidate} \cup Chain[ParentOf[Candidate]]
  <2>1. ~(NextHeight < Start)
    BY <1>2, IngestionAssumption
  <2> QED
    BY <1>1, <2>1, ChainStep
<1>5. Chain[ParentOf[Candidate]] \subseteq Chain[tip]
  <2>1. CASE tip # NoHash
    BY <2>1 DEF IInv, Positions
  <2>2. CASE tip = NoHash
    <3>1. NumberOf[Candidate] = Start
      BY <1>1, <2>2, IngestionAssumption DEF NextHeight, TipHeight
    <3>2. ParentOf[Candidate] \in Hashes => NumberOf[ParentOf[Candidate]] < Start
      BY <1>1, <3>1, IngestionAssumption
    <3>3. ParentOf[Candidate] \in Hashes => Chain[ParentOf[Candidate]] = {}
      BY <3>2, ChainStep
    <3> QED
      BY <1>1, <3>3, ChainOfNone, IngestionAssumption
  <2> QED
    BY <2>1, <2>2
<1> QED
  BY <1>1, <1>3, <1>4, <1>5 DEF Canonical

\* The published block is the only one whose record may be open.
LEMMA CommitStep ==
  ASSUME IInv, Commit
  PROVE  IInv'
<1>a. /\ Candidate \in Hashes /\ Candidate # NoHash /\ TipOK' /\ TipHeight' = NextHeight
      /\ \A n : Canonical(n)' => Canonical(n) \/ n = NextHeight
  BY CommitFacts DEF Commit
<1>1. StoreOK' /\ PlaceOK' /\ TimerOK' /\ WorkOK'
  BY <1>a DEF Commit, IInv, StoreOK, PlaceOK, TimerOK, WorkOK
<1>2. Control'
  BY DEF Commit, IInv, Control
<1>3. Positions'
  <2>1. \A i \in 1 .. Len(window) : NumberOf[window[i]] = NextHeight + i - 1
    BY DEF Commit, IInv, Positions
  <2> QED
    BY <1>a, <2>1 DEF Commit, Positions, TipOK
<1>4. RepairTarget'
  BY <1>a, SelectedKept DEF Commit, IInv, RepairTarget
<1>5. Records'
  BY DEF Commit, IInv, Records
<1>6. PublishedIsSettled'
  <2>1. Unsettled' \subseteq Unsettled \cup {NextHeight}
    BY <1>a DEF Commit, Unsettled
  <2> QED
    BY <1>a, <2>1, SelectedKept DEF Commit, IInv, PublishedIsSettled
<1> QED
  BY <1>1, <1>2, <1>3, <1>4, <1>5, <1>6 DEF IInv

LEMMA CommitFailsStep ==
  ASSUME IInv, NEW published \in BOOLEAN, CommitFails(published)
  PROVE  IInv'
<1>1. /\ TipOK /\ Sound(failures) /\ NextHeight \in Heights /\ Automatic \in BOOLEAN
      /\ NumberOf[Candidate] = NextHeight
  BY InvFacts, CandidateFacts DEF Automatic, CommitFails
<1>2. Sound(failures')
  BY <1>1, RecordedSound DEF CommitFails
<1>3. TipOK'
  <2>1. CASE published
    BY <2>1, CommitFacts DEF CommitFails
  <2>2. CASE ~published
    BY <1>1, <2>2 DEF CommitFails, TipOK
  <2> QED
    BY <2>1, <2>2
<1>4. damaged' \subseteq Heights
  BY DEF CommitFails, IInv, StoreOK
<1>5. mode = "repair" => selected # {}
  BY DEF CommitFails, IInv, RepairTarget
<1> QED
  BY <1>2, <1>3, <1>4, <1>5, FinishStep DEF CommitFails, IInv, StoreOK

\* The record of the published block is closed, and the window goes on.
LEMMA CommittedStep ==
  ASSUME IInv, Committed
  PROVE  IInv'
<1>a. /\ TipHeight \in Heights /\ TipHeight \in Nat /\ Sound(failures')
      /\ \A m \in Heights : m # TipHeight => failures'[m] = failures[m]
      /\ failures'[TipHeight].status \in {"none", "resolved"}
  <2>1. TipHeight \in Heights /\ Sound(failures) /\ Automatic \in BOOLEAN
    BY InvFacts, HeightFacts DEF Committed, IInv, Positions, Automatic
  <2> QED
    BY <2>1, HeightsAreNat, ResolvedSound DEF Committed
<1>b. /\ window' \in Seq(Hashes) /\ Head(order) \in EndpointSet
      /\ Len(window) = 1 => window' = <<>>
      /\ \A i \in 1 .. Len(window') : NumberOf[window'[i]] = NextHeight + i - 1
  <2>1. window \in Seq(Hashes) /\ window # <<>> /\ window' = Tail(window)
    BY DEF Committed, IInv, WorkOK, Control
  <2>2. /\ window' \in Seq(Hashes) /\ Len(window') = Len(window) - 1
        /\ \A i \in 1 .. Len(window') : window'[i] = window[i + 1] /\ i + 1 \in 1 .. Len(window)
    BY <2>1
  <2>3. \A i \in 1 .. Len(window) : NumberOf[window[i]] = TipHeight + i - 1
    BY DEF Committed, IInv, Positions
  <2>4. TipHeight \in Nat /\ NextHeight = TipHeight + 1
    BY <1>a DEF NextHeight
  <2>5. Len(window) = 1 => window' = <<>>
    BY <2>1, <2>2
  <2>6. Head(order) \in EndpointSet
    BY DEF Committed, IInv, WorkOK, Control
  <2>7. \A i \in 1 .. Len(window') : NumberOf[window'[i]] = NextHeight + i - 1
    BY <2>2, <2>3, <2>4
  <2> QED
    BY <2>2, <2>5, <2>6, <2>7
<1>1. StoreOK' /\ PlaceOK' /\ TimerOK' /\ WorkOK'
  <2>1. StoreOK' /\ PlaceOK'
    BY <1>a DEF Committed, IInv, StoreOK, PlaceOK, Sound
  <2>2. TimerOK'
    BY DEF Committed, IInv, TimerOK
  <2>3. WorkOK'
    BY <1>b, Nothing DEF Committed, IInv, WorkOK
  <2> QED
    BY <2>1, <2>2, <2>3
<1>2. Control'
  BY DEF Committed, IInv, Control
<1>3. Positions'
  BY <1>b, TipKept DEF Committed, IInv, Positions
<1>4. RepairTarget'
  <2>1. mode = "repair" => window' = <<>>
    BY <1>b DEF IInv, RepairTarget, Committed
  <2> QED
    BY <2>1, TipKept, SelectedKept DEF Committed, IInv, RepairTarget
<1>5. Records'
  BY <1>a DEF Committed, Records, Sound
<1>6. PublishedIsSettled'
  <2>1. Unsettled' \subseteq Unsettled \ {TipHeight}
    <3>1. \A n \in Heights : failures'[n].status \in Unresolved => failures[n].status \in Unresolved
      BY <1>a DEF Unresolved
    <3>2. failures'[TipHeight].status \notin Unresolved
      BY <1>a DEF Unresolved
    <3>3. \A n : Canonical(n)' <=> Canonical(n)
      BY TipKept DEF Committed
    <3> QED
      BY <3>1, <3>2, <3>3 DEF Unsettled
  <2> QED
    BY <2>1, SelectedKept, TipKept DEF Committed, IInv, PublishedIsSettled
<1> QED
  BY <1>1, <1>2, <1>3, <1>4, <1>5, <1>6 DEF IInv

\* A repair closes the record of a height that is published and whole.
LEMMA AlreadyCanonicalStep ==
  ASSUME IInv, AlreadyCanonical
  PROVE  IInv'
<1>a. Sound(failures') /\ selected' \subseteq Heights
  <2>1. RepairHeight \in Heights /\ Sound(failures) /\ selected \subseteq Heights
    BY InvFacts, RepairHeightFacts DEF AlreadyCanonical, IInv, WorkOK
  <2> QED
    BY <2>1, ResolvedSound DEF AlreadyCanonical
<1>1. StoreOK' /\ PlaceOK' /\ TimerOK' /\ WorkOK'
  BY <1>a DEF AlreadyCanonical, IInv, StoreOK, PlaceOK, TimerOK, WorkOK, Sound
<1>2. Control'
  BY DEF AlreadyCanonical, IInv, Control
<1>3. Positions'
  BY TipKept DEF AlreadyCanonical, IInv, Positions, Control
<1>4. RepairTarget'
  BY DEF AlreadyCanonical, IInv, RepairTarget
<1>5. Records'
  BY <1>a DEF AlreadyCanonical, Records, Sound
<1>6. PublishedIsSettled'
  BY DEF AlreadyCanonical, IInv, Control, PublishedIsSettled
<1> QED
  BY <1>1, <1>2, <1>3, <1>4, <1>5, <1>6 DEF IInv

LEMMA HistoricalGapStep ==
  ASSUME IInv, HistoricalGap
  PROVE  IInv'
<1>1. TipOK' /\ Sound(failures')
  BY InvFacts, GapsSound DEF HistoricalGap, TipOK
<1> QED
  BY <1>1, IdleStep DEF HistoricalGap, IInv, StoreOK

\* A repair begins at the next height.
LEMMA BeginRepairStep ==
  ASSUME IInv, BeginRepair
  PROVE  IInv'
<1>a. Sound(failures')
  <2>1. RepairHeight \in Heights /\ Sound(failures)
    BY InvFacts, RepairHeightFacts DEF BeginRepair, IInv, WorkOK
  <2> QED
    BY <2>1, RepairingSound DEF BeginRepair
<1>1. StoreOK' /\ PlaceOK' /\ TimerOK' /\ WorkOK'
  BY <1>a DEF BeginRepair, IInv, StoreOK, PlaceOK, TimerOK, WorkOK, Sound
<1>2. Control'
  BY DEF BeginRepair, IInv, Control
<1>3. Positions'
  BY TipKept DEF BeginRepair, IInv, Positions, Control
<1>4. RepairTarget'
  BY TipKept, SelectedKept DEF BeginRepair, IInv, RepairTarget
<1>5. Records'
  BY <1>a DEF BeginRepair, Records, Sound
<1>6. PublishedIsSettled'
  BY DEF BeginRepair, IInv, Control, PublishedIsSettled
<1> QED
  BY <1>1, <1>2, <1>3, <1>4, <1>5, <1>6 DEF IInv

\* The verdict of a repair's attempt.
LEMMA OutcomeStep ==
  ASSUME IInv, Outcome
  PROVE  IInv'
<1>1. RepairHeight \in Heights /\ Sound(failures) /\ TipOK /\ mode = "repair" /\ selected # {}
  BY InvFacts, RepairHeightFacts DEF Outcome, IInv, WorkOK, Control, RepairTarget
<1>2. Sound(failures')
  BY <1>1, RecordedSound, ResolvedSound DEF Outcome
<1>3. CASE Healthy(RepairHeight)
  <2> USE <1>3
  <2>1. StoreOK' /\ PlaceOK' /\ TimerOK' /\ WorkOK'
    BY <1>2 DEF Outcome, IInv, StoreOK, PlaceOK, TimerOK, WorkOK, Sound
  <2>2. Control' /\ RepairTarget'
    BY <1>1 DEF Outcome, Control, RepairTarget
  <2>3. Positions'
    BY DEF Outcome, IInv, Positions
  <2>4. Records'
    BY <1>2 DEF Outcome, Records, Sound
  <2>5. PublishedIsSettled'
    BY <1>1 DEF Outcome, PublishedIsSettled
  <2> QED
    BY <2>1, <2>2, <2>3, <2>4, <2>5 DEF IInv
<1>4. CASE ~Healthy(RepairHeight)
  BY <1>1, <1>2, <1>4, IdleStep DEF Outcome, TipOK, IInv, StoreOK
<1> QED
  BY <1>3, <1>4

\* Starting recovers what an interrupted repair left.
LEMMA StartIngestStep ==
  ASSUME IInv, NEW m \in {"ingest", "once"}, StartIngest(m)
  PROVE  IInv'
<1>a. Sound(failures')
  BY InvFacts, RecoveredSound DEF StartIngest
<1>1. StoreOK' /\ PlaceOK' /\ TimerOK' /\ WorkOK'
  BY <1>a DEF StartIngest, IInv, StoreOK, PlaceOK, TimerOK, WorkOK, Sound
<1>2. Control'
  BY DEF StartIngest, IInv, Control
<1>3. Positions'
  BY TipKept DEF StartIngest, IInv, Positions, Control
<1>4. RepairTarget'
  BY DEF StartIngest, IInv, RepairTarget
<1>5. Records'
  BY <1>a DEF StartIngest, IInv, Control, Records, Sound
<1>6. PublishedIsSettled'
  <2>1. IsPage(selected', Unsettled') /\ Unsettled' \subseteq Heights
    BY DEF StartIngest, Unsettled
  <2>2. \A n \in Unsettled' \ selected' : n \in Skipped'
    BY <2>1 DEF IsPage, Skipped
  <2> QED
    BY <2>2 DEF StartIngest, PublishedIsSettled
<1> QED
  BY <1>1, <1>2, <1>3, <1>4, <1>5, <1>6 DEF IInv

\* A repair takes the heights an operator selected.
LEMMA StartRepairStep ==
  ASSUME IInv, NEW heights \in SUBSET Heights, StartRepair(heights)
  PROVE  IInv'
<1>a. Sound(failures')
  BY InvFacts, RecoveredSound DEF StartRepair
<1>1. StoreOK' /\ PlaceOK' /\ TimerOK' /\ WorkOK'
  BY <1>a DEF StartRepair, IInv, StoreOK, PlaceOK, TimerOK, WorkOK, Sound
<1>2. Control'
  BY DEF StartRepair, IInv, Control
<1>3. Positions'
  BY TipKept DEF StartRepair, IInv, Positions, Control
<1>4. RepairTarget'
  BY DEF StartRepair, IInv, RepairTarget
<1>5. Records'
  BY <1>a DEF StartRepair, IInv, Control, Records, Sound
<1>6. PublishedIsSettled'
  BY DEF StartRepair, PublishedIsSettled
<1> QED
  BY <1>1, <1>2, <1>3, <1>4, <1>5, <1>6 DEF IInv

\* A scan writes gaps while no command runs.
LEMMA ScanGapsStep ==
  ASSUME IInv, NEW from \in Heights, NEW to \in Heights, ScanGaps(from, to)
  PROVE  IInv'
<1>a. Sound(failures')
  BY InvFacts, GapsSound DEF ScanGaps
<1>1. StoreOK' /\ PlaceOK' /\ TimerOK' /\ WorkOK'
  BY <1>a DEF ScanGaps, process, IInv, StoreOK, PlaceOK, TimerOK, WorkOK, Sound
<1>2. Control'
  BY DEF ScanGaps, process, IInv, Control
<1>3. Positions'
  BY TipKept DEF ScanGaps, process, IInv, Positions, Control
<1>4. RepairTarget'
  BY DEF ScanGaps, process, IInv, RepairTarget
<1>5. Records'
  BY <1>a DEF ScanGaps, process, IInv, Control, Records, Sound
<1>6. PublishedIsSettled'
  BY DEF ScanGaps, process, PublishedIsSettled
<1> QED
  BY <1>1, <1>2, <1>3, <1>4, <1>5, <1>6 DEF IInv

\* What a node serves does not touch the database.
LEMMA ViewChangesStep ==
  ASSUME IInv, NEW e \in EndpointSet, NEW v \in ViewsOf[e], ViewChanges(e, v)
  PROVE  IInv'
<1>1. StoreOK' /\ PlaceOK' /\ TimerOK' /\ WorkOK'
  <2>1. v \in Hashes \cup {Down}
    BY IngestionAssumption
  <2> QED
    BY <2>1 DEF ViewChanges, database, process, IInv, StoreOK, PlaceOK, TimerOK, WorkOK
<1>2. Control'
  BY DEF ViewChanges, database, process, IInv, Control
<1>3. Positions'
  BY TipKept DEF ViewChanges, database, process, IInv, Positions, Candidate
<1>4. RepairTarget'
  BY TipKept, SelectedKept DEF ViewChanges, database, process, IInv, RepairTarget, Control
<1>5. Records'
  BY TipKept DEF ViewChanges, database, process, IInv, Records, Automatic
<1>6. PublishedIsSettled'
  BY SettledKept, SelectedKept, TipKept DEF ViewChanges, database, process, IInv, PublishedIsSettled
<1> QED
  BY <1>1, <1>2, <1>3, <1>4, <1>5, <1>6 DEF IInv

\* Rows are lost outside the program.
LEMMA LoseRowsStep ==
  ASSUME IInv, NEW n \in Heights, LoseRows(n)
  PROVE  IInv'
<1>1. StoreOK' /\ PlaceOK' /\ TimerOK' /\ WorkOK'
  BY DEF LoseRows, process, IInv, StoreOK, PlaceOK, TimerOK, WorkOK
<1>2. Control'
  BY DEF LoseRows, process, IInv, Control
<1>3. Positions'
  BY TipKept DEF LoseRows, process, IInv, Positions, Candidate
<1>4. RepairTarget'
  BY TipKept, SelectedKept DEF LoseRows, process, IInv, RepairTarget, Control
<1>5. Records'
  BY TipKept DEF LoseRows, process, IInv, Records, Automatic
<1>6. PublishedIsSettled'
  BY SettledKept, SelectedKept, TipKept DEF LoseRows, process, IInv, PublishedIsSettled
<1> QED
  BY <1>1, <1>2, <1>3, <1>4, <1>5, <1>6 DEF IInv

\* A record falls due, which is all of it that changes.
LEMMA RetryDueStep ==
  ASSUME IInv, NEW n \in Heights, RetryDue(n)
  PROVE  IInv'
<1>a. /\ failures' \in [Heights -> Record]
      /\ \A m \in Heights : /\ failures'[m].status = failures[m].status
                            /\ failures'[m].attempts = failures[m].attempts
  BY DEF RetryDue, IInv, StoreOK, Record
<1>1. StoreOK' /\ PlaceOK' /\ TimerOK' /\ WorkOK'
  BY <1>a DEF RetryDue, process, IInv, StoreOK, PlaceOK, TimerOK, WorkOK
<1>2. Control'
  BY DEF RetryDue, process, IInv, Control
<1>3. Positions'
  BY TipKept DEF RetryDue, process, IInv, Positions, Candidate
<1>4. RepairTarget'
  BY TipKept, SelectedKept DEF RetryDue, process, IInv, RepairTarget, Control
<1>5. Records'
  BY <1>a, TipKept, InvFacts DEF RetryDue, process, IInv, Records, Automatic
<1>6. PublishedIsSettled'
  <2>1. Unsettled' \subseteq Unsettled
    BY <1>a, SettledKept DEF RetryDue
  <2> QED
    BY <2>1, TipKept, SelectedKept DEF RetryDue, process, IInv, PublishedIsSettled
<1> QED
  BY <1>1, <1>2, <1>3, <1>4, <1>5, <1>6 DEF IInv

\* The cooldown of a fallback ends.
LEMMA CooldownElapsesStep ==
  ASSUME IInv, CooldownElapses
  PROVE  IInv'
<1>1. StoreOK' /\ PlaceOK' /\ TimerOK' /\ WorkOK'
  BY DEF CooldownElapses, database, IInv, StoreOK, PlaceOK, TimerOK, WorkOK
<1>2. Control'
  BY DEF CooldownElapses, database, IInv, Control
<1>3. Positions'
  BY TipKept DEF CooldownElapses, database, IInv, Positions, Candidate
<1>4. RepairTarget'
  BY TipKept, SelectedKept DEF CooldownElapses, database, IInv, RepairTarget, Control
<1>5. Records'
  BY TipKept DEF CooldownElapses, database, IInv, Records, Automatic
<1>6. PublishedIsSettled'
  BY SettledKept, SelectedKept, TipKept DEF CooldownElapses, database, IInv, PublishedIsSettled
<1> QED
  BY <1>1, <1>2, <1>3, <1>4, <1>5, <1>6 DEF IInv

LEMMA NextIInv == IInv /\ [Next]_vars => IInv'
<1> SUFFICES ASSUME IInv, [Next]_vars PROVE IInv'
  OBVIOUS
<1>1. ASSUME Advance PROVE IInv'
  <2>1. ASSUME NEW n \in Heights, Settle(n) PROVE IInv'
    BY <2>1, SettleStep
  <2>2. CASE LeaveTip \/ SearchOn \/ FindAncestor
    BY <2>2, LeaveTipStep, SearchOnStep, FindAncestorStep
  <2>3. ASSUME NEW t \in Hashes \cup {NoHash}, Rollback(t) PROVE IInv'
    BY <2>3, RollbackStep DEF States
  <2>4. ASSUME NEW t \in Hashes \cup {NoHash}, ReconcileFails(t) PROVE IInv'
    BY <2>4, ReconcileFailsStep DEF States
  <2>5. CASE StartWork \/ PassGate \/ WaitAtGate \/ TrySource \/ LeaveSources \/ ChainAgrees
    BY <2>5, StartWorkStep, PassGateStep, WaitAtGateStep, TrySourceStep, LeaveSourcesStep,
       ChainAgreesStep
  <2>6. CASE NothingConfirmed \/ Fetch \/ FetchFails \/ Prepare \/ PrepareFails \/ BlockGated
    BY <2>6, NothingConfirmedStep, FetchStep, FetchFailsStep, PrepareStep, PrepareFailsStep,
       BlockGatedStep
  <2>7. CASE Commit \/ Committed
    BY <2>7, CommitStep, CommittedStep
  <2>8. CASE AlreadyCanonical \/ HistoricalGap \/ BeginRepair \/ EndRepair \/ Outcome
    BY <2>8, AlreadyCanonicalStep, HistoricalGapStep, BeginRepairStep, EndRepairStep, OutcomeStep
  <2> QED
    BY <1>1, <2>1, <2>2, <2>3, <2>4, <2>5, <2>6, <2>7, <2>8 DEF Advance
<1>2. ASSUME Environment PROVE IInv'
  <2>1. ASSUME NEW e \in EndpointSet, NEW v \in ViewsOf[e], ViewChanges(e, v) PROVE IInv'
    BY <2>1, ViewChangesStep
  <2>2. ASSUME NEW n \in Heights, LoseRows(n) \/ RetryDue(n) PROVE IInv'
    BY <2>2, LoseRowsStep, RetryDueStep
  <2> QED
    BY <1>2, <2>1, <2>2, CooldownElapsesStep DEF Environment
<1>3. ASSUME NEW m \in {"ingest", "once"}, StartIngest(m) PROVE IInv'
  BY <1>3, StartIngestStep
<1>4. ASSUME NEW heights \in SUBSET Heights, StartRepair(heights) PROVE IInv'
  BY <1>4, StartRepairStep
<1>5. ASSUME NEW from \in Heights, NEW to \in Heights, ScanGaps(from, to) PROVE IInv'
  BY <1>5, ScanGapsStep
<1>6. ASSUME NEW published \in BOOLEAN, CommitFails(published) PROVE IInv'
  BY <1>6, CommitFailsStep
<1>7. CASE Crash
  BY <1>7, CrashStep
<1>8. CASE UNCHANGED vars
  BY <1>8, TipKept, SelectedKept
     DEF vars, database, process, IInv, StoreOK, PlaceOK, TimerOK, WorkOK, Control, Positions,
         RepairTarget, Records, PublishedIsSettled, Unsettled, Candidate, Automatic
<1> QED
  BY <1>1, <1>2, <1>3, <1>4, <1>5, <1>6, <1>7, <1>8 DEF Next

-----------------------------------------------------------------------------
(* What the invariant gives *)

\* Main result: the inductive invariant holds in every reachable state, however the
\* commands, the crashes and the changes of the endpoints interleave.
THEOREM InvariantHolds == Spec => []IInv
<1>1. Init => IInv
  BY InitIInv
<1>2. IInv /\ [Next]_vars => IInv'
  BY NextIInv
<1> QED
  BY <1>1, <1>2, PTL DEF Spec

\* The tip moves by the commit of the next block or by a rollback to its ancestor.
LEMMA TipSteps ==
  ASSUME IInv, [Next]_vars, tip' # tip
  PROVE  \/ pc = "commit" /\ tip' = Candidate /\ UNCHANGED selected
         \/ pc = "commit" /\ tip' = Candidate /\ mode # "repair"
         \/ pc = "rollback" /\ tip' \in Target
<1>1. ASSUME Advance
      PROVE  \/ Commit
             \/ \E t \in Hashes \cup {NoHash} : Rollback(t) \/ ReconcileFails(t)
  BY <1>1 DEF Advance, Settle, StartWork, PassGate, WaitAtGate, TrySource, LeaveSources,
     ChainAgrees, LeaveTip, SearchOn, FindAncestor, NothingConfirmed, Fetch, FetchFails, Prepare,
     PrepareFails, NextSource, BlockGated, Committed, AlreadyCanonical, HistoricalGap, BeginRepair, EndRepair,
     Outcome, database
<1>2. ~Environment
  BY DEF Environment, ViewChanges, LoseRows, RetryDue, CooldownElapses, database
<1>3. \A m : ~StartIngest(m) /\ ~StartRepair(m)
  BY DEF StartIngest, StartRepair
<1>4. \A from, to : ~ScanGaps(from, to)
  BY DEF ScanGaps
<1>5. ~Crash /\ ~(UNCHANGED vars)
  BY DEF Crash, database, vars
<1>6. \/ Commit
      \/ \E published \in BOOLEAN : CommitFails(published)
      \/ \E t \in Hashes \cup {NoHash} : Rollback(t) \/ ReconcileFails(t)
  BY <1>1, <1>2, <1>3, <1>4, <1>5 DEF Next
<1>7. CASE Commit
  BY <1>7 DEF Commit
<1>8. ASSUME NEW published \in BOOLEAN, CommitFails(published)
      PROVE  pc = "commit" /\ tip' = Candidate /\ (mode # "repair" \/ UNCHANGED selected)
  BY <1>8 DEF CommitFails, Finish
<1>9. ASSUME NEW t \in Hashes \cup {NoHash}, Rollback(t) \/ ReconcileFails(t)
      PROVE  pc = "rollback" /\ tip' \in Target
  BY <1>9 DEF Rollback, ReconcileFails
<1> QED
  BY <1>6, <1>7, <1>8, <1>9

\* A repair publishes only selected heights and never takes the tip back; a
\* reorganisation goes to a block of the published chain within the bound.
THEOREM TipMoves == Spec => TipMovesByRule
<1>1. ASSUME IInv, [Next]_vars, mode = "repair", tip' # tip
      PROVE  tip' # NoHash /\ NumberOf[tip'] = NextHeight /\ NumberOf[tip'] \in selected
  <2>1. pc = "commit" /\ tip' = Candidate
    BY <1>1, TipSteps DEF IInv, Control
  <2>2. Candidate \in Hashes /\ NumberOf[Candidate] = NextHeight
    BY <1>1, <2>1, CandidateFacts
  <2>3. RepairHeight = NextHeight /\ RepairHeight \in selected
    BY <1>1, <2>1, RepairHeightFacts DEF IInv, RepairTarget, WorkOK
  <2> QED
    BY <2>1, <2>2, <2>3, IngestionAssumption
<1>2. ASSUME IInv, [Next]_vars, tip # NoHash, tip' # tip,
             tip' = NoHash \/ NumberOf[tip'] <= TipHeight
      PROVE  /\ tip' # NoHash => tip' \in Chain[tip] /\ TipHeight - NumberOf[tip'] <= ReorgDepth
             /\ tip' = NoHash => TipHeight - Start < ReorgDepth
  <2>1. TipHeight \in Int /\ NextHeight = TipHeight + 1
    BY <1>2, InvFacts
  <2>2. pc = "rollback" /\ tip' \in Target
    <3>1. ~(pc = "commit" /\ tip' = Candidate)
      BY <1>2, <2>1, CandidateFacts, IngestionAssumption
    <3> QED
      BY <1>2, <3>1, TipSteps
  <2>3. /\ tip' = NoHash => TipHeight - Start < ReorgDepth
        /\ tip' # NoHash => tip' \in Chain[tip] /\ NumberOf[tip'] \in Floor .. TipHeight
    BY <1>2, <2>2, TargetFacts
  <2>4. Floor \in Int /\ TipHeight - ReorgDepth <= Floor
    BY <2>1, IngestionAssumption DEF Floor
  <2>5. ASSUME tip' # NoHash PROVE TipHeight - NumberOf[tip'] <= ReorgDepth
    <3>1. NumberOf[tip'] \in Int /\ Floor <= NumberOf[tip']
      BY <2>3, <2>4, <2>5
    <3> QED
      BY <2>1, <2>4, <3>1, IngestionAssumption
  <2> QED
    BY <2>3, <2>5
<1>3. IInv /\ [Next]_vars =>
        ((mode = "repair" /\ tip' # tip) =>
           tip' # NoHash /\ NumberOf[tip'] = NextHeight /\ NumberOf[tip'] \in selected)
  BY <1>1
<1>4. IInv /\ [Next]_vars =>
        ((tip # NoHash /\ tip' # tip /\ (tip' = NoHash \/ NumberOf[tip'] <= TipHeight)) =>
           /\ tip' # NoHash => tip' \in Chain[tip] /\ TipHeight - NumberOf[tip'] <= ReorgDepth
           /\ tip' = NoHash => TipHeight - Start < ReorgDepth)
  BY <1>2
<1>5. Spec => RepairStaysSelected
  BY <1>3, InvariantHolds, PTL DEF Spec, RepairStaysSelected
<1>6. Spec => RollbacksAreBounded
  BY <1>4, InvariantHolds, PTL DEF Spec, RollbacksAreBounded
<1> QED
  BY <1>5, <1>6 DEF TipMovesByRule

\* How the record of a height changes its status: its height is published and it is
\* closed, an operator marks a gap or repairs it, or an attempt is counted, which
\* leaves a dead letter where it is.
StatusStep(n) ==
  \/ failures'[n].status = failures[n].status
  \/ failures'[n].status = "resolved" /\ Canonical(n)
  \/ failures'[n].status = "gap"
  \/ failures'[n].status \in {"retry", "dead_letter"} /\ failures[n].status # "dead_letter"
  \/ /\ failures'[n].status = "repairing" /\ mode = "repair"
     /\ BeginRepair /\ n = RepairHeight

LEMMA CountedStatus ==
  ASSUME Sound(failures), NEW m \in Heights, NEW counted \in BOOLEAN,
         failures' = Recorded(m, counted), NEW n \in Heights
  PROVE  StatusStep(n)
<1>1. /\ n # m => failures'[n] = failures[n]
      /\ failures'[m].status \in {"retry", "dead_letter"}
      /\ failures[m].status = "dead_letter" => failures'[m].status = "dead_letter"
  BY RecordedSound
<1> QED
  BY <1>1 DEF StatusStep

LEMMA ResolvedStatus ==
  ASSUME Sound(failures), NEW m \in Heights, NEW counted \in BOOLEAN, Canonical(m),
         failures' = Resolved(m, counted), NEW n \in Heights
  PROVE  StatusStep(n)
<1>1. n # m => failures'[n] = failures[n]
  BY ResolvedSound
<1>2. failures'[m].status = failures[m].status \/ failures'[m].status = "resolved"
  BY DEF Resolved, Sound
<1> QED
  BY <1>1, <1>2 DEF StatusStep

LEMMA GatedStatus ==
  ASSUME Sound(failures), NEW m \in Heights, failures' = Gated(m), NEW n \in Heights
  PROVE  StatusStep(n)
<1>1. /\ n # m => failures'[n] = failures[n]
      /\ failures'[m] = failures[m] \/ failures'[m].status = "dead_letter"
  BY GatedSound
<1> QED
  BY <1>1 DEF StatusStep

LEMMA RecordSteps ==
  ASSUME IInv, [Next]_vars, NEW n \in Heights
  PROVE  StatusStep(n)
<1>1. /\ Sound(failures) /\ NextHeight \in Heights /\ Automatic \in BOOLEAN /\ TipOK
      /\ pc \in {"block", "commit"} => NumberOf[Candidate] = NextHeight
  BY InvFacts, CandidateFacts DEF Automatic
<1>2. selected # {} => RepairHeight \in Heights
  BY RepairHeightFacts DEF IInv, WorkOK
<1>3. CASE failures' = failures
  BY <1>3 DEF StatusStep
<1>4. CASE failures' = Recovered
  BY <1>1, <1>4, RecoveredSound DEF StatusStep
<1>5. ASSUME NEW T, failures' = Gaps(T) PROVE StatusStep(n)
  BY <1>1, <1>5, GapsSound DEF StatusStep
<1>6. ASSUME NEW m \in Heights, Settle(m) PROVE StatusStep(n)
  BY <1>1, <1>6, ResolvedStatus DEF Settle, Unsettled
<1>7. CASE WaitAtGate \/ BlockGated
  BY <1>1, <1>7, GatedStatus DEF WaitAtGate, BlockGated
<1>8. CASE TrySource \/ FetchFails \/ PrepareFails
  BY <1>1, <1>3, <1>8, CountedStatus DEF TrySource, FetchFails, PrepareFails, NextSource
<1>9. ASSUME NEW t, ReconcileFails(t) PROVE StatusStep(n)
  BY <1>1, <1>3, <1>9, CountedStatus DEF ReconcileFails
<1>10. ASSUME NEW published \in BOOLEAN, CommitFails(published) PROVE StatusStep(n)
  BY <1>1, <1>3, <1>10, CountedStatus DEF CommitFails
<1>11. CASE Committed
  <2>1. TipHeight \in Heights /\ Canonical(TipHeight)
    BY <1>1, <1>11, HeightFacts, CanonicalFacts DEF Committed, IInv, Positions
  <2> QED
    BY <1>1, <1>11, <2>1, ResolvedStatus DEF Committed
<1>12. CASE AlreadyCanonical
  BY <1>1, <1>2, <1>12, ResolvedStatus DEF AlreadyCanonical, Healthy
<1>13. CASE BeginRepair
  <2>1. mode = "repair" /\ RepairHeight \in Heights /\ failures' = Repairing(RepairHeight)
    BY <1>2, <1>13 DEF BeginRepair, IInv, Control
  <2> QED
    BY <1>1, <1>13, <2>1, RepairingSound DEF StatusStep
<1>14. CASE Outcome
  <2>1. RepairHeight \in Heights
    BY <1>2, <1>14 DEF Outcome, IInv, Control, RepairTarget
  <2> QED
    BY <1>1, <1>3, <1>14, <2>1, ResolvedStatus, CountedStatus DEF Outcome, Healthy
<1>15. ASSUME NEW m \in Heights, RetryDue(m) PROVE StatusStep(n)
  BY <1>1, <1>15 DEF RetryDue, StatusStep, Sound, Record
<1>16. ASSUME Advance PROVE StatusStep(n)
  <2>1. \/ failures' = failures
        \/ \E m \in Heights : Settle(m)
        \/ WaitAtGate \/ BlockGated \/ TrySource \/ FetchFails \/ PrepareFails
        \/ \E t \in Hashes \cup {NoHash} : ReconcileFails(t)
        \/ Committed \/ AlreadyCanonical \/ HistoricalGap \/ BeginRepair \/ Outcome
    BY <1>16 DEF Advance, StartWork, PassGate, LeaveSources, ChainAgrees, LeaveTip, SearchOn,
       FindAncestor, Rollback, NothingConfirmed, Fetch, Prepare, Commit, EndRepair, database
  <2> QED
    BY <1>3, <1>5, <1>6, <1>7, <1>8, <1>9, <1>11, <1>12, <1>13, <1>14, <2>1 DEF HistoricalGap
<1>17. ASSUME Environment PROVE StatusStep(n)
  BY <1>3, <1>15, <1>17 DEF Environment, ViewChanges, LoseRows, CooldownElapses, database
<1>18. CASE UNCHANGED vars \/ Crash
  BY <1>3, <1>18 DEF vars, Crash, database
<1>19. \A m, heights : StartIngest(m) \/ StartRepair(heights) => StatusStep(n)
  BY <1>4 DEF StartIngest, StartRepair
<1>20. \A from, to : ScanGaps(from, to) => StatusStep(n)
  BY <1>5 DEF ScanGaps
<1> QED
  BY <1>10, <1>16, <1>17, <1>18, <1>19, <1>20 DEF Next

\* The record in repair is that of the running repair's height, and there is none
\* while it selects the next height.
RepairsOK ==
  /\ OneRepair
  /\ mode = "repair" => InRepair \subseteq (IF pc = "select" THEN {} ELSE {RepairHeight})

\* A command goes on with the heights it has, unless it starts, ends, or has done one.
LEMMA CommandSteps ==
  ASSUME IInv, [Next]_vars
  PROVE  \/ mode' = "none"
         \/ mode' = mode /\ selected' = selected /\ (pc' = "select" => pc = "select")
         \/ failures' = Recovered
         \/ AlreadyCanonical /\ pc' = "select"
         \/ Outcome /\ Healthy(RepairHeight)
<1>1. ASSUME Advance
      PROVE  \/ mode' = "none"
             \/ mode' = mode /\ selected' = selected /\ (pc' = "select" => pc = "select")
             \/ AlreadyCanonical /\ pc' = "select"
             \/ Outcome /\ Healthy(RepairHeight)
  BY <1>1 DEF Advance, Settle, StartWork, PassGate, WaitAtGate, TrySource, LeaveSources,
     ChainAgrees, LeaveTip, SearchOn, FindAncestor, Rollback, ReconcileFails, NothingConfirmed,
     Fetch, FetchFails, Prepare, PrepareFails, NextSource, BlockGated, Commit, Committed,
     AlreadyCanonical, HistoricalGap, BeginRepair, EndRepair, Outcome, Idle, Finish, process
<1>2. ASSUME Environment
      PROVE  mode' = mode /\ selected' = selected /\ pc' = pc
  BY <1>2 DEF Environment, ViewChanges, LoseRows, RetryDue, CooldownElapses, process
<1>3. \A published : CommitFails(published) =>
        \/ mode' = "none"
        \/ mode' = mode /\ selected' = selected /\ pc' = "outcome"
  BY DEF CommitFails, Finish, Idle
<1>4. \A m : StartIngest(m) \/ StartRepair(m) => failures' = Recovered
  BY DEF StartIngest, StartRepair
<1>5. \A from, to : ScanGaps(from, to) => mode' = mode /\ selected' = selected /\ pc' = pc
  BY DEF ScanGaps, process
<1>6. Crash => mode' = "none"
  BY DEF Crash, Idle
<1>7. UNCHANGED vars => mode' = mode /\ selected' = selected /\ pc' = pc
  BY DEF vars, process
<1> QED
  BY <1>1, <1>2, <1>3, <1>4, <1>5, <1>6, <1>7 DEF Next

LEMMA NextRepairs == IInv /\ RepairsOK /\ [Next]_vars => RepairsOK'
<1> SUFFICES ASSUME IInv, RepairsOK, [Next]_vars PROVE RepairsOK'
  OBVIOUS
<1>1. /\ Sound(failures) /\ (selected # {} => RepairHeight \in Heights)
      /\ mode \in {"none", "ingest", "once", "repair"}
  BY InvFacts, RepairHeightFacts DEF IInv, WorkOK, PlaceOK
<1>2. \A n \in InRepair' : n \in InRepair \/ (BeginRepair /\ n = RepairHeight)
  BY RecordSteps DEF InRepair, StatusStep
<1>3. CASE BeginRepair
  <2>1. /\ mode = "repair" /\ pc = "select" /\ pc' = "gate" /\ mode' = mode
        /\ selected' = selected
    BY <1>3 DEF BeginRepair, IInv, Control
  <2> QED
    BY <1>2, <2>1, SelectedKept DEF RepairsOK, OneRepair
<1>4. CASE ~BeginRepair
  <2>1. InRepair' \subseteq InRepair
    BY <1>2, <1>4
  <2>2. CASE mode' = "none"
    BY <2>1, <2>2 DEF RepairsOK, OneRepair
  <2>3. CASE mode' = mode /\ selected' = selected /\ (pc' = "select" => pc = "select")
    BY <1>1, <2>1, <2>3, SelectedKept DEF RepairsOK, OneRepair
  <2>4. CASE failures' = Recovered
    <3>1. InRepair' = {}
      BY <1>1, <2>4, RecoveredSound DEF InRepair
    <3> QED
      BY <3>1 DEF RepairsOK, OneRepair
  <2>5. CASE AlreadyCanonical /\ pc' = "select"
    <3>1. InRepair = {}
      BY <2>5 DEF AlreadyCanonical, IInv, Control, RepairsOK
    <3> QED
      BY <2>1, <3>1 DEF RepairsOK, OneRepair
  <2>6. CASE Outcome /\ Healthy(RepairHeight)
    <3>1. /\ InRepair \subseteq {RepairHeight} /\ RepairHeight \in Heights
          /\ failures' = Resolved(RepairHeight, FALSE)
      BY <1>1, <2>6 DEF Outcome, IInv, Control, RepairTarget, RepairsOK
    <3>2. RepairHeight \notin InRepair'
      BY <1>1, <3>1, ResolvedSound DEF InRepair
    <3>3. InRepair' = {}
      BY <2>1, <3>1, <3>2
    <3> QED
      BY <3>3 DEF RepairsOK, OneRepair
  <2> QED
    BY <2>2, <2>3, <2>4, <2>5, <2>6, CommandSteps
<1> QED
  BY <1>3, <1>4

\* The state is well formed; once the loop runs no height of the published chain has an
\* open failure record, those below a full page of settle_published excepted; and no
\* two records are ever in repair.
THEOREM RecordsAndChainAgree == Spec => []Consistent
<1>1. IInv => TypeOK /\ PublishedIsSettled
  BY IInvTypeOK DEF IInv
<1>2. Init => RepairsOK
  BY DEF Init, NoRecord, RepairsOK, OneRepair, InRepair
<1>3. RepairsOK => OneRepair
  BY DEF RepairsOK
<1>4. Spec => []RepairsOK
  BY <1>2, InvariantHolds, NextRepairs, PTL DEF Spec
<1>5. Spec => [](TypeOK /\ PublishedIsSettled /\ OneRepair)
  BY <1>1, <1>3, <1>4, InvariantHolds, PTL
<1> QED
  BY <1>5 DEF Consistent

\* A record is resolved only when its height is on the published chain at that moment.
THEOREM ResolvedWhenPublished == Spec => ResolvedIsPublished
<1>1. ASSUME IInv, [Next]_vars
      PROVE  \A n \in Heights :
               (failures'[n].status = "resolved" /\ failures[n].status # "resolved") => Canonical(n)
  BY <1>1, RecordSteps DEF StatusStep
<1>2. IInv /\ [Next]_vars =>
        \A n \in Heights :
          (failures'[n].status = "resolved" /\ failures[n].status # "resolved") => Canonical(n)
  BY <1>1
<1> QED
  BY <1>2, InvariantHolds, PTL DEF Spec, ResolvedIsPublished

\* Automatic ingestion neither publishes a height whose record is a dead letter or a
\* gap, nor takes a record out of that state without an operator.
THEOREM DeadLettersRemain == Spec => DeadLettersHold
<1>1. ASSUME IInv, [Next]_vars, tip' # tip, tip' # NoHash, mode \in {"ingest", "once"},
             ParentOf[tip'] = tip
      PROVE  failures[NumberOf[tip']].status \notin {"dead_letter", "gap"}
  <2>1. ~(pc = "rollback" /\ tip' \in Target)
    <3>1. SUFFICES ASSUME pc = "rollback", tip' \in Target PROVE FALSE
      OBVIOUS
    <3>2. tip \in Hashes /\ tip' \in Hashes /\ NumberOf[tip'] <= NumberOf[tip]
      BY <1>1, <3>1, TargetFacts, ChainFacts
    <3>3. NumberOf[tip'] = NumberOf[tip] + 1 /\ NumberOf[tip] \in Nat
      BY <1>1, <3>2, IngestionAssumption
    <3> QED
      BY <3>2, <3>3
  <2>2. pc = "commit" /\ tip' = Candidate
    BY <1>1, <2>1, TipSteps
  <2>3. NumberOf[tip'] = NextHeight
    BY <1>1, <2>2, CandidateFacts
  <2> QED
    BY <1>1, <2>2, <2>3 DEF IInv, Records, Automatic
<1>2. ASSUME IInv, [Next]_vars
      PROVE  \A n \in Heights :
               (failures[n].status = "dead_letter" /\ mode # "repair" /\ failures'[n] # failures[n])
                 => \/ failures'[n].status \in {"dead_letter", "gap"}
                    \/ failures'[n].status = "resolved" /\ Canonical(n)
  BY <1>2, RecordSteps DEF StatusStep
<1>3. IInv /\ [Next]_vars =>
        ((tip' # tip /\ tip' # NoHash /\ mode \in {"ingest", "once"} /\ ParentOf[tip'] = tip) =>
           failures[NumberOf[tip']].status \notin {"dead_letter", "gap"})
  BY <1>1
<1>4. IInv /\ [Next]_vars =>
        \A n \in Heights :
          (failures[n].status = "dead_letter" /\ mode # "repair" /\ failures'[n] # failures[n])
            => \/ failures'[n].status \in {"dead_letter", "gap"}
               \/ failures'[n].status = "resolved" /\ Canonical(n)
  BY <1>2
<1>5. Spec => DeadLettersBlock
  BY <1>3, InvariantHolds, PTL DEF Spec, DeadLettersBlock
<1>6. Spec => DeadLettersStay
  BY <1>4, InvariantHolds, PTL DEF Spec, DeadLettersStay
<1> QED
  BY <1>5, <1>6 DEF DeadLettersHold

=============================================================================
