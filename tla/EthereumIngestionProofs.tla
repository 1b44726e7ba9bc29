---------------------- MODULE EthereumIngestionProofs ----------------------
(***************************************************************************)
(* Proofs about the ingestion of finalized Ethereum blocks, for all        *)
(* chains, heights and bounds: a complete height is whole (SafeInv),       *)
(* complete heights link to each other (StillInv, AloneInv), and only an   *)
(* operator's explicit height leaves a gap below the checkpoint (GapInv).  *)
(* The last part is about what is read of a node that changes its mind      *)
(* (EthereumRpc): a block, and the balances of a wallet.                   *)
(***************************************************************************)
EXTENDS EthereumIngestion, ChainServices, WellFoundedInduction, TLAPS

-----------------------------------------------------------------------------
(* The invariant: complete heights are whole *)

Holding == {"validate", "write", "mark", "read", "advance"}  \* it has fetched its block
AtHeight == {"check", "fetch"} \cup Holding

Command == [pc : {"off", "head"} \cup AtHeight, height : 0 .. Height + 1, last : 0 .. Height,
            block : Blocks \cup {None}, traces : BOOLEAN, at : Nat, table : Nat]

Markers == [Heights -> [block : Blocks \cup {None}, traces : BOOLEAN, at : Nat]]
Checkpoints == [height : 0 .. Height, block : Blocks \cup {None}, at : Nat]

TypeInv == TypeOK /\ proc \in [Processes -> Command]

PlaceInv(p) ==
    /\ proc[p].pc # "off" => proc[p].height # 0
    /\ proc[p].pc \in AtHeight => proc[p].height \in Heights
    /\ proc[p].pc \in Holding => proc[p].block \in Blocks
    /\ proc[p].pc = "write" => proc[p].table \in 1 .. 2
    /\ p = "range" /\ proc[p].pc # "off" => proc[p].height <= proc[p].last /\ proc[p].pc # "head"

BlockRows(p, i) == RowsOf(Tables[i], proc[p].block, proc[p].traces)

\* The tables before the current one are written; the marker follows the last.
RowsInv(p) ==
    /\ proc[p].pc = "write" => \A i \in 1 .. 2 : i < proc[p].table => BlockRows(p, i) \subseteq rows
    /\ proc[p].pc = "mark" => \A i \in 1 .. 2 : BlockRows(p, i) \subseteq rows
    /\ proc[p].pc \in {"read", "advance"} => marker[proc[p].height] # NoMark

\* Neither a mark nor a checkpoint names the empty block.
CheckpointInv ==
    /\ checkpoint # NoCheckpoint => checkpoint.height \in Heights /\ checkpoint.block \in Blocks
    /\ \A h \in Heights : marker[h] # NoMark => marker[h].block \in Blocks

SafeInv == /\ TypeInv /\ MarkedIsWhole /\ CheckpointInv
           /\ \A p \in Processes : PlaceInv(p) /\ RowsInv(p)

-----------------------------------------------------------------------------
(* Lemmas about the operators *)

LEMMA TwoTables ==
  /\ Tables[1] = "transactions" /\ Tables[2] = "address_relationships"
  /\ Len(Tables) = 2 /\ DOMAIN Tables = 1 .. 2
BY DEF Tables

LEMMA HeightTyped == Height \in Nat /\ Heights = 1 .. Height
<1>1. (CHOOSE b \in Branches : TRUE) \in Branches
  BY ChainsShareHeights
<1> QED
  BY <1>1, ChainsShareHeights DEF Height, Heights

LEMMA BlocksServed ==
  ASSUME NEW b \in Branches, NEW h \in Heights
  PROVE  b[h] \in Blocks
BY DEF Blocks

\* The block below a block is the one of its branch.
LEMMA ParentOnBranch ==
  ASSUME NEW b \in Branches, NEW h \in Heights \ {1}
  PROVE  ParentOf(b[h]) = b[h - 1]
<1> DEFINE c == CHOOSE c \in Branches : \E g \in Heights : c[g] = b[h]
           g == CHOOSE g \in Heights : c[g] = b[h]
<1>1. c \in Branches /\ \E i \in Heights : c[i] = b[h]
  OBVIOUS
<1>2. g \in Heights /\ c[g] = b[h]
  BY <1>1
<1>3. g = h /\ \A i \in 1 .. h : c[i] = b[i]
  BY <1>1, <1>2, ChainsShareHeights
<1>4. ParentOf(b[h]) = IF g = 1 THEN "genesis" ELSE c[g - 1]
  BY DEF ParentOf
<1>5. h \in Nat /\ h # 1 /\ h - 1 \in 1 .. h
  BY HeightTyped
<1> QED
  BY <1>3, <1>4, <1>5

\* The marks' timestamps have a bound: no infinite ascent below the height.
LEMMA Bounded ==
  ASSUME NEW f \in [Heights -> Nat]
  PROVE  \E u \in Nat : \A h \in Heights : f[h] <= u
<1> DEFINE Bound(n) == \E u \in Nat : \A h \in 1 .. n : f[h] <= u
           Open == {n \in 0 .. Height : ~Bound(n)}
<1>1. Bound(0)
  BY HeightTyped
<1>2. ASSUME NEW n \in Nat, n + 1 <= Height, Bound(n) PROVE Bound(n + 1)
  <2>1. PICK u \in Nat : \A h \in 1 .. n : f[h] <= u
    BY <1>2
  <2>2. \A h \in 1 .. (n + 1) : h \in Heights /\ f[h] \in Nat
    BY <1>2, HeightTyped
  <2>3. n + 1 \in 1 .. (n + 1) /\ f[n + 1] \in Nat
    BY <2>2
  <2>4. ASSUME NEW h \in 1 .. (n + 1) PROVE f[h] <= u + f[n + 1]
    <3>1. h = n + 1 \/ h \in 1 .. n
      OBVIOUS
    <3>2. f[h] \in Nat
      BY <2>2
    <3>3. CASE h = n + 1
      BY <2>3, <3>3
    <3>4. CASE h \in 1 .. n
      BY <2>1, <2>3, <3>2, <3>4
    <3> QED
      BY <3>1, <3>3, <3>4
  <2>5. u + f[n + 1] \in Nat
    BY <2>3
  <2> QED
    BY <2>4, <2>5
<1> HIDE DEF Bound
<1>3. Open = {}
  <2> SUFFICES ASSUME Open # {} PROVE FALSE
    OBVIOUS
  <2>1. Open \subseteq Nat
    BY HeightTyped
  <2>2. PICK n \in Open : \A m \in Open : ~(<<m, n>> \in OpToRel(<, Nat))
    BY <2>1, NatLessThanWellFounded, WFMin
  <2>3. \A m \in Open : ~(m < n)
    BY <2>1, <2>2 DEF OpToRel
  <2>4. n \in 0 .. Height /\ ~Bound(n) /\ n # 0
    BY <1>1
  <2>5. n - 1 \in Nat /\ n - 1 \in 0 .. Height /\ n - 1 < n /\ (n - 1) + 1 = n /\ n <= Height
    BY <2>4, HeightTyped
  <2>6. Bound(n - 1)
    BY <2>3, <2>5
  <2> QED
    BY <1>2, <2>4, <2>5, <2>6
<1>4. Bound(Height)
  BY <1>3, HeightTyped
<1> QED
  BY <1>4, HeightTyped DEF Bound

\* A set of numbers that is bounded has a greatest one.
LEMMA MaxTyped ==
  ASSUME NEW S \in SUBSET Nat, S # {}, NEW u \in Nat, \A x \in S : x <= u
  PROVE  Max(S) \in S /\ \A x \in S : x <= Max(S)
<1> DEFINE Upper == {n \in Nat : \A x \in S : x <= n}
<1>1. PICK n \in Upper : \A m \in Upper : ~(<<m, n>> \in OpToRel(<, Nat))
  <2>1. Upper \subseteq Nat /\ u \in Upper
    OBVIOUS
  <2> QED
    BY <2>1, NatLessThanWellFounded, WFMin
<1>2. \A m \in Upper : ~(m < n)
  BY <1>1 DEF OpToRel
<1>3. n \in S
  <2> SUFFICES ASSUME n \notin S PROVE FALSE
    OBVIOUS
  <2>1. \A x \in S : x < n /\ x \in Nat /\ n \in Nat
    OBVIOUS
  <2>2. PICK x \in S : TRUE
    OBVIOUS
  <2>3. n - 1 \in Nat
    BY <2>1, <2>2
  <2>4. n - 1 \in Upper /\ n - 1 < n
    BY <2>1, <2>3
  <2> QED
    BY <1>2, <2>4
<1>4. \A x \in S : n >= x
  OBVIOUS
<1> QED
  BY <1>3, <1>4 DEF Max

LEMMA NowTyped ==
  ASSUME TypeInv
  PROVE  Now \in Nat
<1> DEFINE f == [h \in Heights |-> marker[h].at]
           S == {marker[h].at : h \in Heights} \cup {proc[p].at : p \in Processes} \cup {checkpoint.at}
           a == proc["follower"].at
           b == proc["range"].at
<1>1. f \in [Heights -> Nat] /\ a \in Nat /\ b \in Nat /\ checkpoint.at \in Nat
  BY DEF TypeInv, TypeOK, Processes, Command
<1>2. PICK u \in Nat : \A h \in Heights : f[h] <= u
  BY <1>1, Bounded
<1>3. S \in SUBSET Nat /\ S # {} /\ \A x \in S : x <= u + a + b + checkpoint.at
  BY <1>1, <1>2 DEF Processes
<1>4. Max(S) \in S
  <2>1. u + a + b + checkpoint.at \in Nat
    BY <1>1
  <2> HIDE DEF S
  <2> QED
    BY <1>3, <2>1, MaxTyped
<1> QED
  BY <1>3, <1>4 DEF Now

-----------------------------------------------------------------------------
(* Steps that keep the invariant *)

LEMMA TypeFacts ==
  ASSUME TypeInv
  PROVE  /\ node \in [branch : Branches, head : 0 .. Height]
         /\ rows \subseteq AllRows
         /\ marker \in Markers /\ checkpoint \in Checkpoints
         /\ proc \in [Processes -> Command]
         /\ moves \in 0 .. MaxReorgs /\ faults \in 0 .. MaxFaults /\ requested \subseteq Heights
BY DEF TypeInv, TypeOK, Markers, Checkpoints

LEMMA TypeStep ==
  ASSUME TypeInv, node' \in [branch : Branches, head : 0 .. Height],
         rows' \subseteq AllRows,
         marker' \in Markers, checkpoint' \in Checkpoints, proc' \in [Processes -> Command],
         \A p \in Processes : proc'[p].pc # "off" => proc'[p].height # 0,
         moves' \in 0 .. MaxReorgs, faults' \in 0 .. MaxFaults, requested' \subseteq Heights
  PROVE  TypeInv'
<1>1. \A p \in Processes :
         /\ proc'[p].pc \in {"off", "head", "check", "fetch", "validate", "write",
                             "mark", "read", "advance"}
         /\ proc'[p].height \in 0 .. Height + 1
  BY DEF Command, AtHeight, Holding
<1>2. \A p \in Processes : proc'[p].pc # "off" => proc'[p].height > 0
  BY <1>1, HeightTyped
<1> QED
  BY <1>1, <1>2 DEF TypeInv, TypeOK, Markers, Checkpoints

\* Marks are never taken back.
MarksStay == \A h \in Heights : marker[h] # NoMark => marker'[h] # NoMark

LEMMA OtherStable ==
  ASSUME NEW q \in Processes, PlaceInv(q), RowsInv(q), proc'[q] = proc[q],
         rows \subseteq rows', MarksStay
  PROVE  PlaceInv(q)' /\ RowsInv(q)'
<1>1. PlaceInv(q)'
  BY DEF PlaceInv
<1>2. RowsInv(q)'
  BY DEF RowsInv, BlockRows, MarksStay, PlaceInv, AtHeight, Holding
<1> QED
  BY <1>1, <1>2

\* A step of one process that leaves the tables alone.
LEMMA QuietSafe ==
  ASSUME SafeInv, NEW p \in Processes, NEW s \in Command, proc' = [proc EXCEPT ![p] = s],
         UNCHANGED <<node, rows, marker, checkpoint, moves>>,
         faults' \in 0 .. MaxFaults, requested' \subseteq Heights, PlaceInv(p)', RowsInv(p)'
  PROVE  SafeInv'
<1>1. /\ proc' \in [Processes -> Command] /\ proc'[p] = s
      /\ \A q \in Processes \ {p} : proc'[q] = proc[q]
  BY TypeFacts DEF SafeInv
<1>2. \A q \in Processes : proc'[q].pc # "off" => proc'[q].height # 0
  BY <1>1 DEF SafeInv, PlaceInv
<1>3. TypeInv'
  BY <1>1, <1>2, TypeFacts, TypeStep DEF SafeInv
<1>4. MarkedIsWhole' /\ CheckpointInv' /\ MarksStay
  BY DEF SafeInv, MarkedIsWhole, CheckpointInv, MarksStay
<1>5. ASSUME NEW q \in Processes \ {p} PROVE PlaceInv(q)' /\ RowsInv(q)'
  BY <1>1, <1>4, OtherStable DEF SafeInv
<1> QED
  BY <1>3, <1>4, <1>5 DEF SafeInv

LEMMA OffTyped == Off \in Command /\ Off.pc = "off" /\ Off.at = 0 /\ Off.height = 0
BY HeightTyped DEF Off, Command

\* The command ends.
LEMMA EndsSafe ==
  ASSUME SafeInv, NEW p \in Processes, proc' = [proc EXCEPT ![p] = Off],
         UNCHANGED <<node, rows, marker, checkpoint, moves>>,
         faults' \in 0 .. MaxFaults, requested' \subseteq Heights
  PROVE  SafeInv'
<1>1. PlaceInv(p)' /\ RowsInv(p)'
  BY OffTyped, TypeFacts DEF SafeInv, PlaceInv, RowsInv, AtHeight, Holding
<1> QED
  BY <1>1, OffTyped, QuietSafe

\* What follows a block lies within the range of a command.
LEMMA NextBlockTyped ==
  ASSUME SafeInv, NEW p \in Processes, proc[p].pc \in AtHeight
  PROVE  /\ NextBlock(p) \in Command /\ NextBlock(p).at = 0
         /\ \/ NextBlock(p).pc = "off"
            \/ /\ NextBlock(p).height = proc[p].height + 1 /\ NextBlock(p).height # 0
               /\ \/ p = "follower" /\ NextBlock(p).pc = "head"
                  \/ /\ p = "range" /\ NextBlock(p).pc = "check"
                     /\ NextBlock(p).height \in Heights /\ NextBlock(p).height <= NextBlock(p).last
<1> DEFINE s == [Off EXCEPT !.pc = IF p = "range" THEN "check" ELSE "head",
                            !.height = proc[p].height + 1, !.last = proc[p].last]
<1>1. proc[p] \in Command /\ proc[p].height \in Heights /\ proc[p].pc # "off"
  BY TypeFacts DEF SafeInv, PlaceInv, AtHeight, Holding
<1>2. proc[p].height + 1 \in 0 .. Height + 1 /\ proc[p].height + 1 # 0 /\ proc[p].last \in 0 .. Height
  BY <1>1, HeightTyped DEF Command
<1>3. /\ s \in Command /\ s.at = 0 /\ s.height = proc[p].height + 1 /\ s.last = proc[p].last
      /\ s.pc = IF p = "range" THEN "check" ELSE "head"
  BY <1>2, OffTyped DEF Command, AtHeight
<1>4. CASE p = "range" /\ proc[p].height = proc[p].last
  BY <1>4, OffTyped DEF NextBlock
<1>5. CASE p = "range" /\ proc[p].height # proc[p].last
  <2>1. proc[p].height <= proc[p].last
    BY <1>1, <1>5 DEF SafeInv, PlaceInv
  <2>2. proc[p].height + 1 \in Heights /\ proc[p].height + 1 <= proc[p].last
    BY <1>1, <1>2, <1>5, <2>1, HeightTyped
  <2> HIDE DEF s
  <2>3. NextBlock(p) = s
    BY <1>5 DEF NextBlock, s
  <2> QED
    BY <1>2, <1>3, <1>5, <2>2, <2>3
<1>6. CASE p # "range"
  <2>1. p = "follower"
    BY <1>6 DEF Processes
  <2> HIDE DEF s
  <2>2. NextBlock(p) = s
    BY <1>6 DEF NextBlock, s
  <2> QED
    BY <1>2, <1>3, <1>6, <2>1, <2>2
<1> QED
  BY <1>4, <1>5, <1>6

\* A step to the next block, for a step that may store a checkpoint.
LEMMA GoesOn ==
  ASSUME SafeInv, NEW p \in Processes, proc[p].pc \in AtHeight,
         proc' = [proc EXCEPT ![p] = NextBlock(p)]
  PROVE  PlaceInv(p)' /\ RowsInv(p)'
<1>1. proc'[p] = NextBlock(p)
  BY TypeFacts DEF SafeInv
<1> QED
  BY <1>1, NextBlockTyped DEF PlaceInv, RowsInv, AtHeight, Holding


LEMMA RowsTyped ==
  ASSUME NEW i \in 1 .. 2, NEW b \in Blocks, NEW t \in BOOLEAN
  PROVE  RowsOf(Tables[i], b, t) \subseteq AllRows
<1>1. RowsOf(Tables[i], b, t) \subseteq RowsOf(Tables[i], b, TRUE)
  BY DEF RowsOf
<1>2. i \in DOMAIN Tables
  BY TwoTables
<1>3. RowsOf(Tables[i], b, TRUE) \subseteq TableRows(Tables[i])
  BY DEF TableRows
<1>4. TableRows(Tables[i]) \subseteq AllRows
  BY <1>2 DEF AllRows
<1> QED
  BY <1>1, <1>3, <1>4

\* A clock that restarts changes no mark and no checkpoint but for their time.
LEMMA ClockRestarts ==
  ASSUME SafeInv, NEW alone \in BOOLEAN,
         marker' = IF alone THEN [h \in Heights |-> [marker[h] EXCEPT !.at = 0]] ELSE marker,
         checkpoint' = IF alone THEN [checkpoint EXCEPT !.at = 0] ELSE checkpoint
  PROVE  /\ marker' \in Markers /\ checkpoint' \in Checkpoints
         /\ \A h \in Heights : /\ marker'[h].block = marker[h].block
                               /\ marker'[h].traces = marker[h].traces
                               /\ marker'[h] = NoMark <=> marker[h] = NoMark
         /\ checkpoint'.height = checkpoint.height /\ checkpoint'.block = checkpoint.block
         /\ checkpoint' = NoCheckpoint <=> checkpoint = NoCheckpoint
<1>1. marker \in Markers /\ checkpoint \in Checkpoints /\ CheckpointInv
  BY TypeFacts DEF SafeInv
<1>2. CASE ~alone
  BY <1>1, <1>2
<1>3. CASE alone
  <2>1. marker' \in Markers
    BY <1>1, <1>3 DEF Markers
  <2>2. checkpoint' \in Checkpoints /\ checkpoint'.height = checkpoint.height
        /\ checkpoint'.block = checkpoint.block /\ checkpoint'.at = 0
    BY <1>1, <1>3 DEF Checkpoints
  <2>3. ASSUME NEW h \in Heights
        PROVE  /\ marker'[h] = [marker[h] EXCEPT !.at = 0]
               /\ marker[h] \in [block : Blocks \cup {None}, traces : BOOLEAN, at : Nat]
    BY <1>1, <1>3 DEF Markers
  <2>4. ASSUME NEW h \in Heights
        PROVE  /\ marker'[h].block = marker[h].block
               /\ marker'[h].traces = marker[h].traces
               /\ marker'[h] = NoMark <=> marker[h] = NoMark
    <3>1. marker'[h].block = marker[h].block /\ marker'[h].traces = marker[h].traces
      BY <2>3
    <3>2. CASE marker[h] = NoMark
      <4>1. marker'[h] = [NoMark EXCEPT !.at = 0]
        BY <2>3, <3>2
      <4> QED
        BY <3>2, <4>1 DEF NoMark
    <3>3. CASE marker[h] # NoMark
      BY <1>1, <3>1, <3>3, ChainsShareHeights DEF CheckpointInv, NoMark
    <3> QED
      BY <3>1, <3>2, <3>3
  <2>5. CASE checkpoint = NoCheckpoint
    BY <1>3, <2>1, <2>2, <2>4, <2>5 DEF NoCheckpoint
  <2>6. CASE checkpoint # NoCheckpoint
    BY <1>1, <2>1, <2>2, <2>4, <2>6, ChainsShareHeights DEF CheckpointInv, NoCheckpoint
  <2> QED
    BY <2>5, <2>6
<1> QED
  BY <1>2, <1>3

\* The node moves.
LEMMA NodeSafe ==
  ASSUME SafeInv, HeadGrows \/ \E branch \in Branches : BranchChanges(branch)
  PROVE  SafeInv'
<1>1. /\ node' \in [branch : Branches, head : 0 .. Height] /\ moves' \in 0 .. MaxReorgs
      /\ UNCHANGED <<rows, marker, checkpoint, proc, faults, requested>>
  <2>1. node \in [branch : Branches, head : 0 .. Height] /\ moves \in 0 .. MaxReorgs
    BY TypeFacts DEF SafeInv
  <2>2. CASE HeadGrows
    <3>1. node.head + 1 \in 0 .. Height
      BY <2>1, <2>2, HeightTyped DEF HeadGrows
    <3> QED
      BY <2>1, <2>2, <3>1 DEF HeadGrows
  <2>3. ASSUME NEW branch \in Branches, BranchChanges(branch)
        PROVE  /\ node' \in [branch : Branches, head : 0 .. Height] /\ moves' \in 0 .. MaxReorgs
               /\ UNCHANGED <<rows, marker, checkpoint, proc, faults, requested>>
    BY <2>1, <2>3, ChainsShareHeights DEF BranchChanges
  <2> QED
    BY <2>2, <2>3 DEF HeadGrows
<1>2. TypeInv'
  BY <1>1, TypeFacts, TypeStep DEF SafeInv, PlaceInv
<1>3. MarkedIsWhole' /\ CheckpointInv' /\ MarksStay
  BY <1>1 DEF SafeInv, MarkedIsWhole, CheckpointInv, MarksStay
<1>4. \A q \in Processes : PlaceInv(q)' /\ RowsInv(q)'
  BY <1>1, <1>3, OtherStable DEF SafeInv
<1> QED
  BY <1>2, <1>3, <1>4 DEF SafeInv

\* Commands that begin.
LEMMA StartFollowSafe ==
  ASSUME SafeInv, NEW start \in Heights \cup {NoStart}, StartFollow(start)
  PROVE  SafeInv'
<1> DEFINE h == IF start = NoStart THEN FollowStart ELSE start
           s == [Off EXCEPT !.pc = "head", !.height = h]
<1>1. h \in 0 .. Height + 1 /\ h # 0
  BY TypeFacts, HeightTyped, ChainsShareHeights
     DEF SafeInv, CheckpointInv, FollowStart, NoStart, Checkpoints
<1> HIDE DEF h
<1>2. s \in Command /\ s.pc = "head" /\ s.height # 0
  BY <1>1, OffTyped DEF Command
<1>3. requested' \subseteq Heights
  BY TypeFacts DEF SafeInv, StartFollow, NoStart
<1> HIDE DEF s
<1>4. proc' = [proc EXCEPT !["follower"] = s] /\ faults' \in 0 .. MaxFaults
      /\ UNCHANGED <<node, rows, marker, checkpoint, moves>>
  BY TypeFacts DEF StartFollow, SafeInv, s, h
<1>5. PlaceInv("follower")' /\ RowsInv("follower")'
  <2>1. proc'["follower"] = s
    BY <1>4, TypeFacts DEF SafeInv, Processes
  <2> QED
    BY <2>1, <1>2 DEF PlaceInv, RowsInv, AtHeight, Holding
<1> QED
  BY <1>2, <1>3, <1>4, <1>5, QuietSafe DEF Processes

LEMMA StartRangeSafe ==
  ASSUME SafeInv, NEW from \in Heights, NEW to \in Heights, StartRange(from, to)
  PROVE  SafeInv'
<1> DEFINE s == [Off EXCEPT !.pc = "check", !.height = from, !.last = to]
<1>1. /\ s \in Command /\ s.pc = "check" /\ s.height \in Heights /\ s.height # 0
      /\ s.height <= s.last
  <2>1. from \in 0 .. Height + 1 /\ to \in 0 .. Height /\ from # 0 /\ from <= to
    BY HeightTyped DEF StartRange
  <2> QED
    BY <2>1, OffTyped DEF Command, AtHeight
<1>2. requested' \subseteq Heights
  BY TypeFacts DEF SafeInv, StartRange
<1> HIDE DEF s
<1>3. proc' = [proc EXCEPT !["range"] = s] /\ faults' \in 0 .. MaxFaults
      /\ UNCHANGED <<node, rows, marker, checkpoint, moves>>
  BY TypeFacts DEF StartRange, SafeInv, s
<1>4. PlaceInv("range")' /\ RowsInv("range")'
  <2>1. proc'["range"] = s
    BY <1>3, TypeFacts DEF SafeInv, Processes
  <2> QED
    BY <2>1, <1>1 DEF PlaceInv, RowsInv, AtHeight, Holding
<1> QED
  BY <1>1, <1>2, <1>3, <1>4, QuietSafe DEF Processes

\* A step that leaves the tables alone and changes the place of a process.
LEMMA MoveTyped ==
  ASSUME SafeInv, NEW p \in Processes, proc[p].pc # "off",
         NEW pc \in {"check", "fetch", "write", "mark", "read", "advance"}
  PROVE  /\ proc[p] \in Command /\ proc[p].height # 0
         /\ [proc[p] EXCEPT !.pc = pc] \in Command
BY TypeFacts DEF SafeInv, PlaceInv, Command, AtHeight, Holding

LEMMA ReadHeadSafe ==
  ASSUME SafeInv, ReadHead
  PROVE  SafeInv'
<1> DEFINE p == "follower"
           s == [proc[p] EXCEPT !.pc = "check"]
<1>1. p \in Processes /\ proc[p].pc = "head"
  BY DEF ReadHead, Processes
<1>2. s \in Command /\ proc[p].height # 0 /\ proc[p] \in Command
  BY <1>1, MoveTyped
<1>3. proc' = [proc EXCEPT ![p] = s] /\ UNCHANGED <<node, rows, marker, checkpoint, moves>>
      /\ faults' \in 0 .. MaxFaults /\ requested' \subseteq Heights
  BY TypeFacts DEF ReadHead, SafeInv
<1>4. proc[p].height \in Heights
  BY <1>2, TypeFacts, HeightTyped DEF ReadHead, Command, SafeInv
<1>5. PlaceInv(p)' /\ RowsInv(p)'
  <2>1. proc'[p] = s
    BY <1>1, <1>3, TypeFacts DEF SafeInv
  <2>2. s.pc = "check" /\ s.height = proc[p].height
    BY <1>2 DEF Command
  <2> QED
    BY <1>2, <1>4, <2>1, <2>2 DEF PlaceInv, RowsInv, AtHeight, Holding
<1> QED
  BY <1>1, <1>2, <1>3, <1>5, QuietSafe

LEMMA CheckSafe ==
  ASSUME SafeInv, NEW p \in Processes, Check(p)
  PROVE  SafeInv'
<1> DEFINE s == [proc[p] EXCEPT !.pc = "fetch"]
<1>1. proc[p].pc = "check" /\ UNCHANGED <<node, rows, marker, checkpoint, moves>>
      /\ faults' \in 0 .. MaxFaults /\ requested' \subseteq Heights
  BY TypeFacts DEF Check, SafeInv
<1>2. CASE Complete(proc[p].height)
  <2>1. proc' = [proc EXCEPT ![p] = NextBlock(p)]
    BY <1>2 DEF Check
  <2> QED
    BY <1>1, <2>1, GoesOn, NextBlockTyped, QuietSafe DEF AtHeight
<1>3. CASE ~Complete(proc[p].height)
  <2>1. proc' = [proc EXCEPT ![p] = s]
    BY <1>3 DEF Check
  <2>2. s \in Command /\ proc[p] \in Command
    BY <1>1, MoveTyped
  <2>3. s.pc = "fetch" /\ s.height = proc[p].height /\ s.last = proc[p].last
    BY <2>2 DEF Command
  <2>4. PlaceInv(p)' /\ RowsInv(p)'
    <3>1. proc'[p] = s
      BY <2>1, TypeFacts DEF SafeInv
    <3> QED
      BY <1>1, <2>3, <3>1 DEF SafeInv, PlaceInv, RowsInv, AtHeight, Holding
  <2> QED
    BY <1>1, <2>1, <2>2, <2>4, QuietSafe
<1> QED
  BY <1>2, <1>3

LEMMA FetchSafe ==
  ASSUME SafeInv, NEW p \in Processes, Fetch(p)
  PROVE  SafeInv'
<1> DEFINE alone == \A q \in Processes : proc[q].at = 0
           h == proc[p].height
           at == IF alone THEN 1 ELSE Now
<1>1. PICK traces \in TraceOutcomes :
         proc' = [proc EXCEPT ![p] = [proc[p] EXCEPT !.pc = "validate", !.block = node.branch[h],
                                                     !.traces = traces, !.at = at]]
  BY DEF Fetch
<1> DEFINE s == [proc[p] EXCEPT !.pc = "validate", !.block = node.branch[h],
                                !.traces = traces, !.at = at]
<1>2. alone \in BOOLEAN /\ at \in Nat
  BY NowTyped DEF SafeInv
<1>3. traces \in BOOLEAN
  BY ChainsShareHeights DEF TraceOutcomes
<1>4. /\ proc[p].pc = "fetch" /\ UNCHANGED <<node, rows, moves, faults, requested>>
      /\ marker' = IF alone THEN [g \in Heights |-> [marker[g] EXCEPT !.at = 0]] ELSE marker
      /\ checkpoint' = IF alone THEN [checkpoint EXCEPT !.at = 0] ELSE checkpoint
  BY DEF Fetch
<1>5. proc[p] \in Command /\ h \in Heights /\ h # 0 /\ node.branch[h] \in Blocks
  BY <1>4, TypeFacts, BlocksServed DEF SafeInv, PlaceInv, AtHeight, Holding
<1> HIDE DEF alone, at
<1>6. /\ s \in Command /\ s.pc = "validate" /\ s.block \in Blocks /\ s.height = h
      /\ s.last = proc[p].last
  BY <1>2, <1>3, <1>5 DEF Command, AtHeight, Holding
<1>7. /\ marker' \in Markers /\ checkpoint' \in Checkpoints
      /\ \A g \in Heights : /\ marker'[g].block = marker[g].block
                            /\ marker'[g].traces = marker[g].traces
                            /\ marker'[g] = NoMark <=> marker[g] = NoMark
      /\ checkpoint'.height = checkpoint.height /\ checkpoint'.block = checkpoint.block
      /\ checkpoint' = NoCheckpoint <=> checkpoint = NoCheckpoint
  BY <1>2, <1>4, ClockRestarts
<1> HIDE DEF s
<1>8. /\ proc' \in [Processes -> Command] /\ proc'[p] = s
      /\ \A q \in Processes \ {p} : proc'[q] = proc[q]
  BY <1>1, <1>6, TypeFacts DEF SafeInv, s
<1>9. MarkedIsWhole' /\ CheckpointInv' /\ MarksStay
  BY <1>4, <1>7 DEF SafeInv, MarkedIsWhole, CheckpointInv, MarksStay
<1>10. ASSUME NEW q \in Processes PROVE PlaceInv(q)' /\ RowsInv(q)'
  <2>1. CASE q = p
    BY <1>4, <1>5, <1>6, <1>8, <2>1 DEF SafeInv, PlaceInv, RowsInv, AtHeight, Holding
  <2>2. CASE q # p
    BY <1>4, <1>8, <1>9, <2>2, OtherStable DEF SafeInv
  <2> QED
    BY <2>1, <2>2
<1>11. TypeInv'
  BY <1>4, <1>7, <1>8, <1>10, TypeFacts, TypeStep DEF SafeInv, PlaceInv
<1> QED
  BY <1>9, <1>10, <1>11 DEF SafeInv

LEMMA ValidateSafe ==
  ASSUME SafeInv, NEW p \in Processes, Validate(p)
  PROVE  SafeInv'
<1> DEFINE s == [proc[p] EXCEPT !.pc = "write", !.table = 1]
<1>1. proc[p].pc = "validate" /\ UNCHANGED <<node, rows, marker, checkpoint, moves>>
      /\ faults' \in 0 .. MaxFaults /\ requested' \subseteq Heights
      /\ proc' = [proc EXCEPT ![p] = s]
  BY TypeFacts DEF Validate, SafeInv
<1>2. proc[p] \in Command
  BY TypeFacts DEF SafeInv
<1>3. /\ s \in Command /\ s.pc = "write" /\ s.table = 1 /\ s.height = proc[p].height
      /\ s.block = proc[p].block /\ s.last = proc[p].last
  BY <1>2 DEF Command, AtHeight, Holding
<1>4. proc'[p] = s
  BY <1>1, TypeFacts DEF SafeInv
<1> HIDE DEF s
<1>5. PlaceInv(p)' /\ RowsInv(p)'
  BY <1>1, <1>3, <1>4 DEF SafeInv, PlaceInv, RowsInv, AtHeight, Holding
<1> QED
  BY <1>1, <1>3, <1>5, QuietSafe

LEMMA WriteTableSafe ==
  ASSUME SafeInv, NEW p \in Processes, WriteTable(p)
  PROVE  SafeInv'
<1> DEFINE i == proc[p].table
           s == IF i < Len(Tables) THEN [proc[p] EXCEPT !.table = i + 1]
                ELSE [proc[p] EXCEPT !.pc = "mark"]
<1>1. /\ proc[p].pc = "write" /\ UNCHANGED <<node, marker, checkpoint, moves, faults, requested>>
      /\ rows' = rows \cup BlockRows(p, i)
      /\ proc' = [proc EXCEPT ![p] = s]
  BY DEF WriteTable, BlockRows
<1>2. proc[p] \in Command /\ i \in 1 .. 2 /\ proc[p].block \in Blocks /\ proc[p].traces \in BOOLEAN
  BY <1>1, TypeFacts DEF SafeInv, PlaceInv, Holding, Command
<1>3. /\ s \in Command /\ s.height = proc[p].height /\ s.block = proc[p].block
      /\ s.traces = proc[p].traces /\ s.last = proc[p].last
      /\ \/ i = 1 /\ s.pc = "write" /\ s.table = 2
         \/ i = 2 /\ s.pc = "mark"
  BY <1>1, <1>2, TwoTables DEF Command, AtHeight, Holding
<1> HIDE DEF s
<1>4. /\ proc' \in [Processes -> Command] /\ proc'[p] = s
      /\ \A q \in Processes \ {p} : proc'[q] = proc[q]
  BY <1>1, <1>3, TypeFacts DEF SafeInv
<1>5. rows' \subseteq AllRows /\ rows \subseteq rows'
  BY <1>1, <1>2, RowsTyped, TypeFacts DEF SafeInv, BlockRows
<1>6. MarkedIsWhole' /\ CheckpointInv' /\ MarksStay
  BY <1>1 DEF SafeInv, MarkedIsWhole, CheckpointInv, MarksStay
<1>7. PlaceInv(p)'
  BY <1>1, <1>3, <1>4 DEF SafeInv, PlaceInv, AtHeight, Holding
<1>8. RowsInv(p)'
  <2>1. \A j \in 1 .. 2 : BlockRows(p, j)' = BlockRows(p, j)
    BY <1>3, <1>4 DEF BlockRows
  <2>2. \A j \in 1 .. 2 : j <= i => BlockRows(p, j) \subseteq rows'
    BY <1>1, <1>2 DEF SafeInv, RowsInv
  <2> QED
    BY <1>3, <1>4, <2>1, <2>2 DEF RowsInv
<1>9. ASSUME NEW q \in Processes PROVE PlaceInv(q)' /\ RowsInv(q)'
  BY <1>4, <1>5, <1>6, <1>7, <1>8, OtherStable DEF SafeInv
<1>10. TypeInv'
  BY <1>1, <1>4, <1>5, <1>9, TypeFacts, TypeStep DEF SafeInv, PlaceInv
<1> QED
  BY <1>6, <1>9, <1>10 DEF SafeInv

\* The newer of two rows stays, and either is the mark of a whole block.
LEMMA MarkStores ==
  ASSUME SafeInv, NEW p \in Processes, Mark(p)
  PROVE  /\ proc[p].pc = "mark" /\ proc[p].height \in Heights
         /\ MarkedIsWhole' /\ CheckpointInv' /\ MarksStay
         /\ marker' \in Markers /\ marker'[proc[p].height] # NoMark
         /\ \A g \in Heights \ {proc[p].height} : marker'[g] = marker[g]
         /\ \/ marker'[proc[p].height] = marker[proc[p].height] /\ marker[proc[p].height].at > proc[p].at
            \/ /\ marker'[proc[p].height].block = proc[p].block
               /\ marker'[proc[p].height].at = proc[p].at
               /\ ~(marker[proc[p].height].at > proc[p].at)
<1> DEFINE h == proc[p].height
           row == [block |-> proc[p].block, traces |-> proc[p].traces, at |-> proc[p].at]
           m == IF marker[h].at > row.at THEN marker[h] ELSE row
<1>1. /\ proc[p].pc = "mark" /\ UNCHANGED <<node, rows, checkpoint, moves, faults, requested>>
      /\ marker' = [marker EXCEPT ![h] = m]
  BY DEF Mark
<1>2. /\ proc[p] \in Command /\ h \in Heights /\ proc[p].block \in Blocks
      /\ proc[p].traces \in BOOLEAN /\ proc[p].at \in Nat
  BY <1>1, TypeFacts DEF SafeInv, PlaceInv, AtHeight, Holding, Command
<1>3. /\ marker[h] \in [block : Blocks \cup {None}, traces : BOOLEAN, at : Nat]
      /\ marker[h] # NoMark => marker[h].block \in Blocks
  BY <1>2, TypeFacts DEF SafeInv, Markers, CheckpointInv
<1>4. row \in [block : Blocks \cup {None}, traces : BOOLEAN, at : Nat]
  BY <1>2
<1>5. CASE marker[h].at > row.at
  <2>1. m = marker[h]
    BY <1>5
  <2>2. marker[h].at # 0
    BY <1>2, <1>3, <1>5
  <2>3. marker[h] # NoMark
    BY <2>2 DEF NoMark
  <2>4. marker' = marker
    BY <1>1, <2>1, TypeFacts DEF SafeInv, Markers
  <2>5. MarkedIsWhole' /\ CheckpointInv' /\ MarksStay /\ marker' \in Markers /\ marker'[h] # NoMark
    BY <1>1, <2>3, <2>4, TypeFacts DEF SafeInv, MarkedIsWhole, CheckpointInv, MarksStay
  <2> QED
    BY <1>1, <1>2, <1>5, <2>4, <2>5
<1>6. CASE ~(marker[h].at > row.at)
  <2>1. m = row
    BY <1>6
  <2>2. /\ row # NoMark /\ row.block \in Blocks /\ row.block = proc[p].block
        /\ row.traces = proc[p].traces /\ row.at = proc[p].at
    BY <1>2, ChainsShareHeights DEF NoMark
  <2> HIDE DEF row, m
  <2>3. /\ marker' \in Markers /\ marker'[h] = row
        /\ \A g \in Heights \ {h} : marker'[g] = marker[g]
    BY <1>1, <1>2, <1>4, <2>1, TypeFacts DEF SafeInv, Markers
  <2>4. \A i \in DOMAIN Tables : RowsOf(Tables[i], row.block, row.traces) \subseteq rows
    BY <1>1, <2>2, TwoTables DEF SafeInv, RowsInv, BlockRows
  <2>5. MarkedIsWhole'
    BY <1>1, <2>3, <2>4 DEF SafeInv, MarkedIsWhole
  <2>6. CheckpointInv' /\ MarksStay
    BY <1>1, <2>2, <2>3 DEF SafeInv, CheckpointInv, MarksStay
  <2> QED
    BY <1>1, <1>2, <1>6, <2>2, <2>3, <2>5, <2>6
<1> QED
  BY <1>5, <1>6

LEMMA MarkSafe ==
  ASSUME SafeInv, NEW p \in Processes, Mark(p)
  PROVE  SafeInv'
<1> DEFINE h == proc[p].height
           s == [proc[p] EXCEPT !.pc = "read"]
<1>1. /\ proc[p].pc = "mark" /\ UNCHANGED <<node, rows, checkpoint, moves, faults, requested>>
      /\ proc' = [proc EXCEPT ![p] = s]
  BY DEF Mark
<1>2. proc[p] \in Command
  BY TypeFacts DEF SafeInv
<1>3. /\ s \in Command /\ s.height = h /\ s.block = proc[p].block /\ s.last = proc[p].last
      /\ s.pc = "read"
  BY <1>2 DEF Command, AtHeight, Holding
<1> HIDE DEF s
<1>4. /\ proc' \in [Processes -> Command] /\ proc'[p] = s
      /\ \A q \in Processes \ {p} : proc'[q] = proc[q]
  BY <1>1, <1>3, TypeFacts DEF SafeInv
<1>5. MarkedIsWhole' /\ CheckpointInv' /\ MarksStay /\ marker' \in Markers /\ marker'[h] # NoMark
  BY MarkStores
<1>6. PlaceInv(p)' /\ RowsInv(p)'
  BY <1>1, <1>3, <1>4, <1>5 DEF SafeInv, PlaceInv, RowsInv, AtHeight, Holding
<1>7. ASSUME NEW q \in Processes PROVE PlaceInv(q)' /\ RowsInv(q)'
  BY <1>1, <1>4, <1>5, <1>6, OtherStable DEF SafeInv
<1>8. TypeInv'
  BY <1>1, <1>4, <1>5, <1>7, TypeFacts, TypeStep DEF SafeInv, PlaceInv
<1> QED
  BY <1>5, <1>7, <1>8 DEF SafeInv

LEMMA ReadCheckpointSafe ==
  ASSUME SafeInv, NEW p \in Processes, ReadCheckpoint(p)
  PROVE  SafeInv'
<1> DEFINE forward == checkpoint = NoCheckpoint \/ proc[p].height >= checkpoint.height
           s == [proc[p] EXCEPT !.pc = "advance"]
<1>1. proc[p].pc = "read" /\ UNCHANGED <<node, rows, marker, checkpoint, moves>>
      /\ faults' \in 0 .. MaxFaults /\ requested' \subseteq Heights
  BY TypeFacts DEF ReadCheckpoint, SafeInv
<1>2. CASE ~forward
  <2>1. proc' = [proc EXCEPT ![p] = NextBlock(p)]
    BY <1>2 DEF ReadCheckpoint
  <2> QED
    BY <1>1, <2>1, GoesOn, NextBlockTyped, QuietSafe DEF AtHeight, Holding
<1>3. CASE forward
  <2>1. proc' = [proc EXCEPT ![p] = s]
    BY <1>3 DEF ReadCheckpoint
  <2>2. proc[p] \in Command /\ s \in Command
    BY <1>1, MoveTyped
  <2>3. /\ s.pc = "advance" /\ s.height = proc[p].height /\ s.last = proc[p].last
        /\ s.block = proc[p].block
    BY <2>2 DEF Command
  <2>4. PlaceInv(p)' /\ RowsInv(p)'
    <3>1. proc'[p] = s
      BY <2>1, TypeFacts DEF SafeInv
    <3> QED
      BY <1>1, <2>3, <3>1 DEF SafeInv, PlaceInv, RowsInv, AtHeight, Holding
  <2> QED
    BY <1>1, <2>1, <2>2, <2>4, QuietSafe
<1> QED
  BY <1>2, <1>3

LEMMA AdvanceSafe ==
  ASSUME SafeInv, NEW p \in Processes, Advance(p)
  PROVE  SafeInv'
<1> DEFINE row == [height |-> proc[p].height, block |-> proc[p].block, at |-> proc[p].at]
<1>1. /\ proc[p].pc = "advance" /\ UNCHANGED <<node, rows, marker, moves, faults, requested>>
      /\ checkpoint' = IF checkpoint.at > row.at THEN checkpoint ELSE row
      /\ proc' = [proc EXCEPT ![p] = NextBlock(p)]
  BY DEF Advance
<1>2. /\ proc[p] \in Command /\ proc[p].height \in Heights /\ proc[p].block \in Blocks
      /\ proc[p].at \in Nat /\ proc[p].height \in 0 .. Height
  BY <1>1, TypeFacts, HeightTyped DEF SafeInv, PlaceInv, AtHeight, Holding, Command
<1>3. row \in Checkpoints /\ row.height \in Heights /\ row.block \in Blocks
  BY <1>2 DEF Checkpoints
<1> HIDE DEF row
<1>4. checkpoint' \in Checkpoints /\ CheckpointInv' /\ MarkedIsWhole' /\ MarksStay
  BY <1>1, <1>3, TypeFacts DEF SafeInv, CheckpointInv, MarkedIsWhole, MarksStay
<1>5. /\ PlaceInv(p)' /\ RowsInv(p)'
      /\ proc' \in [Processes -> Command] /\ \A q \in Processes \ {p} : proc'[q] = proc[q]
  <2>1. proc[p].pc \in AtHeight
    BY <1>1 DEF AtHeight, Holding
  <2>2. PlaceInv(p)' /\ RowsInv(p)'
    BY <1>1, <2>1, GoesOn
  <2>3. NextBlock(p) \in Command /\ proc \in [Processes -> Command]
    BY <2>1, NextBlockTyped, TypeFacts DEF SafeInv
  <2> QED
    BY <1>1, <2>2, <2>3
<1>6. ASSUME NEW q \in Processes PROVE PlaceInv(q)' /\ RowsInv(q)'
  BY <1>1, <1>4, <1>5, OtherStable DEF SafeInv
<1>7. TypeInv'
  BY <1>1, <1>4, <1>5, <1>6, TypeFacts, TypeStep DEF SafeInv, PlaceInv
<1> QED
  BY <1>4, <1>6, <1>7 DEF SafeInv

LEMMA FailSafe ==
  ASSUME SafeInv, NEW p \in Processes, Fail(p)
  PROVE  SafeInv'
<1>1. /\ proc[p].pc # "off" /\ UNCHANGED <<node, marker, checkpoint, moves, requested>>
      /\ rows' \in {rows, rows \cup InFlight(p)} /\ proc' = [proc EXCEPT ![p] = Off]
  BY DEF Fail
<1>2. faults' \in 0 .. MaxFaults
  BY TypeFacts, ChainsShareHeights DEF SafeInv, Fail
<1>3. InFlight(p) \subseteq AllRows
  <2>1. CASE proc[p].pc = "write"
    <3>1. proc[p].table \in 1 .. 2 /\ proc[p].block \in Blocks /\ proc[p].traces \in BOOLEAN
      BY <2>1, TypeFacts DEF SafeInv, PlaceInv, Holding, Command
    <3> QED
      BY <2>1, <3>1, RowsTyped DEF InFlight
  <2> QED
    BY <2>1 DEF InFlight
<1>4. rows' \subseteq AllRows /\ rows \subseteq rows'
  BY <1>1, <1>3, TypeFacts DEF SafeInv
<1>5. MarkedIsWhole' /\ CheckpointInv' /\ MarksStay
  BY <1>1, <1>4 DEF SafeInv, MarkedIsWhole, CheckpointInv, MarksStay
<1>6. /\ PlaceInv(p)' /\ RowsInv(p)' /\ proc' \in [Processes -> Command]
      /\ \A q \in Processes \ {p} : proc'[q] = proc[q]
  BY <1>1, OffTyped, TypeFacts DEF SafeInv, PlaceInv, RowsInv, AtHeight, Holding
<1>7. ASSUME NEW q \in Processes PROVE PlaceInv(q)' /\ RowsInv(q)'
  BY <1>4, <1>5, <1>6, OtherStable DEF SafeInv
<1>8. TypeInv'
  BY <1>1, <1>2, <1>4, <1>6, <1>7, TypeFacts, TypeStep DEF SafeInv, PlaceInv
<1> QED
  BY <1>5, <1>7, <1>8 DEF SafeInv

LEMMA InitSafe == Init => SafeInv
<1> SUFFICES ASSUME Init PROVE SafeInv
  OBVIOUS
<1>1. /\ node \in [branch : Branches, head : 0 .. Height] /\ rows \subseteq AllRows
      /\ marker \in Markers /\ checkpoint \in Checkpoints /\ checkpoint = NoCheckpoint
      /\ \A h \in Heights : marker[h] = NoMark
      /\ moves \in 0 .. MaxReorgs /\ faults \in 0 .. MaxFaults /\ requested \subseteq Heights
  BY HeightTyped, ChainsShareHeights DEF Init, Markers, Checkpoints, NoMark, NoCheckpoint
<1>2. proc \in [Processes -> Command] /\ \A p \in Processes : proc[p] = Off
  BY OffTyped DEF Init
<1>3. \A p \in Processes : PlaceInv(p) /\ RowsInv(p)
  BY <1>2, OffTyped DEF PlaceInv, RowsInv, AtHeight, Holding
<1>4. TypeInv
  <2>1. \A p \in Processes :
         /\ proc[p].pc \in {"off", "head", "check", "fetch", "validate", "write",
                            "mark", "read", "advance"}
         /\ proc[p].height \in 0 .. Height + 1
         /\ proc[p].pc # "off" => proc[p].height > 0
    BY <1>2, OffTyped, HeightTyped
  <2> QED
    BY <1>1, <1>2, <2>1 DEF TypeInv, TypeOK, Markers, Checkpoints
<1> QED
  BY <1>1, <1>3, <1>4 DEF SafeInv, MarkedIsWhole, CheckpointInv

LEMMA NextSafe == SafeInv /\ [Next]_vars => SafeInv'
<1> SUFFICES ASSUME SafeInv, [Next]_vars PROVE SafeInv'
  OBVIOUS
<1>1. CASE UNCHANGED vars
  <2>1. TypeInv' /\ CheckpointInv'
    BY <1>1 DEF vars, SafeInv, TypeInv, TypeOK, CheckpointInv
  <2>2. MarkedIsWhole' /\ MarksStay
    BY <1>1 DEF vars, SafeInv, MarkedIsWhole, MarksStay
  <2>3. \A p \in Processes : PlaceInv(p)' /\ RowsInv(p)'
    BY <1>1, <2>2, OtherStable DEF vars, SafeInv
  <2> QED
    BY <2>1, <2>2, <2>3 DEF SafeInv
<1>2. CASE HeadGrows \/ \E branch \in Branches : BranchChanges(branch)
  BY <1>2, NodeSafe
<1>3. ASSUME NEW start \in Heights \cup {NoStart}, StartFollow(start) PROVE SafeInv'
  BY <1>3, StartFollowSafe
<1>4. ASSUME NEW from \in Heights, NEW to \in Heights, StartRange(from, to) PROVE SafeInv'
  BY <1>4, StartRangeSafe
<1>5. CASE ReadHead
  BY <1>5, ReadHeadSafe
<1>6. ASSUME NEW p \in Processes, Step(p) \/ Fail(p) PROVE SafeInv'
  <2>1. CASE Conflict(p)
    BY <2>1, EndsSafe, TypeFacts DEF Conflict, SafeInv
  <2> QED
    BY <1>6, <2>1, CheckSafe, FetchSafe, ValidateSafe, WriteTableSafe, MarkSafe,
       ReadCheckpointSafe, AdvanceSafe, FailSafe DEF Step
<1> QED
  BY <1>1, <1>2, <1>3, <1>4, <1>5, <1>6 DEF Next

\* SafeInv holds in every behaviour.
THEOREM SafeInvariant == Spec => []SafeInv
<1> QED
  BY InitSafe, NextSafe, PTL DEF Spec

-----------------------------------------------------------------------------
(* The invariant: gaps were requested *)

\* Below a command's height every block is complete or was jumped over.
ProcGap(p) ==
    proc[p].pc # "off" =>
       \A h \in Start .. proc[p].height - 1 : marker[h] # NoMark
          \/ \E r \in requested : h < r /\ r <= proc[p].height

GapInv == GapsAreRequested /\ \A p \in Processes : ProcGap(p)

\* Marks and requests stay, and with them what is explained.
LEMMA CheckpointGapStays ==
  ASSUME SafeInv, GapsAreRequested, MarksStay, requested \subseteq requested',
         checkpoint'.height = checkpoint.height,
         checkpoint' # NoCheckpoint => checkpoint # NoCheckpoint
  PROVE  GapsAreRequested'
<1> SUFFICES ASSUME checkpoint # NoCheckpoint, NEW h \in Start .. checkpoint.height,
                    marker'[h] = NoMark
             PROVE  \E r \in requested' : h < r /\ r <= checkpoint.height
  BY DEF GapsAreRequested
<1>1. h \in Heights
  BY HeightTyped, ChainsShareHeights DEF SafeInv, CheckpointInv
<1>2. marker[h] = NoMark
  BY <1>1 DEF MarksStay
<1> QED
  BY <1>2 DEF GapsAreRequested

LEMMA ProcGapStays ==
  ASSUME SafeInv, NEW p \in Processes, ProcGap(p), MarksStay, requested \subseteq requested',
         proc'[p].pc # "off" => proc[p].pc # "off" /\ proc'[p].height = proc[p].height
  PROVE  ProcGap(p)'
<1> SUFFICES ASSUME proc'[p].pc # "off", NEW h \in Start .. proc'[p].height - 1,
                    marker'[h] = NoMark
             PROVE  \E r \in requested' : h < r /\ r <= proc'[p].height
  BY DEF ProcGap
<1>1. proc[p].height \in 0 .. Height + 1 /\ proc'[p].height = proc[p].height /\ proc[p].pc # "off"
  BY TypeFacts DEF SafeInv, Command
<1>2. h \in Heights
  BY <1>1, HeightTyped, ChainsShareHeights
<1>3. marker[h] = NoMark
  BY <1>2 DEF MarksStay
<1> QED
  BY <1>1, <1>3 DEF ProcGap

LEMMA NextGapHolds ==
  ASSUME SafeInv, NEW p \in Processes, ProcGap(p), UNCHANGED marker,
         proc[p].pc \in AtHeight, marker[proc[p].height] # NoMark,
         requested \subseteq requested', proc' = [proc EXCEPT ![p] = NextBlock(p)]
  PROVE  ProcGap(p)'
<1>1. proc'[p] = NextBlock(p)
  BY TypeFacts DEF SafeInv
<1>2. proc[p].height \in Heights /\ proc[p].pc # "off"
  BY DEF SafeInv, PlaceInv, AtHeight, Holding
<1> SUFFICES ASSUME proc'[p].pc # "off", NEW h \in Start .. proc'[p].height - 1,
                    marker'[h] = NoMark
             PROVE  \E r \in requested' : h < r /\ r <= proc'[p].height
  BY DEF ProcGap
<1>3. proc'[p].height = proc[p].height + 1
  BY <1>1, NextBlockTyped
<1>4. h \in Start .. proc[p].height - 1
  BY <1>2, <1>3, HeightTyped, ChainsShareHeights
<1>5. PICK r \in requested : h < r /\ r <= proc[p].height
  BY <1>2, <1>4 DEF ProcGap
<1>6. r \in Nat
  BY HeightTyped, TypeFacts DEF SafeInv
<1> QED
  BY <1>2, <1>3, <1>5, <1>6, HeightTyped

\* A step of a process that stays at its block or ends.
StaysOrEnds(p) ==
    /\ \A q \in Processes \ {p} : proc'[q] = proc[q]
    /\ proc'[p].pc # "off" => proc[p].pc # "off" /\ proc'[p].height = proc[p].height

LEMMA GapStays ==
  ASSUME SafeInv, GapInv, MarksStay, requested \subseteq requested',
         checkpoint'.height = checkpoint.height,
         checkpoint' # NoCheckpoint => checkpoint # NoCheckpoint,
         NEW p \in Processes, StaysOrEnds(p)
  PROVE  GapInv'
<1>1. GapsAreRequested'
  BY CheckpointGapStays DEF GapInv
<1>2. \A q \in Processes : ProcGap(q)'
  BY ProcGapStays DEF GapInv, StaysOrEnds
<1> QED
  BY <1>1, <1>2 DEF GapInv

LEMMA StartGap ==
  ASSUME SafeInv, GapInv, NEW p \in Processes, UNCHANGED <<marker, checkpoint>>,
         requested \subseteq requested', \A q \in Processes \ {p} : proc'[q] = proc[q],
         \/ proc'[p].height \in requested' \cap Heights
         \/ checkpoint = NoCheckpoint /\ proc'[p].height = Start
         \/ checkpoint # NoCheckpoint /\ proc'[p].height = checkpoint.height + 1
  PROVE  GapInv'
<1>1. GapsAreRequested' /\ MarksStay
  BY CheckpointGapStays DEF GapInv, MarksStay
<1>2. \A q \in Processes \ {p} : ProcGap(q)'
  BY <1>1, ProcGapStays DEF GapInv
<1>3. ASSUME NEW h \in Start .. proc'[p].height - 1, marker'[h] = NoMark
      PROVE  \E r \in requested' : h < r /\ r <= proc'[p].height
  <2>1. CASE proc'[p].height \in requested' \cap Heights
    BY <2>1, HeightTyped, ChainsShareHeights
  <2>2. CASE checkpoint = NoCheckpoint /\ proc'[p].height = Start
    BY <2>2, HeightTyped, ChainsShareHeights
  <2>3. CASE checkpoint # NoCheckpoint /\ proc'[p].height = checkpoint.height + 1
    <3>1. checkpoint.height \in Heights
      BY <2>3 DEF SafeInv, CheckpointInv
    <3>2. h \in Start .. checkpoint.height
      BY <2>3, <3>1, HeightTyped, ChainsShareHeights
    <3>3. PICK r \in requested : h < r /\ r <= checkpoint.height
      BY <1>3, <2>3, <3>2 DEF GapInv, GapsAreRequested
    <3>4. r \in Nat
      BY HeightTyped, TypeFacts DEF SafeInv
    <3> QED
      BY <2>3, <3>1, <3>3, <3>4, HeightTyped
  <2> QED
    BY <2>1, <2>2, <2>3
<1>4. ProcGap(p)'
  BY <1>3 DEF ProcGap
<1> QED
  BY <1>1, <1>2, <1>4 DEF GapInv

LEMMA NextBlockGap ==
  ASSUME SafeInv, GapInv, NEW p \in Processes, UNCHANGED <<marker, checkpoint, requested>>,
         proc[p].pc \in AtHeight, marker[proc[p].height] # NoMark,
         proc' = [proc EXCEPT ![p] = NextBlock(p)]
  PROVE  GapInv'
<1>1. GapsAreRequested' /\ MarksStay
  BY CheckpointGapStays DEF GapInv, MarksStay
<1>2. ProcGap(p)'
  BY NextGapHolds DEF GapInv
<1>3. \A q \in Processes \ {p} : ProcGap(q)'
  BY <1>1, ProcGapStays, TypeFacts DEF GapInv, SafeInv
<1> QED
  BY <1>1, <1>2, <1>3 DEF GapInv

LEMMA AdvanceGap ==
  ASSUME SafeInv, GapInv, NEW p \in Processes, Advance(p)
  PROVE  GapInv'
<1> DEFINE row == [height |-> proc[p].height, block |-> proc[p].block, at |-> proc[p].at]
<1>1. /\ proc[p].pc = "advance" /\ UNCHANGED <<marker, requested>>
      /\ checkpoint' = IF checkpoint.at > row.at THEN checkpoint ELSE row
      /\ proc' = [proc EXCEPT ![p] = NextBlock(p)]
  BY DEF Advance
<1>2. proc[p].pc \in AtHeight /\ marker[proc[p].height] # NoMark /\ proc[p].height \in Heights
  BY <1>1 DEF SafeInv, RowsInv, PlaceInv, AtHeight, Holding
<1>3. ProcGap(p)' /\ MarksStay
  BY <1>1, <1>2, NextGapHolds DEF GapInv, MarksStay
<1>4. \A q \in Processes \ {p} : ProcGap(q)'
  BY <1>1, <1>3, ProcGapStays, TypeFacts DEF GapInv, SafeInv
<1>5. GapsAreRequested'
  <2>1. CASE checkpoint' = checkpoint
    BY <1>1, <1>3, <2>1, CheckpointGapStays DEF GapInv
  <2>2. CASE checkpoint' # checkpoint
    <3>1. checkpoint'.height = proc[p].height
      BY <1>1, <2>2
    <3> SUFFICES ASSUME NEW h \in Start .. proc[p].height, marker[h] = NoMark
                 PROVE  \E r \in requested : h < r /\ r <= proc[p].height
      BY <1>1, <3>1 DEF GapsAreRequested
    <3>2. h \in Start .. proc[p].height - 1
      BY <1>2, HeightTyped, ChainsShareHeights
    <3> QED
      BY <1>1, <3>2 DEF GapInv, ProcGap
  <2> QED
    BY <2>1, <2>2
<1> QED
  BY <1>3, <1>4, <1>5 DEF GapInv

LEMMA NextGap == SafeInv /\ GapInv /\ [Next]_vars => GapInv'
<1> SUFFICES ASSUME SafeInv, GapInv, [Next]_vars PROVE GapInv'
  OBVIOUS
<1>0. proc \in [Processes -> Command]
  BY TypeFacts DEF SafeInv
<1>1. ASSUME UNCHANGED <<marker, checkpoint, requested, proc>> PROVE GapInv'
  BY <1>1, GapStays DEF StaysOrEnds, MarksStay, Processes
<1>2. CASE UNCHANGED vars
  BY <1>1, <1>2 DEF vars
<1>3. CASE HeadGrows \/ \E branch \in Branches : BranchChanges(branch)
  BY <1>1, <1>3 DEF HeadGrows, BranchChanges
<1>4. ASSUME NEW start \in Heights \cup {NoStart}, StartFollow(start) PROVE GapInv'
  <2>1. /\ UNCHANGED <<marker, checkpoint>> /\ requested' = requested \cup ({start} \ {NoStart})
        /\ \A q \in Processes \ {"follower"} : proc'[q] = proc[q]
        /\ proc'["follower"].height = IF start = NoStart THEN FollowStart ELSE start
    BY <1>0, <1>4, OffTyped DEF StartFollow, Command, Processes
  <2> QED
    BY <2>1, StartGap DEF FollowStart, Processes
<1>5. ASSUME NEW from \in Heights, NEW to \in Heights, StartRange(from, to) PROVE GapInv'
  <2>1. /\ UNCHANGED <<marker, checkpoint>> /\ requested' = requested \cup {from}
        /\ \A q \in Processes \ {"range"} : proc'[q] = proc[q]
        /\ proc'["range"].height = from
    BY <1>0, <1>5, OffTyped DEF StartRange, Command, Processes
  <2> QED
    BY <2>1, StartGap DEF Processes
<1>6. CASE ReadHead
  BY <1>0, <1>6, GapStays DEF ReadHead, StaysOrEnds, MarksStay, Processes, Command
<1>7. ASSUME NEW p \in Processes, Check(p) PROVE GapInv'
  <2>1. CASE Complete(proc[p].height)
    BY <1>7, <2>1, NextBlockGap DEF Check, Complete, AtHeight
  <2>2. CASE ~Complete(proc[p].height)
    BY <1>0, <1>7, <2>2, GapStays DEF Check, StaysOrEnds, MarksStay, Command
  <2> QED
    BY <2>1, <2>2
<1>8. ASSUME NEW p \in Processes, Fetch(p) PROVE GapInv'
  <2> DEFINE alone == \A q \in Processes : proc[q].at = 0
  <2>1. PICK traces \in TraceOutcomes :
           proc' = [proc EXCEPT ![p] = [proc[p] EXCEPT !.pc = "validate",
                      !.block = node.branch[proc[p].height], !.traces = traces,
                      !.at = IF alone THEN 1 ELSE Now]]
    BY <1>8 DEF Fetch
  <2>2. StaysOrEnds(p)
    BY <1>0, <1>8, <2>1 DEF StaysOrEnds, Command, Fetch
  <2>3. /\ requested' = requested /\ alone \in BOOLEAN
        /\ marker' = IF alone THEN [h \in Heights |-> [marker[h] EXCEPT !.at = 0]] ELSE marker
        /\ checkpoint' = IF alone THEN [checkpoint EXCEPT !.at = 0] ELSE checkpoint
    BY <1>8 DEF Fetch
  <2> HIDE DEF alone
  <2>4. MarksStay /\ checkpoint'.height = checkpoint.height
        /\ (checkpoint' = NoCheckpoint <=> checkpoint = NoCheckpoint)
    BY <2>3, ClockRestarts DEF MarksStay
  <2> QED
    BY <2>2, <2>3, <2>4, GapStays
<1>9. ASSUME NEW p \in Processes, Validate(p) \/ Conflict(p) \/ WriteTable(p) \/ Fail(p) PROVE GapInv'
  BY <1>0, <1>9, GapStays, OffTyped
     DEF Validate, Conflict, WriteTable, Fail, StaysOrEnds, MarksStay, Command
<1>10. ASSUME NEW p \in Processes, Mark(p) PROVE GapInv'
  BY <1>0, <1>10, GapStays, MarkStores DEF Mark, StaysOrEnds, Command
<1>11. ASSUME NEW p \in Processes, ReadCheckpoint(p) PROVE GapInv'
  <2>1. CASE checkpoint = NoCheckpoint \/ proc[p].height >= checkpoint.height
    BY <1>0, <1>11, <2>1, GapStays DEF ReadCheckpoint, StaysOrEnds, MarksStay, Command
  <2>2. CASE ~(checkpoint = NoCheckpoint \/ proc[p].height >= checkpoint.height)
    <3>1. proc[p].pc \in AtHeight /\ marker[proc[p].height] # NoMark
      BY <1>11 DEF ReadCheckpoint, SafeInv, RowsInv, AtHeight, Holding
    <3> QED
      BY <1>11, <2>2, <3>1, NextBlockGap DEF ReadCheckpoint
  <2> QED
    BY <2>1, <2>2
<1>12. ASSUME NEW p \in Processes, Advance(p) PROVE GapInv'
  BY <1>12, AdvanceGap
<1> QED
  BY <1>2, <1>3, <1>4, <1>5, <1>6, <1>7, <1>8, <1>9, <1>10, <1>11, <1>12 DEF Next, Step

\* Below the checkpoint only an operator's explicit height leaves a block out:
\* no crash, failure or interleaving of the follower with a range does.
THEOREM GapsExplained == Spec => []GapsAreRequested
<1>1. Init => GapInv
  BY OffTyped DEF Init, GapInv, GapsAreRequested, ProcGap
<1>2. GapInv => GapsAreRequested
  BY DEF GapInv
<1> QED
  BY <1>1, <1>2, SafeInvariant, NextGap, PTL DEF Spec

-----------------------------------------------------------------------------
(* The invariant: complete heights link to each other *)

\* While the node never replaced a block, everything is of its one branch.
Still ==
    /\ \A h \in Heights : marker[h] # NoMark => marker[h].block = node.branch[h]
    /\ \A p \in Processes : proc[p].pc \in Holding => proc[p].block = node.branch[proc[p].height]
    /\ checkpoint # NoCheckpoint =>
          marker[checkpoint.height] # NoMark /\ checkpoint.block = node.branch[checkpoint.height]
StillInv == moves = 0 => Still

\* What is complete and what the checkpoint names, but for times.
SameHistory ==
    /\ \A h \in Heights : /\ marker'[h].block = marker[h].block
                          /\ marker'[h] = NoMark <=> marker[h] = NoMark
    /\ checkpoint'.height = checkpoint.height /\ checkpoint'.block = checkpoint.block
    /\ checkpoint' = NoCheckpoint <=> checkpoint = NoCheckpoint

LEMMA StillStays ==
  ASSUME SafeInv, Still, node'.branch = node.branch, SameHistory,
         \A p \in Processes : proc'[p].pc \in Holding =>
            proc'[p].block = node.branch[proc'[p].height]
  PROVE  Still'
<1>1. checkpoint # NoCheckpoint => checkpoint.height \in Heights
  BY DEF SafeInv, CheckpointInv
<1> QED
  BY <1>1 DEF Still, SameHistory

\* A process that holds a block after a step held it before.
StillHolds ==
    \A p \in Processes : proc'[p].pc \in Holding =>
       /\ proc[p].pc \in Holding
       /\ proc'[p].block = proc[p].block /\ proc'[p].height = proc[p].height

\* Most steps leave the history alone and fetch nothing.
QuietStep ==
    UNCHANGED <<marker, checkpoint, moves>> /\ node'.branch = node.branch /\ StillHolds

LEMMA QuietStill ==
  ASSUME SafeInv, StillInv, QuietStep
  PROVE  StillInv'
<1> SUFFICES ASSUME moves' = 0 PROVE Still'
  BY DEF StillInv
<1>1. Still
  BY DEF StillInv, QuietStep
<1>2. SameHistory
  BY DEF SameHistory, QuietStep
<1>3. \A p \in Processes : proc'[p].pc \in Holding => proc'[p].block = node.branch[proc'[p].height]
  BY <1>1 DEF Still, QuietStep, StillHolds
<1> QED
  BY <1>1, <1>2, <1>3, StillStays DEF QuietStep

\* Which steps these are.
LEMMA QuietSteps ==
  ASSUME SafeInv,
         \/ UNCHANGED vars \/ HeadGrows \/ ReadHead
         \/ \E start \in Heights \cup {NoStart} : StartFollow(start)
         \/ \E from, to \in Heights : StartRange(from, to)
         \/ \E p \in Processes : Check(p) \/ Validate(p) \/ Conflict(p) \/ WriteTable(p)
                                   \/ ReadCheckpoint(p) \/ Fail(p)
  PROVE  QuietStep
<1>0. proc \in [Processes -> Command] /\ node \in [branch : Branches, head : 0 .. Height]
  BY TypeFacts DEF SafeInv
<1>1. CASE UNCHANGED vars
  BY <1>1 DEF vars, QuietStep, StillHolds
<1>2. CASE HeadGrows
  BY <1>0, <1>2 DEF HeadGrows, QuietStep, StillHolds
<1>3. ASSUME NEW p \in Processes, proc' = [proc EXCEPT ![p] = proc'[p]],
             UNCHANGED <<node, marker, checkpoint, moves>>, proc'[p].pc \notin Holding
      PROVE  QuietStep
  BY <1>0, <1>3 DEF QuietStep, StillHolds
<1>4. CASE ReadHead
  <2>1. proc'["follower"].pc = "check"
    BY <1>0, <1>4 DEF ReadHead, Processes, Command
  <2> QED
    BY <1>0, <1>3, <1>4, <2>1 DEF ReadHead, Processes, Holding
<1>5. ASSUME NEW start \in Heights \cup {NoStart}, StartFollow(start) PROVE QuietStep
  <2>1. proc'["follower"].pc = "head"
    BY <1>0, <1>5, OffTyped DEF StartFollow, Processes, Command
  <2> QED
    BY <1>0, <1>3, <1>5, <2>1 DEF StartFollow, Processes, Holding
<1>6. ASSUME NEW from \in Heights, NEW to \in Heights, StartRange(from, to) PROVE QuietStep
  <2>1. proc'["range"].pc = "check"
    BY <1>0, <1>6, OffTyped DEF StartRange, Processes, Command
  <2> QED
    BY <1>0, <1>3, <1>6, <2>1 DEF StartRange, Processes, Holding
<1>7. ASSUME NEW p \in Processes, proc[p].pc \in AtHeight,
             proc' = [proc EXCEPT ![p] = NextBlock(p)],
             UNCHANGED <<node, marker, checkpoint, moves>>
      PROVE  QuietStep
  <2>1. proc'[p].pc \notin Holding /\ proc' = [proc EXCEPT ![p] = proc'[p]]
    BY <1>0, <1>7, NextBlockTyped DEF Holding
  <2> QED
    BY <1>3, <1>7, <2>1
<1>8. ASSUME NEW p \in Processes, Check(p) PROVE QuietStep
  <2>1. CASE Complete(proc[p].height)
    BY <1>7, <1>8, <2>1 DEF Check, AtHeight
  <2>2. CASE ~Complete(proc[p].height)
    <3>1. proc'[p].pc = "fetch" /\ proc' = [proc EXCEPT ![p] = proc'[p]]
      BY <1>0, <1>8, <2>2 DEF Check, Command
    <3> QED
      BY <1>3, <1>8, <3>1 DEF Check, Holding
  <2> QED
    BY <2>1, <2>2
<1>9. ASSUME NEW p \in Processes, Conflict(p) \/ Fail(p) PROVE QuietStep
  <2>1. proc'[p].pc = "off" /\ proc' = [proc EXCEPT ![p] = proc'[p]]
    BY <1>0, <1>9, OffTyped DEF Conflict, Fail
  <2> QED
    BY <1>3, <1>9, <2>1 DEF Conflict, Fail, Holding
<1>10. ASSUME NEW p \in Processes, Validate(p) \/ WriteTable(p) PROVE QuietStep
  <2>1. /\ proc[p].pc \in Holding /\ UNCHANGED <<node, marker, checkpoint, moves>>
        /\ \A q \in Processes \ {p} : proc'[q] = proc[q]
    BY <1>0, <1>10 DEF Validate, WriteTable, Holding
  <2>2. proc'[p].block = proc[p].block /\ proc'[p].height = proc[p].height
    <3>1. CASE Validate(p)
      BY <1>0, <3>1 DEF Validate, Command
    <3>2. CASE WriteTable(p) /\ proc[p].table < Len(Tables)
      BY <1>0, <3>2 DEF WriteTable, Command
    <3>3. CASE WriteTable(p) /\ ~(proc[p].table < Len(Tables))
      BY <1>0, <3>3 DEF WriteTable, Command
    <3> QED
      BY <1>10, <3>1, <3>2, <3>3
  <2> QED
    BY <2>1, <2>2 DEF QuietStep, StillHolds
<1>11. ASSUME NEW p \in Processes, ReadCheckpoint(p) PROVE QuietStep
  <2>1. CASE checkpoint = NoCheckpoint \/ proc[p].height >= checkpoint.height
    BY <1>0, <1>11, <2>1 DEF ReadCheckpoint, QuietStep, StillHolds, Holding, Command
  <2>2. CASE ~(checkpoint = NoCheckpoint \/ proc[p].height >= checkpoint.height)
    BY <1>7, <1>11, <2>2 DEF ReadCheckpoint, AtHeight, Holding
  <2> QED
    BY <2>1, <2>2
<1> QED
  BY <1>1, <1>2, <1>4, <1>5, <1>6, <1>8, <1>9, <1>10, <1>11

LEMMA FetchStill ==
  ASSUME SafeInv, StillInv, NEW p \in Processes, Fetch(p)
  PROVE  StillInv' /\ SameHistory
<1> DEFINE alone == \A q \in Processes : proc[q].at = 0
<1>1. PICK traces \in TraceOutcomes :
         proc' = [proc EXCEPT ![p] = [proc[p] EXCEPT !.pc = "validate",
                    !.block = node.branch[proc[p].height], !.traces = traces,
                    !.at = IF alone THEN 1 ELSE Now]]
  BY DEF Fetch
<1>2. /\ UNCHANGED <<node, moves>> /\ alone \in BOOLEAN
      /\ marker' = IF alone THEN [h \in Heights |-> [marker[h] EXCEPT !.at = 0]] ELSE marker
      /\ checkpoint' = IF alone THEN [checkpoint EXCEPT !.at = 0] ELSE checkpoint
  BY DEF Fetch
<1> HIDE DEF alone
<1>3. SameHistory
  BY <1>2, ClockRestarts DEF SameHistory
<1>4. /\ proc'[p].block = node.branch[proc'[p].height]
      /\ \A q \in Processes \ {p} : proc'[q] = proc[q]
  BY <1>1, TypeFacts DEF SafeInv, Command
<1>5. ASSUME Still PROVE Still'
  <2>1. \A q \in Processes : proc'[q].pc \in Holding => proc'[q].block = node.branch[proc'[q].height]
    BY <1>4, <1>5 DEF Still
  <2> QED
    BY <1>2, <1>3, <1>5, <2>1, StillStays
<1> QED
  BY <1>2, <1>3, <1>5 DEF StillInv

LEMMA MarkStill ==
  ASSUME SafeInv, StillInv, NEW p \in Processes, Mark(p)
  PROVE  StillInv'
<1> DEFINE h == proc[p].height
<1>1. /\ proc[p].pc = "mark" /\ UNCHANGED <<node, checkpoint, moves>>
      /\ proc'[p] = [proc[p] EXCEPT !.pc = "read"]
      /\ \A q \in Processes \ {p} : proc'[q] = proc[q]
  BY TypeFacts DEF Mark, SafeInv
<1>2. /\ h \in Heights /\ MarksStay /\ \A g \in Heights \ {h} : marker'[g] = marker[g]
      /\ \/ marker'[h].block = proc[p].block
         \/ marker'[h] = marker[h] /\ marker[h].at > proc[p].at
  BY MarkStores
<1>3. marker'[h] = marker[h] /\ marker[h].at > proc[p].at => marker[h] # NoMark
  BY TypeFacts DEF SafeInv, NoMark, Command
<1>4. proc'[p].block = proc[p].block /\ proc'[p].height = h
  BY <1>1, TypeFacts DEF SafeInv, Command
<1>5. checkpoint # NoCheckpoint => checkpoint.height \in Heights
  BY DEF SafeInv, CheckpointInv
<1>6. ASSUME Still PROVE Still'
  <2>1. proc[p].block = node.branch[h]
    BY <1>1, <1>6 DEF Still, Holding
  <2>2. \A g \in Heights : marker'[g] # NoMark => marker'[g].block = node.branch[g]
    BY <1>2, <1>3, <1>6, <2>1 DEF Still
  <2>3. ASSUME NEW q \in Processes, proc'[q].pc \in Holding
        PROVE  proc'[q].block = node.branch[proc'[q].height]
    <3>1. CASE q = p
      BY <1>4, <2>1, <3>1
    <3>2. CASE q # p
      BY <1>1, <1>6, <2>3, <3>2 DEF Still
    <3> QED
      BY <3>1, <3>2
  <2> QED
    BY <1>1, <1>2, <1>5, <1>6, <2>2, <2>3 DEF Still, MarksStay
<1> QED
  BY <1>1, <1>6 DEF StillInv

LEMMA AdvanceStill ==
  ASSUME SafeInv, StillInv, NEW p \in Processes, Advance(p)
  PROVE  StillInv'
<1> DEFINE row == [height |-> proc[p].height, block |-> proc[p].block, at |-> proc[p].at]
<1>1. /\ proc[p].pc = "advance" /\ UNCHANGED <<node, marker, moves>>
      /\ checkpoint' = IF checkpoint.at > row.at THEN checkpoint ELSE row
      /\ proc'[p] = NextBlock(p)
      /\ \A q \in Processes \ {p} : proc'[q] = proc[q]
  BY TypeFacts DEF Advance, SafeInv
<1>2. marker[proc[p].height] # NoMark
  BY <1>1 DEF SafeInv, RowsInv
<1>3. proc'[p].pc \notin Holding
  BY <1>1, NextBlockTyped DEF AtHeight, Holding
<1>4. ASSUME Still PROVE Still'
  <2>1. proc[p].block = node.branch[proc[p].height]
    BY <1>1, <1>4 DEF Still, Holding
  <2>2. \/ checkpoint' = checkpoint
        \/ checkpoint'.height = proc[p].height /\ checkpoint'.block = proc[p].block
    BY <1>1
  <2>3. checkpoint' # NoCheckpoint =>
          marker[checkpoint'.height] # NoMark /\ checkpoint'.block = node.branch[checkpoint'.height]
    BY <1>2, <1>4, <2>1, <2>2 DEF Still
  <2> QED
    BY <1>1, <1>3, <1>4, <2>3 DEF Still
<1> QED
  BY <1>1, <1>4 DEF StillInv

LEMMA NextStill == SafeInv /\ StillInv /\ [Next]_vars => StillInv'
<1> SUFFICES ASSUME SafeInv, StillInv, [Next]_vars PROVE StillInv'
  OBVIOUS
<1>1. ASSUME NEW branch \in Branches, BranchChanges(branch) PROVE StillInv'
  BY <1>1, TypeFacts DEF BranchChanges, StillInv, SafeInv
<1>2. ASSUME NEW p \in Processes, Fetch(p) \/ Mark(p) \/ Advance(p) PROVE StillInv'
  BY <1>2, FetchStill, MarkStill, AdvanceStill
<1>3. CASE QuietStep
  BY <1>3, QuietStill
<1> QED
  BY <1>1, <1>2, <1>3, QuietSteps DEF Next, Step

-----------------------------------------------------------------------------
(* Without an operator's command the follower is alone *)

Writer == proc["follower"]
Unmarked == {"validate", "write", "mark"}  \* it holds a block and has not marked it
Checked == {"write", "mark"}
Marked == {"read", "advance"}

\* What it holds is the newest there is and fits what is stored.
WriterInv ==
    /\ proc["range"] = Off
    /\ Writer.pc \notin Holding => Writer.at = 0
    /\ Writer.pc # "off" => Writer.height >= Start
    /\ Writer.pc \in Unmarked => \A h \in Heights : marker[h].at = 0
    /\ Writer.pc \in Holding => checkpoint.at = 0
    /\ Writer.pc \in Checked => Continues(Writer.height, Writer.block)
    /\ Writer.pc \in Marked => marker[Writer.height].block = Writer.block

Linked ==
    /\ \A h \in Heights \ {1} : marker[h] # NoMark /\ marker[h - 1] # NoMark =>
          marker[h - 1].block = ParentOf(marker[h].block)
    /\ checkpoint # NoCheckpoint => marker[checkpoint.height].block = checkpoint.block

\* Complete heights are linked, and there is no gap among them.
HistoryInv ==
    /\ Linked
    /\ checkpoint # NoCheckpoint => checkpoint.height >= Start
    /\ \A h \in Heights : h > Start /\ marker[h] # NoMark => marker[h - 1] # NoMark

AloneInv == requested = {} => WriterInv /\ HistoryInv

LEMMA HistoryStays ==
  ASSUME SafeInv, HistoryInv, SameHistory
  PROVE  HistoryInv'
<1>1. checkpoint # NoCheckpoint => checkpoint.height \in Heights
  BY DEF SafeInv, CheckpointInv
<1>2. \A h \in Heights : h # 1 => h - 1 \in Heights
  BY HeightTyped
<1>3. \A h \in Heights : h > Start => h # 1
  BY HeightTyped, ChainsShareHeights
<1>4. Linked'
  BY <1>1, <1>2 DEF HistoryInv, Linked, SameHistory
<1> QED
  BY <1>2, <1>3, <1>4 DEF HistoryInv, SameHistory

\* A step of the follower that leaves the tables alone.
LEMMA WriterMoves ==
  ASSUME SafeInv, WriterInv, HistoryInv, UNCHANGED <<marker, checkpoint>>,
         proc'["range"] = proc["range"],
         Writer'.pc \notin Holding => Writer'.at = 0,
         Writer'.pc # "off" => Writer'.height >= Start,
         Writer'.pc \in Holding => /\ Writer.pc \in Holding
                                   /\ Writer'.height = Writer.height /\ Writer'.block = Writer.block,
         Writer'.pc \in Unmarked => Writer.pc \in Unmarked,
         Writer'.pc \in Checked => Continues(Writer.height, Writer.block),
         Writer'.pc \in Marked => Writer.pc \in Marked
  PROVE  WriterInv' /\ HistoryInv'
<1>1. HistoryInv'
  BY HistoryStays DEF SameHistory
<1>2. Writer'.pc \in Checked => Continues(Writer.height, Writer.block)'
  BY DEF Continues, Checked, Holding
<1>3. Writer'.pc \in Marked => marker'[Writer'.height].block = Writer'.block
  BY DEF WriterInv, Marked, Holding
<1> QED
  BY <1>1, <1>2, <1>3 DEF WriterInv

LEMMA OnlyWriter ==
  ASSUME WriterInv, NEW p \in Processes, proc[p].pc # "off"
  PROVE  p = "follower"
BY OffTyped DEF WriterInv, Processes

\* It goes on to the next block, or its command ends.
LEMMA WriterGoesOn ==
  ASSUME SafeInv, WriterInv, HistoryInv, UNCHANGED <<marker, checkpoint>>,
         proc'["range"] = proc["range"],
         \/ Writer' = Off
         \/ Writer' = NextBlock("follower") /\ Writer.pc \in AtHeight
  PROVE  WriterInv' /\ HistoryInv'
<1>1. CASE Writer' = Off
  BY <1>1, OffTyped, WriterMoves DEF Holding, Unmarked, Checked, Marked
<1>2. CASE Writer' = NextBlock("follower") /\ Writer.pc \in AtHeight
  <2>1. /\ Writer'.pc \in {"off", "head"} /\ Writer'.at = 0
        /\ Writer'.pc = "head" => Writer'.height = Writer.height + 1
    BY <1>2, NextBlockTyped DEF Writer, Processes
  <2>2. Writer.height >= Start /\ Writer.height \in Heights
    BY <1>2 DEF WriterInv, SafeInv, PlaceInv, AtHeight, Holding, Writer, Processes
  <2>3. Writer'.pc # "off" => Writer'.height >= Start
    BY <2>1, <2>2, HeightTyped, ChainsShareHeights
  <2> QED
    BY <2>1, <2>3, WriterMoves DEF Holding, Unmarked, Checked, Marked
<1> QED
  BY <1>1, <1>2

\* Steps of the follower, or of nobody.
LEMMA QuietAlone ==
  ASSUME SafeInv, WriterInv, HistoryInv,
         \/ UNCHANGED vars \/ HeadGrows \/ (\E branch \in Branches : BranchChanges(branch))
         \/ StartFollow(NoStart) \/ ReadHead
         \/ \E p \in Processes : Check(p) \/ Validate(p) \/ Conflict(p) \/ WriteTable(p)
                                   \/ ReadCheckpoint(p) \/ Fail(p)
  PROVE  WriterInv' /\ HistoryInv'
<1>0. proc \in [Processes -> Command] /\ Writer \in Command
  BY TypeFacts DEF SafeInv, Writer, Processes
<1>1. ASSUME UNCHANGED <<marker, checkpoint, proc>> PROVE WriterInv' /\ HistoryInv'
  <2>1. Writer' = Writer
    BY <1>1 DEF Writer
  <2>2. Writer.pc \in Unmarked \/ Writer.pc \in Marked => Writer.pc \in Holding
    BY DEF Unmarked, Marked, Holding
  <2> QED
    BY <1>1, <2>1, <2>2, WriterMoves DEF WriterInv
<1>2. CASE UNCHANGED vars \/ HeadGrows \/ \E branch \in Branches : BranchChanges(branch)
  BY <1>1, <1>2 DEF vars, HeadGrows, BranchChanges
<1>3. CASE StartFollow(NoStart)
  <2>1. /\ UNCHANGED <<marker, checkpoint>> /\ proc'["range"] = proc["range"]
        /\ Writer'.pc = "head" /\ Writer'.at = 0 /\ Writer'.height = FollowStart
    BY <1>0, <1>3, OffTyped DEF StartFollow, Writer, Processes, Command
  <2>2. FollowStart >= Start
    BY HeightTyped, ChainsShareHeights DEF FollowStart, HistoryInv, SafeInv, CheckpointInv
  <2> QED
    BY <2>1, <2>2, WriterMoves DEF Holding, Unmarked, Checked, Marked
<1>4. CASE ReadHead
  <2>1. /\ UNCHANGED <<marker, checkpoint>> /\ proc'["range"] = proc["range"]
        /\ Writer.pc = "head" /\ Writer'.pc = "check" /\ Writer'.at = Writer.at
        /\ Writer'.height = Writer.height
    BY <1>0, <1>4 DEF ReadHead, Writer, Processes, Command
  <2> QED
    BY <2>1, WriterMoves DEF WriterInv, Holding, Unmarked, Checked, Marked
<1>5. ASSUME Check("follower") PROVE WriterInv' /\ HistoryInv'
  <2>1. /\ UNCHANGED <<marker, checkpoint>> /\ proc'["range"] = proc["range"]
        /\ Writer.pc = "check"
    BY <1>0, <1>5 DEF Check, Writer, Processes
  <2>2. CASE Complete(Writer.height)
    BY <1>0, <1>5, <2>1, <2>2, WriterGoesOn DEF Check, Writer, Processes, AtHeight
  <2>3. CASE ~Complete(Writer.height)
    <3>1. Writer'.pc = "fetch" /\ Writer'.at = Writer.at /\ Writer'.height = Writer.height
      BY <1>0, <1>5, <2>3 DEF Check, Writer, Processes, Command
    <3> QED
      BY <2>1, <3>1, WriterMoves DEF WriterInv, Holding, Unmarked, Checked, Marked
  <2> QED
    BY <2>2, <2>3
<1>6. ASSUME Conflict("follower") \/ Fail("follower") PROVE WriterInv' /\ HistoryInv'
  BY <1>0, <1>6, WriterGoesOn DEF Conflict, Fail, Writer, Processes
<1>7. ASSUME Validate("follower") PROVE WriterInv' /\ HistoryInv'
  <2>1. /\ UNCHANGED <<marker, checkpoint>> /\ proc'["range"] = proc["range"]
        /\ Writer.pc = "validate" /\ Writer'.pc = "write" /\ Writer'.at = Writer.at
        /\ Writer'.height = Writer.height /\ Writer'.block = Writer.block
        /\ Continues(Writer.height, Writer.block)
    BY <1>0, <1>7 DEF Validate, Writer, Processes, Command
  <2> QED
    BY <2>1, WriterMoves DEF WriterInv, Holding, Unmarked, Checked, Marked
<1>8. ASSUME WriteTable("follower") PROVE WriterInv' /\ HistoryInv'
  <2>1. /\ UNCHANGED <<marker, checkpoint>> /\ proc'["range"] = proc["range"]
        /\ Writer.pc = "write"
    BY <1>0, <1>8 DEF WriteTable, Writer, Processes
  <2>2. /\ Writer'.pc \in {"write", "mark"} /\ Writer'.at = Writer.at
        /\ Writer'.height = Writer.height /\ Writer'.block = Writer.block
    <3>1. CASE Writer.table < Len(Tables)
      BY <1>0, <1>8, <3>1 DEF WriteTable, Writer, Processes, Command
    <3>2. CASE ~(Writer.table < Len(Tables))
      BY <1>0, <1>8, <3>2 DEF WriteTable, Writer, Processes, Command
    <3> QED
      BY <3>1, <3>2
  <2> QED
    BY <2>1, <2>2, WriterMoves DEF WriterInv, Holding, Unmarked, Checked, Marked
<1>9. ASSUME ReadCheckpoint("follower") PROVE WriterInv' /\ HistoryInv'
  <2>1. /\ UNCHANGED <<marker, checkpoint>> /\ proc'["range"] = proc["range"]
        /\ Writer.pc = "read"
    BY <1>0, <1>9 DEF ReadCheckpoint, Writer, Processes
  <2>2. CASE ~(checkpoint = NoCheckpoint \/ Writer.height >= checkpoint.height)
    BY <1>0, <1>9, <2>1, <2>2, WriterGoesOn
       DEF ReadCheckpoint, Writer, Processes, AtHeight, Holding
  <2>3. CASE checkpoint = NoCheckpoint \/ Writer.height >= checkpoint.height
    <3>1. /\ Writer'.pc = "advance" /\ Writer'.at = Writer.at
          /\ Writer'.height = Writer.height /\ Writer'.block = Writer.block
      BY <1>0, <1>9, <2>3 DEF ReadCheckpoint, Writer, Processes, Command
    <3> QED
      BY <2>1, <3>1, WriterMoves DEF WriterInv, Holding, Unmarked, Checked, Marked
  <2> QED
    BY <2>2, <2>3
<1>10. ASSUME NEW p \in Processes, Check(p) \/ Validate(p) \/ Conflict(p) \/ WriteTable(p)
                                     \/ ReadCheckpoint(p) \/ Fail(p)
       PROVE  WriterInv' /\ HistoryInv'
  <2>1. proc[p].pc # "off"
    BY <1>10 DEF Check, Validate, Conflict, WriteTable, ReadCheckpoint, Fail
  <2>2. p = "follower"
    BY <2>1, OnlyWriter
  <2> QED
    BY <1>5, <1>6, <1>7, <1>8, <1>9, <1>10, <2>2
<1> QED
  BY <1>2, <1>3, <1>4, <1>10

\* Nobody else holds a block, so the clock restarts.
LEMMA FetchAlone ==
  ASSUME SafeInv, WriterInv, HistoryInv, Fetch("follower")
  PROVE  WriterInv' /\ HistoryInv'
<1>1. Writer.pc = "fetch" /\ Writer.at = 0 /\ proc["range"].at = 0 /\ Writer.height >= Start
  BY OffTyped DEF Fetch, Writer, WriterInv, Holding
<1>2. \A q \in Processes : proc[q].at = 0
  BY <1>1 DEF Writer, Processes
<1>3. /\ marker' = [h \in Heights |-> [marker[h] EXCEPT !.at = 0]]
      /\ checkpoint' = [checkpoint EXCEPT !.at = 0]
  BY <1>2 DEF Fetch
<1>4. /\ proc'["range"] = proc["range"] /\ Writer'.pc = "validate" /\ Writer'.at = 1
      /\ Writer'.height = Writer.height
  <2>1. PICK traces \in TraceOutcomes :
           proc' = [proc EXCEPT !["follower"] = [proc["follower"] EXCEPT !.pc = "validate",
                      !.block = node.branch[proc["follower"].height], !.traces = traces, !.at = 1]]
    BY <1>2 DEF Fetch
  <2> QED
    BY <2>1, TypeFacts DEF SafeInv, Writer, Processes, Command
<1>5. HistoryInv'
  <2>1. SameHistory
    BY <1>3, ClockRestarts DEF SameHistory
  <2> QED
    BY <2>1, HistoryStays
<1>6. checkpoint'.at = 0 /\ \A h \in Heights : marker'[h].at = 0
  BY <1>3, TypeFacts DEF SafeInv, Markers, Checkpoints
<1> QED
  BY <1>1, <1>4, <1>5, <1>6 DEF WriterInv, Holding, Unmarked, Checked, Marked

LEMMA MarkAlone ==
  ASSUME SafeInv, GapInv, requested = {}, WriterInv, HistoryInv, Mark("follower")
  PROVE  WriterInv' /\ HistoryInv'
<1> DEFINE h == Writer.height
<1>1. /\ Writer.pc = "mark" /\ checkpoint' = checkpoint /\ proc'["range"] = proc["range"]
      /\ Writer'.pc = "read" /\ Writer'.at = Writer.at
      /\ Writer'.height = h /\ Writer'.block = Writer.block
  BY TypeFacts DEF SafeInv, Mark, Writer, Processes, Command
<1>2. h \in Heights /\ h >= Start /\ Writer.at \in Nat /\ marker[h].at = 0
  BY <1>1, TypeFacts
     DEF SafeInv, PlaceInv, WriterInv, Writer, Processes, Command, AtHeight, Holding, Unmarked
<1>3. /\ MarksStay /\ marker'[h].block = Writer.block /\ marker'[h] # NoMark
      /\ \A g \in Heights \ {h} : marker'[g] = marker[g]
  BY <1>2, MarkStores DEF Writer, Processes
<1>4. Continues(h, Writer.block)
  BY <1>1 DEF WriterInv, Checked
<1>5. \A g \in Start .. h - 1 : marker[g] # NoMark
  BY <1>1 DEF GapInv, ProcGap, Writer, Processes
<1>6. ASSUME NEW g \in Heights \ {1}, marker'[g] # NoMark, marker'[g - 1] # NoMark
      PROVE  marker'[g - 1].block = ParentOf(marker'[g].block)
  <2>1. g \in Nat /\ g - 1 \in Heights /\ g - 1 # g /\ g > 1 /\ h \in Nat
    BY <1>2, HeightTyped
  <2>2. CASE g = h
    BY <1>3, <1>4, <1>6, <2>1, <2>2 DEF Continues
  <2>3. CASE g - 1 = h
    <3>1. marker'[g] = marker[g] /\ g > Start
      BY <1>2, <1>3, <2>1, <2>3, HeightTyped, ChainsShareHeights
    <3>2. marker[h] # NoMark
      BY <1>6, <2>3, <3>1 DEF HistoryInv
    <3>3. marker[h].block = Writer.block
      BY <1>4, <3>2 DEF Continues
    <3>4. marker[h].block = ParentOf(marker[g].block)
      BY <1>6, <2>3, <3>1, <3>2 DEF HistoryInv, Linked
    <3> QED
      BY <1>3, <2>3, <3>1, <3>3, <3>4
  <2>4. CASE g # h /\ g - 1 # h
    BY <1>3, <1>6, <2>1, <2>4 DEF HistoryInv, Linked
  <2> QED
    BY <2>2, <2>3, <2>4
<1>7. ASSUME checkpoint # NoCheckpoint
      PROVE  marker'[checkpoint.height].block = checkpoint.block
  <2>1. checkpoint.height \in Heights /\ checkpoint.height >= Start
    BY <1>7 DEF SafeInv, CheckpointInv, HistoryInv
  <2>2. marker[checkpoint.height] # NoMark
    <3>1. checkpoint.height \in Start .. checkpoint.height
      BY <2>1, HeightTyped, ChainsShareHeights
    <3> QED
      BY <1>7, <3>1 DEF GapInv, GapsAreRequested
  <2>3. marker[checkpoint.height].block = checkpoint.block
    BY <1>7 DEF HistoryInv, Linked
  <2>4. CASE checkpoint.height = h
    BY <1>3, <1>4, <2>2, <2>3, <2>4 DEF Continues
  <2>5. CASE checkpoint.height # h
    BY <1>3, <2>1, <2>3, <2>5
  <2> QED
    BY <2>4, <2>5
<1>8. ASSUME NEW g \in Heights, g > Start, marker'[g] # NoMark
      PROVE  marker'[g - 1] # NoMark
  <2>1. g - 1 \in Heights /\ g - 1 \in Start .. g - 1
    BY <1>8, HeightTyped, ChainsShareHeights
  <2>2. marker[g - 1] # NoMark
    BY <1>3, <1>5, <1>8, <2>1 DEF HistoryInv
  <2> QED
    BY <1>3, <2>1, <2>2 DEF MarksStay
<1>9. HistoryInv'
  BY <1>1, <1>6, <1>7, <1>8 DEF HistoryInv, Linked
<1> QED
  BY <1>1, <1>2, <1>3, <1>9 DEF WriterInv, Holding, Unmarked, Checked, Marked

LEMMA AdvanceAlone ==
  ASSUME SafeInv, WriterInv, HistoryInv, Advance("follower")
  PROVE  WriterInv' /\ HistoryInv'
<1> DEFINE p == "follower"
           row == [height |-> proc[p].height, block |-> proc[p].block, at |-> proc[p].at]
<1>1. /\ Writer.pc = "advance" /\ marker' = marker /\ proc'["range"] = proc["range"]
      /\ checkpoint' = IF checkpoint.at > row.at THEN checkpoint ELSE row
      /\ Writer' = NextBlock(p)
  BY TypeFacts DEF SafeInv, Advance, Writer, Processes
<1>2. /\ Writer.at \in Nat /\ checkpoint.at = 0 /\ Writer.height >= Start
      /\ marker[Writer.height].block = Writer.block /\ Writer.height \in Heights
  BY <1>1, TypeFacts
     DEF SafeInv, PlaceInv, WriterInv, Writer, Processes, Command, AtHeight, Holding, Marked
<1>3. checkpoint'.height = Writer.height /\ checkpoint'.block = Writer.block
  BY <1>1, <1>2 DEF Writer
<1>4. HistoryInv'
  BY <1>1, <1>2, <1>3 DEF HistoryInv, Linked
<1>5. /\ Writer'.pc \in {"off", "head"} /\ Writer'.at = 0
      /\ Writer'.pc = "head" => Writer'.height = Writer.height + 1
  BY <1>1, NextBlockTyped DEF Writer, Processes, AtHeight, Holding
<1>6. Writer'.pc # "off" => Writer'.height >= Start
  BY <1>2, <1>5, HeightTyped, ChainsShareHeights
<1> QED
  BY <1>1, <1>4, <1>5, <1>6 DEF WriterInv, Holding, Unmarked, Checked, Marked

LEMMA NextAlone == SafeInv /\ GapInv /\ AloneInv /\ [Next]_vars => AloneInv'
<1> SUFFICES ASSUME SafeInv, GapInv, AloneInv, [Next]_vars, requested' = {}
             PROVE  WriterInv' /\ HistoryInv'
  BY DEF AloneInv
<1>1. requested = {}
  BY DEF Next, vars, HeadGrows, BranchChanges, StartFollow, StartRange, ReadHead, Step, Check,
         Fetch, Validate, Conflict, WriteTable, Mark, ReadCheckpoint, Advance, Fail
<1>2. WriterInv /\ HistoryInv
  BY <1>1 DEF AloneInv
<1>3. ASSUME NEW start \in Heights \cup {NoStart}, StartFollow(start) PROVE start = NoStart
  BY <1>3 DEF StartFollow
<1>4. ASSUME NEW from \in Heights, NEW to \in Heights, StartRange(from, to) PROVE FALSE
  BY <1>4 DEF StartRange
<1>5. ASSUME NEW p \in Processes, Fetch(p) \/ Mark(p) \/ Advance(p)
      PROVE  WriterInv' /\ HistoryInv'
  <2>1. proc[p].pc # "off"
    BY <1>5 DEF Fetch, Mark, Advance
  <2>2. p = "follower"
    BY <1>2, <2>1, OnlyWriter
  <2> QED
    BY <1>1, <1>2, <1>5, <2>2, FetchAlone, MarkAlone, AdvanceAlone
<1> QED
  BY <1>2, <1>3, <1>4, <1>5, QuietAlone DEF Next, Step

-----------------------------------------------------------------------------
(* Theorems *)

\* On one branch, blocks of adjacent heights are parent and child.
LEMMA StillLinks ==
  ASSUME SafeInv, Still
  PROVE  Linked
<1>1. node.branch \in Branches
  BY TypeFacts DEF SafeInv
<1>2. \A h \in Heights : h # 1 => h - 1 \in Heights
  BY HeightTyped
<1>3. \A h \in Heights \ {1} : ParentOf(node.branch[h]) = node.branch[h - 1]
  BY <1>1, ParentOnBranch
<1>4. checkpoint # NoCheckpoint => checkpoint.height \in Heights
  BY DEF SafeInv, CheckpointInv
<1> QED
  BY <1>2, <1>3, <1>4 DEF Still, Linked

\* What a reader finds is consistent, however calls fail and whatever runs
\* beside the follower: rows are well-formed, a complete block is whole, and
\* complete heights link to each other up to the checkpoint, unless the node
\* replaced a block while an operator's range ran beside the follower.
THEOREM EthereumConsistent == Spec => []Consistent
<1>1. Init => StillInv /\ AloneInv
  BY OffTyped, HeightTyped DEF Init, StillInv, Still, AloneInv, WriterInv, HistoryInv, Linked,
     Writer, Processes, Holding, Unmarked, Checked, Marked
<1>2. Init => GapInv
  BY OffTyped DEF Init, GapInv, GapsAreRequested, ProcGap
<1>3. SafeInv /\ StillInv /\ AloneInv => Consistent
  BY StillLinks DEF SafeInv, TypeInv, Consistent, LinkedHistory, StillInv, AloneInv, HistoryInv,
     Linked
<1> QED
  BY <1>1, <1>2, <1>3, SafeInvariant, NextGap, NextStill, NextAlone, PTL DEF Spec

-----------------------------------------------------------------------------
(* What is read from the node: module EthereumRpc *)

Served == DOMAIN EthereumForks \cup {R!None}

Fetches == [at : {"idle", "calls", "traces", "accepted", "refused", "failed"}, attempt : 0 .. MaxRetries,
            block : Served \cup {R!Waiting}, receipts : Served \cup {R!Waiting},
            traces : Served \cup {R!Waiting}]

Balances == UNION {[D -> Served \cup {R!Waiting}] : D \in SUBSET Int}

Snapshots == [at : {"idle", "head", "reads", "done", "unavailable"}, hash : DOMAIN EthereumForks \cup {R!Waiting},
              rows : Balances, truncated : BOOLEAN]

\* A fork that was left and is served again was returned to.
NodeTyped ==
  /\ offers \in Served /\ left \subseteq DOMAIN EthereumForks /\ returned \in BOOLEAN
  /\ ~returned => offers \notin left

\* Traces are asked for when the block and its receipts are there.
FetchFits ==
  /\ reading \in Fetches
  /\ reading.at = "traces" => reading.block \in DOMAIN EthereumForks /\ reading.receipts \in DOMAIN EthereumForks
  /\ R!AcceptedIsOneBlock /\ R!AllAttemptsMade

\* What was read so far is of the block that was named, or the node has left that block;
\* and if it never returns to one, it will not be found there again.
AmountsFit ==
  /\ snapshot \in Snapshots
  /\ snapshot.at = "head" => \A a \in DOMAIN snapshot.rows : snapshot.rows[a] = R!Waiting
  /\ snapshot.at = "reads" => snapshot.hash \in DOMAIN EthereumForks
  /\ snapshot.at = "reads" /\ ~returned =>
        /\ snapshot.hash = offers \/ snapshot.hash \in left
        /\ snapshot.hash = offers =>
              \A a \in DOMAIN snapshot.rows : snapshot.rows[a] \in {snapshot.hash, R!None, R!Waiting}
  /\ snapshot.at = "done" /\ ~returned =>
        \A a \in DOMAIN snapshot.rows : snapshot.rows[a] \in {snapshot.hash, R!None}

ReadsInv == NodeTyped /\ FetchFits /\ AmountsFit

LEMMA NoAmounts == <<>> \in Balances /\ DOMAIN <<>> = {}
<1>1. <<>> \in [{} -> Served \cup {R!Waiting}] /\ DOMAIN <<>> = {}
  OBVIOUS
<1> QED
  BY <1>1 DEF Balances

LEMMA ReadsInit == R!Init => ReadsInv
<1> SUFFICES ASSUME R!Init
             PROVE  ReadsInv
  OBVIOUS
<1>1. NodeTyped
  BY DEF R!Init, NodeTyped, Served
<1>2. reading \in Fetches /\ reading.at = "idle"
  BY ReadsAssumption DEF R!Init, R!Attempt, Fetches
<1>3. snapshot \in Snapshots /\ snapshot.at = "idle"
  BY NoAmounts DEF R!Init, R!Idle, Snapshots
<1> QED
  BY <1>1, <1>2, <1>3 DEF ReadsInv, FetchFits, AmountsFit, R!AcceptedIsOneBlock, R!AllAttemptsMade

-----------------------------------------------------------------------------
(* The node moves *)

LEMMA NodeMoves ==
  ASSUME ReadsInv, R!Move
  PROVE  ReadsInv'
<1>1. PICK b \in Served \ {offers} : offers' = b /\ returned' = (returned \/ b \in left)
  BY DEF R!Move, Served
<1>2. left' = left \cup ({offers} \ {R!None}) /\ UNCHANGED <<traceMode, reading, snapshot>>
  BY DEF R!Move
<1>3. NodeTyped'
  BY <1>1, <1>2 DEF ReadsInv, NodeTyped, Served
<1>4. FetchFits'
  BY <1>2 DEF ReadsInv, FetchFits, R!AcceptedIsOneBlock, R!AllAttemptsMade
<1>5. AmountsFit'
  <2>1. ~returned' => ~returned /\ b \notin left
    BY <1>1 DEF ReadsInv, NodeTyped
  <2>2. ASSUME snapshot.at = "reads", ~returned'
        PROVE  snapshot.hash # offers' /\ snapshot.hash \in left'
    <3>1. snapshot.hash \in DOMAIN EthereumForks /\ (snapshot.hash = offers \/ snapshot.hash \in left)
      BY <2>1, <2>2 DEF ReadsInv, AmountsFit
    <3>2. CASE snapshot.hash = offers
      BY <3>1, <3>2, <1>1, <1>2, ReadsAssumption
    <3>3. CASE snapshot.hash \in left
      BY <3>1, <3>3, <1>1, <1>2, <2>1, <2>2
    <3> QED
      BY <3>1, <3>2, <3>3
  <2>3. /\ snapshot \in Snapshots /\ (snapshot.at = "reads" => snapshot.hash \in DOMAIN EthereumForks)
        /\ snapshot.at = "head" => \A a \in DOMAIN snapshot.rows : snapshot.rows[a] = R!Waiting
    BY DEF ReadsInv, AmountsFit
  <2>4. snapshot.at = "done" /\ ~returned' =>
           \A a \in DOMAIN snapshot.rows : snapshot.rows[a] \in {snapshot.hash, R!None}
    BY <2>1 DEF ReadsInv, AmountsFit
  <2> QED
    BY <1>2, <2>2, <2>3, <2>4 DEF AmountsFit
<1> QED
  BY <1>3, <1>4, <1>5 DEF ReadsInv

-----------------------------------------------------------------------------
(* A block *)

\* A fetch is another one, and nothing else changes.
LEMMA FetchMoves ==
  ASSUME ReadsInv, NEW f \in Fetches, reading' = f, UNCHANGED <<traceMode, offers, left, returned, snapshot>>,
         f.at = "traces" => f.block \in DOMAIN EthereumForks /\ f.receipts \in DOMAIN EthereumForks,
         f.at = "accepted" =>
            /\ EthereumForks[f.block] # {} => f.receipts = f.block
            /\ traceMode = "required" => f.traces \in DOMAIN EthereumForks,
         f.at = "failed" => f.attempt = MaxRetries
  PROVE  ReadsInv'
<1>1. NodeTyped' /\ AmountsFit'
  BY DEF ReadsInv, NodeTyped, AmountsFit
<1>2. FetchFits'
  BY DEF FetchFits, R!AcceptedIsOneBlock, R!AllAttemptsMade
<1> QED
  BY <1>1, <1>2 DEF ReadsInv

LEMMA NewAttempt ==
  ASSUME NEW n \in 1 .. MaxRetries
  PROVE  R!Attempt(n) \in Fetches /\ R!Attempt(n).at = "calls"
BY ReadsAssumption DEF R!Attempt, Fetches

\* An attempt that fails is followed by another one, or was the last.
LEMMA AttemptEnds ==
  ASSUME ReadsInv, R!AttemptFails,
         UNCHANGED <<traceMode, offers, left, returned, snapshot>>
  PROVE  ReadsInv'
<1>1. reading \in Fetches /\ reading.attempt \in 0 .. MaxRetries
  BY DEF ReadsInv, FetchFits, Fetches
<1>2. CASE reading.attempt < MaxRetries
  <2>1. reading.attempt + 1 \in 1 .. MaxRetries
    BY <1>1, <1>2, ReadsAssumption
  <2>2. reading' = R!Attempt(reading.attempt + 1)
    BY <1>2 DEF R!AttemptFails
  <2> QED
    BY <2>1, <2>2, NewAttempt, FetchMoves
<1>3. CASE ~(reading.attempt < MaxRetries)
  <2> DEFINE f == [reading EXCEPT !.at = "failed"]
  <2>1. f \in Fetches /\ f.at = "failed" /\ f.attempt = reading.attempt
    BY <1>1 DEF Fetches
  <2>2. reading.attempt = MaxRetries
    BY <1>1, <1>3, ReadsAssumption
  <2>3. reading' = f
    BY <1>3 DEF R!AttemptFails
  <2> HIDE DEF f
  <2> QED
    BY <2>1, <2>2, <2>3, FetchMoves
<1> QED
  BY <1>2, <1>3

\* What was fetched is checked; the receipts that pass are of the block.
LEMMA ExtractedFits ==
  ASSUME ReadsInv, NEW f \in Fetches, f.block = reading.block, f.receipts = reading.receipts,
         traceMode = "required" => f.traces \in DOMAIN EthereumForks,
         reading' = R!Extracted(f), UNCHANGED <<traceMode, offers, left, returned, snapshot>>
  PROVE  ReadsInv'
<1> DEFINE place == IF R!ReceiptsFit THEN "accepted" ELSE "refused"
           g == [f EXCEPT !.at = place]
<1>1. place \in {"accepted", "refused"} /\ (place = "accepted" => R!ReceiptsFit)
  OBVIOUS
<1>2. reading' = g
  BY DEF R!Extracted
<1> HIDE DEF place
<1>3. g \in Fetches /\ g.at = place /\ g.block = reading.block /\ g.receipts = reading.receipts
      /\ g.traces = f.traces
  BY <1>1 DEF Fetches
<1> HIDE DEF g
<1>4. R!ReceiptsFit => (EthereumForks[g.block] # {} => g.receipts = g.block)
  BY <1>3 DEF R!ReceiptsFit
<1> QED
  BY <1>1, <1>2, <1>3, <1>4, FetchMoves

LEMMA TracesGiven ==
  ASSUME ReadsInv, NEW v \in Served
  PROVE  LET f == [reading EXCEPT !.traces = v]
         IN  f \in Fetches /\ f.block = reading.block /\ f.receipts = reading.receipts /\ f.traces = v
BY DEF ReadsInv, FetchFits, Fetches

LEMMA TracesDoneWithout ==
  ASSUME ReadsInv, R!NoTraces, UNCHANGED <<traceMode, offers, left, returned, snapshot>>
  PROVE  ReadsInv'
<1>1. CASE traceMode = "required"
  BY <1>1, AttemptEnds DEF R!NoTraces
<1>2. CASE traceMode # "required"
  <2>1. reading' = R!Extracted([reading EXCEPT !.traces = R!None])
    BY <1>2 DEF R!NoTraces
  <2>2. R!None \in Served
    BY DEF Served
  <2> QED
    BY <1>2, <2>1, <2>2, TracesGiven, ExtractedFits
<1> QED
  BY <1>1, <1>2

LEMMA AnswerMoves ==
  ASSUME ReadsInv, NEW part \in {"block", "receipts"}, R!Answer(part)
  PROVE  ReadsInv'
<1> DEFINE f == [reading EXCEPT ![part] = offers]
<1>1. reading.at = "calls" /\ reading' = f /\ UNCHANGED <<traceMode, offers, left, returned, snapshot>>
  BY DEF R!Answer, R!Node
<1>2. reading \in Fetches /\ offers \in Served
  BY DEF ReadsInv, FetchFits, NodeTyped
<1>3. f \in Fetches /\ f.at = "calls"
  BY <1>1, <1>2 DEF Fetches
<1> HIDE DEF f
<1> QED
  BY <1>1, <1>3, FetchMoves

LEMMA JoinedMoves ==
  ASSUME ReadsInv, R!Joined
  PROVE  ReadsInv'
<1>1. UNCHANGED <<traceMode, offers, left, returned, snapshot>> /\ reading \in Fetches
      /\ R!Waiting \notin {reading.block, reading.receipts}
  BY DEF R!Joined, R!Node, ReadsInv, FetchFits
<1>2. CASE R!None \in {reading.block, reading.receipts}
  BY <1>1, <1>2, AttemptEnds DEF R!Joined
<1>3. CASE R!None \notin {reading.block, reading.receipts} /\ traceMode = "disabled"
  <2>1. reading' = R!Extracted(reading)
    BY <1>3 DEF R!Joined
  <2> QED
    BY <1>1, <1>3, <2>1, ExtractedFits
<1>4. CASE R!None \notin {reading.block, reading.receipts} /\ traceMode # "disabled"
  <2> DEFINE f == [reading EXCEPT !.at = "traces"]
  <2>1. reading' = f
    BY <1>4 DEF R!Joined
  <2>2. f \in Fetches /\ f.at = "traces" /\ f.block = reading.block /\ f.receipts = reading.receipts
    BY <1>1 DEF Fetches
  <2>3. reading.block \in DOMAIN EthereumForks /\ reading.receipts \in DOMAIN EthereumForks
    BY <1>1, <1>4 DEF Fetches, Served
  <2> HIDE DEF f
  <2> QED
    BY <1>1, <2>1, <2>2, <2>3, FetchMoves
<1> QED
  BY <1>2, <1>3, <1>4

LEMMA TracesMove ==
  ASSUME ReadsInv, R!TracesAnswer
  PROVE  ReadsInv'
<1>1. UNCHANGED <<traceMode, offers, left, returned, snapshot>> /\ offers \in Served
  BY DEF R!TracesAnswer, R!Node, ReadsInv, NodeTyped
<1>2. CASE offers = R!None
  BY <1>1, <1>2, TracesDoneWithout DEF R!TracesAnswer
<1>3. CASE offers # R!None /\ EthereumForks[offers] = EthereumForks[reading.block]
  <2>1. reading' = R!Extracted([reading EXCEPT !.traces = offers])
    BY <1>3 DEF R!TracesAnswer
  <2>2. offers \in DOMAIN EthereumForks
    BY <1>1, <1>3 DEF Served
  <2> QED
    BY <1>1, <2>1, <2>2, TracesGiven, ExtractedFits
<1>4. CASE offers # R!None /\ EthereumForks[offers] # EthereumForks[reading.block]
  BY <1>1, <1>4, AttemptEnds DEF R!TracesAnswer
<1> QED
  BY <1>2, <1>3, <1>4

LEMMA FetchStep ==
  ASSUME ReadsInv,
         R!StartFetch \/ R!Answer("block") \/ R!Answer("receipts") \/ R!Joined \/ R!TracesAnswer
            \/ R!CallFails
  PROVE  ReadsInv'
<1>1. CASE R!StartFetch
  <2>1. 1 \in 1 .. MaxRetries
    BY ReadsAssumption
  <2> QED
    BY <1>1, <2>1, NewAttempt, FetchMoves DEF R!StartFetch, R!Node
<1>2. CASE R!CallFails
  <2>1. UNCHANGED <<traceMode, offers, left, returned, snapshot>> /\ (R!AttemptFails \/ R!NoTraces)
    BY <1>2 DEF R!CallFails, R!Node
  <2> QED
    BY <2>1, AttemptEnds, TracesDoneWithout
<1> QED
  BY <1>1, <1>2, AnswerMoves, JoinedMoves, TracesMove

-----------------------------------------------------------------------------
(* A wallet's balances *)

LEMMA SnapshotMoves ==
  ASSUME ReadsInv, NEW s \in Snapshots, snapshot' = s, UNCHANGED <<traceMode, offers, left, returned, reading>>,
         s.at = "head" => \A a \in DOMAIN s.rows : s.rows[a] = R!Waiting,
         s.at = "reads" => s.hash \in DOMAIN EthereumForks,
         s.at = "reads" /\ ~returned =>
            /\ s.hash = offers \/ s.hash \in left
            /\ s.hash = offers => \A a \in DOMAIN s.rows : s.rows[a] \in {s.hash, R!None, R!Waiting},
         s.at = "done" /\ ~returned => \A a \in DOMAIN s.rows : s.rows[a] \in {s.hash, R!None}
  PROVE  ReadsInv'
<1>1. NodeTyped' /\ FetchFits'
  BY DEF ReadsInv, NodeTyped, FetchFits, R!AcceptedIsOneBlock, R!AllAttemptsMade
<1>2. AmountsFit'
  BY DEF AmountsFit
<1> QED
  BY <1>1, <1>2 DEF ReadsInv

LEMMA NoSnapshot ==
  ASSUME ReadsInv, R!Unavailable, UNCHANGED <<traceMode, offers, left, returned, reading>>
  PROVE  ReadsInv'
<1> DEFINE s == [R!Idle EXCEPT !.at = "unavailable"]
<1>1. s \in Snapshots /\ s.at = "unavailable"
  BY NoAmounts DEF R!Idle, Snapshots
<1>2. snapshot' = s
  BY DEF R!Unavailable
<1> HIDE DEF s
<1> QED
  BY <1>1, <1>2, SnapshotMoves

LEMMA StartSnapshotMoves ==
  ASSUME ReadsInv, R!StartSnapshot
  PROVE  ReadsInv'
<1>1. UNCHANGED <<traceMode, offers, left, returned, reading>>
  BY DEF R!StartSnapshot, R!Node
<1>2. CASE \E discovered \in 0 .. MaxAssets :
             snapshot' = [R!Idle EXCEPT !.at = "head", !.rows = R!Rows(discovered),
                                        !.truncated = discovered > AssetLimit]
  <2>1. PICK discovered \in 0 .. MaxAssets :
             snapshot' = [R!Idle EXCEPT !.at = "head", !.rows = R!Rows(discovered),
                                        !.truncated = discovered > AssetLimit]
    BY <1>2
  <2> DEFINE cut == discovered > AssetLimit
             D == {R!Native} \cup {i \in 1 .. discovered : i <= AssetLimit}
             s == [R!Idle EXCEPT !.at = "head", !.rows = R!Rows(discovered), !.truncated = cut]
  <2>2. cut \in BOOLEAN /\ D \subseteq Int
    BY DEF R!Native
  <2>3. R!Rows(discovered) \in [D -> Served \cup {R!Waiting}]
    BY DEF R!Rows
  <2>4. R!Rows(discovered) \in Balances
    BY <2>2, <2>3 DEF Balances
  <2>5. snapshot' = s
    BY <2>1
  <2> HIDE DEF cut
  <2>6. s \in Snapshots /\ s.at = "head" /\ s.rows = R!Rows(discovered)
    BY <2>2, <2>4 DEF R!Idle, Snapshots
  <2>7. \A a \in DOMAIN R!Rows(discovered) : R!Rows(discovered)[a] = R!Waiting
    BY DEF R!Rows
  <2> HIDE DEF s
  <2> QED
    BY <1>1, <2>5, <2>6, <2>7, SnapshotMoves
<1>3. CASE R!Unavailable
  BY <1>1, <1>3, NoSnapshot
<1> QED
  BY <1>2, <1>3 DEF R!StartSnapshot

LEMMA ReadBlockMoves ==
  ASSUME ReadsInv, R!ReadBlock
  PROVE  ReadsInv'
<1>1. UNCHANGED <<traceMode, offers, left, returned, reading>> /\ snapshot.at = "head" /\ snapshot \in Snapshots
      /\ offers \in Served
  BY DEF R!ReadBlock, R!Node, ReadsInv, AmountsFit, NodeTyped
<1>2. CASE offers = R!None
  BY <1>1, <1>2, NoSnapshot DEF R!ReadBlock
<1>3. CASE offers # R!None
  <2> DEFINE s == [snapshot EXCEPT !.at = "reads", !.hash = offers]
  <2>1. offers \in DOMAIN EthereumForks
    BY <1>1, <1>3 DEF Served
  <2>2. snapshot' = s
    BY <1>3 DEF R!ReadBlock
  <2>3. s \in Snapshots /\ s.at = "reads" /\ s.hash = offers /\ s.rows = snapshot.rows
    BY <1>1, <2>1 DEF Snapshots
  <2>4. \A a \in DOMAIN snapshot.rows : snapshot.rows[a] = R!Waiting
    BY <1>1 DEF ReadsInv, AmountsFit
  <2> HIDE DEF s
  <2> QED
    BY <1>1, <2>1, <2>2, <2>3, <2>4, SnapshotMoves
<1> QED
  BY <1>2, <1>3

\* Some of the rows are filled in, with what the node has now or with nothing.
LEMMA RowsFilled ==
  ASSUME ReadsInv, snapshot.at = "reads", UNCHANGED <<traceMode, offers, left, returned, reading>>,
         NEW rs, snapshot' = [snapshot EXCEPT !.rows = rs],
         DOMAIN rs = DOMAIN snapshot.rows,
         \A a \in DOMAIN rs : rs[a] \in {snapshot.rows[a], R!None, offers},
         rs = [a \in DOMAIN rs |-> rs[a]]
  PROVE  ReadsInv'
<1> DEFINE s == [snapshot EXCEPT !.rows = rs]
<1>1. snapshot \in Snapshots /\ offers \in Served /\ snapshot.rows \in Balances
  BY DEF ReadsInv, AmountsFit, NodeTyped, Snapshots
<1>2. PICK D \in SUBSET Int : snapshot.rows \in [D -> Served \cup {R!Waiting}]
  BY <1>1 DEF Balances
<1>3. DOMAIN rs = D /\ \A a \in D : rs[a] \in Served \cup {R!Waiting}
  BY <1>1, <1>2 DEF Served
<1>4. rs \in [D -> Served \cup {R!Waiting}]
  BY <1>3
<1>5. rs \in Balances
  BY <1>4 DEF Balances
<1>6. s \in Snapshots /\ s.at = "reads" /\ s.hash = snapshot.hash /\ s.rows = rs
  BY <1>1, <1>5 DEF Snapshots
<1>7. snapshot' = s
  OBVIOUS
<1>8. /\ snapshot.hash \in DOMAIN EthereumForks
      /\ ~returned => /\ snapshot.hash = offers \/ snapshot.hash \in left
                      /\ snapshot.hash = offers =>
                            \A a \in DOMAIN snapshot.rows :
                               snapshot.rows[a] \in {snapshot.hash, R!None, R!Waiting}
  BY DEF ReadsInv, AmountsFit
<1>9. snapshot.hash = offers /\ ~returned =>
         \A a \in DOMAIN rs : rs[a] \in {snapshot.hash, R!None, R!Waiting}
  BY <1>8
<1> HIDE DEF s
<1> QED
  BY <1>6, <1>7, <1>8, <1>9, SnapshotMoves

LEMMA ReadBalanceMoves ==
  ASSUME ReadsInv, NEW asset, R!ReadBalance(asset)
  PROVE  ReadsInv'
<1> DEFINE v == IF asset \in Unreadable THEN R!None ELSE offers
           rs == [snapshot.rows EXCEPT ![asset] = v]
<1>1. UNCHANGED <<traceMode, offers, left, returned, reading>> /\ snapshot.at = "reads"
  BY DEF R!ReadBalance, R!Node
<1>2. snapshot' = [snapshot EXCEPT !.rows[asset] = v]
  BY DEF R!ReadBalance
<1>3. snapshot' = [snapshot EXCEPT !.rows = rs]
  BY <1>2
<1>4. DOMAIN rs = DOMAIN snapshot.rows /\ rs = [a \in DOMAIN rs |-> rs[a]]
      /\ \A a \in DOMAIN rs : rs[a] \in {snapshot.rows[a], R!None, offers}
  OBVIOUS
<1> HIDE DEF rs
<1> QED
  BY <1>1, <1>3, <1>4, RowsFilled

LEMMA BalancesFailMoves ==
  ASSUME ReadsInv, R!BalancesFail
  PROVE  ReadsInv'
<1>1. UNCHANGED <<traceMode, offers, left, returned, reading>> /\ snapshot.at = "reads"
  BY DEF R!BalancesFail, R!Node
<1>2. PICK late : snapshot' = [snapshot EXCEPT !.rows =
                     [a \in DOMAIN @ |-> IF a \in late THEN R!None ELSE @[a]]]
  BY DEF R!BalancesFail
<1> DEFINE rs == [a \in DOMAIN snapshot.rows |-> IF a \in late THEN R!None ELSE snapshot.rows[a]]
<1>3. snapshot' = [snapshot EXCEPT !.rows = rs]
  BY <1>2
<1>4. DOMAIN rs = DOMAIN snapshot.rows /\ rs = [a \in DOMAIN rs |-> rs[a]]
      /\ \A a \in DOMAIN rs : rs[a] \in {snapshot.rows[a], R!None, offers}
  OBVIOUS
<1> HIDE DEF rs
<1> QED
  BY <1>1, <1>3, <1>4, RowsFilled

\* The named block is still there: nothing was read of another one.
LEMMA VerifyMoves ==
  ASSUME ReadsInv, R!Verify
  PROVE  ReadsInv'
<1>1. UNCHANGED <<traceMode, offers, left, returned, reading>> /\ snapshot.at = "reads" /\ snapshot \in Snapshots
  BY DEF R!Verify, R!Node, ReadsInv, AmountsFit
<1>2. CASE offers = snapshot.hash
  <2> DEFINE s == [snapshot EXCEPT !.at = "done"]
  <2>1. snapshot' = s
    BY <1>2 DEF R!Verify, R!BlockStands
  <2>2. s \in Snapshots /\ s.at = "done" /\ s.hash = snapshot.hash /\ s.rows = snapshot.rows
    BY <1>1 DEF Snapshots
  <2>3. ~returned => \A a \in DOMAIN snapshot.rows :
                        snapshot.rows[a] \in {snapshot.hash, R!None, R!Waiting}
    BY <1>1, <1>2 DEF ReadsInv, AmountsFit
  <2>4. \A a \in DOMAIN snapshot.rows : snapshot.rows[a] # R!Waiting
    BY DEF R!Verify
  <2> HIDE DEF s
  <2> QED
    BY <1>1, <2>1, <2>2, <2>3, <2>4, SnapshotMoves
<1>3. CASE offers # snapshot.hash
  BY <1>1, <1>3, NoSnapshot DEF R!Verify, R!BlockStands
<1> QED
  BY <1>2, <1>3

LEMMA SnapshotStep ==
  ASSUME ReadsInv, R!StartSnapshot \/ R!ReadBlock \/ R!BalancesFail \/ R!Verify \/ R!SnapshotFails
                      \/ \E asset \in 0 .. MaxAssets : R!ReadBalance(asset)
  PROVE  ReadsInv'
<1>1. CASE R!SnapshotFails
  BY <1>1, NoSnapshot DEF R!SnapshotFails, R!Node
<1> QED
  BY <1>1, StartSnapshotMoves, ReadBlockMoves, BalancesFailMoves, VerifyMoves, ReadBalanceMoves

LEMMA ReadsStep == ReadsInv /\ [R!Next]_(R!vars) => ReadsInv'
<1> SUFFICES ASSUME ReadsInv, [R!Next]_(R!vars)
             PROVE  ReadsInv'
  OBVIOUS
<1>1. CASE UNCHANGED R!vars
  <2>1. UNCHANGED <<traceMode, offers, left, returned, reading, snapshot>>
    BY <1>1 DEF R!vars
  <2> QED
    BY <2>1 DEF ReadsInv, NodeTyped, FetchFits, AmountsFit, R!AcceptedIsOneBlock, R!AllAttemptsMade
<1> QED
  BY <1>1, NodeMoves, FetchStep, SnapshotStep DEF R!Next

LEMMA ReadsFollow == ReadsInv => R!ReadsHold
<1> SUFFICES ASSUME ReadsInv
             PROVE  R!ReadsHold
  OBVIOUS
<1>1. R!Status = "available" => R!Unread = {} /\ ~snapshot.truncated
  BY DEF R!Status
<1>2. R!AmountsAreOfTheBlock
  BY <1>1 DEF ReadsInv, AmountsFit, R!AmountsAreOfTheBlock
<1> QED
  BY <1>2 DEF ReadsInv, FetchFits, R!ReadsHold

\* What Ethereum reads of a node that moves to another fork between two calls: a block
\* is handed on with the receipts of that block and the traces the mode requires, and
\* given up only after all attempts; the balances of an answer are those of the block it
\* names, unless the node left that block and came back to it.
THEOREM ReadsAreOfOneBlock == ChainsSpec => []ReadsHold
<1>1. ChainsInit => ReadsInv
  BY ReadsInit DEF ChainsInit
<1>2. [ChainsNext]_chainVars => [R!Next]_(R!vars)
  BY DEF ChainsNext, chainVars, readVars, R!vars
<1>3. ReadsInv => ReadsHold
  BY ReadsFollow DEF ReadsHold
<1> QED
  BY <1>1, <1>2, <1>3, ReadsStep, PTL DEF ChainsSpec
=============================================================================
