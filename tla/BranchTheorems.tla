--------------------------- MODULE BranchTheorems ---------------------------
(***************************************************************************)
(* Branches of a tree of blocks, for every tree: the models' functions     *)
(* from a block to its branch are recursive on the parent.  That there is  *)
(* such a function, and what its branches are, follows from the numbers of *)
(* the blocks, which fall from a block to its parent.                      *)
(***************************************************************************)
EXTENDS Integers, WellFoundedInduction, TLAPS

\* Blocks H with numbers Num and parents Par; None is the parent of a root.
Tree(H, None, Num, Par) ==
  /\ None \notin H
  /\ Num \in [H -> Nat] /\ Par \in [H -> H \cup {None}]
  /\ \A h \in H : Par[h] \in H => Num[Par[h]] < Num[h]

\* f maps a block to its branch, which ends with the last block of K.
Branches(f, H, None, Par, K) ==
  f = [h \in H \cup {None} |-> IF h \in K THEN {h} \cup f[Par[h]] ELSE {}]

-----------------------------------------------------------------------------
(* Induction *)

\* A set of naturals that is not empty has a least element.
LEMMA LeastNatural ==
  ASSUME NEW T \in SUBSET Nat, T # {}
  PROVE  \E n \in T : \A m \in T : n <= m
<1>1. PICK n \in T : \A m \in T : ~(<<m, n>> \in OpToRel(<, Nat))
  BY NatLessThanWellFounded, WFMin
<1>2. \A m \in T : ~(m < n)
  BY <1>1 DEF OpToRel
<1>3. \A m \in T : m \in Nat
  OBVIOUS
<1>4. \A m \in T : n <= m
  BY <1>2, <1>3
<1> QED
  BY <1>4

\* Induction over the naturals, for a set.
LEMMA NatSetInduction ==
  ASSUME NEW Q, 0 \in Q, \A n \in Nat : n \in Q => n + 1 \in Q
  PROVE  Nat \subseteq Q
<1> SUFFICES ASSUME Nat \ Q # {} PROVE FALSE
  OBVIOUS
<1>1. PICK n \in Nat \ Q : \A m \in Nat \ Q : n <= m
  BY LeastNatural
<1>2. n # 0 /\ n - 1 \in Nat /\ (n - 1) + 1 = n
  BY <1>1
<1> QED
  BY <1>1, <1>2

\* Induction along the branches, for a set.
LEMMA BranchInduction ==
  ASSUME NEW H, NEW None, NEW Num, NEW Par, Tree(H, None, Num, Par),
         NEW Q, \A h \in H : (Par[h] \in H => Par[h] \in Q) => h \in Q
  PROVE  H \subseteq Q
<1> DEFINE Missing == {Num[h] : h \in H \ Q}
<1> SUFFICES ASSUME H \ Q # {} PROVE FALSE
  OBVIOUS
<1>1. Missing \subseteq Nat /\ Missing # {}
  BY DEF Tree
<1>2. PICK n \in Missing : \A m \in Missing : n <= m
  BY <1>1, LeastNatural
<1>3. PICK h \in H \ Q : Num[h] = n
  BY <1>2
<1>4. Par[h] \in H /\ Par[h] \notin Q
  BY <1>3
<1>5. Num[Par[h]] < Num[h] /\ Num[Par[h]] \in Nat /\ n \in Nat
  BY <1>1, <1>3, <1>4 DEF Tree
<1>6. n <= Num[Par[h]]
  BY <1>2, <1>4
<1> HIDE DEF Missing
<1> QED
  BY <1>3, <1>5, <1>6

-----------------------------------------------------------------------------
(* The function *)

Step(f, Par, K, h) == IF h \in K THEN {h} \cup f[Par[h]] ELSE {}

Below(H, None, Num, n) == {h \in H : Num[h] < n} \cup {None}

\* f is the function for the blocks below a number.
Solves(f, H, None, Num, Par, K, n) ==
  f = [h \in Below(H, None, Num, n) |-> Step(f, Par, K, h)]

LEMMA ParentBelow ==
  ASSUME NEW H, NEW None, NEW Num, NEW Par, Tree(H, None, Num, Par),
         NEW n \in Nat, NEW h \in H, Num[h] < n + 1
  PROVE  Par[h] \in Below(H, None, Num, n) /\ Par[h] \in Below(H, None, Num, n + 1)
<1>1. Par[h] \in H \cup {None} /\ Num[h] \in Nat
  BY DEF Tree
<1>2. CASE Par[h] \in H
  <2>1. Num[Par[h]] \in Nat /\ Num[Par[h]] < Num[h]
    BY <1>2 DEF Tree
  <2>2. Num[Par[h]] < n /\ Num[Par[h]] < n + 1
    BY <1>1, <2>1
  <2> QED
    BY <1>2, <2>2 DEF Below
<1> QED
  BY <1>1, <1>2 DEF Below

\* There is a function for the blocks below every number ...
LEMMA SolutionsExist ==
  ASSUME NEW H, NEW None, NEW Num, NEW Par, Tree(H, None, Num, Par), NEW K \in SUBSET H
  PROVE  \A n \in Nat : \E f : Solves(f, H, None, Num, Par, K, n)
<1> DEFINE Solved == {n \in Nat : \E f : Solves(f, H, None, Num, Par, K, n)}
           B(n) == Below(H, None, Num, n)
<1>1. 0 \in Solved
  <2> DEFINE f == [h \in B(0) |-> {}]
  <2>1. \A h \in B(0) : h \notin K
    BY DEF Tree, Below
  <2>2. f = [h \in B(0) |-> Step(f, Par, K, h)]
    BY <2>1 DEF Step
  <2> QED
    BY <2>2 DEF Solves
<1>2. ASSUME NEW n \in Nat, n \in Solved PROVE n + 1 \in Solved
  <2>1. PICK f : Solves(f, H, None, Num, Par, K, n)
    BY <1>2
  <2> DEFINE g == [h \in B(n + 1) |-> Step(f, Par, K, h)]
  <2>2. \A h \in B(n) : h \in B(n + 1) /\ f[h] = g[h]
    <3>1. \A h \in B(n) : h \in B(n + 1)
      BY DEF Tree, Below
    <3>2. \A h \in B(n) : f[h] = Step(f, Par, K, h)
      BY <2>1 DEF Solves
    <3> QED
      BY <3>1, <3>2
  <2>3. \A h \in B(n + 1) : h \in K => f[Par[h]] = g[Par[h]]
    <3>1. ASSUME NEW h \in B(n + 1), h \in K PROVE Par[h] \in B(n)
      <4>1. h \in H /\ Num[h] < n + 1
        BY <3>1 DEF Tree, Below
      <4> QED
        BY <4>1, ParentBelow
    <3> HIDE DEF g, B
    <3> QED
      BY <2>2, <3>1
  <2>4. \A h \in B(n + 1) : Step(f, Par, K, h) = Step(g, Par, K, h)
    BY <2>3 DEF Step
  <2>5. g = [h \in B(n + 1) |-> Step(g, Par, K, h)]
    BY <2>4
  <2> HIDE DEF g
  <2> QED
    BY <2>5 DEF Solves
<1>3. Nat \subseteq Solved
  <2> HIDE DEF Solved
  <2> QED
    BY <1>1, <1>2, NatSetInduction
<1> QED
  BY <1>3

\* ... and two of them agree where both are defined.
LEMMA SolutionsAgree ==
  ASSUME NEW H, NEW None, NEW Num, NEW Par, Tree(H, None, Num, Par), NEW K \in SUBSET H,
         NEW m \in Nat, NEW n \in Nat, NEW f, NEW g,
         Solves(f, H, None, Num, Par, K, m), Solves(g, H, None, Num, Par, K, n)
  PROVE  \A h \in Below(H, None, Num, m) \cap Below(H, None, Num, n) : f[h] = g[h]
<1> DEFINE Both == Below(H, None, Num, m) \cap Below(H, None, Num, n)
           Q == {h \in H : h \in Both => f[h] = g[h]}
<1>1. \A h \in Both : f[h] = Step(f, Par, K, h) /\ g[h] = Step(g, Par, K, h)
  BY DEF Solves
<1>2. f[None] = g[None]
  BY <1>1 DEF Below, Step, Tree
<1>3. ASSUME NEW h \in H, Par[h] \in H => Par[h] \in Q, h \in Both
      PROVE  f[h] = g[h]
  <2>1. m - 1 \in Nat /\ n - 1 \in Nat /\ Num[h] < (m - 1) + 1 /\ Num[h] < (n - 1) + 1
    <3>1. h # None /\ Num[h] \in Nat
      BY DEF Tree
    <3>2. Num[h] < m /\ Num[h] < n
      BY <1>3, <3>1 DEF Below
    <3> QED
      BY <3>1, <3>2
  <2>2. Par[h] \in Both
    <3>1. (m - 1) + 1 = m /\ (n - 1) + 1 = n
      OBVIOUS
    <3>2. Par[h] \in Below(H, None, Num, (m - 1) + 1)
      BY <2>1, ParentBelow
    <3>3. Par[h] \in Below(H, None, Num, (n - 1) + 1)
      BY <2>1, ParentBelow
    <3> QED
      BY <3>1, <3>2, <3>3
  <2>3. Par[h] \in H \cup {None}
    BY DEF Tree
  <2>4. f[Par[h]] = g[Par[h]]
    BY <1>2, <1>3, <2>2, <2>3
  <2> HIDE DEF Both
  <2> QED
    BY <1>1, <1>3, <2>4 DEF Step
<1>4. H \subseteq Q
  <2>1. \A h \in H : (Par[h] \in H => Par[h] \in Q) => h \in Q
    BY <1>3
  <2> HIDE DEF Q
  <2> QED
    BY <2>1, BranchInduction
<1> QED
  BY <1>2, <1>4 DEF Below

\* The solutions join to a function for all blocks.
LEMMA BranchesExist ==
  ASSUME NEW H, NEW None, NEW Num, NEW Par, Tree(H, None, Num, Par), NEW K \in SUBSET H
  PROVE  \E f : Branches(f, H, None, Par, K)
<1> DEFINE S(f, n) == Solves(f, H, None, Num, Par, K, n)
           B(n) == Below(H, None, Num, n)
           Solution(n) == CHOOSE f : S(f, n)
           Whole == [h \in H \cup {None} |-> IF h = None THEN {} ELSE Solution(Num[h] + 1)[h]]
<1>1. ASSUME NEW h \in H
      PROVE  /\ Num[h] + 1 \in Nat /\ h \in B(Num[h] + 1) /\ h # None
             /\ S(Solution(Num[h] + 1), Num[h] + 1)
  <2>1. Num[h] \in Nat /\ h # None
    BY DEF Tree
  <2>2. h \in B(Num[h] + 1)
    BY <2>1 DEF Below
  <2>3. \A n \in Nat : \E f : Solves(f, H, None, Num, Par, K, n)
    BY SolutionsExist
  <2>4. \E f : S(f, Num[h] + 1)
    BY <2>1, <2>3
  <2> HIDE DEF S
  <2> QED
    BY <2>1, <2>2, <2>4
<1>2. ASSUME NEW h \in H
      PROVE  Solution(Num[h] + 1)[Par[h]] = Whole[Par[h]]
  <2> DEFINE f == Solution(Num[h] + 1)
             p == Par[h]
  <2>1. p \in B(Num[h] + 1) /\ p \in H \cup {None}
    <3>1. Num[h] \in Nat /\ Num[h] < Num[h] + 1 /\ p \in H \cup {None}
      BY DEF Tree
    <3> QED
      BY <3>1, ParentBelow
  <2>2. CASE p = None
    <3>1. f[p] = Step(f, Par, K, p)
      <4>1. S(f, Num[h] + 1)
        BY <1>1
      <4> HIDE DEF f, p
      <4> QED
        BY <2>1, <4>1 DEF Solves
    <3>2. p \notin K
      BY <2>2 DEF Tree
    <3> HIDE DEF f
    <3>3. f[p] = {}
      BY <3>1, <3>2 DEF Step
    <3>4. Whole[p] = {}
      BY <2>2
    <3> QED
      BY <3>3, <3>4 DEF f
  <2>3. CASE p # None
    <3>1. p \in H
      BY <2>1, <2>3
    <3>2. /\ p \in B(Num[p] + 1) /\ Num[p] + 1 \in Nat
          /\ S(Solution(Num[p] + 1), Num[p] + 1)
      BY <1>1, <3>1
    <3>3. Num[h] + 1 \in Nat /\ S(f, Num[h] + 1)
      BY <1>1
    <3>4. f[p] = Solution(Num[p] + 1)[p]
      <4> HIDE DEF p, f, Solution
      <4> QED
        BY <2>1, <3>2, <3>3, SolutionsAgree
    <3> QED
      BY <2>1, <2>3, <3>4
  <2> QED
    BY <2>2, <2>3
<1>3. ASSUME NEW h \in H PROVE Whole[h] = Step(Whole, Par, K, h)
  <2>1. Whole[h] = Solution(Num[h] + 1)[h]
    BY <1>1
  <2>2. Solution(Num[h] + 1)[h] = Step(Solution(Num[h] + 1), Par, K, h)
    BY <1>1 DEF Solves
  <2> HIDE DEF Whole, Solution
  <2> QED
    BY <1>2, <2>1, <2>2 DEF Step
<1>4. Whole[None] = Step(Whole, Par, K, None)
  BY DEF Step, Tree
<1>5. Whole = [h \in H \cup {None} |-> Step(Whole, Par, K, h)]
  <2>1. \A h \in H \cup {None} : Whole[h] = Step(Whole, Par, K, h)
    <3> HIDE DEF Whole
    <3> QED
      BY <1>3, <1>4
  <2>2. Whole = [h \in H \cup {None} |-> Whole[h]]
    OBVIOUS
  <2> HIDE DEF Whole
  <2> QED
    BY <2>1, <2>2
<1> HIDE DEF Whole
<1> QED
  BY <1>5 DEF Branches, Step

-----------------------------------------------------------------------------
(* Its branches *)

LEMMA BranchStep ==
  ASSUME NEW H, NEW None, NEW Par, NEW K, NEW f, Branches(f, H, None, Par, K),
         NEW h \in H \cup {None}
  PROVE  f[h] = IF h \in K THEN {h} \cup f[Par[h]] ELSE {}
BY DEF Branches

\* A branch consists of blocks of K, the numbers of which end with its last block's,
\* one block for a number, and the branch of each of them is a part of it.
LEMMA BranchFacts ==
  ASSUME NEW H, NEW None, NEW Num, NEW Par, Tree(H, None, Num, Par), NEW K \in SUBSET H,
         NEW f, Branches(f, H, None, Par, K), NEW h \in H
  PROVE  /\ f[h] \subseteq K
         /\ \A x \in f[h] : Num[x] <= Num[h] /\ f[x] \subseteq f[h]
         /\ \A x, y \in f[h] : Num[x] = Num[y] => x = y
<1> DEFINE Sound(y) == /\ f[y] \subseteq K
                       /\ \A z \in f[y] : Num[z] <= Num[y] /\ f[z] \subseteq f[y]
                       /\ \A w, z \in f[y] : Num[w] = Num[z] => w = z
           Q == {y \in H : Sound(y)}
<1>1. \A y \in H \cup {None} : f[y] = IF y \in K THEN {y} \cup f[Par[y]] ELSE {}
  BY DEF Branches
<1>2. f[None] = {}
  BY <1>1 DEF Tree
<1>3. ASSUME NEW y \in H, Par[y] \in H => Par[y] \in Q
      PROVE  y \in Q
  <2>1. CASE y \notin K
    <3>1. f[y] = {}
      BY <1>1, <2>1
    <3> QED
      BY <3>1
  <2>2. CASE y \in K
    <3>1. f[y] = {y} \cup f[Par[y]]
      BY <1>1, <2>2
    <3>2. Num[y] \in Nat /\ Par[y] \in H \cup {None}
      BY DEF Tree
    <3>3. CASE Par[y] = None
      <4>1. f[y] = {y}
        BY <1>2, <3>1, <3>3
      <4> QED
        BY <2>2, <3>2, <4>1
    <3>4. CASE Par[y] \in H
      <4> DEFINE p == Par[y]
      <4>1. Sound(p) /\ Num[p] \in Nat /\ Num[p] < Num[y]
        BY <1>3, <3>4 DEF Tree
      <4>2. ASSUME NEW z \in f[p] PROVE Num[z] \in Nat /\ Num[z] < Num[y]
        <5>1. z \in H /\ Num[z] <= Num[p]
          BY <4>1
        <5>2. Num[z] \in Nat
          BY <5>1 DEF Tree
        <5> HIDE DEF p
        <5> QED
          BY <3>2, <4>1, <5>1, <5>2
      <4>3. f[y] \subseteq K
        BY <2>2, <3>1, <4>1
      <4>4. ASSUME NEW z \in f[y] PROVE Num[z] <= Num[y] /\ f[z] \subseteq f[y]
        <5>1. CASE z = y
          BY <3>2, <5>1
        <5>2. CASE z \in f[p]
          <6>1. Num[z] <= Num[y]
            BY <3>2, <4>2, <5>2
          <6>2. f[z] \subseteq f[y]
            BY <3>1, <4>1, <5>2
          <6> QED
            BY <6>1, <6>2
        <5> QED
          BY <3>1, <5>1, <5>2
      <4>5. ASSUME NEW w \in f[y], NEW z \in f[y], Num[w] = Num[z] PROVE w = z
        <5>1. w = y \/ w \in f[p]
          BY <3>1
        <5>2. z = y \/ z \in f[p]
          BY <3>1
        <5>3. CASE w = y \/ z = y
          BY <3>2, <4>2, <4>5, <5>1, <5>2, <5>3
        <5>4. CASE w \in f[p] /\ z \in f[p]
          BY <4>1, <4>5, <5>4
        <5> QED
          BY <5>1, <5>2, <5>3, <5>4
      <4> QED
        BY <4>3, <4>4, <4>5
    <3> QED
      BY <3>2, <3>3, <3>4
  <2> QED
    BY <2>1, <2>2
<1>4. H \subseteq Q
  <2> HIDE DEF Q
  <2> QED
    BY <1>3, BranchInduction
<1>5. Sound(h)
  BY <1>4
<1> QED
  BY <1>5
=============================================================================
