-------------------------- MODULE WorkflowPlanProofs --------------------------
(***************************************************************************)
(* What WorkflowRun promises about the nodes of the plan, for every        *)
(* definition.  The proofs need what build_plan computes: the stages grow, *)
(* they hold every node of a valid plan, and what a branch prunes lies in  *)
(* later stages.  Induction over the stages is by the least counterexample.*)
(***************************************************************************)
EXTENDS WorkflowRunProofs, WellFoundedInduction

-----------------------------------------------------------------------------
(* The recursive functions of the plan *)

LEMMA Least ==
  ASSUME NEW T, T \subseteq Nat, T # {}
  PROVE  \E x \in T : \A y \in T : x <= y
<1>1. IsWellFoundedOn(OpToRel(<, Nat), Nat)
  BY Zenon, NatLessThanWellFounded
<1>2. PICK x \in T : \A y \in T : ~(<<y, x>> \in OpToRel(<, Nat))
  BY Zenon, <1>1, WFMin
<1>3. \A y \in T : ~(y < x)
  BY <1>2 DEF OpToRel
<1> QED BY <1>3

Size == Cardinality(Nodes)

LEMMA SizeNat == Size \in Nat
  BY GraphAssumption, FS_CardinalityType DEF Size

(* f is the function on 0 .. N with values in T that begins with start and goes on by step. *)
Iterate(f, N, T, start, step) ==
  f \in [0 .. N -> T] /\ f[0] = start /\ \A k \in 1 .. N : f[k] = step[f[k - 1]]

LEMMA Iterates ==
  ASSUME NEW N \in Nat, NEW T, NEW start \in T, NEW step \in [T -> T]
  PROVE  \E f : Iterate(f, N, T, start, step)
<1> DEFINE Defines(f, m) ==
             /\ f \in [0 .. m -> T]
             /\ \A k \in 0 .. m : f[k] = IF k = 0 THEN start ELSE step[f[k - 1]]
           Bad == {m \in Nat : ~ \E f : Defines(f, m)}
<1>1. Bad = {}
  <2> SUFFICES ASSUME Bad # {} PROVE FALSE
    OBVIOUS
  <2>1. PICK m \in Bad : \A y \in Bad : m <= y
    <3> HIDE DEF Defines
    <3> QED BY Least
  <2>2. m # 0
    <3> SUFFICES ASSUME m = 0 PROVE FALSE
      OBVIOUS
    <3> DEFINE f == [k \in 0 .. 0 |-> start]
    <3>1. Defines(f, 0)
      OBVIOUS
    <3> HIDE DEF f, Defines
    <3> QED BY <3>1
  <2>3. m - 1 \in Nat /\ m - 1 \notin Bad
    <3> HIDE DEF Defines
    <3>1. m \in Nat /\ m - 1 \in Nat
      BY <2>2
    <3>2. m - 1 \in Bad => m <= m - 1
      BY <2>1
    <3> HIDE DEF Bad
    <3> QED BY <3>1, <3>2
  <2>4. PICK f : Defines(f, m - 1)
    BY <2>3
  <2> DEFINE g == [k \in 0 .. m |-> IF k < m THEN f[k] ELSE step[f[m - 1]]]
  <2>5. step[f[m - 1]] \in T
    BY <2>3, <2>4
  <2>6. g \in [0 .. m -> T]
    <3>1. ASSUME NEW k \in 0 .. m, k < m PROVE f[k] \in T
      BY <2>1, <2>4, <3>1
    <3> QED BY <2>5, <3>1
  <2>7. ASSUME NEW k \in 0 .. m PROVE g[k] = IF k = 0 THEN start ELSE step[g[k - 1]]
    <3>1. CASE k = 0
      BY <2>2, <2>3, <2>4, <3>1
    <3>2. CASE k # 0 /\ k < m
      <4>1. k \in 0 .. (m - 1) /\ k - 1 \in 0 .. m /\ k - 1 < m
        BY <2>1, <3>2
      <4>2. f[k] = step[f[k - 1]]
        BY <2>4, <3>2, <4>1
      <4> HIDE DEF Defines
      <4> QED BY <3>2, <4>1, <4>2
    <3>3. CASE k = m
      <4>1. k - 1 \in 0 .. m /\ k - 1 < m
        BY <2>1, <2>2, <3>3
      <4> HIDE DEF Defines
      <4> QED BY <2>2, <3>3, <4>1
    <3> QED BY <3>1, <3>2, <3>3
  <2>8. Defines(g, m)
    BY <2>6, <2>7
  <2> HIDE DEF g, Defines
  <2> QED BY <2>1, <2>8
<1>2. PICK f : Defines(f, N)
  BY <1>1
<1> QED BY <1>2 DEF Iterate

(* The nodes that can be placed after those of S. *)
Reached(S) == S \cup {n \in Nodes : Upstream[n] \subseteq S}

LEMMA PlacedDef ==
  /\ Placed \in [0 .. Size -> SUBSET Nodes]
  /\ Placed[0] = {}
  /\ \A k \in 1 .. Size : Placed[k] = Reached(Placed[k - 1])
<1> DEFINE T == SUBSET Nodes
           step == [S \in T |-> Reached(S)]
           next(f, k) == IF k = 0 THEN {}
                         ELSE LET before == f[k - 1]
                              IN  before \cup {n \in Nodes : Upstream[n] \subseteq before}
           Eq(f) == f = [k \in 0 .. Size |-> next(f, k)]
<1>1. PICK f : Iterate(f, Size, T, {}, step)
  <2>1. step \in [T -> T]
    BY DEF Reached
  <2>2. {} \in T
    OBVIOUS
  <2> HIDE DEF step, T
  <2> QED BY Zenon, <2>1, <2>2, SizeNat, Iterates
<1>2. Eq(f)
  <2>1. ASSUME NEW k \in 0 .. Size PROVE f[k] = next(f, k)
    <3>1. CASE k = 0
      BY <1>1, <3>1 DEF Iterate
    <3>2. CASE k # 0
      <4>1. k \in 1 .. Size /\ k - 1 \in 0 .. Size
        BY <3>2, SizeNat
      <4>2. f[k - 1] \in T
        BY <1>1, <4>1 DEF Iterate
      <4>3. f[k] = Reached(f[k - 1])
        BY <1>1, <4>1, <4>2 DEF Iterate
      <4> QED BY <3>2, <4>3 DEF Reached
    <3> QED BY <3>1, <3>2
  <2>2. f = [k \in 0 .. Size |-> f[k]]
    BY <1>1 DEF Iterate
  <2> HIDE DEF next
  <2> QED BY <2>1, <2>2
<1>3. Placed = CHOOSE g : Eq(g)
  BY DEF Placed, Size
<1>4. Eq(Placed)
  <2> HIDE DEF Eq
  <2> QED BY <1>2, <1>3
<1>5. Placed = [k \in 0 .. Size |-> Placed[k]] /\ \A k \in 0 .. Size : Placed[k] = next(Placed, k)
  <2> HIDE DEF next
  <2> QED BY <1>4
<1>6. Placed[0] = {}
  BY <1>5, SizeNat
<1>7. ASSUME NEW k \in 1 .. Size PROVE Placed[k] = Reached(Placed[k - 1])
  <2>1. k \in 0 .. Size /\ k # 0
    BY SizeNat
  <2>2. Placed[k] = next(Placed, k)
    <3> HIDE DEF next
    <3> QED BY <1>5, <2>1
  <2> QED BY <2>1, <2>2 DEF Reached
<1>8. \A k \in 0 .. Size : Placed[k] \in SUBSET Nodes
  <2> DEFINE Bad == {k \in 0 .. Size : Placed[k] \notin SUBSET Nodes}
  <2> SUFFICES ASSUME Bad # {} PROVE FALSE
    OBVIOUS
  <2>1. PICK k \in Bad : \A y \in Bad : k <= y
    <3>1. Bad \subseteq Nat
      BY SizeNat
    <3> HIDE DEF Bad
    <3> QED BY <3>1, Least
  <2>2. k # 0
    BY <1>6, <2>1
  <2>3. k \in 1 .. Size /\ k - 1 \in 0 .. Size
    BY <2>1, <2>2, SizeNat
  <2>4. k - 1 \notin Bad
    <3>1. k - 1 \in Bad => k <= k - 1
      BY <2>1
    <3> HIDE DEF Bad
    <3> QED BY <2>3, <3>1, SizeNat
  <2>5. Placed[k] = Reached(Placed[k - 1]) /\ Placed[k - 1] \in SUBSET Nodes
    BY <1>7, <2>3, <2>4
  <2>6. Placed[k] \in SUBSET Nodes
    BY <2>5 DEF Reached
  <2> QED BY <2>1, <2>6
<1> QED BY <1>5, <1>6, <1>7, <1>8

(* The nodes below each node, one edge further than B says. *)
Further(B) == [n \in Nodes |-> Direct[n] \cup UNION {B[m] : m \in Direct[n]}]

LEMMA DirectOK == Direct \in [Nodes -> SUBSET Nodes]
  BY GraphAssumption DEF Direct

LEMMA BelowDef ==
  /\ Below[0] = [n \in Nodes |-> {}]
  /\ \A k \in 1 .. Size : Below[k] = Further(Below[k - 1])
<1> DEFINE T == [Nodes -> SUBSET Nodes]
           step == [B \in T |-> Further(B)]
           next(f, k) == IF k = 0 THEN [n \in Nodes |-> {}]
                         ELSE [n \in Nodes |-> Direct[n] \cup UNION {f[k - 1][m] : m \in Direct[n]}]
           Eq(f) == f = [k \in 0 .. Size |-> next(f, k)]
<1>1. PICK f : Iterate(f, Size, T, [n \in Nodes |-> {}], step)
  <2>1. ASSUME NEW B \in T PROVE Further(B) \in T
    <3>1. ASSUME NEW n \in Nodes PROVE Direct[n] \cup UNION {B[m] : m \in Direct[n]} \in SUBSET Nodes
      BY DirectOK
    <3> QED BY <3>1 DEF Further
  <2>2. step \in [T -> T]
    <3> HIDE DEF T
    <3> QED BY <2>1
  <2> DEFINE none == [n \in Nodes |-> {}]
  <2>3. none \in T
    OBVIOUS
  <2> HIDE DEF step, T, none
  <2>4. \E f : Iterate(f, Size, T, none, step)
    BY Zenon, <2>2, <2>3, SizeNat, Iterates
  <2> QED BY <2>4 DEF none
<1>2. Eq(f)
  <2>1. ASSUME NEW k \in 0 .. Size PROVE f[k] = next(f, k)
    <3>1. CASE k = 0
      BY <1>1, <3>1 DEF Iterate
    <3>2. CASE k # 0
      <4>1. k \in 1 .. Size /\ k - 1 \in 0 .. Size
        BY <3>2, SizeNat
      <4>2. f[k - 1] \in T /\ f[k] = step[f[k - 1]]
        <5> HIDE DEF T, step
        <5> QED BY <1>1, <4>1 DEF Iterate
      <4>3. f[k] = Further(f[k - 1])
        <5> HIDE DEF T
        <5> QED BY <4>2
      <4> QED BY <3>2, <4>3 DEF Further
    <3> QED BY <3>1, <3>2
  <2>2. f = [k \in 0 .. Size |-> f[k]]
    BY <1>1 DEF Iterate
  <2> HIDE DEF next
  <2> QED BY <2>1, <2>2
<1>3. Below = CHOOSE g : Eq(g)
  BY DEF Below, Size
<1>4. Eq(Below)
  <2> HIDE DEF Eq
  <2> QED BY <1>2, <1>3
<1>5. \A k \in 0 .. Size : Below[k] = next(Below, k)
  <2> HIDE DEF next
  <2> QED BY <1>4
<1>6. Below[0] = [n \in Nodes |-> {}]
  <2>1. Below[0] = next(Below, 0)
    <3> HIDE DEF next
    <3> QED BY <1>5, SizeNat
  <2> QED BY <2>1
<1>7. ASSUME NEW k \in 1 .. Size PROVE Below[k] = Further(Below[k - 1])
  <2>1. k \in 0 .. Size /\ k # 0
    BY SizeNat
  <2>2. Below[k] = next(Below, k)
    <3> HIDE DEF next
    <3> QED BY <1>5, <2>1
  <2> QED BY <2>1, <2>2 DEF Further
<1> QED BY <1>6, <1>7

-----------------------------------------------------------------------------
(* The stages *)

LEMMA PlacedGrows ==
  ASSUME NEW k \in 0 .. Size, NEW j \in 0 .. k
  PROVE  Placed[j] \subseteq Placed[k]
<1> DEFINE Bad == {i \in j .. k : ~(Placed[j] \subseteq Placed[i])}
<1> SUFFICES ASSUME Bad # {} PROVE FALSE
  BY SizeNat
<1>1. PICK i \in Bad : \A y \in Bad : i <= y
  <2>1. Bad \subseteq Nat
    BY SizeNat
  <2> HIDE DEF Bad
  <2> QED BY <2>1, Least
<1>2. i # j /\ i \in 1 .. Size /\ i - 1 \in j .. k
  BY <1>1, SizeNat
<1>3. i - 1 \notin Bad
  <2>1. i - 1 \in Bad => i <= i - 1
    BY <1>1
  <2> HIDE DEF Bad
  <2> QED BY <1>2, <2>1, SizeNat
<1>4. Placed[j] \subseteq Placed[i - 1] /\ Placed[i] = Reached(Placed[i - 1])
  BY <1>2, <1>3, PlacedDef
<1> QED BY <1>1, <1>4 DEF Reached

(* What a placed node waits for is placed a stage earlier. *)
LEMMA EarlierStage ==
  ASSUME NEW k \in 1 .. Size, NEW n \in Placed[k]
  PROVE  n \in Nodes /\ Upstream[n] \subseteq Placed[k - 1]
<1> DEFINE Bad == {i \in 0 .. k : n \in Placed[i]}
<1>1. PICK i \in Bad : \A y \in Bad : i <= y
  <2>1. Bad \subseteq Nat /\ k \in Bad
    BY SizeNat
  <2> HIDE DEF Bad
  <2> QED BY <2>1, Least
<1>2. i # 0
  BY <1>1, PlacedDef
<1>3. i \in 1 .. Size /\ i - 1 \in 0 .. Size /\ i - 1 \in 0 .. (k - 1) /\ k - 1 \in 0 .. Size
  BY <1>1, <1>2, SizeNat
<1>4. n \notin Placed[i - 1]
  <2>1. i - 1 \in Bad => i <= i - 1
    BY <1>1
  <2>2. i - 1 \in 0 .. k /\ ~(i <= i - 1)
    BY <1>3, SizeNat
  <2> QED BY <2>1, <2>2
<1>5. n \in Nodes /\ Upstream[n] \subseteq Placed[i - 1]
  BY <1>1, <1>3, <1>4, PlacedDef DEF Reached
<1> QED BY <1>3, <1>5, PlacedGrows

(* An edge leads to a later stage. *)
LEMMA EdgeForward ==
  ASSUME NEW n \in Nodes, NEW m \in Direct[n], NEW k \in 0 .. Size
  PROVE  /\ n \notin Placed[k] => m \notin Placed[k]
         /\ k > 0 /\ n \notin Placed[k - 1] => m \notin Placed[k]
<1>1. m \in Nodes /\ n \in Upstream[m]
  BY DirectOK DEF Direct, Upstream
<1>2. CASE k = 0
  BY <1>2, PlacedDef
<1>3. CASE k # 0
  <2>1. k \in 1 .. Size /\ k - 1 \in 0 .. k
    BY <1>3, SizeNat
  <2>2. m \in Placed[k] => n \in Placed[k - 1]
    BY <1>1, <2>1, EarlierStage
  <2> QED BY <2>1, <2>2, PlacedGrows
<1> QED BY <1>2, <1>3

(* So does a path. *)
LEMMA PathForward ==
  ASSUME NEW n \in Nodes, NEW m \in AllDownstream[n], NEW k \in 0 .. Size, n \notin Placed[k]
  PROVE  m \notin Placed[k]
<1> DEFINE Bad == {i \in 0 .. Size : \E x \in Nodes \ Placed[k] : Below[i][x] \cap Placed[k] # {}}
<1>1. Bad = {}
  <2> SUFFICES ASSUME Bad # {} PROVE FALSE
    OBVIOUS
  <2>1. PICK i \in Bad : \A y \in Bad : i <= y
    <3>1. Bad \subseteq Nat
      BY SizeNat
    <3> HIDE DEF Bad
    <3> QED BY <3>1, Least
  <2>2. PICK x \in Nodes \ Placed[k], y \in Placed[k] : y \in Below[i][x]
    BY <2>1
  <2>3. i # 0
    BY <2>2, BelowDef
  <2>4. i \in 1 .. Size /\ i - 1 \in 0 .. Size
    BY <2>1, <2>3, SizeNat
  <2>5. i - 1 \notin Bad
    <3>1. i - 1 \in Bad => i <= i - 1
      BY <2>1
    <3> HIDE DEF Bad
    <3> QED BY <2>4, <3>1, SizeNat
  <2>6. Below[i][x] = Direct[x] \cup UNION {Below[i - 1][z] : z \in Direct[x]}
    <3>1. Below[i] = Further(Below[i - 1])
      BY <2>4, BelowDef
    <3>2. x \in Nodes
      OBVIOUS
    <3> HIDE DEF Bad
    <3> QED BY Zenon, <3>1, <3>2 DEF Further
  <2>7. \A z \in Direct[x] : z \in Nodes \ Placed[k]
    BY DirectOK, EdgeForward
  <2>8. PICK z \in Direct[x] : y \in Below[i - 1][z]
    BY <2>2, <2>6, <2>7
  <2> QED BY <2>2, <2>4, <2>5, <2>7, <2>8
<1>2. Size \in 0 .. Size /\ m \in Below[Size][n]
  BY SizeNat DEF AllDownstream, Size
<1> QED BY <1>1, <1>2

(* What a branch of a stage prunes lies in later stages. *)
LEMMA PrunedForward ==
  ASSUME NEW k \in 1 .. Size, NEW n \in Stage[k], NEW h
  PROVE  Pruned(n, h) \cap Placed[k] = {}
<1>1. n \in Nodes /\ n \notin Placed[k - 1] /\ k \in 0 .. Size /\ k > 0
  BY SizeNat DEF Stage, Size
<1>2. ASSUME NEW g, NEW m \in HandleMap(n, g) PROVE m \in Nodes /\ m \notin Placed[k]
  <2>1. m \in Direct[n]
    BY <1>1, <1>2 DEF HandleMap, Direct
  <2>2. m \in Nodes
    BY <1>1, <2>1, DirectOK
  <2>3. m \notin Placed[k]
    BY <1>1, <2>1, EdgeForward
  <2> QED BY <2>2, <2>3
<1>3. ASSUME NEW g, NEW x \in HandleMap(n, g), NEW m \in AllDownstream[x] PROVE m \notin Placed[k]
  BY <1>1, <1>2, PathForward
<1> QED BY <1>2, <1>3 DEF Pruned

(* Nothing is placed any more after an empty stage. *)
LEMMA EmptyStageLast ==
  ASSUME NEW e \in 1 .. Size, Stage[e] = {}, NEW k \in e .. Size
  PROVE  Placed[k] = Placed[e - 1]
<1> DEFINE Bad == {i \in e .. Size : Placed[i] # Placed[e - 1]}
<1> SUFFICES ASSUME Bad # {} PROVE FALSE
  OBVIOUS
<1>1. PICK i \in Bad : \A y \in Bad : i <= y
  <2>1. Bad \subseteq Nat
    BY SizeNat
  <2> HIDE DEF Bad
  <2> QED BY <2>1, Least
<1>2. Placed[e] = Placed[e - 1]
  <2>1. Placed[e] \subseteq Placed[e - 1]
    <3>1. Placed[e] \subseteq Nodes
      BY PlacedDef, SizeNat
    <3> QED BY <3>1 DEF Stage, Size
  <2>2. e \in 0 .. Size /\ e - 1 \in 0 .. e
    BY SizeNat
  <2> QED BY <2>1, <2>2, PlacedGrows
<1>3. i # e
  BY <1>1, <1>2
<1>4. i \in 1 .. Size /\ i - 1 \in e .. Size /\ i - 1 \in 1 .. Size
  BY <1>1, <1>3, SizeNat
<1>5. i - 1 \notin Bad
  <2>1. i - 1 \in Bad => i <= i - 1
    BY <1>1
  <2> HIDE DEF Bad
  <2> QED BY <1>4, <2>1, SizeNat
<1>6. Placed[i] = Reached(Placed[i - 1]) /\ Placed[i - 1] = Placed[e - 1]
  BY <1>4, <1>5, PlacedDef
<1>7. Placed[e] = Reached(Placed[e - 1])
  BY PlacedDef
<1> QED BY <1>1, <1>2, <1>6, <1>7

(* The stages of a valid plan hold every node. *)
LEMMA LastStageOK ==
  /\ LastStage \in 0 .. Size
  /\ PlanValid => Placed[LastStage] = Nodes
<1> DEFINE Full == {k \in 1 .. Size : Stage[k] # {}}
           Empty == {k \in 1 .. Size : Stage[k] = {}}
<1>0. LastStage = Cardinality(Full)
  BY DEF LastStage, Size
<1>1. CASE Empty = {}
  <2>1. Full = 1 .. Size
    BY <1>1
  <2>2. Cardinality(1 .. Size) = Size
    BY SizeNat, FS_Interval, SMT
  <2>3. LastStage = Size
    <3> HIDE DEF Full
    <3> QED BY <1>0, <2>1, <2>2
  <2>4. PlanValid => Placed[Size] = Nodes
    BY DEF PlanValid, Size
  <2> QED BY <2>3, <2>4, SizeNat
<1>2. CASE Empty # {}
  <2>1. PICK e \in Empty : \A y \in Empty : e <= y
    <3>1. Empty \subseteq Nat
      BY SizeNat
    <3> HIDE DEF Empty
    <3> QED BY <1>2, <3>1, Least
  <2>2. Full = 1 .. (e - 1)
    <3>1. ASSUME NEW k \in 1 .. (e - 1) PROVE k \in Full
      <4>1. k \in 1 .. Size /\ k \notin Empty
        <5>1. k \in Empty => e <= k
          BY <2>1
        <5>2. e \in 1 .. Size
          OBVIOUS
        <5> HIDE DEF Empty
        <5> QED BY <5>1, <5>2, SizeNat
      <4> QED BY <4>1
    <3>2. ASSUME NEW k \in e .. Size PROVE Stage[k] = {}
      <4>1. CASE k = e
        BY <4>1
      <4>2. CASE k # e
        <5>1. k - 1 \in e .. Size /\ k \in 1 .. Size /\ e \in 1 .. Size
          BY <4>2, SizeNat
        <5>2. Placed[k] = Placed[e - 1] /\ Placed[k - 1] = Placed[e - 1]
          BY <5>1, EmptyStageLast
        <5> QED BY <5>1, <5>2 DEF Stage, Size
      <4> QED BY <4>1, <4>2
    <3> QED BY <3>1, <3>2, SizeNat
  <2>3. e - 1 \in 0 .. Size /\ Cardinality(1 .. (e - 1)) = e - 1
    <3>1. e \in 1 .. Size
      OBVIOUS
    <3>2. e - 1 \in Nat /\ e - 1 \in 0 .. Size
      BY <3>1, SizeNat
    <3> HIDE DEF Empty
    <3> QED BY <3>2, FS_Interval, SMT
  <2>4. Placed[Size] = Placed[e - 1]
    BY SizeNat, EmptyStageLast
  <2>5. LastStage = e - 1
    <3> HIDE DEF Full
    <3> QED BY <1>0, <2>2, <2>3
  <2>6. PlanValid => Placed[Size] = Nodes
    BY DEF PlanValid, Size
  <2> QED BY <2>3, <2>4, <2>5, <2>6
<1> QED BY <1>1, <1>2

(* A stage is what is placed between two numbers of stages. *)
LEMMA StageOf ==
  ASSUME NEW k \in 0 .. Size, k < LastStage
  PROVE  /\ k + 1 \in 1 .. Size /\ k + 1 \in 0 .. LastStage
         /\ Placed[k + 1] = Placed[k] \cup Stage[k + 1]
         /\ Stage[k + 1] \cap Placed[k] = {}
         /\ Stage[k + 1] \subseteq Nodes
<1>1. k + 1 \in 1 .. Size /\ k + 1 \in 0 .. LastStage
  BY LastStageOK, SizeNat
<1>2. Stage[k + 1] = {n \in Nodes : n \in Placed[k + 1] \ Placed[k]}
  BY <1>1, SizeNat DEF Stage, Size
<1>3. Placed[k] \subseteq Placed[k + 1] /\ Placed[k + 1] \subseteq Nodes
  BY <1>1, PlacedGrows, PlacedDef, SizeNat
<1> QED BY <1>1, <1>2, <1>3

-----------------------------------------------------------------------------
(* The rows *)

Succeeded == {n \in Nodes : "SUCCESS" \in rows[n]}

Skipped == {n \in Nodes : "SKIPPED" \in rows[n]}

Finished == Succeeded \cup Skipped

(* The nodes some pass has opened. *)
Begun == {n \in Nodes : rows[n] \ {"SKIPPED"} # {}}

(* What a step does to the rows: it leaves them alone, marks nodes as skipped, opens a   *)
(* node or closes one, with the nodes off its branch.                                   *)
LEMMA RowMoves ==
  ASSUME TypeOK, [Next]_vars
  PROVE  \/ rows' = rows
         \/ \E w \in Workers : BeginStage(w)
         \/ \E w \in Workers, n \in Nodes : StartNode(w, n)
         \/ \E w \in Workers : \E cut : (NodeSucceeds(w) \/ PausePasses(w)) /\ Succeed(w, cut)
         \/ \E w \in Workers : (NodeFails(w) \/ PauseRefuses(w)) /\ Fail(w)
         \/ \E w \in Workers : ParkNode(w)
         \/ \E w \in Workers : CrashWhileSkipping(w)
<1>1. ASSUME NEW w \in Workers, NodeSucceeds(w)
      PROVE  \E cut : (NodeSucceeds(w) \/ PausePasses(w)) /\ Succeed(w, cut)
  BY <1>1 DEF NodeSucceeds
<1>2. ASSUME NEW w \in Workers, PausePasses(w)
      PROVE  \E cut : (NodeSucceeds(w) \/ PausePasses(w)) /\ Succeed(w, cut)
  BY <1>2 DEF PausePasses
<1>3. ASSUME NEW w \in Workers, NodeFails(w) PROVE Fail(w)
  BY <1>3 DEF NodeFails
<1>4. ASSUME NEW w \in Workers, PauseRefuses(w) PROVE Fail(w)
  BY <1>4 DEF PauseRefuses
<1>5. ASSUME NEW w \in Workers, StartRun(w) \/ ResumeClaim(w) \/ Crash(w) \/ ResumeStart(w)
      PROVE  rows' = rows
  BY <1>5 DEF StartRun, ResumeClaim, Crash, ResumeStart, rowVars
<1>6. ASSUME NEW w \in Workers, BeginExecute(w) \/ SeeCancelled(w) \/ PassRefused(w) \/ PauseAsks(w)
      PROVE  rows' = rows
  BY <1>6 DEF BeginExecute, SeeCancelled, PassRefused, PauseAsks, rowVars
<1>7. ASSUME NEW w \in Workers,
             \/ ParkRun(w) \/ CompleteRun(w) \/ CompleteFails(w) \/ FailRun(w) \/ TaskFails(w)
             \/ Acknowledge(w)
      PROVE  rows' = rows
  BY <1>7 DEF ParkRun, CompleteRun, CompleteFails, FailRun, TaskFails, Acknowledge, rowVars
<1>8. ASSUME NEW a \in Approvers,
             \/ \E n \in PauseNodes, d \in Decisions : SubmitRead(a, n, d)
             \/ \E n \in PauseNodes : Redispatch(a, n)
             \/ SubmitStep(a) \/ SubmitDies(a)
      PROVE  rows' = rows
  BY <1>8
  DEF SubmitRead, Redispatch, SubmitStep, SubmitWrite, SubmitVote, SubmitDispatch, SubmitDies,
      rowVars
<1>9. CASE CancelLoad \/ CancelStep \/ UNCHANGED vars
  BY <1>9 DEF CancelLoad, CancelStep, CancelSave, CancelRequests, CancelContext, vars, rowVars
<1> QED
  BY ZenonT(60), <1>1, <1>2, <1>3, <1>4, <1>5, <1>6, <1>7, <1>8, <1>9 DEF Next, PassStep

(* A node's success and its being skipped are never taken back. *)
LEMMA RowsGrow ==
  ASSUME TypeOK, [Next]_vars
  PROVE  Succeeded \subseteq Succeeded' /\ Skipped \subseteq Skipped'
<1> DEFINE Goal == Succeeded \subseteq Succeeded' /\ Skipped \subseteq Skipped'
<1>0. rows \in [Nodes -> SUBSET NodeStatus]
  BY DEF TypeOK
<1>1. CASE rows' = rows
  BY <1>1 DEF Succeeded, Skipped
<1>2. ASSUME NEW w \in Workers, BeginStage(w) PROVE Goal
  BY <1>0, <1>2 DEF BeginStage, WithSkipped, Succeeded, Skipped
<1>3. ASSUME NEW w \in Workers, NEW n \in Nodes, StartNode(w, n) PROVE Goal
  BY <1>0, <1>3 DEF StartNode, Succeeded, Skipped
<1>4. ASSUME NEW w \in Workers, NEW cut, Succeed(w, cut) PROVE Goal
  <2>1. ASSUME NEW n \in Nodes, NEW s \in {"SUCCESS", "SKIPPED"}, s \in rows[n] PROVE s \in rows'[n]
    BY <1>0, <1>4, <2>1 DEF Succeed, Closed, WithSkipped
  <2> QED BY <2>1 DEF Succeeded, Skipped
<1>5. ASSUME NEW w \in Workers, Fail(w) PROVE Goal
  BY <1>0, <1>5 DEF Fail, Closed, Succeeded, Skipped
<1>6. ASSUME NEW w \in Workers, ParkNode(w) PROVE Goal
  BY <1>0, <1>6 DEF ParkNode, Closed, Succeeded, Skipped
<1>7. ASSUME NEW w \in Workers, CrashWhileSkipping(w) PROVE Goal
  <2>1. PICK saved : rows' = WithSkipped(saved, Closed(worker[w].node, "SUCCESS"))
    BY <1>7 DEF CrashWhileSkipping
  <2>2. ASSUME NEW n \in Nodes, NEW s \in {"SUCCESS", "SKIPPED"}, s \in rows[n] PROVE s \in rows'[n]
    BY <1>0, <2>1, <2>2 DEF Closed, WithSkipped
  <2> QED BY <2>2 DEF Succeeded, Skipped
<1> QED BY <1>1, <1>2, <1>3, <1>4, <1>5, <1>6, <1>7, RowMoves

-----------------------------------------------------------------------------
(* Nodes are not replayed *)

InPlan(w) == worker[w].pc \in {"nodes", "node", "waiting"}

(* A pass begins with nothing to do; on the plan it knows no success that the rows do     *)
(* not, and what it is about to do it has not done.                                     *)
PassOK(w) ==
  /\ worker[w].pc = "claimed" => worker[w].resume
  /\ worker[w].pc \in {"claimed", "started"} => worker[w].stage = 0 /\ worker[w].todo = {}
  /\ InPlan(w) =>
       /\ worker[w].executed \subseteq Succeeded
       /\ worker[w].todo \cap worker[w].executed = {}
       /\ worker[w].pc # "nodes" => worker[w].node \in worker[w].todo

PassesOK == \A w \in Workers : PassOK(w)

LEMMA PassesStep ==
  ASSUME TypeOK, PassesOK, [Next]_vars
  PROVE  PassesOK'
<1>0. worker \in [Workers -> Passes]
  BY DEF TypeOK
<1>1. Succeeded \subseteq Succeeded'
  BY RowsGrow
<1>2. ASSUME NEW v \in Workers, worker'[v] = worker[v] PROVE PassOK(v)'
  BY <1>1, <1>2 DEF PassesOK, PassOK, InPlan
<1>3. ASSUME NEW w \in Workers, \A v \in Workers \ {w} : worker'[v] = worker[v], PassOK(w)'
      PROVE  PassesOK'
  <2>1. \A v \in Workers : PassOK(v)'
    BY <1>2, <1>3
  <2> QED BY <2>1 DEF PassesOK
<1>4. ASSUME NEW w \in Workers,
             worker'[w].pc \notin {"claimed", "started", "nodes", "node", "waiting"}
      PROVE  PassOK(w)'
  BY <1>4 DEF PassOK, InPlan
<1>5. ASSUME NEW w \in Workers, StartRun(w) PROVE PassesOK'
  <2>1. worker'[w] = [Idle EXCEPT !.pc = "started"]
    BY <1>0, <1>5 DEF StartRun
  <2>2. PassOK(w)'
    BY <2>1 DEF PassOK, InPlan, Idle
  <2> QED BY <1>0, <1>3, <1>5, <2>2 DEF StartRun
<1>6. ASSUME NEW w \in Workers, ResumeClaim(w) PROVE PassesOK'
  <2>1. CASE worker' = worker
    BY <1>2, <2>1 DEF PassesOK
  <2>2. CASE worker' = [worker EXCEPT ![w] = [Idle EXCEPT !.pc = "claimed", !.resume = TRUE]]
    <3>1. worker'[w] = [Idle EXCEPT !.pc = "claimed", !.resume = TRUE]
      BY <1>0, <2>2
    <3>2. PassOK(w)'
      BY <3>1 DEF PassOK, InPlan, Idle
    <3> QED BY <1>0, <1>3, <2>2, <3>2
  <2> QED BY <1>6, <2>1, <2>2 DEF ResumeClaim
<1>7. ASSUME NEW w \in Workers, PassStep(w) PROVE PassesOK'
  <2>0. (\A v \in Workers \ {w} : worker'[v] = worker[v]) /\ PassOK(w)
    BY <1>7, PassMoves DEF PassesOK
  <2> DEFINE p == worker[w]
  <2>p. p \in Passes /\ p = worker[w]
    BY <1>0
  <2>1. CASE ResumeStart(w)
    <3>1. worker'[w] = [p EXCEPT !.pc = "started"] /\ p.pc = "claimed"
      BY <1>0, <2>1 DEF ResumeStart, Moves
    <3>2. PassOK(w)'
      BY <2>0, <2>p, <3>1 DEF PassOK, InPlan, Passes
    <3> QED BY <1>3, <2>0, <3>2
  <2>2. CASE BeginExecute(w)
    <3>1. /\ worker'[w] = [p EXCEPT !.pc = "nodes", !.executed = ExecutedBefore(w),
                                    !.skipped = SkippedBefore(w)]
          /\ p.pc = "started"
      BY <1>0, <2>2 DEF BeginExecute
    <3>2. ExecutedBefore(w) \subseteq Succeeded
      BY DEF ExecutedBefore, Succeeded
    <3>3. /\ worker'[w].pc = "nodes" /\ worker'[w].executed = ExecutedBefore(w)
          /\ worker'[w].todo = {}
      BY <2>0, <2>p, <3>1 DEF PassOK, Passes
    <3>4. PassOK(w)'
      BY <1>1, <3>2, <3>3 DEF PassOK, InPlan
    <3> QED BY <1>3, <2>0, <3>4
  <2>3. CASE BeginStage(w)
    <3>1. PICK cut, open :
            /\ worker'[w] = [p EXCEPT !.stage = @ + 1, !.todo = open \ cut, !.skipped = @ \cup cut]
            /\ open = Stage[p.stage + 1] \ (p.executed \cup p.skipped)
            /\ p.pc = "nodes"
      BY <1>0, <2>3 DEF BeginStage, StageOver
    <3>2. /\ worker'[w].pc = "nodes" /\ worker'[w].executed = p.executed
          /\ worker'[w].todo \cap p.executed = {}
      BY <2>p, <3>1 DEF Passes
    <3>3. PassOK(w)'
      BY <1>1, <2>0, <3>1, <3>2 DEF PassOK, InPlan
    <3> QED BY <1>3, <2>0, <3>3
  <2>4. CASE SeeCancelled(w) \/ PassRefused(w) \/ NodeFails(w) \/ PauseRefuses(w) \/ ParkNode(w)
             \/ CompleteRun(w)
    <3>1. worker'[w].pc \in {"failing", "parking", "completed"}
      BY <1>0, <2>4
      DEF SeeCancelled, PassRefused, NodeFails, PauseRefuses, Fail, ParkNode, CompleteRun, Leaves, Idle
    <3> QED BY <1>3, <1>4, <2>0, <3>1
  <2>5. CASE ParkRun(w) \/ CompleteFails(w) \/ FailRun(w) \/ TaskFails(w) \/ Acknowledge(w)
    <3>1. worker'[w].pc \in {"parked", "failing", "done", "failed", "idle"}
      BY <1>0, <2>5, <2>p
      DEF ParkRun, CompleteFails, FailRun, TaskFails, Acknowledge, Moves, Idle, Passes
    <3> QED BY <1>3, <1>4, <2>0, <3>1
  <2>6. ASSUME NEW n \in Nodes, StartNode(w, n) PROVE PassesOK'
    <3>1. worker'[w] = [p EXCEPT !.pc = "node", !.node = n] /\ p.pc = "nodes" /\ n \in p.todo
      BY <1>0, <2>6 DEF StartNode
    <3>2. PassOK(w)'
      BY <1>1, <2>0, <2>p, <3>1 DEF PassOK, InPlan, Passes
    <3> QED BY <1>3, <2>0, <3>2
  <2>7. CASE PauseAsks(w)
    <3>1. worker'[w] = [p EXCEPT !.pc = "waiting"] /\ p.pc = "node"
      BY <1>0, <2>7 DEF PauseAsks, Moves
    <3>2. PassOK(w)'
      BY <1>1, <2>0, <2>p, <3>1 DEF PassOK, InPlan, Passes
    <3> QED BY <1>3, <2>0, <3>2
  <2>8. ASSUME NEW cut, Succeed(w, cut), p.pc = "node", p.node \in Nodes PROVE PassesOK'
    <3>1. worker'[w] = [p EXCEPT !.pc = "nodes", !.todo = @ \ {p.node},
                                 !.executed = @ \cup {p.node},
                                 !.skipped = @ \cup cut, !.node = "none"]
      BY <1>0, <2>8 DEF Succeed
    <3>2. p.node \in Succeeded'
      <4>1. rows \in [Nodes -> SUBSET NodeStatus]
        BY DEF TypeOK
      <4> QED BY <2>8, <4>1 DEF Succeed, Closed, WithSkipped, Succeeded
    <3>3. /\ worker'[w].pc = "nodes" /\ worker'[w].todo = p.todo \ {p.node}
          /\ worker'[w].executed = p.executed \cup {p.node}
      BY <2>p, <3>1 DEF Passes
    <3>4. PassOK(w)'
      BY <1>1, <2>0, <2>8, <3>2, <3>3 DEF PassOK, InPlan
    <3> QED BY <1>3, <2>0, <3>4
  <2>9. CASE NodeSucceeds(w) \/ PausePasses(w)
    <3>1. p.pc = "node" /\ p.node \in Nodes
      <4>1. p.pc = "node"
        BY <2>9 DEF NodeSucceeds, PausePasses
      <4>2. p.node \in p.todo /\ p.todo \subseteq Nodes
        BY <2>0, <2>p, <4>1 DEF PassOK, InPlan, Passes
      <4> QED BY <4>1, <4>2
    <3> QED BY <2>8, <2>9, <3>1 DEF NodeSucceeds, PausePasses
  <2> QED BY <1>7, <2>1, <2>2, <2>3, <2>4, <2>5, <2>6, <2>7, <2>9 DEF PassStep
<1>8. ASSUME NEW w \in Workers, Crash(w) \/ CrashWhileSkipping(w) PROVE PassesOK'
  <2>1. worker' = [worker EXCEPT ![w] = Idle]
    BY <1>8 DEF Crash, CrashWhileSkipping, Killed
  <2>2. worker'[w].pc = "idle"
    BY <1>0, <2>1 DEF Idle
  <2> QED BY <1>0, <1>3, <1>4, <2>1, <2>2
<1>9. CASE worker' = worker
  BY <1>2, <1>9 DEF PassesOK
<1> QED
  BY ZenonT(60), <1>5, <1>6, <1>7, <1>8, <1>9
  DEF Next, vars, SubmitRead, Redispatch, SubmitStep, SubmitWrite, SubmitVote, SubmitDispatch,
      SubmitDies, CancelLoad, CancelStep, CancelSave, CancelRequests, CancelContext

(* The pass of w may still carry out node n. *)
May(w, n) ==
  \/ worker[w].pc \in {"claimed", "started"} /\ (worker[w].resume => n \notin Succeeded)
  \/ InPlan(w) /\ n \notin worker[w].executed
  \/ worker[w].pc = "parking" /\ n \notin Succeeded

Takers(n) == {w \in Workers : May(w, n)}

Weight(w, n) == IF May(w, n) THEN 1 ELSE 0

(* A run that waits lets one more pass in. *)
Opening(n) == IF status = "WAITING" /\ n \notin Succeeded THEN 1 ELSE 0

(* Every start of the run task pays for one execution of each node: one that happened,   *)
(* one that a pass may still make, or one that the next resumed pass may make.           *)
OnceInv == \A n \in Nodes :
  /\ IsFiniteSet(Takers(n))
  /\ effects[n] + Cardinality(Takers(n)) + Opening(n) <= starts

LEMMA OneMore ==
  ASSUME NEW S, NEW T, NEW w, IsFiniteSet(S), T \ {w} \subseteq S
  PROVE  /\ IsFiniteSet(T) /\ Cardinality(T) \in Nat /\ Cardinality(S) \in Nat
         /\ Cardinality(T) + (IF w \in S THEN 1 ELSE 0) <= Cardinality(S) + (IF w \in T THEN 1 ELSE 0)
<1> DEFINE S0 == S \ {w}
           T0 == T \ {w}
<1>1. /\ IsFiniteSet(S0) /\ Cardinality(S) \in Nat
      /\ Cardinality(S0) = IF w \in S THEN Cardinality(S) - 1 ELSE Cardinality(S)
  BY FS_RemoveElement, FS_CardinalityType
<1>2. IsFiniteSet(T0) /\ Cardinality(T0) <= Cardinality(S0)
  <2>1. T0 \subseteq S0
    OBVIOUS
  <2> HIDE DEF S0, T0
  <2> QED BY <1>1, <2>1, FS_Subset
<1>3. Cardinality(T0) \in Nat /\ Cardinality(S0) \in Nat
  <2> HIDE DEF S0, T0
  <2> QED BY <1>1, <1>2, FS_CardinalityType
<1>4. CASE w \in T
  <2>1. T = T0 \cup {w} /\ w \notin T0
    BY <1>4
  <2> HIDE DEF S0, T0
  <2>2. IsFiniteSet(T) /\ Cardinality(T) = Cardinality(T0) + 1
    BY <1>2, <2>1, FS_AddElement
  <2> QED BY <1>1, <1>2, <1>3, <1>4, <2>2
<1>5. CASE w \notin T
  <2>1. T = T0
    BY <1>5
  <2> HIDE DEF S0, T0
  <2> QED BY <1>1, <1>2, <1>3, <1>5, <2>1
<1> QED BY <1>4, <1>5

(* A step of w that keeps the balance of n. *)
Kept(w, n) ==
  /\ \A v \in Workers \ {w} : worker'[v] = worker[v]
  /\ effects'[n] + Opening(n)' + Weight(w, n)' + starts <= effects[n] + Opening(n) + Weight(w, n) + starts'

LEMMA KeptInv ==
  ASSUME TypeOK, TypeOK', Succeeded \subseteq Succeeded', OnceInv, NEW n \in Nodes,
         NEW w \in Workers, Kept(w, n)
  PROVE  /\ IsFiniteSet(Takers(n)')
         /\ effects'[n] + Cardinality(Takers(n)') + Opening(n)' <= starts'
<1>1. Takers(n)' \ {w} \subseteq Takers(n)
  BY DEF Kept, Takers, May, InPlan
<1>2. /\ w \in Takers(n) <=> May(w, n)
      /\ w \in Takers(n)' <=> May(w, n)'
  BY DEF Takers
<1> DEFINE S == Takers(n)
           T == Takers(n)'
<1>3. /\ IsFiniteSet(T) /\ Cardinality(T) \in Nat /\ Cardinality(S) \in Nat
      /\ Cardinality(T) + (IF w \in S THEN 1 ELSE 0) <= Cardinality(S) + (IF w \in T THEN 1 ELSE 0)
  <2>1. IsFiniteSet(S) /\ T \ {w} \subseteq S
    BY <1>1 DEF OnceInv
  <2> HIDE DEF S, T
  <2> QED BY <2>1, OneMore
<1>4. Cardinality(T) + Weight(w, n) <= Cardinality(S) + Weight(w, n)'
  BY <1>2, <1>3 DEF Weight
<1>5. effects[n] + Cardinality(S) + Opening(n) <= starts
  BY DEF OnceInv
<1>6. /\ effects[n] \in Nat /\ effects'[n] \in Nat /\ starts \in Nat /\ starts' \in Nat
      /\ Opening(n) \in Nat /\ Opening(n)' \in Nat /\ Weight(w, n) \in Nat /\ Weight(w, n)' \in Nat
  BY DEF TypeOK, Opening, Weight
<1>7. effects'[n] + Opening(n)' + Weight(w, n)' + starts <= effects[n] + Opening(n) + Weight(w, n) + starts'
  BY DEF Kept
<1> HIDE DEF S, T
<1>8. effects'[n] + Cardinality(T) + Opening(n)' <= starts'
  BY <1>3, <1>4, <1>5, <1>6, <1>7
<1> QED BY <1>3, <1>8 DEF T

(* A step that leaves the passes, the counts and the waiting row as they are. *)
LEMMA StillKept ==
  ASSUME TypeOK, Succeeded \subseteq Succeeded', OnceInv, NEW n \in Nodes,
         UNCHANGED <<worker, effects, starts>>, status' = "WAITING" => status = "WAITING"
  PROVE  /\ IsFiniteSet(Takers(n)')
         /\ effects'[n] + Cardinality(Takers(n)') + Opening(n)' <= starts'
<1>1. Takers(n)' \subseteq Takers(n)
  BY DEF Takers, May, InPlan
<1>2. IsFiniteSet(Takers(n)) /\ effects[n] + Cardinality(Takers(n)) + Opening(n) <= starts
  BY DEF OnceInv
<1> DEFINE S == Takers(n)
           T == Takers(n)'
<1>3. IsFiniteSet(T) /\ Cardinality(T) <= Cardinality(S) /\ Cardinality(S) \in Nat
  <2>1. IsFiniteSet(S) /\ T \subseteq S
    BY <1>1, <1>2
  <2> HIDE DEF S, T
  <2> QED BY <2>1, FS_Subset, FS_CardinalityType
<1>4. Cardinality(T) \in Nat
  <2> HIDE DEF S, T
  <2> QED BY <1>3, FS_CardinalityType
<1>5. Opening(n)' <= Opening(n) /\ Opening(n) \in Nat /\ Opening(n)' \in Nat
  BY DEF Opening
<1>6. effects[n] \in Nat /\ starts \in Nat
  BY DEF TypeOK
<1>7. effects'[n] = effects[n] /\ starts' = starts
  OBVIOUS
<1> HIDE DEF S, T
<1>8. effects[n] + Cardinality(T) + Opening(n)' <= starts
  BY <1>2, <1>3, <1>4, <1>5, <1>6 DEF S
<1> QED BY <1>3, <1>7, <1>8 DEF T

LEMMA PassKept ==
  ASSUME TypeOK, PassesOK, [Next]_vars, NEW n \in Nodes, NEW w \in Workers,
         StartRun(w) \/ ResumeClaim(w) \/ PassStep(w) \/ Crash(w) \/ CrashWhileSkipping(w)
  PROVE  Kept(w, n)
<1>0. /\ worker \in [Workers -> Passes] /\ rows \in [Nodes -> SUBSET NodeStatus]
      /\ effects \in [Nodes -> Nat] /\ starts \in Nat
  BY DEF TypeOK
<1>1. Succeeded \subseteq Succeeded'
  BY RowsGrow
<1>2. PassOK(w)
  BY DEF PassesOK
<1> DEFINE p == worker[w]
<1>p. p \in Passes /\ p = worker[w]
  BY <1>0
<1>3. CASE StartRun(w)
  <2>1. /\ worker'[w] = [Idle EXCEPT !.pc = "started"] /\ p.pc = "idle" /\ status' = "RUNNING"
        /\ starts' = starts + 1 /\ effects' = effects
        /\ \A v \in Workers \ {w} : worker'[v] = worker[v]
    BY <1>0, <1>3 DEF StartRun
  <2>2. Weight(w, n) = 0 /\ Opening(n)' = 0 /\ Opening(n) \in Nat /\ Weight(w, n)' \in {0, 1}
    BY <2>1 DEF Weight, May, InPlan, Opening
  <2> QED BY <1>0, <2>1, <2>2 DEF Kept
<1>4. CASE ResumeClaim(w)
  <2>0. effects' = effects /\ starts' = starts /\ rows' = rows
    BY <1>4 DEF ResumeClaim, historyVars
  <2>1. CASE status = "WAITING"
    <3>1. /\ worker'[w] = [Idle EXCEPT !.pc = "claimed", !.resume = TRUE] /\ p.pc = "idle"
          /\ status' = "RUNNING" /\ \A v \in Workers \ {w} : worker'[v] = worker[v]
      BY <1>0, <1>4, <2>1 DEF ResumeClaim, Claimable
    <3>2. worker'[w].resume /\ worker'[w].pc = "claimed"
      BY <3>1 DEF Idle
    <3>3. Weight(w, n) = 0 /\ Opening(n)' = 0 /\ Weight(w, n)' = Opening(n) /\ Opening(n) \in Nat
      BY <2>0, <2>1, <3>1, <3>2 DEF Weight, May, InPlan, Opening, Succeeded
    <3> QED BY <1>0, <2>0, <3>1, <3>3 DEF Kept
  <2>2. CASE status # "WAITING"
    <3>1. UNCHANGED <<worker, status>>
      BY <1>4, <2>2 DEF ResumeClaim, Claimable
    <3>2. Weight(w, n)' = Weight(w, n) /\ Opening(n)' = Opening(n) /\ Weight(w, n) \in Nat /\ Opening(n) \in Nat
      BY <2>0, <3>1 DEF Weight, May, InPlan, Opening, Succeeded
    <3> QED BY <1>0, <2>0, <3>1, <3>2 DEF Kept
  <2> QED BY <2>1, <2>2
<1>5. ASSUME \A v \in Workers \ {w} : worker'[v] = worker[v], UNCHANGED <<effects, starts>>,
             status' = "WAITING" => status = "WAITING", May(w, n)' => May(w, n)
      PROVE  Kept(w, n)
  <2>1. /\ Weight(w, n)' <= Weight(w, n) /\ Opening(n)' <= Opening(n)
        /\ Weight(w, n) \in Nat /\ Opening(n) \in Nat /\ Weight(w, n)' \in Nat /\ Opening(n)' \in Nat
    BY <1>1, <1>5 DEF Weight, Opening
  <2>2. effects'[n] = effects[n] /\ starts' = starts /\ effects[n] \in Nat
    BY <1>0, <1>5
  <2> QED BY <1>0, <1>5, <2>1, <2>2 DEF Kept
<1>6. CASE Crash(w)
  <2>1. worker'[w].pc = "idle" /\ UNCHANGED <<effects, starts, status>>
    BY <1>0, <1>6 DEF Crash, Killed, Idle, rowVars, historyVars
  <2>2. ~May(w, n)'
    BY <2>1 DEF May, InPlan
  <2> QED BY <1>0, <1>5, <1>6, <2>1, <2>2 DEF Crash, Killed
<1>8. CASE CrashWhileSkipping(w)
  <2>1. /\ worker' = [worker EXCEPT ![w] = Idle] /\ UNCHANGED <<starts, status>>
        /\ effects' = [effects EXCEPT ![p.node] = @ + 1] /\ p.pc = "node"
    BY <1>8 DEF CrashWhileSkipping, Killed
  <2>2. worker'[w].pc = "idle" /\ \A v \in Workers \ {w} : worker'[v] = worker[v]
    BY <1>0, <2>1 DEF Idle
  <2>3. /\ Weight(w, n)' = 0 /\ Opening(n)' <= Opening(n)
        /\ Opening(n) \in Nat /\ Opening(n)' \in Nat /\ Weight(w, n) \in {0, 1}
    BY <1>1, <2>1, <2>2 DEF Weight, May, InPlan, Opening
  <2>4. effects'[n] <= effects[n] + Weight(w, n)
    <3>1. CASE n = p.node
      <4>1. n \notin p.executed
        BY <1>2, <2>1, <3>1 DEF PassOK, InPlan
      <4>2. Weight(w, n) = 1
        BY <2>1, <4>1 DEF Weight, May, InPlan
      <4> QED BY <1>0, <2>1, <3>1, <4>2
    <3>2. CASE n # p.node
      BY <1>0, <2>1, <2>3, <3>2
    <3> QED BY <3>1, <3>2
  <2>5. effects[n] \in Nat /\ effects'[n] \in Nat /\ starts' = starts
    BY <1>0, <2>1
  <2> QED BY <1>0, <2>2, <2>3, <2>4, <2>5 DEF Kept
<1>7. CASE PassStep(w)
  <2>0. \A v \in Workers \ {w} : worker'[v] = worker[v]
    BY <1>7, PassMoves
  <2>1. CASE ResumeStart(w)
    <3>1. /\ worker'[w] = [p EXCEPT !.pc = "started"] /\ p.pc = "claimed" /\ status' = "RUNNING"
          /\ UNCHANGED <<effects, starts>>
      BY <1>0, <2>1 DEF ResumeStart, Moves, historyVars
    <3>2. worker'[w].pc = "started" /\ worker'[w].resume = p.resume
      BY <1>p, <3>1 DEF Passes
    <3>3. May(w, n)' => May(w, n)
      BY <1>1, <3>1, <3>2 DEF May, InPlan
    <3> QED BY <1>5, <2>0, <3>1, <3>3
  <2>2. CASE BeginExecute(w)
    <3>1. /\ worker'[w] = [p EXCEPT !.pc = "nodes", !.executed = ExecutedBefore(w),
                                    !.skipped = SkippedBefore(w)]
          /\ p.pc = "started" /\ UNCHANGED <<effects, starts, status>>
      BY <1>0, <2>2 DEF BeginExecute, historyVars
    <3>2. worker'[w].pc = "nodes" /\ worker'[w].executed = ExecutedBefore(w)
      BY <1>p, <3>1 DEF Passes
    <3>3. May(w, n)' => May(w, n)
      BY <3>1, <3>2 DEF May, InPlan, ExecutedBefore, Succeeded
    <3> QED BY <1>5, <2>0, <3>1, <3>3
  <2>3. CASE BeginStage(w)
    <3>1. PICK cut, open :
            /\ worker'[w] = [p EXCEPT !.stage = @ + 1, !.todo = open \ cut, !.skipped = @ \cup cut]
            /\ p.pc = "nodes" /\ UNCHANGED <<effects, starts, status>>
      BY <1>0, <2>3 DEF BeginStage, StageOver, historyVars
    <3>2. worker'[w].pc = "nodes" /\ worker'[w].executed = p.executed
      BY <1>p, <3>1 DEF Passes
    <3>3. May(w, n)' => May(w, n)
      BY <3>1, <3>2 DEF May, InPlan
    <3> QED BY <1>5, <2>0, <3>1, <3>3
  <2>4. CASE SeeCancelled(w) \/ PassRefused(w) \/ NodeFails(w) \/ PauseRefuses(w) \/ CompleteRun(w)
    <3>1. /\ worker'[w].pc \in {"failing", "completed"} /\ UNCHANGED <<effects, starts>>
          /\ status' = "WAITING" => status = "WAITING"
      BY <1>0, <2>4
      DEF SeeCancelled, PassRefused, NodeFails, PauseRefuses, Fail, CompleteRun, Leaves, Idle,
          rowVars, historyVars
    <3>2. ~May(w, n)'
      BY <3>1 DEF May, InPlan
    <3> QED BY <1>5, <2>0, <3>1, <3>2
  <2>5. CASE CompleteFails(w) \/ FailRun(w) \/ TaskFails(w) \/ Acknowledge(w)
    <3>1. /\ worker'[w].pc \in {"failing", "done", "failed", "idle"} /\ UNCHANGED <<effects, starts>>
          /\ status' = "WAITING" => status = "WAITING"
      BY <1>0, <2>5, <1>p
      DEF CompleteFails, FailRun, TaskFails, Acknowledge, Moves, Idle, Passes, rowVars, historyVars
    <3>2. ~May(w, n)'
      BY <3>1 DEF May, InPlan
    <3> QED BY <1>5, <2>0, <3>1, <3>2
  <2>6. CASE ParkNode(w)
    <3>1. worker'[w].pc = "parking" /\ UNCHANGED <<effects, starts, status>> /\ p.pc = "waiting"
      BY <1>0, <2>6 DEF ParkNode, Leaves, Idle, historyVars
    <3>2. May(w, n)' => n \notin Succeeded
      BY <1>1, <3>1 DEF May, InPlan
    <3>3. n \notin Succeeded => May(w, n)
      BY <1>2, <3>1 DEF May, InPlan, PassOK
    <3> QED BY <1>5, <2>0, <3>1, <3>2, <3>3
  <2>7. CASE ParkRun(w)
    <3>1. /\ worker'[w] = [p EXCEPT !.pc = "parked"] /\ p.pc = "parking" /\ status' = "WAITING"
          /\ UNCHANGED <<effects, starts, rows>>
      BY <1>0, <2>7 DEF ParkRun, Moves, historyVars
    <3>2. worker'[w].pc = "parked"
      BY <1>p, <3>1 DEF Passes
    <3>3. Weight(w, n)' = 0 /\ Opening(n)' = Weight(w, n) /\ Opening(n) \in Nat /\ Weight(w, n) \in Nat
      BY <3>1, <3>2 DEF Weight, May, InPlan, Opening, Succeeded
    <3> QED BY <1>0, <2>0, <3>1, <3>3 DEF Kept
  <2>8. ASSUME NEW m \in Nodes, StartNode(w, m) PROVE Kept(w, n)
    <3>1. /\ worker'[w] = [p EXCEPT !.pc = "node", !.node = m] /\ p.pc = "nodes"
          /\ UNCHANGED <<effects, starts, status>>
      BY <1>0, <2>8 DEF StartNode, historyVars
    <3>2. worker'[w].pc = "node" /\ worker'[w].executed = p.executed
      BY <1>p, <3>1 DEF Passes
    <3>3. May(w, n)' => May(w, n)
      BY <3>1, <3>2 DEF May, InPlan
    <3> QED BY <1>5, <2>0, <3>1, <3>3
  <2>9. CASE PauseAsks(w)
    <3>1. worker'[w] = [p EXCEPT !.pc = "waiting"] /\ p.pc = "node" /\ UNCHANGED <<effects, starts, status>>
      BY <1>0, <2>9 DEF PauseAsks, Moves, rowVars, historyVars
    <3>2. worker'[w].pc = "waiting" /\ worker'[w].executed = p.executed
      BY <1>p, <3>1 DEF Passes
    <3>3. May(w, n)' => May(w, n)
      BY <3>1, <3>2 DEF May, InPlan
    <3> QED BY <1>5, <2>0, <3>1, <3>3
  <2>10. ASSUME NEW cut, Succeed(w, cut), p.pc = "node", UNCHANGED status PROVE Kept(w, n)
    <3>1. /\ worker'[w] = [p EXCEPT !.pc = "nodes", !.todo = @ \ {p.node},
                                    !.executed = @ \cup {p.node},
                                    !.skipped = @ \cup cut, !.node = "none"]
          /\ effects' = [effects EXCEPT ![p.node] = @ + 1] /\ starts' = starts
      BY <1>0, <2>10 DEF Succeed
    <3>2. worker'[w].pc = "nodes" /\ worker'[w].executed = p.executed \cup {p.node}
      BY <1>p, <3>1 DEF Passes
    <3>3. May(w, n)' <=> n \notin p.executed /\ n # p.node
      BY <3>2 DEF May, InPlan
    <3>4. May(w, n) <=> n \notin p.executed
      BY <2>10 DEF May, InPlan
    <3>5. CASE n # p.node
      <4>1. effects'[n] = effects[n]
        BY <1>0, <3>1, <3>5
      <4>2. /\ Weight(w, n)' <= Weight(w, n) /\ Opening(n)' <= Opening(n)
            /\ Weight(w, n) \in Nat /\ Opening(n) \in Nat /\ Weight(w, n)' \in Nat /\ Opening(n)' \in Nat
        BY <1>1, <2>10, <3>3, <3>4 DEF Weight, Opening
      <4> QED BY <1>0, <2>0, <3>1, <4>1, <4>2 DEF Kept
    <3>6. CASE n = p.node
      <4>1. effects'[n] = effects[n] + 1
        BY <1>0, <3>1, <3>6
      <4>2. n \notin p.executed
        BY <1>2, <2>10, <3>6 DEF PassOK, InPlan
      <4>3. /\ Weight(w, n)' = 0 /\ Weight(w, n) = 1 /\ Opening(n)' <= Opening(n)
            /\ Opening(n) \in Nat /\ Opening(n)' \in Nat
        BY <1>1, <2>10, <3>3, <3>4, <3>6, <4>2 DEF Weight, Opening
      <4> QED BY <1>0, <2>0, <3>1, <4>1, <4>3 DEF Kept
    <3> QED BY <3>5, <3>6
  <2>11. CASE NodeSucceeds(w) \/ PausePasses(w)
    BY <2>10, <2>11 DEF NodeSucceeds, PausePasses
  <2> QED BY <1>7, <2>1, <2>2, <2>3, <2>4, <2>5, <2>6, <2>7, <2>8, <2>9, <2>11 DEF PassStep
<1> QED BY <1>3, <1>4, <1>6, <1>7, <1>8

LEMMA OnceStep ==
  ASSUME TypeOK, TypeOK', PassesOK, OnceInv, [Next]_vars
  PROVE  OnceInv'
<1> SUFFICES ASSUME NEW n \in Nodes
             PROVE  /\ IsFiniteSet(Takers(n)')
                    /\ effects'[n] + Cardinality(Takers(n)') + Opening(n)' <= starts'
  BY DEF OnceInv
<1>0. Succeeded \subseteq Succeeded'
  BY RowsGrow
<1>1. ASSUME NEW w \in Workers,
             StartRun(w) \/ ResumeClaim(w) \/ PassStep(w) \/ Crash(w) \/ CrashWhileSkipping(w)
      PROVE  /\ IsFiniteSet(Takers(n)')
             /\ effects'[n] + Cardinality(Takers(n)') + Opening(n)' <= starts'
  <2>1. Kept(w, n)
    BY <1>1, PassKept
  <2> QED BY <1>0, <2>1, KeptInv
<1>2. CASE UNCHANGED <<worker, effects, starts>> /\ (status' = "WAITING" => status = "WAITING")
  BY <1>0, <1>2, StillKept
<1>3. ASSUME NEW a \in Approvers,
             \/ \E m \in PauseNodes, d \in Decisions : SubmitRead(a, m, d)
             \/ \E m \in PauseNodes : Redispatch(a, m)
             \/ SubmitStep(a) \/ SubmitDies(a)
      PROVE  UNCHANGED <<worker, effects, starts>> /\ (status' = "WAITING" => status = "WAITING")
  BY <1>3
  DEF SubmitRead, Redispatch, SubmitStep, SubmitWrite, SubmitVote, SubmitDispatch, SubmitDies,
      rowVars, historyVars
<1>4. CASE CancelLoad \/ CancelStep \/ UNCHANGED vars
  <2>1. UNCHANGED <<worker, effects, starts>> /\ (status' = "WAITING" => status = "WAITING")
    BY <1>4
    DEF CancelLoad, CancelStep, CancelSave, CancelRequests, CancelContext, vars, rowVars,
        historyVars
  <2> QED BY <1>2, <2>1
<1> QED BY ZenonT(60), <1>1, <1>2, <1>3, <1>4 DEF Next

(* A node is carried out at most once for each start of the run task, whoever dies, and   *)
(* however many resume tasks are published: parks, resumed passes and passes that overlap *)
(* after a crash never replay a completed node.                                          *)
THEOREM WorkflowNodeOnce == Spec => []NodeOncePerStart
<1>1. Init => PassesOK
  BY DEF Init, PassesOK, PassOK, InPlan, Idle
<1>2. TypeOK /\ PassesOK /\ [Next]_vars => PassesOK'
  BY PassesStep
<1>3. Init => OnceInv
  <2> SUFFICES ASSUME Init, NEW n \in Nodes
               PROVE  IsFiniteSet(Takers(n)) /\ effects[n] + Cardinality(Takers(n)) + Opening(n) <= starts
    BY DEF OnceInv
  <2>1. Takers(n) = {}
    BY DEF Init, Takers, May, InPlan, Idle
  <2>2. effects[n] = 0 /\ Opening(n) = 0 /\ starts = 0
    BY DEF Init, Opening
  <2> QED BY <2>1, <2>2, FS_EmptySet
<1>4. TypeOK /\ TypeOK' /\ PassesOK /\ OnceInv /\ [Next]_vars => OnceInv'
  BY OnceStep
<1>5. TypeOK /\ OnceInv => NodeOncePerStart
  <2> SUFFICES ASSUME TypeOK, OnceInv, NEW n \in Nodes PROVE effects[n] <= starts
    BY DEF NodeOncePerStart
  <2>1. IsFiniteSet(Takers(n)) /\ effects[n] + Cardinality(Takers(n)) + Opening(n) <= starts
    BY DEF OnceInv
  <2>2. Cardinality(Takers(n)) \in Nat
    BY <2>1, FS_CardinalityType
  <2>3. Opening(n) \in Nat /\ effects[n] \in Nat /\ starts \in Nat
    BY DEF Opening, TypeOK
  <2> QED BY <2>1, <2>2, <2>3
<1> QED BY <1>1, <1>2, <1>3, <1>4, <1>5, WorkflowTypeCorrect, PTL DEF Spec, Safety

-----------------------------------------------------------------------------
(* Branches and completeness *)

LEMMA StageFacts ==
  ASSUME NEW s \in 1 .. Size
  PROVE  /\ s \in 0 .. Size /\ s - 1 \in 0 .. Size
         /\ Stage[s] \subseteq Placed[s] /\ Stage[s] \cap Placed[s - 1] = {}
         /\ Placed[s - 1] \subseteq Placed[s] /\ Placed[s] \subseteq Nodes
         /\ Placed[s] \subseteq Placed[s - 1] \cup Stage[s]
         /\ \A n \in Placed[s] : Upstream[n] \subseteq Placed[s - 1]
<1>1. s \in 0 .. Size /\ s - 1 \in 0 .. Size /\ s - 1 \in 0 .. s
  BY SizeNat
<1>2. Stage[s] = {n \in Nodes : n \in Placed[s] \ Placed[s - 1]}
  BY DEF Stage, Size
<1>3. Placed[s - 1] \subseteq Placed[s] /\ Placed[s] \subseteq Nodes
  BY <1>1, PlacedGrows, PlacedDef
<1>4. \A n \in Placed[s] : Upstream[n] \subseteq Placed[s - 1]
  BY EarlierStage
<1> QED BY <1>1, <1>2, <1>3, <1>4

(* A node is opened only when all earlier stages are finished, and never below a skipped *)
(* one.                                                                                 *)
Layered ==
  /\ \A k \in 0 .. Size : Begun \subseteq Placed[k] \/ Placed[k] \subseteq Finished
  /\ \A n \in Begun : Upstream[n] \cap Skipped = {}

(* A pass knows exactly what the rows record, has passed over every earlier stage, and   *)
(* has only nodes of its stage to do, none below a skipped one.                          *)
Progress(w) ==
  /\ worker[w].pc = "started" /\ ~worker[w].resume => \A n \in Nodes : rows[n] = {}
  /\ InPlan(w) =>
       /\ PlanValid
       /\ worker[w].stage \in 0 .. LastStage
       /\ worker[w].executed = Succeeded /\ worker[w].skipped = Skipped
       /\ Placed[worker[w].stage] \subseteq Finished \cup worker[w].todo
       /\ worker[w].todo # {} =>
            worker[w].stage > 0 /\ worker[w].todo \subseteq Stage[worker[w].stage] \ Finished
       /\ \A n \in worker[w].todo : Upstream[n] \cap Skipped = {}
       /\ worker[w].pc # "nodes" => worker[w].node \in worker[w].todo \cap Begun

(* What the rows record is sound as long as no worker has died. *)
PlanRows ==
  /\ Layered
  /\ pruned \subseteq Skipped
  /\ status = "SUCCESS" => Finished = Nodes

PlanInv == crashes = 0 =>
  /\ PlanRows
  /\ \A w \in Workers : Progress(w)
  /\ runTasks = 1 => \A n \in Nodes : rows[n] = {}

LEMMA SkipRows ==
  ASSUME rows \in [Nodes -> SUBSET NodeStatus], NEW cut \in SUBSET Nodes, cut \cap Begun = {},
         rows' = WithSkipped(cut, rows)
  PROVE  Begun' = Begun /\ Succeeded' = Succeeded /\ Skipped' = Skipped \cup cut
<1>1. ASSUME NEW n \in Nodes
      PROVE  /\ n \in Begun' <=> n \in Begun
             /\ n \in Succeeded' <=> n \in Succeeded
             /\ n \in Skipped' <=> n \in Skipped \cup cut
  <2>1. rows'[n] = IF n \in cut /\ rows[n] = {} THEN {"SKIPPED"} ELSE rows[n]
    BY DEF WithSkipped
  <2>2. n \in cut => rows[n] = {} \/ rows[n] = {"SKIPPED"}
    BY DEF Begun
  <2> QED BY <2>1, <2>2 DEF Begun, Succeeded, Skipped
<1> QED BY <1>1 DEF Begun, Succeeded, Skipped

LEMMA SucceedRows ==
  ASSUME rows \in [Nodes -> SUBSET NodeStatus], NEW m \in Begun, NEW cut \in SUBSET Nodes,
         cut \cap Begun = {}, m \notin Skipped, rows' = WithSkipped(cut, Closed(m, "SUCCESS"))
  PROVE  /\ Begun' = Begun /\ Succeeded' = Succeeded \cup {m}
         /\ Skipped' = Skipped \cup cut
<1>0. m \in Nodes /\ m \notin cut
  BY DEF Begun
<1>1. ASSUME NEW n \in Nodes
      PROVE  /\ n \in Begun' <=> n \in Begun
             /\ n \in Succeeded' <=> n \in Succeeded \cup {m}
             /\ n \in Skipped' <=> n \in Skipped \cup cut
  <2>1. CASE n = m
    <3>1. rows'[m] = (rows[m] \ {"RUNNING"}) \cup {"SUCCESS"}
      BY <1>0 DEF WithSkipped, Closed
    <3> QED BY <1>0, <2>1, <3>1 DEF Begun, Succeeded, Skipped
  <2>2. CASE n # m
    <3>1. rows'[n] = IF n \in cut /\ rows[n] = {} THEN {"SKIPPED"} ELSE rows[n]
      BY <2>2 DEF WithSkipped, Closed
    <3>2. n \in cut => rows[n] = {} \/ rows[n] = {"SKIPPED"}
      BY DEF Begun
    <3> QED BY <2>2, <3>1, <3>2 DEF Begun, Succeeded, Skipped
  <2> QED BY <2>1, <2>2
<1> QED BY <1>0, <1>1 DEF Begun, Succeeded, Skipped

LEMMA CloseRows ==
  ASSUME rows \in [Nodes -> SUBSET NodeStatus], NEW m \in Begun, NEW s \in {"FAILED", "WAITING"},
         rows' = Closed(m, s)
  PROVE  Begun' = Begun /\ Succeeded' = Succeeded /\ Skipped' = Skipped
<1>0. m \in Nodes
  BY DEF Begun
<1>1. ASSUME NEW n \in Nodes
      PROVE  /\ n \in Begun' <=> n \in Begun
             /\ n \in Succeeded' <=> n \in Succeeded
             /\ n \in Skipped' <=> n \in Skipped
  <2>1. CASE n = m
    BY <1>0, <2>1 DEF Closed, Begun, Succeeded, Skipped
  <2>2. CASE n # m
    BY <1>0, <2>2 DEF Closed, Begun, Succeeded, Skipped
  <2> QED BY <2>1, <2>2
<1> QED BY <1>1 DEF Begun, Succeeded, Skipped

LEMMA OpenRows ==
  ASSUME rows \in [Nodes -> SUBSET NodeStatus], NEW w \in Workers, NEW m \in Nodes, StartNode(w, m)
  PROVE  Begun' = Begun \cup {m} /\ Succeeded' = Succeeded /\ Skipped' = Skipped
<1>1. ASSUME NEW n \in Nodes
      PROVE  /\ n \in Begun' <=> n \in Begun \cup {m}
             /\ n \in Succeeded' <=> n \in Succeeded
             /\ n \in Skipped' <=> n \in Skipped
  <2>1. CASE n = m
    BY <2>1 DEF StartNode, Begun, Succeeded, Skipped
  <2>2. CASE n # m
    BY <2>2 DEF StartNode, Begun, Succeeded, Skipped
  <2> QED BY <2>1, <2>2
<1> QED BY <1>1 DEF Begun, Succeeded, Skipped

(* Skipping nodes below no opened one keeps the layers. *)
LEMMA LayeredGrows ==
  ASSUME Layered, NEW cut, Begun' = Begun, Finished \subseteq Finished',
         Skipped' = Skipped \cup cut, \A n \in Begun : Upstream[n] \cap cut = {}
  PROVE  Layered'
  BY DEF Layered

LEMMA StagePlan ==
  ASSUME TypeOK, PassesOK, NEW w \in Workers, PlanRows, Progress(w), BeginStage(w)
  PROVE  PlanRows' /\ Progress(w)'
<1> DEFINE p == worker[w]
           k == p.stage + 1
           open == Stage[k] \ (p.executed \cup p.skipped)
           cut == {n \in open : Upstream[n] \cap p.skipped # {}}
<1>0. /\ worker \in [Workers -> Passes] /\ rows \in [Nodes -> SUBSET NodeStatus]
      /\ p \in Passes
  BY DEF TypeOK
<1>1. /\ p.pc = "nodes" /\ p.todo = {} /\ p.stage < LastStage
      /\ worker'[w] = [p EXCEPT !.stage = k, !.todo = open \ cut, !.skipped = p.skipped \cup cut]
      /\ rows' = WithSkipped(cut, rows) /\ status' = status /\ pruned' = pruned
  BY <1>0 DEF BeginStage, StageOver, historyVars
<1>2. /\ worker'[w].pc = "nodes" /\ worker'[w].stage = k /\ worker'[w].todo = open \ cut
      /\ worker'[w].executed = p.executed /\ worker'[w].skipped = p.skipped \cup cut
      /\ worker'[w].resume = p.resume
  BY <1>0, <1>1 DEF Passes
<1>3. /\ PlanValid /\ p.stage \in 0 .. LastStage /\ p.executed = Succeeded /\ p.skipped = Skipped
      /\ Placed[p.stage] \subseteq Finished
  BY <1>1 DEF Progress, InPlan
<1>4. /\ k \in 1 .. Size /\ k \in 0 .. LastStage /\ k > 0
      /\ Placed[k] = Placed[p.stage] \cup Stage[k] /\ Stage[k] \subseteq Nodes
      /\ k - 1 = p.stage
  <2>1. p.stage \in 0 .. Size /\ p.stage < LastStage
    BY <1>1, <1>3, LastStageOK, SizeNat
  <2>2. k \in 1 .. Size /\ k \in 0 .. LastStage /\ Placed[k] = Placed[p.stage] \cup Stage[k]
        /\ Stage[k] \subseteq Nodes
    BY <2>1, StageOf
  <2> QED BY <2>1, <2>2, SizeNat
<1>5. /\ open \subseteq Stage[k] \ Finished
      /\ cut \subseteq open /\ \A n \in cut : Upstream[n] \cap Skipped # {}
      /\ \A n \in open \ cut : Upstream[n] \cap Skipped = {}
      /\ Stage[k] \subseteq Finished \cup open
  BY <1>3 DEF Finished
<1>6. Layered /\ pruned \subseteq Skipped /\ (status = "SUCCESS" => Finished = Nodes)
  BY DEF PlanRows
<1> HIDE DEF p, k, open, cut
<1>7. cut \in SUBSET Nodes /\ cut \cap Begun = {}
  BY <1>4, <1>5, <1>6 DEF Layered
<1>8. Begun' = Begun /\ Succeeded' = Succeeded /\ Skipped' = Skipped \cup cut
  BY <1>0, <1>1, <1>7, SkipRows
<1>9. Finished' = Finished \cup cut
  BY <1>8 DEF Finished
<1>10. /\ k \in 0 .. Size /\ \A n \in Placed[k] : Upstream[n] \subseteq Placed[k - 1]
       /\ Stage[k] \cap Placed[k - 1] = {} /\ Stage[k] \subseteq Placed[k]
  BY <1>4, StageFacts
<1>11. ASSUME NEW n \in Begun PROVE Upstream[n] \cap cut = {}
  <2> SUFFICES ASSUME NEW c \in Upstream[n], c \in cut PROVE FALSE
    OBVIOUS
  <2>1. c \in Stage[k] /\ c \notin Finished /\ c \in Placed[k] /\ c \notin Placed[k - 1]
    BY <1>5, <1>10
  <2>2. n \notin Placed[k]
    BY <1>10, <2>1
  <2>3. Placed[k] \subseteq Finished
    BY <1>6, <1>10, <2>2 DEF Layered
  <2> QED BY <2>1, <2>3
<1>12. Layered'
  BY <1>6, <1>8, <1>9, <1>11, LayeredGrows
<1>13. Finished \subseteq Nodes /\ Finished' \subseteq Nodes
  BY <1>7, <1>9 DEF Finished, Succeeded, Skipped
<1>14. PlanRows'
  BY <1>1, <1>6, <1>8, <1>9, <1>12, <1>13 DEF PlanRows
<1>15. /\ Placed[k] \subseteq Finished' \cup (open \ cut)
       /\ open \ cut \subseteq Stage[k] \ Finished'
  BY <1>3, <1>4, <1>5, <1>9
<1>16. \A n \in open \ cut : Upstream[n] \cap Skipped' = {}
  <2> SUFFICES ASSUME NEW n \in open \ cut, NEW c \in Upstream[n], c \in Skipped' PROVE FALSE
    OBVIOUS
  <2>1. c \in cut
    BY <1>5, <1>8
  <2>2. c \in Placed[k - 1]
    BY <1>5, <1>10
  <2> QED BY <1>5, <1>10, <2>1, <2>2
<1>17. InPlan(w)' => /\ PlanValid' /\ worker'[w].stage \in 0 .. LastStage'
                     /\ worker'[w].executed = Succeeded' /\ worker'[w].skipped = Skipped'
  BY <1>2, <1>3, <1>4, <1>8 DEF PlanValid, LastStage
<1> QED BY <1>2, <1>4, <1>14, <1>15, <1>16, <1>17 DEF Progress

LEMMA SucceedPlan ==
  ASSUME TypeOK, PassesOK, NEW w \in Workers, PlanRows, Progress(w), worker[w].pc = "node",
         NEW cut \in SUBSET Nodes, Succeed(w, cut), UNCHANGED status,
         cut = {} \/ \E h : cut = Pruned(worker[w].node, h)
  PROVE  PlanRows' /\ Progress(w)'
<1> DEFINE p == worker[w]
           s == p.stage
           m == p.node
<1>0. /\ worker \in [Workers -> Passes] /\ rows \in [Nodes -> SUBSET NodeStatus]
      /\ p \in Passes
  BY DEF TypeOK
<1>1. /\ PlanValid /\ s \in 0 .. LastStage /\ p.executed = Succeeded /\ p.skipped = Skipped
      /\ Placed[s] \subseteq Finished \cup p.todo
      /\ s > 0 /\ p.todo \subseteq Stage[s] \ Finished
      /\ \A n \in p.todo : Upstream[n] \cap Skipped = {}
      /\ m \in p.todo /\ m \in Begun
  BY DEF Progress, InPlan
<1>2. /\ worker'[w] = [p EXCEPT !.pc = "nodes", !.todo = p.todo \ {m},
                                !.executed = p.executed \cup {m},
                                !.skipped = p.skipped \cup cut, !.node = "none"]
      /\ rows' = WithSkipped(cut, Closed(m, "SUCCESS")) /\ pruned' = pruned \cup cut
  BY <1>0 DEF Succeed
<1>3. /\ worker'[w].pc = "nodes" /\ worker'[w].stage = s /\ worker'[w].todo = p.todo \ {m}
      /\ worker'[w].executed = p.executed \cup {m} /\ worker'[w].skipped = p.skipped \cup cut
      /\ worker'[w].resume = p.resume
  BY <1>0, <1>2 DEF Passes
<1>4. s \in 1 .. Size
  BY <1>1, LastStageOK, SizeNat
<1>5. Layered /\ pruned \subseteq Skipped /\ (status = "SUCCESS" => Finished = Nodes)
  BY DEF PlanRows
<1>6. cut \cap Placed[s] = {}
  BY <1>1, <1>4, PrunedForward
<1> HIDE DEF p, s, m
<1>7. /\ s \in 0 .. Size /\ Stage[s] \subseteq Placed[s] /\ Stage[s] \cap Placed[s - 1] = {}
      /\ Placed[s - 1] \subseteq Placed[s]
      /\ \A n \in Placed[s] : Upstream[n] \subseteq Placed[s - 1]
  BY <1>4, StageFacts
<1>8. ASSUME NEW n \in Begun PROVE n \in Placed[s]
  <2>1. m \in Placed[s] /\ m \notin Finished
    BY <1>1, <1>7
  <2> QED BY <1>5, <1>7, <2>1 DEF Layered
<1>9. cut \cap Begun = {} /\ \A n \in Begun : Upstream[n] \cap cut = {}
  BY <1>6, <1>7, <1>8
<1>10. m \notin Skipped
  BY <1>1 DEF Finished
<1>11. Begun' = Begun /\ Succeeded' = Succeeded \cup {m} /\ Skipped' = Skipped \cup cut
  BY <1>0, <1>1, <1>2, <1>9, <1>10, SucceedRows
<1>12. Finished' = Finished \cup {m} \cup cut
  BY <1>11 DEF Finished
<1>13. Layered'
  BY <1>5, <1>9, <1>11, <1>12, LayeredGrows
<1>14. Finished \subseteq Nodes /\ m \in Nodes
  BY <1>1 DEF Finished, Succeeded, Skipped, Begun
<1>15. PlanRows'
  BY <1>2, <1>5, <1>11, <1>12, <1>13, <1>14 DEF PlanRows
<1>16. /\ Placed[s] \subseteq Finished' \cup (p.todo \ {m})
       /\ p.todo \ {m} \subseteq Stage[s] \ Finished'
  BY <1>1, <1>6, <1>7, <1>12
<1>17. \A n \in p.todo \ {m} : Upstream[n] \cap Skipped' = {}
  <2>1. \A n \in p.todo : Upstream[n] \cap cut = {}
    BY <1>1, <1>6, <1>7
  <2> QED BY <1>1, <1>11, <2>1
<1>18. InPlan(w)' => /\ PlanValid' /\ worker'[w].stage \in 0 .. LastStage'
                     /\ worker'[w].executed = Succeeded' /\ worker'[w].skipped = Skipped'
  BY <1>1, <1>3, <1>11 DEF PlanValid, LastStage
<1> QED BY <1>1, <1>3, <1>15, <1>16, <1>17, <1>18 DEF Progress

LEMMA OpenPlan ==
  ASSUME TypeOK, PassesOK, NEW w \in Workers, PlanRows, Progress(w), NEW m \in Nodes, StartNode(w, m)
  PROVE  PlanRows' /\ Progress(w)'
<1> DEFINE p == worker[w]
           s == p.stage
<1>0. /\ worker \in [Workers -> Passes] /\ rows \in [Nodes -> SUBSET NodeStatus]
      /\ p \in Passes
  BY DEF TypeOK
<1>1. p.pc = "nodes" /\ m \in p.todo
  BY DEF StartNode
<1>2. /\ PlanValid /\ s \in 0 .. LastStage /\ p.executed = Succeeded /\ p.skipped = Skipped
      /\ Placed[s] \subseteq Finished \cup p.todo
      /\ s > 0 /\ p.todo \subseteq Stage[s] \ Finished
      /\ \A n \in p.todo : Upstream[n] \cap Skipped = {}
  BY <1>1 DEF Progress, InPlan
<1>3. /\ worker'[w] = [p EXCEPT !.pc = "node", !.node = m] /\ status' = status /\ pruned' = pruned
  BY <1>0 DEF StartNode, historyVars
<1>4. /\ worker'[w].pc = "node" /\ worker'[w].node = m /\ worker'[w].stage = s
      /\ worker'[w].todo = p.todo /\ worker'[w].executed = p.executed
      /\ worker'[w].skipped = p.skipped
  BY <1>0, <1>3 DEF Passes
<1>5. s \in 1 .. Size
  BY <1>2, LastStageOK, SizeNat
<1>6. Layered /\ pruned \subseteq Skipped /\ (status = "SUCCESS" => Finished = Nodes)
  BY DEF PlanRows
<1>7. Begun' = Begun \cup {m} /\ Succeeded' = Succeeded /\ Skipped' = Skipped
  BY <1>0, OpenRows
<1> HIDE DEF p, s
<1>8. Finished' = Finished
  BY <1>7 DEF Finished
<1>9. /\ s \in 0 .. Size /\ s - 1 \in 0 .. Size /\ Stage[s] \subseteq Placed[s]
      /\ Stage[s] \cap Placed[s - 1] = {} /\ Placed[s - 1] \subseteq Placed[s]
  BY <1>5, StageFacts
<1>10. ASSUME NEW k \in 0 .. Size PROVE Begun' \subseteq Placed[k] \/ Placed[k] \subseteq Finished
  <2>1. CASE k < s
    <3>1. k \in 0 .. (s - 1)
      BY <1>5, <2>1, SizeNat
    <3>2. Placed[k] \subseteq Placed[s - 1]
      BY <1>9, <3>1, PlacedGrows
    <3> QED BY <1>2, <1>9, <3>2
  <2>2. CASE k >= s
    <3>1. s \in 0 .. k
      BY <1>5, <2>2, SizeNat
    <3>2. Placed[s] \subseteq Placed[k]
      BY <3>1, PlacedGrows
    <3>3. m \in Placed[k]
      BY <1>1, <1>2, <1>9, <3>2
    <3> QED BY <1>6, <1>7, <3>3 DEF Layered
  <2>3. k < s \/ k >= s
    BY <1>5, SizeNat
  <2> QED BY <2>1, <2>2, <2>3
<1>11. Layered'
  <2>1. \A k \in 0 .. Size : Begun' \subseteq Placed[k] \/ Placed[k] \subseteq Finished'
    BY <1>8, <1>10
  <2>2. \A n \in Begun' : Upstream[n] \cap Skipped' = {}
    BY <1>1, <1>2, <1>6, <1>7 DEF Layered
  <2> QED BY <2>1, <2>2 DEF Layered
<1>12. PlanRows'
  BY <1>3, <1>6, <1>7, <1>8, <1>11 DEF PlanRows
<1>13. InPlan(w)' => /\ PlanValid' /\ worker'[w].stage \in 0 .. LastStage'
                     /\ worker'[w].executed = Succeeded' /\ worker'[w].skipped = Skipped'
  BY <1>2, <1>4, <1>7 DEF PlanValid, LastStage
<1>14. worker'[w].node \in worker'[w].todo \cap Begun'
  BY <1>1, <1>4, <1>7
<1> QED BY <1>2, <1>4, <1>7, <1>8, <1>12, <1>13, <1>14 DEF Progress

LEMMA PlanPass ==
  ASSUME TypeOK, PassesOK, NEW w \in Workers, PlanRows, Progress(w), PassStep(w)
  PROVE  PlanRows' /\ Progress(w)'
<1> DEFINE p == worker[w]
<1>0. /\ worker \in [Workers -> Passes] /\ rows \in [Nodes -> SUBSET NodeStatus]
      /\ p \in Passes /\ PassOK(w)
  BY DEF TypeOK, PassesOK
<1>1. ASSUME rows' = rows, pruned' = pruned, status' = "SUCCESS" => status = "SUCCESS"
      PROVE  PlanRows' /\ Finished' = Finished /\ Succeeded' = Succeeded /\ Skipped' = Skipped
             /\ Begun' = Begun
  BY <1>1 DEF PlanRows, Layered, Finished, Succeeded, Skipped, Begun
<1>2. ASSUME worker'[w].pc \notin {"started", "nodes", "node", "waiting"}
      PROVE  Progress(w)'
  BY <1>2 DEF Progress, InPlan
<1>3. CASE ResumeStart(w)
  <2>1. /\ worker'[w] = [p EXCEPT !.pc = "started"] /\ p.resume
        /\ rows' = rows /\ pruned' = pruned /\ status' = "RUNNING"
    BY <1>0, <1>3 DEF ResumeStart, Moves, PassOK, historyVars
  <2>2. worker'[w].pc = "started" /\ worker'[w].resume
    BY <1>0, <2>1 DEF Passes
  <2> QED BY <1>1, <2>1, <2>2 DEF Progress, InPlan
<1>4. CASE BeginExecute(w)
  <2>1. /\ worker'[w] = [p EXCEPT !.pc = "nodes", !.executed = ExecutedBefore(w),
                                  !.skipped = SkippedBefore(w)]
        /\ p.pc = "started" /\ PlanValid
        /\ rows' = rows /\ pruned' = pruned /\ status' = status
    BY <1>0, <1>4 DEF BeginExecute, historyVars
  <2>2. /\ worker'[w].pc = "nodes" /\ worker'[w].executed = ExecutedBefore(w)
        /\ worker'[w].skipped = SkippedBefore(w) /\ worker'[w].todo = {} /\ worker'[w].stage = 0
    BY <1>0, <2>1 DEF Passes, PassOK
  <2>3. ExecutedBefore(w) = Succeeded /\ SkippedBefore(w) = Skipped
    <3>1. CASE p.resume
      BY <3>1 DEF ExecutedBefore, SkippedBefore, Succeeded, Skipped
    <3>2. CASE ~p.resume
      <4>1. \A n \in Nodes : rows[n] = {}
        BY <2>1, <3>2 DEF Progress
      <4> QED BY <3>2, <4>1 DEF ExecutedBefore, SkippedBefore, Succeeded, Skipped
    <3> QED BY <3>1, <3>2
  <2>4. Placed[0] = {} /\ 0 \in 0 .. LastStage
    BY PlacedDef, LastStageOK, SizeNat
  <2>5. PlanRows' /\ Succeeded' = Succeeded /\ Skipped' = Skipped
    BY <1>1, <2>1
  <2>6. InPlan(w)' =>
          /\ PlanValid' /\ worker'[w].stage \in 0 .. LastStage'
          /\ worker'[w].executed = Succeeded' /\ worker'[w].skipped = Skipped'
    BY <2>1, <2>2, <2>3, <2>4, <2>5 DEF PlanValid, LastStage
  <2> QED BY <2>2, <2>4, <2>5, <2>6 DEF Progress
<1>5. CASE BeginStage(w)
  BY <1>5, StagePlan
<1>6. CASE SeeCancelled(w) \/ PassRefused(w) \/ FailRun(w) \/ TaskFails(w) \/ ParkRun(w)
           \/ CompleteFails(w)
  <2>1. rows' = rows /\ pruned' = pruned /\ (status' = "SUCCESS" => status = "SUCCESS")
    BY <1>6
    DEF SeeCancelled, PassRefused, FailRun, TaskFails, ParkRun, CompleteFails, rowVars, historyVars
  <2>2. worker'[w].pc \in {"failing", "failed", "parked", "done"}
    <3>1. CASE SeeCancelled(w) \/ PassRefused(w)
      BY <1>0, <3>1 DEF SeeCancelled, PassRefused, Leaves, Idle
    <3>2. CASE FailRun(w) \/ TaskFails(w) \/ ParkRun(w) \/ CompleteFails(w)
      BY <1>0, <3>2 DEF FailRun, TaskFails, ParkRun, CompleteFails, Moves, Passes
    <3> QED BY <1>6, <3>1, <3>2
  <2> QED BY <1>1, <1>2, <2>1, <2>2
<1>7. CASE Acknowledge(w)
  <2>1. rows' = rows /\ pruned' = pruned /\ status' = status /\ worker'[w].pc = "idle"
    BY <1>0, <1>7 DEF Acknowledge, rowVars, historyVars, Idle
  <2> QED BY <1>1, <1>2, <2>1
<1>8. ASSUME NEW m \in Nodes, StartNode(w, m) PROVE PlanRows' /\ Progress(w)'
  BY <1>8, OpenPlan
<1>9. CASE NodeSucceeds(w) \/ PausePasses(w)
  <2>1. p.pc = "node" /\ UNCHANGED status
    BY <1>9 DEF NodeSucceeds, PausePasses
  <2>2. p.node \in Nodes
    BY <1>0, <2>1 DEF PassOK, InPlan, Passes
  <2>3. PICK cut : Succeed(w, cut) /\ (cut = {} \/ \E h : cut = Pruned(p.node, h))
    BY <1>9 DEF NodeSucceeds, PausePasses
  <2>4. cut \in SUBSET Nodes
    BY <2>2, <2>3, PrunedOK
  <2> QED BY <2>1, <2>3, <2>4, SucceedPlan
<1>10. ASSUME NEW s \in {"FAILED", "WAITING"}, rows' = Closed(p.node, s), p.pc \in {"node", "waiting"},
              pruned' = pruned, status' = status,
              worker'[w].pc \in {"failing", "parking"}
       PROVE  PlanRows' /\ Progress(w)'
  <2>1. p.node \in Begun
    BY <1>10 DEF Progress, InPlan
  <2>2. Begun' = Begun /\ Succeeded' = Succeeded /\ Skipped' = Skipped
    BY <1>0, <1>10, <2>1, CloseRows
  <2>3. PlanRows'
    BY <1>10, <2>2 DEF PlanRows, Layered, Finished
  <2> QED BY <1>2, <1>10, <2>3
<1>11. CASE NodeFails(w) \/ PauseRefuses(w)
  <2>1. /\ rows' = Closed(p.node, "FAILED") /\ p.pc = "node" /\ pruned' = pruned /\ status' = status
        /\ worker'[w].pc = "failing"
    BY <1>0, <1>11 DEF NodeFails, PauseRefuses, Fail, Leaves, Idle, historyVars
  <2> QED BY <1>10, <2>1
<1>12. CASE ParkNode(w)
  <2>1. /\ rows' = Closed(p.node, "WAITING") /\ p.pc = "waiting" /\ pruned' = pruned
        /\ status' = status /\ worker'[w].pc = "parking"
    BY <1>0, <1>12 DEF ParkNode, Leaves, Idle, historyVars
  <2> QED BY <1>10, <2>1
<1>13. CASE PauseAsks(w)
  <2>1. /\ worker'[w] = [p EXCEPT !.pc = "waiting"] /\ p.pc = "node"
        /\ rows' = rows /\ pruned' = pruned /\ status' = status
    BY <1>0, <1>13 DEF PauseAsks, Moves, rowVars, historyVars
  <2>2. /\ worker'[w].pc = "waiting" /\ worker'[w].stage = p.stage /\ worker'[w].todo = p.todo
        /\ worker'[w].executed = p.executed /\ worker'[w].skipped = p.skipped
        /\ worker'[w].node = p.node
    BY <1>0, <2>1 DEF Passes
  <2>3. /\ PlanRows' /\ Finished' = Finished /\ Succeeded' = Succeeded /\ Skipped' = Skipped
        /\ Begun' = Begun /\ PlanValid' = PlanValid /\ LastStage' = LastStage
    BY <1>1, <2>1 DEF PlanValid, LastStage
  <2> QED BY <2>1, <2>2, <2>3 DEF Progress, InPlan
<1>14. CASE CompleteRun(w)
  <2>1. /\ p.pc = "nodes" /\ p.todo = {} /\ p.stage = LastStage /\ worker'[w].pc = "completed"
        /\ rows' = rows /\ pruned' = pruned
    BY <1>0, <1>14 DEF CompleteRun, StageOver, Leaves, Idle, historyVars
  <2>2. PlanValid /\ Placed[p.stage] \subseteq Finished
    BY <2>1 DEF Progress, InPlan
  <2>3. Finished = Nodes
    BY <2>1, <2>2, LastStageOK DEF Finished, Succeeded, Skipped
  <2>4. PlanRows'
    BY <2>1, <2>3 DEF PlanRows, Layered, Finished, Succeeded, Skipped, Begun
  <2> QED BY <1>2, <2>1, <2>4
<1> QED
  BY <1>3, <1>4, <1>5, <1>6, <1>7, <1>8, <1>9, <1>11, <1>12, <1>13, <1>14 DEF PassStep

LEMMA PlanStep ==
  ASSUME TypeOK, PassesOK, PassInv, PlanInv, [Next]_vars
  PROVE  PlanInv'
<1>0. worker \in [Workers -> Passes] /\ crashes \in Nat
  BY DEF TypeOK
<1> SUFFICES ASSUME crashes' = 0
             PROVE  /\ PlanRows'
                    /\ \A w \in Workers : Progress(w)'
                    /\ runTasks' = 1 => \A n \in Nodes : rows'[n] = {}
  BY DEF PlanInv
<1> DEFINE Goal == /\ PlanRows'
                   /\ \A w \in Workers : Progress(w)'
                   /\ runTasks' = 1 => \A n \in Nodes : rows'[n] = {}
<1>1. ASSUME crashes = 0
      PROVE  /\ PlanRows /\ \A w \in Workers : Progress(w)
             /\ runTasks = 1 => \A n \in Nodes : rows[n] = {}
             /\ runTasks \in {0, 1}
             /\ \A v, w \in Workers : Active(v) /\ Active(w) => v = w
             /\ \A w \in Workers : Active(w) => runTasks = 0
  BY <1>1 DEF PlanInv, PassInv
<1>2. ASSUME NEW v \in Workers, worker'[v].pc \in {"idle", "parked", "done", "claimed"}
      PROVE  Progress(v)'
  BY <1>2 DEF Progress, InPlan
<1>3. ASSUME rows' = rows
      PROVE  Finished' = Finished /\ Succeeded' = Succeeded /\ Skipped' = Skipped /\ Begun' = Begun
  BY <1>3 DEF Finished, Succeeded, Skipped, Begun
<1>4. ASSUME rows' = rows, NEW v \in Workers, worker'[v] = worker[v], Progress(v) PROVE Progress(v)'
  BY <1>3, <1>4 DEF Progress, InPlan, PlanValid, LastStage
<1>5. ASSUME rows' = rows, PlanRows, pruned' \subseteq pruned, status' = "SUCCESS" => status = "SUCCESS"
      PROVE  PlanRows'
  BY <1>3, <1>5 DEF PlanRows, Layered
<1>6. ASSUME NEW w \in Workers, StartRun(w) PROVE Goal
  <2>1. /\ crashes = 0 /\ runTasks > 0 /\ runTasks' = runTasks - 1 /\ rows' = rows /\ pruned' = {}
        /\ status' = "RUNNING" /\ \A v \in Workers \ {w} : worker'[v] = worker[v]
        /\ worker'[w] = [Idle EXCEPT !.pc = "started"]
    BY <1>0, <1>6 DEF StartRun, faultVars
  <2>2. runTasks = 1 /\ \A n \in Nodes : rows[n] = {}
    BY <1>1, <2>1
  <2>3. Progress(w)'
    BY <2>1, <2>2 DEF Progress, InPlan, Idle
  <2>4. \A v \in Workers : Progress(v)'
    BY <1>1, <1>4, <2>1, <2>3
  <2>5. PlanRows'
    BY <1>1, <1>5, <2>1
  <2> QED BY <2>1, <2>2, <2>4, <2>5
<1>7. ASSUME NEW w \in Workers, ResumeClaim(w) PROVE Goal
  <2>1. /\ crashes = 0 /\ runTasks' = runTasks /\ rows' = rows /\ pruned' = pruned
        /\ status' = "SUCCESS" => status = "SUCCESS"
    BY <1>7 DEF ResumeClaim, faultVars, historyVars
  <2>2. /\ \A v \in Workers \ {w} : worker'[v] = worker[v]
        /\ worker'[w] = worker[w] \/ worker'[w].pc = "claimed"
    BY <1>0, <1>7 DEF ResumeClaim, Idle
  <2>3. \A v \in Workers : Progress(v)'
    BY <1>1, <1>2, <1>4, <2>1, <2>2
  <2> QED BY <1>1, <1>5, <2>1, <2>3
<1>8. ASSUME NEW w \in Workers, PassStep(w) PROVE Goal
  <2>1. /\ crashes = 0 /\ runTasks' = runTasks /\ \A v \in Workers \ {w} : worker'[v] = worker[v]
    BY <1>8, PassMoves
  <2>2. PlanRows' /\ Progress(w)'
    BY <1>1, <1>8, <2>1, PlanPass
  <2>3. CASE Active(w)
    <3>1. runTasks = 0 /\ \A v \in Workers \ {w} : worker[v].pc \in {"idle", "parked", "done"}
      BY <1>1, <2>1, <2>3 DEF Active
    <3>2. \A v \in Workers : Progress(v)'
      BY <1>2, <2>1, <2>2, <3>1
    <3> QED BY <2>1, <2>2, <3>1, <3>2
  <2>4. CASE ~Active(w)
    <3>1. Acknowledge(w) \/ TaskFails(w)
      BY <1>8, <2>4
      DEF PassStep, Active, ResumeStart, BeginExecute, BeginStage, StageOver, SeeCancelled,
          PassRefused, StartNode, NodeSucceeds, NodeFails, PauseAsks, PausePasses, PauseRefuses,
          ParkNode, ParkRun, CompleteRun, CompleteFails, FailRun
    <3>2. rows' = rows
      BY <3>1 DEF Acknowledge, TaskFails, rowVars
    <3>3. \A v \in Workers : Progress(v)'
      BY <1>1, <1>4, <2>1, <2>2, <3>2
    <3> QED BY <1>1, <2>1, <2>2, <3>2, <3>3
  <2> QED BY <2>3, <2>4
<1>9. ASSUME NEW w \in Workers, Crash(w) \/ CrashWhileSkipping(w) PROVE FALSE
  BY <1>0, <1>9 DEF Crash, CrashWhileSkipping, Killed
<1>10. ASSUME UNCHANGED <<worker, rows, pruned, runTasks, crashes>>,
              status' = "SUCCESS" => status = "SUCCESS"
       PROVE  Goal
  <2>1. crashes = 0
    BY <1>10
  <2>2. \A v \in Workers : Progress(v)'
    BY <1>1, <1>4, <1>10, <2>1
  <2> QED BY <1>1, <1>5, <1>10, <2>1, <2>2
<1>11. ASSUME NEW a \in Approvers,
              \/ \E n \in PauseNodes, d \in Decisions : SubmitRead(a, n, d)
              \/ \E n \in PauseNodes : Redispatch(a, n)
              \/ SubmitStep(a) \/ SubmitDies(a)
       PROVE  Goal
  <2>1. ~SubmitDies(a)
    BY <1>0 DEF SubmitDies
  <2>2. UNCHANGED <<worker, rows, pruned, runTasks, crashes, status>>
    BY <1>11, <2>1
    DEF SubmitRead, Redispatch, SubmitStep, SubmitWrite, SubmitVote, SubmitDispatch, rowVars,
        queueVars, faultVars, historyVars
  <2> QED BY <1>10, <2>2
<1>12. CASE CancelLoad \/ CancelStep \/ UNCHANGED vars
  <2>1. /\ UNCHANGED <<worker, rows, pruned, runTasks, crashes>>
        /\ status' = "SUCCESS" => status = "SUCCESS"
    BY <1>12
    DEF CancelLoad, CancelStep, CancelSave, CancelRequests, CancelContext, vars, rowVars, queueVars,
        faultVars, historyVars
  <2> QED BY <1>10, <2>1
<1> QED BY ZenonT(60), <1>6, <1>7, <1>8, <1>9, <1>11, <1>12 DEF Next

(* The passes, the rows and the plan agree: in every state, each pass is where the rows  *)
(* say, and while no worker has died nodes are opened stage by stage, never below a      *)
(* skipped one.                                                                          *)
THEOREM WorkflowPlan == Spec => [](TypeOK /\ PassesOK /\ PassInv /\ PlanInv)
<1>1. Init => PassesOK /\ PassInv /\ PlanInv
  <2> SUFFICES ASSUME Init PROVE PassesOK /\ PassInv /\ PlanInv
    OBVIOUS
  <2>1. PassesOK /\ PassInv
    BY DEF Init, PassesOK, PassOK, InPlan, PassInv, Active, Idle
  <2>2. Begun = {} /\ Succeeded = {} /\ Skipped = {} /\ pruned = {} /\ \A n \in Nodes : rows[n] = {}
    BY DEF Init, Begun, Succeeded, Skipped
  <2>3. PlanRows
    BY <2>2 DEF Init, PlanRows, Layered
  <2>4. \A w \in Workers : Progress(w)
    BY DEF Init, Progress, InPlan, Idle
  <2> QED BY <2>1, <2>2, <2>3, <2>4 DEF PlanInv
<1>2. TypeOK /\ PassesOK /\ [Next]_vars => PassesOK'
  BY PassesStep
<1>3. TypeOK /\ PassInv /\ [Next]_vars => PassInv'
  BY PassInvStep
<1>4. TypeOK /\ PassesOK /\ PassInv /\ PlanInv /\ [Next]_vars => PlanInv'
  BY PlanStep
<1> QED BY <1>1, <1>2, <1>3, <1>4, WorkflowTypeCorrect, PTL DEF Spec, Safety

(* While no worker has died, a run that ends in SUCCESS has passed over every node of its *)
(* plan, over all its passes: each was carried out or is recorded as skipped.            *)
THEOREM WorkflowComplete == Spec => []SuccessIsComplete
<1>1. PlanInv => SuccessIsComplete
  BY DEF PlanInv, PlanRows, SuccessIsComplete, Finished, Succeeded, Skipped
<1> QED BY <1>1, WorkflowPlan, PTL

(* "every in-memory skip must be durable or the pruned branch re-executes after the human *)
(* resumes the run": while no worker has died, no step carries out a node off the branch  *)
(* taken.                                                                                *)
THEOREM WorkflowPruned == Spec => PrunedStaysPruned
<1>1. ASSUME TypeOK, PassesOK, PlanInv, [Next]_vars
      PROVE  crashes = 0 => \A n \in pruned : effects'[n] = effects[n]
  <2> SUFFICES ASSUME crashes = 0, NEW n \in pruned PROVE effects'[n] = effects[n]
    OBVIOUS
  <2>0. /\ n \in Skipped /\ n \in Nodes /\ effects \in [Nodes -> Nat]
        /\ \A w \in Workers : Progress(w)
    <3>1. PlanRows /\ \A w \in Workers : Progress(w)
      BY <1>1 DEF PlanInv
    <3>2. pruned \subseteq Skipped
      BY <3>1 DEF PlanRows
    <3> QED BY <1>1, <3>1, <3>2 DEF TypeOK, Skipped
  <2>1. ASSUME NEW w \in Workers, NEW cut, Succeed(w, cut), worker[w].pc = "node"
        PROVE  effects'[n] = effects[n]
    <3>1. worker[w].node # n
      BY <2>0, <2>1 DEF Progress, InPlan, Finished
    <3> QED BY <2>0, <2>1, <3>1 DEF Succeed
  <2>2. ASSUME NEW w \in Workers, NodeSucceeds(w) PROVE effects'[n] = effects[n]
    BY <2>1, <2>2 DEF NodeSucceeds
  <2>3. ASSUME NEW w \in Workers, PausePasses(w) PROVE effects'[n] = effects[n]
    BY <2>1, <2>3 DEF PausePasses
  <2>4. ASSUME NEW w \in Workers, CrashWhileSkipping(w) PROVE effects'[n] = effects[n]
    <3>1. worker[w].pc = "node" /\ effects' = [effects EXCEPT ![worker[w].node] = @ + 1]
      BY <2>4 DEF CrashWhileSkipping
    <3>2. worker[w].node # n
      BY <2>0, <3>1 DEF Progress, InPlan, Finished
    <3> QED BY <2>0, <3>1, <3>2
  <2>5. CASE UNCHANGED effects
    BY <2>5
  <2> QED
    BY ZenonT(60), <1>1, <2>2, <2>3, <2>4, <2>5
    DEF Next, vars, historyVars, StartRun, ResumeClaim, PassStep, Crash, CompleteFails,
        ResumeStart, BeginExecute, BeginStage, SeeCancelled, PassRefused, StartNode, NodeFails,
        Fail, PauseAsks, PauseRefuses, ParkNode, ParkRun, CompleteRun, FailRun, TaskFails,
        Acknowledge, Redispatch, SubmitRead, SubmitStep, SubmitWrite, SubmitVote, SubmitDispatch,
        SubmitDies, CancelLoad, CancelStep, CancelSave, CancelRequests, CancelContext
<1>2. TypeOK /\ PassesOK /\ PlanInv /\ [Next]_vars
        => [crashes = 0 => \A n \in pruned : effects'[n] = effects[n]]_vars
  BY <1>1
<1> QED BY <1>2, WorkflowPlan, PTL DEF Spec, Safety, PrunedStaysPruned

=============================================================================
