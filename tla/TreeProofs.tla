------------------------------ MODULE TreeProofs ------------------------------
(***************************************************************************)
(* Lemmas about paths.  That every path leads up to the root is induction: *)
(* in a set of paths that misses some claim, one has a parent that does    *)
(* not.  The lemmas here turn this into functions that are defined along   *)
(* Parent, such as Chain in module RootFs or IsWithin in module Removal.   *)
(***************************************************************************)
EXTENDS LayerTree, TLAPS

\* A function on the directories dirs that is base at the root and step from
\* each directory to what is in it.
FollowsTree(f, dirs, base, step) ==
  /\ f[Root] = base
  /\ \A p \in dirs \ {Root} : f[p] = step[p][f[Parent[p]]]

\* Sets of directories that hold, with a path, all directories above it.
Upward == {dirs \in SUBSET Directory :
             Root \in dirs /\ \A p \in dirs \ {Root} : Parent[p] \in dirs}

\* There is no other such function.
LEMMA TreeUnique ==
  ASSUME NEW A \in Upward, NEW B \in Upward, NEW f, NEW g, NEW base, NEW step,
         FollowsTree(f, A, base, step), FollowsTree(g, B, base, step)
  PROVE  \A d \in A \cap B : f[d] = g[d]
<1> DEFINE S == {d \in (A \cap B) \ {Root} : f[d] # g[d]}
<1>1. S = {}
  <2> SUFFICES ASSUME S # {} PROVE FALSE
    OBVIOUS
  <2>1. S \in SUBSET Path
    BY DEF Upward, Directory
  <2>2. PICK p \in S : Parent[p] \notin S
    BY <2>1, PathAssumption
  <2>3. Parent[p] \in A \cap B /\ p # Root /\ p \in A \cap B
    BY DEF Upward
  <2>4. f[Parent[p]] = g[Parent[p]]
    BY <2>2, <2>3 DEF FollowsTree
  <2> QED
    BY <2>3, <2>4 DEF FollowsTree
<1> QED
  BY <1>1 DEF FollowsTree

\* Up to every directory there is one.
LEMMA TreePartial ==
  ASSUME NEW V, NEW base \in V, NEW step \in [Path -> [V -> V]], NEW d \in Directory
  PROVE  \E A \in Upward : \E f \in [A -> V] :
           d \in A /\ FollowsTree(f, A, base, step)
<1> DEFINE Reached(p) == \E A \in Upward : \E f \in [A -> V] :
                           p \in A /\ FollowsTree(f, A, base, step)
           S == {p \in Path : ~Reached(p)}
<1>1. Reached(Root)
  <2> DEFINE f == [p \in {Root} |-> base]
  <2>1. {Root} \in Upward /\ f \in [{Root} -> V]
    BY DEF Upward, Directory
  <2>2. FollowsTree(f, {Root}, base, step)
    BY DEF FollowsTree
  <2> QED
    BY <2>1, <2>2
<1>2. ASSUME NEW p \in Path, Reached(Parent[p]) PROVE Reached(p)
  <2>1. PICK A \in Upward : \E f \in [A -> V] :
               Parent[p] \in A /\ FollowsTree(f, A, base, step)
    BY <1>2
  <2>2. PICK f \in [A -> V] : Parent[p] \in A /\ FollowsTree(f, A, base, step)
    BY <2>1
  <2>3. CASE p \in A
    BY <2>2, <2>3
  <2>4. CASE p \notin A
    <3> DEFINE B == A \cup {p}
               g == [q \in B |-> IF q = p THEN step[p][f[Parent[p]]] ELSE f[q]]
    <3>1. B \in Upward
      BY <2>2 DEF Upward, Directory
    <3>2. f[Parent[p]] \in V
      BY <2>2
    <3>3. step[p][f[Parent[p]]] \in V
      BY <3>2
    <3>4. g \in [B -> V]
      BY <3>3
    <3>5. \A q \in A : g[q] = f[q]
      BY <2>4
    <3>6. Root \in A /\ \A q \in A \ {Root} : Parent[q] \in A
      BY DEF Upward
    <3>7. g[p] = step[p][g[Parent[p]]]
      BY SMTT(30), <2>2, <3>5
    <3>8. FollowsTree(g, B, base, step)
      BY <2>2, <3>5, <3>6, <3>7 DEF FollowsTree
    <3> QED
      BY <3>1, <3>4, <3>8
  <2> QED
    BY <2>3, <2>4
<1>3. S = {}
  <2> SUFFICES ASSUME S # {} PROVE FALSE
    OBVIOUS
  <2>1. PICK p \in S : Parent[p] \notin S
    BY PathAssumption
  <2>2. Reached(Parent[p])
    BY <1>1, <2>1, PathAssumption DEF Directory
  <2> HIDE DEF Reached
  <2> QED
    BY <1>2, <2>2
<1> QED
  BY <1>1, <1>3 DEF Directory

(***************************************************************************)
(* A function can be defined along the tree, by a value at the root and a  *)
(* step from each directory to what is in it.                              *)
(***************************************************************************)
LEMMA TreeRecursion ==
  ASSUME NEW V, NEW base \in V, NEW step \in [Path -> [V -> V]]
  PROVE  \E f \in [Directory -> V] : FollowsTree(f, Directory, base, step)
<1> DEFINE Value(d, v) == \E A \in Upward : \E f \in [A -> V] :
                            d \in A /\ FollowsTree(f, A, base, step) /\ v = f[d]
           h == [d \in Directory |-> CHOOSE v \in V : Value(d, v)]
<1>1. ASSUME NEW d \in Directory PROVE \E v \in V : Value(d, v)
  <2>1. PICK A \in Upward : \E f \in [A -> V] :
               d \in A /\ FollowsTree(f, A, base, step)
    BY TreePartial
  <2>2. PICK f \in [A -> V] : d \in A /\ FollowsTree(f, A, base, step)
    BY <2>1
  <2>3. Value(d, f[d]) /\ f[d] \in V
    BY <2>2
  <2> QED
    BY <2>3
<1>2. ASSUME NEW A \in Upward, NEW f \in [A -> V], FollowsTree(f, A, base, step),
             NEW d \in A
      PROVE  h[d] = f[d] /\ h[d] \in V
  <2>1. d \in Directory
    BY DEF Upward
  <2>2. h[d] \in V /\ Value(d, h[d])
    <3> HIDE DEF Value
    <3> QED
      BY <1>1, <2>1
  <2>3. PICK B \in Upward : \E g \in [B -> V] :
               d \in B /\ FollowsTree(g, B, base, step) /\ h[d] = g[d]
    BY <2>2
  <2>4. PICK g \in [B -> V] :
               d \in B /\ FollowsTree(g, B, base, step) /\ h[d] = g[d]
    BY <2>3
  <2>5. f[d] = g[d]
    BY <1>2, <2>4, TreeUnique
  <2> QED
    BY <2>2, <2>4, <2>5
<1>3. ASSUME NEW d \in Directory
      PROVE  h[d] \in V /\ (d # Root => h[d] = step[d][h[Parent[d]]])
  <2>1. PICK A \in Upward : \E f \in [A -> V] :
               d \in A /\ FollowsTree(f, A, base, step)
    BY TreePartial
  <2>2. PICK f \in [A -> V] : d \in A /\ FollowsTree(f, A, base, step)
    BY <2>1
  <2>3. h[d] = f[d] /\ h[d] \in V
    BY <1>2, <2>2
  <2>4. ASSUME d # Root PROVE h[Parent[d]] = f[Parent[d]]
    <3>1. Parent[d] \in A
      BY <2>2, <2>4 DEF Upward
    <3> HIDE DEF h
    <3> QED
      BY <1>2, <2>2, <3>1
  <2> HIDE DEF h
  <2> QED
    BY <2>2, <2>3, <2>4 DEF FollowsTree
<1>4. h[Root] = base
  <2> DEFINE f == [p \in {Root} |-> base]
  <2>1. {Root} \in Upward /\ f \in [{Root} -> V] /\ FollowsTree(f, {Root}, base, step)
    BY DEF Upward, Directory, FollowsTree
  <2> HIDE DEF h
  <2> QED
    BY <1>2, <2>1
<1>5. h \in [Directory -> V]
  <2>1. \A d \in Directory : h[d] \in V
    BY <1>3
  <2>2. h = [d \in Directory |-> h[d]]
    OBVIOUS
  <2> HIDE DEF h
  <2> QED
    BY <2>1, <2>2
<1> HIDE DEF h
<1> QED
  BY <1>3, <1>4, <1>5 DEF FollowsTree
=============================================================================
