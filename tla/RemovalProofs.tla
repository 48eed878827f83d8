---------------------------- MODULE RemovalProofs ----------------------------
(***************************************************************************)
(* remove_dir_all_writable deletes any tree, whatever the modes in it, and *)
(* touches nothing beside it.  That the walk makes every directory         *)
(* writable before anything below it is reached is what the inductive      *)
(* invariant says.                                                         *)
(***************************************************************************)
EXTENDS Removal, TreeProofs

TreeOK ==
  /\ kind \in [Path -> {"none", "file", "dir", "link"}]
  /\ \A p \in Path : kind[p] # "none" => IsDir(Parent[p])
  /\ locked \subseteq {p \in Path : kind[p] = "dir"}
  /\ Parent[Top] \notin locked

PendingOK ==
  /\ pending \subseteq Path
  /\ \A p \in pending : IsWithin[p] /\ Parent[p] \notin locked

\* What the walk has visited is not locked, and what is in there has been
\* visited or is pending.
Walked(visited) ==
  /\ visited \cap locked = {}
  /\ Top \in visited \cup pending
  /\ \A p \in Path : kind[p] # "none" /\ Parent[p] \in visited => p \in visited \cup pending

Unlocked == \A p \in Path : IsWithin[p] => p \notin locked

IInv ==
  /\ TreeOK
  /\ PendingOK
  /\ stage \in {"start", "visit", "delete", "done"}
  /\ stage = "visit" => \E visited \in SUBSET Path : Walked(visited)
  /\ stage = "delete" => Unlocked
  /\ RemovalSucceeds

-----------------------------------------------------------------------------
\* IsWithin is what its recursive definition says.
LEMMA WithinDef ==
  \A p \in Directory : IsWithin[p] = (p = Top \/ (p # Root /\ IsWithin[Parent[p]]))
<1> DEFINE step == [p \in Path |-> [v \in BOOLEAN |-> p = Top \/ v]]
           Body(f) == [p \in Directory |-> p = Top \/ (p # Root /\ f[Parent[p]])]
<1>1. PICK f \in [Directory -> BOOLEAN] : FollowsTree(f, Directory, FALSE, step)
  BY TreeRecursion, FALSE \in BOOLEAN, step \in [Path -> [BOOLEAN -> BOOLEAN]]
<1>2. f = Body(f)
  BY <1>1, PathAssumption, RemovalAssumption DEF FollowsTree, Directory
<1>3. IsWithin = CHOOSE w : w = Body(w)
  BY DEF IsWithin
<1> HIDE DEF Body
<1>4. IsWithin = Body(IsWithin)
  BY <1>2, <1>3
<1> QED
  BY <1>4 DEF Body

\* Below Top, and nowhere else, everything is below something below Top.
LEMMA Within ==
  /\ IsWithin[Top]
  /\ \A p \in Path : Parent[p] \in Path /\ IsWithin[Parent[p]] => IsWithin[p]
  /\ \A p \in Path : IsWithin[p] /\ p # Top => Parent[p] \in Path /\ IsWithin[Parent[p]]
<1>1. IsWithin[Root] = FALSE
  BY WithinDef, PathAssumption, RemovalAssumption DEF Directory
<1>2. Top \in Directory /\ Top # Root
  BY PathAssumption, RemovalAssumption DEF Directory
<1>3. IsWithin[Top]
  BY <1>2, WithinDef
<1>4. ASSUME NEW p \in Path
      PROVE  /\ p \in Directory /\ p # Root /\ Parent[p] \in Directory
             /\ IsWithin[p] = (p = Top \/ IsWithin[Parent[p]])
  BY WithinDef, PathAssumption DEF Directory
<1>5. ASSUME NEW p \in Path, IsWithin[Parent[p]] PROVE Parent[p] \in Path
  BY <1>1, <1>4, <1>5 DEF Directory
<1> QED
  BY <1>3, <1>4, <1>5

\* When nothing is pending, everything has been visited.
LEMMA AllUnlocked ==
  ASSUME TreeOK, pending = {}, NEW visited \in SUBSET Path, Walked(visited)
  PROVE  Unlocked
<1> DEFINE S == {p \in Path : IsWithin[p] /\ kind[p] # "none" /\ p \notin visited}
<1>1. S = {}
  <2> SUFFICES ASSUME S # {} PROVE FALSE
    OBVIOUS
  <2>1. PICK p \in S : Parent[p] \notin S
    BY PathAssumption
  <2>2. p # Top
    BY DEF Walked
  <2>3. Parent[p] \in Path /\ IsWithin[Parent[p]]
    BY <2>2, Within
  <2>4. kind[Parent[p]] = "dir"
    BY <2>3, PathAssumption DEF TreeOK, IsDir
  <2>5. Parent[p] \in visited
    BY <2>1, <2>3, <2>4
  <2> QED
    BY <2>5 DEF Walked
<1> QED
  BY <1>1 DEF Unlocked, TreeOK, Walked

\* When Top is gone, everything below it is.
LEMMA AllGone ==
  ASSUME NEW k, k[Top] = "none",
         \A p \in Path : k[p] # "none" => Parent[p] = Root \/ k[Parent[p]] = "dir"
  PROVE  \A p \in Path : IsWithin[p] => k[p] = "none"
<1> DEFINE S == {p \in Path : IsWithin[p] /\ k[p] # "none"}
<1>1. S = {}
  <2> SUFFICES ASSUME S # {} PROVE FALSE
    OBVIOUS
  <2>1. PICK p \in S : Parent[p] \notin S
    BY PathAssumption
  <2>2. Parent[p] \in Path /\ IsWithin[Parent[p]]
    BY Within
  <2>3. k[Parent[p]] = "dir"
    BY <2>2, PathAssumption
  <2> QED
    BY <2>1, <2>2, <2>3
<1> QED
  BY <1>1

-----------------------------------------------------------------------------
\* A removal begins with nothing visited.
LEMMA InitOK == Init => IInv
BY RemovalAssumption DEF Init, IInv, TreeOK, PendingOK, RemovalSucceeds, IsDir

\* A directory is made writable before what is in it is looked at.
LEMMA VisitKeeps ==
  ASSUME IInv, NEW p \in Path, Visit(p)
  PROVE  IInv'
<1>1. stage = "visit" /\ p \in pending
  BY DEF Visit
<1>2. Parent[p] \notin locked /\ IsWithin[p]
  BY <1>1 DEF IInv, PendingOK
<1>3. /\ locked' = MadeWritable(p)
      /\ pending' = (pending \ {p}) \cup (IF kind[p] = "dir" THEN Entries(p) ELSE {})
      /\ UNCHANGED <<kind, stage, kills>>
  BY <1>2 DEF Visit
<1>4. locked' = locked \ {p}
  BY <1>3 DEF MadeWritable, IInv, TreeOK
<1>5. TreeOK'
  BY <1>3, <1>4 DEF IInv, TreeOK, IsDir
<1>6. \A q \in Entries(p) : q \in Path /\ Parent[q] = p /\ kind[q] # "none"
  BY DEF Entries, Children
<1>7. PendingOK'
  BY <1>2, <1>3, <1>4, <1>6, Within DEF IInv, PendingOK
<1>8. \E visited \in SUBSET Path : Walked(visited)'
  <2>1. PICK visited \in SUBSET Path : Walked(visited)
    BY <1>1 DEF IInv
  <2> DEFINE now == visited \cup {p}
  <2>2. now \cap locked' = {}
    BY <1>4, <2>1 DEF Walked
  <2>3. Top \in now \cup pending'
    BY <1>3, <2>1 DEF Walked
  <2>4. ASSUME NEW q \in Path, kind'[q] # "none", Parent[q] \in now
        PROVE  q \in now \cup pending'
    <3>1. CASE Parent[q] \in visited
      BY <1>3, <2>1, <2>4, <3>1 DEF Walked
    <3>2. CASE Parent[q] = p
      <4>1. IsDir(p)
        BY <1>3, <2>4, <3>2 DEF IInv, TreeOK
      <4>2. kind[p] = "dir"
        BY <4>1, PathAssumption DEF IsDir
      <4> QED
        BY <1>3, <2>4, <3>2, <4>2 DEF Entries, Children
    <3> QED
      BY <2>4, <3>1, <3>2
  <2>5. Walked(now)'
    BY <2>2, <2>3, <2>4 DEF Walked
  <2> QED
    BY <2>5
<1>9. stage' = "visit"
  BY <1>1, <1>3
<1> QED
  BY <1>5, <1>7, <1>8, <1>9 DEF IInv, RemovalSucceeds

\* An entry goes after what is below it, from a directory that is writable.
LEMMA DeleteKeeps ==
  ASSUME IInv, NEW p \in Path, Delete(p)
  PROVE  IInv'
<1>1. stage = "delete" /\ IsWithin[p] /\ kind[p] # "none" /\ Entries(p) = {}
  BY DEF Delete
<1>2. Parent[p] \notin locked
  BY <1>1, Within DEF IInv, TreeOK, Unlocked
<1>3. /\ kind' = [kind EXCEPT ![p] = "none"]
      /\ stage' = IF p = Top THEN "done" ELSE "delete"
      /\ UNCHANGED <<locked, pending, kills>>
  BY <1>2 DEF Delete
<1>4. p \notin locked
  BY <1>1 DEF IInv, Unlocked
<1>5. TreeOK'
  <2>1. ASSUME NEW q \in Path, kind'[q] # "none" PROVE IsDir(Parent[q])'
    <3>1. q # p /\ kind[q] # "none"
      BY <1>3, <2>1 DEF IInv, TreeOK
    <3>2. Parent[q] # p
      BY <1>1, <3>1 DEF Entries, Children
    <3> QED
      BY <1>3, <3>1, <3>2 DEF IInv, TreeOK, IsDir
  <2> QED
    BY <1>3, <1>4, <2>1 DEF IInv, TreeOK
<1>6. PendingOK' /\ (Unlocked' <=> Unlocked)
  BY <1>3 DEF IInv, PendingOK, Unlocked
<1>7. CASE p = Top
  <2>1. kind'[Top] = "none"
    BY <1>3, <1>7 DEF IInv, TreeOK
  <2>2. \A q \in Path : IsWithin[q] => kind'[q] = "none"
    <3>1. \A q \in Path : kind'[q] # "none" => Parent[q] = Root \/ kind'[Parent[q]] = "dir"
      BY <1>5 DEF TreeOK, IsDir
    <3> QED
      BY <2>1, <3>1, AllGone
  <2> QED
    BY <1>3, <1>5, <1>6, <1>7, <2>2 DEF IInv, RemovalSucceeds
<1>8. CASE p # Top
  BY <1>1, <1>3, <1>5, <1>6, <1>8 DEF IInv, RemovalSucceeds
<1> QED
  BY <1>7, <1>8

\* Every step keeps the invariant.
LEMMA StepKeeps == IInv /\ [Next]_vars => IInv'
<1> SUFFICES ASSUME IInv, [Next]_vars PROVE IInv'
  OBVIOUS
<1>1. CASE Start
  <2>1. TreeOK' /\ PendingOK'
    BY <1>1, Within, RemovalAssumption DEF Start, IInv, TreeOK, PendingOK, IsDir
  <2>2. Walked({})'
    BY <1>1 DEF Start, Walked
  <2> QED
    BY <1>1, <2>1, <2>2 DEF Start, IInv, RemovalSucceeds
<1>2. CASE AllVisited
  <2>1. Unlocked
    BY <1>2, AllUnlocked DEF AllVisited, IInv
  <2> QED
    BY <1>2, <2>1 DEF AllVisited, IInv, TreeOK, PendingOK, Unlocked, IsDir, RemovalSucceeds
<1>3. CASE Kill
  BY <1>3 DEF Kill, IInv, TreeOK, PendingOK, IsDir, RemovalSucceeds
<1>4. ASSUME NEW p \in Path, Visit(p) PROVE IInv'
  BY <1>4, VisitKeeps
<1>5. ASSUME NEW p \in Path, Delete(p) PROVE IInv'
  BY <1>5, DeleteKeeps
<1>6. CASE UNCHANGED vars
  BY <1>6 DEF vars, IInv, TreeOK, PendingOK, Walked, Unlocked, IsDir, RemovalSucceeds
<1> QED
  BY <1>1, <1>2, <1>3, <1>4, <1>5, <1>6 DEF Next, Work

\* The invariant holds in every reachable state.
THEOREM Inductive == Spec => []IInv
<1> QED
  BY InitOK, StepKeeps, PTL DEF Spec

(***************************************************************************)
(* Whatever modes a tree has, and wherever its removal was interrupted     *)
(* before, make_tree_writable and remove_dir_all meet no directory that    *)
(* keeps them out; when they come to an end, the tree is gone.             *)
(***************************************************************************)
THEOREM RemovalMeetsNoError == Spec => []RemovalSucceeds
<1>1. IInv => RemovalSucceeds
  BY DEF IInv
<1> QED
  BY <1>1, Inductive, PTL

(***************************************************************************)
(* No step of a removal changes anything outside of the tree, be it named  *)
(* by links in the tree or above it.                                       *)
(***************************************************************************)
THEOREM RemovalStaysInside == Spec => OutsideIsUntouched
<1> DEFINE Untouched == \A p \in Path : ~IsWithin[p] =>
                          kind'[p] = kind[p] /\ (p \in locked' <=> p \in locked)
<1>1. IInv /\ [Next]_vars => [Untouched]_vars
  <2> SUFFICES ASSUME IInv, Next PROVE Untouched
    OBVIOUS
  <2>1. CASE Start \/ AllVisited \/ Kill
    BY <2>1 DEF Start, AllVisited, Kill
  <2>2. ASSUME NEW p \in Path, Visit(p) PROVE Untouched
    BY <2>2 DEF Visit, Fail, MadeWritable, IInv, PendingOK
  <2>3. ASSUME NEW p \in Path, Delete(p) PROVE Untouched
    BY <2>3 DEF Delete, Fail, IInv, TreeOK
  <2> QED
    BY <2>1, <2>2, <2>3 DEF Next, Work
<1> QED
  BY <1>1, Inductive, PTL DEF Spec, OutsideIsUntouched
=============================================================================
