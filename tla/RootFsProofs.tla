----------------------------- MODULE RootFsProofs -----------------------------
(***************************************************************************)
(* Stacking, for any tree of paths and any lists of layers.  Overlayfs     *)
(* looks a path up by going down from the root; the OCI rules apply layer  *)
(* after layer.  The two meet in a closed form: a layer takes part in a    *)
(* merged directory when it has the directory and no layer above it hides  *)
(* one on the way there (MergedIff).  So a layer on top of an overlay does *)
(* what applying it to the image does (OverlayAppend), and the stack shows *)
(* the image as it grows.                                                  *)
(***************************************************************************)
EXTENDS RootFs, TreeProofs, WellFoundedInduction, SequenceTheorems

\* A set of numbers has a least one.
LEMMA Least ==
  ASSUME NEW S \in SUBSET Nat, S # {}
  PROVE  \E n \in S : \A m \in S : n <= m
<1>1. PICK n \in S : \A m \in S : ~(<<m, n>> \in OpToRel(<, Nat))
  BY NatLessThanWellFounded, WFMin
<1>2. \A m \in S : ~(m < n)
  BY <1>1 DEF OpToRel
<1> QED
  BY <1>2

\* A set of numbers up to n has a greatest one.
LEMMA MaxProperties ==
  ASSUME NEW n \in Nat, NEW S \in SUBSET (1..n), S # {}
  PROVE  Max(S) \in S /\ \A i \in S : i <= Max(S)
<1> DEFINE Bounds == {m \in Nat : \A i \in S : i <= m}
<1>1. n \in Bounds
  OBVIOUS
<1>2. PICK m \in Bounds : \A k \in Bounds : m <= k
  BY <1>1, Least
<1>3. m \in S
  <2> SUFFICES ASSUME m \notin S PROVE FALSE
    OBVIOUS
  <2>1. PICK i \in S : TRUE
    OBVIOUS
  <2>2. \A j \in S : j \in Nat /\ j <= m /\ j # m /\ j >= 1
    BY <1>2
  <2>3. m \in Nat /\ m >= 1
    BY <1>2, <2>1, <2>2
  <2>4. m - 1 \in Nat /\ \A j \in S : j <= m - 1
    BY <2>2, <2>3
  <2> QED
    BY <1>2, <2>4, <2>3
<1>4. \E x \in S : \A y \in S : x >= y
  BY <1>2, <1>3
<1>5. Max(S) \in S /\ \A y \in S : Max(S) >= y
  BY <1>4 DEF Max
<1> QED
  BY <1>5

\* The paths on the way to a directory, itself among them.
LEMMA ChainDef ==
  /\ Chain \in [Directory -> SUBSET Path]
  /\ Chain[Root] = {}
  /\ \A p \in Path : Chain[p] = {p} \cup Chain[Parent[p]]
<1> DEFINE step == [p \in Path |-> [v \in SUBSET Path |-> {p} \cup v]]
           Body(f) == [d \in Directory |-> IF d = Root THEN {} ELSE {d} \cup f[Parent[d]]]
<1>1. PICK f \in [Directory -> SUBSET Path] : FollowsTree(f, Directory, {}, step)
  <2>1. step \in [Path -> [SUBSET Path -> SUBSET Path]]
    OBVIOUS
  <2> HIDE DEF step
  <2> QED
    BY <2>1, TreeRecursion
<1>2. f = Body(f)
  <2>1. \A p \in Path : f[Parent[p]] \in SUBSET Path
    BY PathAssumption
  <2>2. \A p \in Path : f[p] = {p} \cup f[Parent[p]]
    BY <1>1, <2>1, PathAssumption DEF FollowsTree, Directory
  <2>3. \A d \in Directory : f[d] = IF d = Root THEN {} ELSE {d} \cup f[Parent[d]]
    BY <1>1, <2>2 DEF FollowsTree, Directory
  <2> QED
    BY <2>3
<1>3. Chain = CHOOSE c : c = Body(c)
  BY DEF Chain
<1>4. Chain = Body(Chain)
  <2> HIDE DEF Body
  <2> QED
    BY <1>2, <1>3
<1>5. /\ Chain = [d \in Directory |-> Chain[d]]
      /\ Chain[Root] = {}
      /\ \A p \in Path : Chain[p] = {p} \cup Chain[Parent[p]]
  BY <1>4, PathAssumption DEF Directory
<1> DEFINE S == {p \in Path : Chain[p] \notin SUBSET Path}
<1>6. S = {}
  <2> SUFFICES ASSUME S # {} PROVE FALSE
    OBVIOUS
  <2>1. PICK p \in S : Parent[p] \notin S
    BY PathAssumption
  <2>2. Parent[p] \in Path => Chain[Parent[p]] \in SUBSET Path
    BY <2>1
  <2>3. Chain[Parent[p]] \in SUBSET Path
    <3>1. Parent[p] \in Path \/ Parent[p] = Root
      BY PathAssumption DEF Directory
    <3>2. Chain[Root] \in SUBSET Path
      BY <1>5
    <3> QED
      BY <2>2, <3>1, <3>2
  <2>4. Chain[p] = {p} \cup Chain[Parent[p]]
    BY <1>5
  <2> QED
    BY <2>3, <2>4
<1>7. \A d \in Directory : Chain[d] \in SUBSET Path
  BY <1>5, <1>6 DEF Directory
<1> QED
  BY <1>5, <1>7
-----------------------------------------------------------------------------
(* Layers on disk. *)

\* The layer a lets a lookup below the directory d pass to the layers under it.
Open(a, d) == OnDisk[a].kind[d] \in {"none", "dir"} /\ d \notin OnDisk[a].opaque

\* The layer a hides what the layers under it have in the directory d.
Covers(a, d) == \E q \in Chain[d] : ~Open(a, q)

HasDirectory(a, d) == IsDirectory(OnDisk[a], d)

\* A converted layer has the files of its archive, a whiteout where a marker
\* deletes what the archive does not have, and a directory above each of them.
LEMMA DiskShape ==
  ASSUME NEW a \in Layer
  PROVE  /\ \A p \in Path :
              /\ a.kind[p] \in {"none", "file", "dir"}
              /\ OnDisk[a].kind[p] = IF p \in Targets(a) /\ a.kind[p] = "none"
                                     THEN "whiteout" ELSE a.kind[p]
              /\ OnDisk[a].kind[p] # "none" => HasDirectory(a, Parent[p])
         /\ OnDisk[a].opaque = a.opaques \cup {p \in Targets(a) : a.kind[p] = "dir"}
         /\ \A d \in OnDisk[a].opaque : HasDirectory(a, d)
<1>1. IsArchive(a) /\ a \in Tree
  BY LayerAssumption DEF IsArchive
<1>2. OnDisk[a] = Converted(a)
  BY DEF OnDisk
<1>3. Targets(a) \subseteq Path /\ Targets(a) \subseteq a.whiteouts
  BY <1>1 DEF Targets, Tree
<1>4. OnDisk[a].kind = [p \in Path |-> IF p \in Targets(a) /\ a.kind[p] = "none"
                                      THEN "whiteout" ELSE a.kind[p]]
  BY <1>1, <1>2 DEF Converted, Tree
<1>5. OnDisk[a].opaque = a.opaques \cup {p \in Targets(a) : a.kind[p] = "dir"}
  BY <1>1, <1>2, <1>3 DEF Converted, Tree, IsArchive
<1>6. \A p \in Path : a.kind[p] \in {"none", "file", "dir"}
  BY <1>1 DEF Tree, IsArchive
<1>7. \A d \in Directory : IsDirectory(a, d) => HasDirectory(a, d)
  BY <1>4, <1>6 DEF IsDirectory, HasDirectory
<1>8. \A p \in Path : OnDisk[a].kind[p] # "none" => HasDirectory(a, Parent[p])
  <2> SUFFICES ASSUME NEW p \in Path, OnDisk[a].kind[p] # "none"
               PROVE  HasDirectory(a, Parent[p])
    OBVIOUS
  <2>1. a.kind[p] # "none" \/ p \in a.whiteouts
    BY <1>3, <1>4
  <2> QED
    BY <1>1, <1>7, <2>1, PathAssumption DEF IsArchive, IsRooted
<1>9. \A d \in OnDisk[a].opaque : HasDirectory(a, d)
  <2> SUFFICES ASSUME NEW d \in OnDisk[a].opaque PROVE HasDirectory(a, d)
    OBVIOUS
  <2>1. IsDirectory(a, d)
    BY <1>1, <1>3, <1>5 DEF IsArchive, IsRooted, IsDirectory
  <2>2. d \in Directory
    BY <2>1 DEF IsDirectory, Directory
  <2> QED
    BY <1>7, <2>1, <2>2
<1> QED
  BY <1>4, <1>5, <1>6, <1>8, <1>9

\* Where a layer has no directory it has nothing, and hides nothing.
LEMMA NothingBelow ==
  ASSUME NEW a \in Layer, NEW p \in Path, ~HasDirectory(a, Parent[p])
  PROVE  Open(a, p) /\ OnDisk[a].kind[p] = "none"
<1>1. OnDisk[a].kind[p] = "none"
  BY DiskShape
<1>2. ~HasDirectory(a, p)
  BY <1>1, PathAssumption DEF HasDirectory, IsDirectory
<1>3. p \notin OnDisk[a].opaque
  BY <1>2, DiskShape
<1> QED
  BY <1>1, <1>3 DEF Open

-----------------------------------------------------------------------------
(* The overlay. *)

\* Merged is what its recursive definition says.
LEMMA MergedDef ==
  ASSUME NEW stack \in Seq(Layer)
  PROVE  /\ Merged(stack)[Root] = 1..Len(stack)
         /\ \A p \in Path :
              Merged(stack)[p] =
                {i \in Merged(stack)[Parent[p]] :
                   /\ OnDisk[stack[i]].kind[p] = "dir"
                   /\ \A j \in Merged(stack)[Parent[p]] : j > i => Open(stack[j], p)}
         /\ \A d \in Directory : Merged(stack)[d] \in SUBSET (1..Len(stack))
<1> DEFINE V == SUBSET (1..Len(stack))
           Stays(p, v, i) == /\ OnDisk[stack[i]].kind[p] = "dir"
                             /\ \A j \in v : j > i => Open(stack[j], p)
           step == [p \in Path |-> [v \in V |-> {i \in v : Stays(p, v, i)}]]
           Body(m) == [d \in Directory |->
                         IF d = Root THEN 1..Len(stack)
                         ELSE {i \in m[Parent[d]] : Stays(d, m[Parent[d]], i)}]
<1>1. PICK f \in [Directory -> V] : FollowsTree(f, Directory, 1..Len(stack), step)
  <2>1. step \in [Path -> [V -> V]] /\ 1..Len(stack) \in V
    <3> HIDE DEF Stays
    <3> QED
      OBVIOUS
  <2> HIDE DEF step, V
  <2> QED
    BY <2>1, TreeRecursion
<1>2. f = Body(f)
  <2> HIDE DEF Stays, V
  <2>1. \A p \in Path : f[Parent[p]] \in V
    BY PathAssumption
  <2>2. \A p \in Path : f[p] = {i \in f[Parent[p]] : Stays(p, f[Parent[p]], i)}
    BY <1>1, <2>1, PathAssumption DEF FollowsTree, Directory
  <2>3. \A d \in Directory :
          f[d] = IF d = Root THEN 1..Len(stack)
                 ELSE {i \in f[Parent[d]] : Stays(d, f[Parent[d]], i)}
    BY <1>1, <2>2 DEF FollowsTree, Directory
  <2> QED
    BY <2>3
<1>3. Merged(stack) = CHOOSE m : m = Body(m)
  BY DEF Merged, Open
<1>4. Merged(stack) = Body(Merged(stack))
  <2> HIDE DEF Body
  <2> QED
    BY <1>2, <1>3
<1> DEFINE M == Merged(stack)
<1>5. /\ M[Root] = 1..Len(stack)
      /\ \A p \in Path : M[p] = {i \in M[Parent[p]] : Stays(p, M[Parent[p]], i)}
  <2> HIDE DEF M, Stays
  <2>1. M = Body(M)
    BY <1>4 DEF M
  <2> QED
    BY <2>1, PathAssumption DEF Directory
<1> DEFINE S == {p \in Path : M[p] \notin V}
<1>6. S = {}
  <2> SUFFICES ASSUME S # {} PROVE FALSE
    OBVIOUS
  <2> HIDE DEF M
  <2>1. PICK p \in S : Parent[p] \notin S
    BY PathAssumption
  <2>2. M[Parent[p]] \in V
    BY <1>5, <2>1, PathAssumption DEF Directory
  <2>3. M[p] \subseteq M[Parent[p]]
    BY <1>5
  <2> QED
    BY <2>2, <2>3
<1>7. \A d \in Directory : M[d] \in V
  <2> HIDE DEF M
  <2> QED
    BY <1>5, <1>6 DEF Directory
<1> QED
  BY <1>5, <1>7

\* A layer takes part in a directory if it has it, and no layer above it hides it.
LEMMA MergedIff ==
  ASSUME NEW stack \in Seq(Layer), NEW d \in Directory, NEW i \in 1..Len(stack)
  PROVE  i \in Merged(stack)[d] <=>
           /\ HasDirectory(stack[i], d)
           /\ \A j \in 1..Len(stack) : j > i => ~Covers(stack[j], d)
<1> DEFINE M == Merged(stack)
           N == 1..Len(stack)
           Sees(e, k) == /\ HasDirectory(stack[k], e)
                         /\ \A j \in N : j > k => ~Covers(stack[j], e)
           S == {p \in Path : \E k \in N : ~(k \in M[p] <=> Sees(p, k))}
<1> HIDE DEF M
<1>1. \A k \in N : k \in M[Root] /\ Sees(Root, k)
  BY MergedDef, ChainDef DEF M, HasDirectory, IsDirectory, Covers
<1>2. ASSUME NEW p \in Path, \A k \in N : k \in M[Parent[p]] <=> Sees(Parent[p], k),
             NEW k \in N
      PROVE  k \in M[p] <=> Sees(p, k)
  <2> DEFINE P == Parent[p]
  <2>1. k \in M[p] <=> /\ k \in M[P]
                       /\ OnDisk[stack[k]].kind[p] = "dir"
                       /\ \A j \in M[P] : j > k => Open(stack[j], p)
    BY MergedDef DEF M
  <2>2. M[P] \subseteq N
    BY MergedDef, PathAssumption DEF M
  <2>3. \A j \in N : stack[j] \in Layer
    BY ElementOfSeq
  <2>4. \A j \in N : Covers(stack[j], p) <=> ~Open(stack[j], p) \/ Covers(stack[j], P)
    BY ChainDef DEF Covers
  <2>5. HasDirectory(stack[k], p) <=> OnDisk[stack[k]].kind[p] = "dir"
    BY PathAssumption DEF HasDirectory, IsDirectory
  <2>6. HasDirectory(stack[k], p) => HasDirectory(stack[k], P)
    BY <2>3, <2>5, DiskShape
  <2>7. ASSUME Sees(p, k) PROVE k \in M[p]
    <3>1. Sees(P, k)
      BY <2>4, <2>6, <2>7
    <3> QED
      BY <1>2, <2>1, <2>2, <2>4, <2>5, <2>7, <3>1
  <2>8. ASSUME k \in M[p] PROVE Sees(p, k)
    <3>1. Sees(P, k)
      BY <1>2, <2>1, <2>8
    <3>2. ASSUME NEW j \in N, j > k PROVE Open(stack[j], p)
      <4>1. CASE j \in M[P]
        BY <2>1, <2>8, <3>2, <4>1
      <4>2. CASE j \notin M[P]
        <5>1. ~HasDirectory(stack[j], P)
          BY <1>2, <3>1, <3>2, <4>2
        <5> QED
          BY <2>3, <5>1, NothingBelow
      <4> QED
        BY <4>1, <4>2
    <3> QED
      BY <2>1, <2>4, <2>5, <2>8, <3>1, <3>2
  <2> QED
    BY <2>7, <2>8
<1>3. S = {}
  <2> SUFFICES ASSUME S # {} PROVE FALSE
    OBVIOUS
  <2>1. PICK p \in S : Parent[p] \notin S
    BY PathAssumption
  <2>2. \A k \in N : k \in M[Parent[p]] <=> Sees(Parent[p], k)
    BY SMTT(60), <1>1, <2>1, PathAssumption DEF Directory
  <2> QED
    BY <1>2, <2>2
<1> QED
  BY <1>1, <1>3 DEF M, Directory

\* What a path shows of the layer that decides it.
Look(a, p) == IF OnDisk[a].kind[p] = "whiteout" THEN Nothing
              ELSE Shown(OnDisk[a].kind[p], a)

\* The layer at i decides the path p: it has something there, and no layer
\* above it has, nor hides the directory that p is in.
Decides(stack, p, i) ==
  /\ OnDisk[stack[i]].kind[p] # "none"
  /\ \A j \in 1..Len(stack) :
       j > i => OnDisk[stack[j]].kind[p] = "none" /\ ~Covers(stack[j], Parent[p])

\* A path shows what the layer that decides it has there, and nothing if none does.
LEMMA OverlayAt ==
  ASSUME NEW stack \in Seq(Layer), NEW p \in Path
  PROVE  /\ \A i \in 1..Len(stack) :
              Decides(stack, p, i) => Overlay(stack)[p] = Look(stack[i], p)
         /\ (\A i \in 1..Len(stack) : ~Decides(stack, p, i))
              => Overlay(stack)[p] = Nothing
<1> DEFINE N == 1..Len(stack)
           H == {i \in Merged(stack)[Parent[p]] : OnDisk[stack[i]].kind[p] # "none"}
<1>1. Overlay(stack)[p] = IF H = {} THEN Nothing ELSE Look(stack[Max(H)], p)
  BY DEF Overlay, Look
<1>2. Parent[p] \in Directory
  BY PathAssumption
<1>3. H \subseteq N
  BY <1>2, MergedDef
<1>4. \A i \in N : i \in H <=> /\ OnDisk[stack[i]].kind[p] # "none"
                             /\ \A j \in N : j > i => ~Covers(stack[j], Parent[p])
  <2>1. \A i \in N : stack[i] \in Layer
    BY ElementOfSeq
  <2>2. \A i \in N : OnDisk[stack[i]].kind[p] # "none" => HasDirectory(stack[i], Parent[p])
    BY <2>1, DiskShape
  <2> QED
    BY <1>2, <2>2, MergedIff
<1> HIDE DEF H
<1>5. H # {} => Max(H) \in H /\ \A i \in H : i <= Max(H)
  BY <1>3, MaxProperties, LenProperties
<1>6. ASSUME NEW i \in N, Decides(stack, p, i) PROVE i \in H /\ \A j \in H : j <= i
  BY <1>3, <1>4, <1>6, LenProperties DEF Decides
<1>7. ASSUME H # {} PROVE Decides(stack, p, Max(H))
  <2> DEFINE m == Max(H)
  <2>1. m \in N /\ m \in H
    BY <1>3, <1>5, <1>7
  <2> HIDE DEF m
  <2>2. ASSUME NEW j \in N, j > m PROVE OnDisk[stack[j]].kind[p] = "none"
    <3>1. j \notin H
      BY <1>5, <1>7, <2>1, <2>2, LenProperties DEF m
    <3>2. \A k \in N : k > j => ~Covers(stack[k], Parent[p])
      BY <1>4, <2>1, <2>2, LenProperties
    <3> QED
      BY <1>4, <3>1, <3>2
  <2>3. Decides(stack, p, m)
    BY <1>4, <2>1, <2>2 DEF Decides
  <2> QED
    BY <2>3 DEF m
<1>8. ASSUME NEW i \in N, Decides(stack, p, i) PROVE H # {} /\ Max(H) = i
  <2>1. H # {} /\ i \in H
    BY <1>6, <1>8
  <2>2. Max(H) \in H /\ i <= Max(H) /\ Max(H) <= i
    BY <1>5, <1>6, <1>8, <2>1
  <2>3. H \subseteq Nat
    BY <1>3, LenProperties
  <2>4. Max(H) \in Nat /\ i \in Nat
    BY <2>1, <2>2, <2>3
  <2> QED
    BY <2>1, <2>2, <2>4
<1>9. H # {} => Max(H) \in N
  BY <1>3, <1>5
<1> QED
  BY <1>1, <1>7, <1>8, <1>9

-----------------------------------------------------------------------------
(* The image. *)

\* Below a directory are all directories on the way to it, and each has one
\* below it on the way.
LEMMA ChainUp ==
  ASSUME NEW d \in Directory
  PROVE  \A q \in Chain[d] : Parent[q] = Root \/ Parent[q] \in Chain[d]
<1> DEFINE S == {p \in Path : \E q \in Chain[p] : Parent[q] # Root /\ Parent[q] \notin Chain[p]}
<1>1. S = {}
  <2> SUFFICES ASSUME S # {} PROVE FALSE
    OBVIOUS
  <2>1. PICK p \in S : Parent[p] \notin S
    BY PathAssumption
  <2>2. PICK q \in Chain[p] : Parent[q] # Root /\ Parent[q] \notin Chain[p]
    OBVIOUS
  <2>3. CASE Parent[p] = Root
    BY <2>2, <2>3, ChainDef
  <2>4. CASE Parent[p] \in Path
    BY <2>1, <2>2, <2>4, ChainDef
  <2> QED
    BY <2>3, <2>4, PathAssumption DEF Directory
<1> QED
  BY <1>1, ChainDef DEF Directory

\* What is on the way to the parent has a child on the way to the path.
LEMMA ChainChild ==
  ASSUME NEW p \in Path, NEW q \in Chain[Parent[p]]
  PROVE  \E r \in Chain[p] : Parent[r] = q
<1> DEFINE S == {e \in Path : \E x \in Chain[Parent[e]] : \A r \in Chain[e] : Parent[r] # x}
<1>1. S = {}
  <2> SUFFICES ASSUME S # {} PROVE FALSE
    OBVIOUS
  <2>1. PICK e \in S : Parent[e] \notin S
    BY PathAssumption
  <2>2. PICK x \in Chain[Parent[e]] : \A r \in Chain[e] : Parent[r] # x
    OBVIOUS
  <2>3. Parent[e] \in Path
    BY <2>2, ChainDef, PathAssumption DEF Directory
  <2>4. x = Parent[e] \/ x \in Chain[Parent[Parent[e]]]
    BY <2>2, <2>3, ChainDef
  <2>5. e \in Chain[e] /\ Chain[Parent[e]] \subseteq Chain[e]
    BY ChainDef
  <2> QED
    BY <2>1, <2>2, <2>3, <2>4, <2>5
<1> QED
  BY <1>1

\* Where a converted layer has nothing, it hides exactly what the archive deletes.
LEMMA CoversIsHides ==
  ASSUME NEW a \in Layer, Root \notin a.opaques, NEW p \in Path,
         OnDisk[a].kind[p] = "none"
  PROVE  Hides(a, p) <=> Covers(a, Parent[p])
<1> DEFINE P == Parent[p]
<1>1. /\ Chain[p] = {p} \cup Chain[P]
      /\ Chain[P] \subseteq Path
      /\ P \in Directory
  BY ChainDef, PathAssumption
<1>2. a.kind[p] = "none" /\ p \notin Targets(a)
  BY DiskShape
<1>3. a.whiteouts \subseteq Path
  BY LayerAssumption DEF IsArchive, Tree
<1>4. P = Root \/ P \in Chain[P]
  BY <1>1, ChainDef DEF Directory
<1>5. \A q \in Path : Open(a, q) <=>
         /\ a.kind[q] # "file"
         /\ q \notin Targets(a)
         /\ q \notin a.opaques
  BY DiskShape DEF Open
<1>6. ASSUME Hides(a, p) PROVE Covers(a, P)
  <2>1. CASE \E q \in Chain[p] \ {p} : a.kind[q] = "file"
    BY <1>1, <1>5, <2>1 DEF Covers
  <2>2. ASSUME NEW q \in Chain[p], Parent[q] \in a.opaques PROVE Covers(a, P)
    <3>1. Parent[q] \in Chain[P]
      BY <1>1, <1>4, <2>2, ChainUp
    <3> QED
      BY <1>1, <1>5, <2>2, <3>1 DEF Covers
  <2>3. ASSUME NEW q \in Chain[p], q \in a.whiteouts, Parent[q] \notin a.opaques
        PROVE  Covers(a, P)
    <3>1. q \in Targets(a)
      BY <2>3 DEF Targets
    <3>2. q \in Chain[P]
      BY <1>1, <1>2, <3>1
    <3> QED
      BY <1>1, <1>5, <3>1, <3>2 DEF Covers
  <2> QED
    BY <1>6, <2>1, <2>2, <2>3 DEF Hides
<1>7. ASSUME Covers(a, P) PROVE Hides(a, p)
  <2>1. PICK q \in Chain[P] : ~Open(a, q)
    BY <1>7 DEF Covers
  <2>2. q \in Chain[p] /\ q \in Path
    BY <1>1
  <2>3. CASE a.kind[q] = "file"
    BY <1>2, <2>2, <2>3 DEF Hides
  <2>4. CASE q \in Targets(a)
    BY <2>2, <2>4 DEF Hides, Targets
  <2>5. CASE q \in a.opaques
    BY <2>5, ChainChild DEF Hides
  <2> QED
    BY <1>5, <2>1, <2>2, <2>3, <2>4, <2>5
<1> QED
  BY <1>6, <1>7

\* A layer on top of an overlay does what applying it to the image does.
LEMMA OverlayAppend ==
  ASSUME NEW stack \in Seq(Layer), NEW a \in Layer,
         Root \notin a.opaques \/ stack = << >>
  PROVE  Overlay(Append(stack, a)) = Applied(Overlay(stack), a)
<1> DEFINE up == Append(stack, a)
           n  == Len(stack)
<1>1. /\ up \in Seq(Layer) /\ n \in Nat /\ Len(up) = n + 1
      /\ up[n + 1] = a /\ \A i \in 1..n : up[i] = stack[i]
  BY AppendProperties, LenProperties
<1> HIDE DEF up, n
<1>2. ASSUME NEW p \in Path PROVE Overlay(up)[p] = Applied(Overlay(stack), a)[p]
  <2>1. Applied(Overlay(stack), a)[p] =
          IF a.kind[p] = "none" THEN IF Hides(a, p) THEN Nothing ELSE Overlay(stack)[p]
          ELSE Shown(a.kind[p], a)
    BY DEF Applied
  <2>2. CASE OnDisk[a].kind[p] # "none"
    <3>1. Decides(up, p, n + 1)
      BY <1>1, <2>2 DEF Decides
    <3>2. Overlay(up)[p] = Look(a, p)
      BY <1>1, <3>1, OverlayAt
    <3>3. CASE a.kind[p] = "none"
      <4>1. OnDisk[a].kind[p] = "whiteout" /\ p \in Targets(a)
        BY <2>2, <3>3, DiskShape
      <4>2. Hides(a, p)
        BY <4>1, ChainDef DEF Targets, Hides
      <4> QED
        BY <2>1, <3>2, <3>3, <4>1, <4>2 DEF Look
    <3>4. CASE a.kind[p] # "none"
      BY <2>1, <3>2, <3>4, DiskShape DEF Look
    <3> QED
      BY <3>3, <3>4
  <2>3. CASE OnDisk[a].kind[p] = "none"
    <3>1. ~Decides(up, p, n + 1)
      BY <1>1, <2>3 DEF Decides
    <3>2. \A i \in 1..n : Decides(up, p, i) <=> Decides(stack, p, i) /\ ~Covers(a, Parent[p])
      <4>1. 1..Len(up) = (1..n) \cup {n + 1}
        BY <1>1
      <4>2. \A i \in 1..n : n + 1 > i
        BY <1>1
      <4> QED
        BY <1>1, <2>3, <4>1, <4>2 DEF Decides, n
    <3>3. a.kind[p] = "none"
      BY <2>3, DiskShape
    <3>4. CASE \E i \in 1..n : Decides(up, p, i)
      <4>1. PICK i \in 1..n : Decides(up, p, i)
        BY <3>4
      <4>2. Overlay(up)[p] = Look(stack[i], p)
        BY <1>1, <4>1, OverlayAt
      <4>3. Overlay(stack)[p] = Look(stack[i], p)
        BY <3>2, <4>1, OverlayAt DEF n
      <4>4. stack # << >>
        BY <1>1, <4>1 DEF n
      <4>5. ~Hides(a, p)
        BY <2>3, <3>2, <4>1, <4>4, CoversIsHides
      <4> QED
        BY <2>1, <3>3, <4>2, <4>3, <4>5
    <3>5. CASE \A i \in 1..n : ~Decides(up, p, i)
      <4>1. \A i \in 1..Len(up) : ~Decides(up, p, i)
        BY <1>1, <3>1, <3>5
      <4>2. Overlay(up)[p] = Nothing
        BY <1>1, <4>1, OverlayAt
      <4>3. CASE \E i \in 1..n : Decides(stack, p, i)
        <5>1. stack # << >> /\ Covers(a, Parent[p])
          BY <1>1, <3>2, <3>5, <4>3 DEF n
        <5>2. Hides(a, p)
          BY <2>3, <5>1, CoversIsHides
        <5> QED
          BY <2>1, <3>3, <4>2, <5>2
      <4>4. CASE \A i \in 1..n : ~Decides(stack, p, i)
        <5>1. Overlay(stack)[p] = Nothing
          BY <4>4, OverlayAt DEF n
        <5> QED
          BY <2>1, <3>3, <4>2, <5>1
      <4> QED
        BY <4>3, <4>4
    <3> QED
      BY <3>4, <3>5
  <2> QED
    BY <2>2, <2>3
<1>4. Overlay(up) = [p \in Path |-> Overlay(up)[p]]
  BY Zenon DEF Overlay
<1>5. Applied(Overlay(stack), a) = [p \in Path |-> Applied(Overlay(stack), a)[p]]
  BY DEF Applied
<1>6. Overlay(up) = Applied(Overlay(stack), a)
  BY <1>2, <1>4, <1>5
<1> QED
  BY <1>6 DEF up

-----------------------------------------------------------------------------
(* The image of a list. *)

Blank == [p \in Path |-> Nothing]

\* f[k] is the image of the first k layers of the list.
Applies(f, list, n) ==
  f = [k \in 0..n |-> IF k = 0 THEN Blank ELSE Applied(f[k - 1], list[k])]

\* There are such images, and the first n depend on the first n layers only.
LEMMA AppliesExists ==
  ASSUME NEW list, NEW n \in Nat
  PROVE  \E f : Applies(f, list, n)
<1> DEFINE S == {k \in Nat : ~\E f : Applies(f, list, k)}
<1>1. 0 \notin S
  <2> DEFINE f == [k \in 0..0 |-> Blank]
  <2>1. Applies(f, list, 0)
    BY DEF Applies
  <2> QED
    BY <2>1
<1>2. S = {}
  <2> SUFFICES ASSUME S # {} PROVE FALSE
    OBVIOUS
  <2>1. PICK m \in S : \A k \in S : m <= k
    BY Least
  <2>2. m # 0 /\ m - 1 \in Nat /\ m - 1 \notin S
    BY <1>1, <2>1
  <2>3. PICK g : Applies(g, list, m - 1)
    BY <2>2
  <2> DEFINE f == [k \in 0..m |-> IF k = m THEN Applied(g[m - 1], list[m]) ELSE g[k]]
  <2>4. \A k \in 0..(m - 1) :
          f[k] = g[k] /\ g[k] = IF k = 0 THEN Blank ELSE Applied(g[k - 1], list[k])
    BY <2>1, <2>2, <2>3 DEF Applies
  <2>5. f[m] = Applied(f[m - 1], list[m])
    BY <2>2, <2>4
  <2>6. \A k \in 1..(m - 1) : k - 1 \in 0..(m - 1)
    BY <2>2
  <2>7. \A k \in 0..m : f[k] = IF k = 0 THEN Blank ELSE Applied(f[k - 1], list[k])
    <3> SUFFICES ASSUME NEW k \in 0..m
                 PROVE  f[k] = IF k = 0 THEN Blank ELSE Applied(f[k - 1], list[k])
      OBVIOUS
    <3> HIDE DEF f
    <3>1. CASE k = m
      BY <2>2, <2>5, <3>1
    <3>2. CASE k = 0
      BY <2>2, <2>4, <3>2
    <3>3. CASE k # m /\ k # 0
      <4>1. k \in 0..(m - 1) /\ k - 1 \in 0..(m - 1)
        BY <2>2, <3>3
      <4> QED
        BY <2>4, <3>3, <4>1
    <3> QED
      BY <3>1, <3>2, <3>3
  <2>8. Applies(f, list, m)
    BY <2>7 DEF Applies
  <2> QED
    BY <2>1, <2>8
<1> QED
  BY <1>2

LEMMA AppliesUnique ==
  ASSUME NEW n \in Nat, NEW m \in Nat, n <= m, NEW f, NEW g, NEW s, NEW t,
         Applies(f, s, n), Applies(g, t, m), \A i \in 1..n : s[i] = t[i]
  PROVE  f[n] = g[n]
<1> DEFINE S == {k \in 0..n : f[k] # g[k]}
<1>1. /\ \A k \in 0..n : f[k] = IF k = 0 THEN Blank ELSE Applied(f[k - 1], s[k])
      /\ \A k \in 0..n : g[k] = IF k = 0 THEN Blank ELSE Applied(g[k - 1], t[k])
  <2>1. \A k \in 0..n : k \in 0..m
    OBVIOUS
  <2> QED
    BY <2>1 DEF Applies
<1>2. S = {}
  <2> SUFFICES ASSUME S # {} PROVE FALSE
    OBVIOUS
  <2>1. PICK k \in S : \A j \in S : k <= j
    <3>1. S \in SUBSET Nat
      OBVIOUS
    <3> HIDE DEF S
    <3> QED
      BY <3>1, Least
  <2>2. k # 0 /\ k \in 1..n /\ k \in 0..n
    BY <1>1
  <2>3. k - 1 \in 0..n /\ ~(k <= k - 1)
    BY <2>2
  <2>4. f[k - 1] = g[k - 1]
    BY <2>1, <2>3
  <2> QED
    BY <1>1, <2>2, <2>4
<1> QED
  BY <1>2

\* ImageOf is what its recursive definition says.
LEMMA ImageApplies ==
  ASSUME NEW list \in Seq(Layer)
  PROVE  \E f : Applies(f, list, Len(list)) /\ ImageOf(list) = f[Len(list)]
<1> DEFINE n == Len(list)
           f == CHOOSE I : I = [k \in 0..n |-> IF k = 0 THEN Blank ELSE Applied(I[k - 1], list[k])]
<1>1. ImageOf(list) = f[n]
  BY DEF ImageOf, Blank
<1>2. \E I : I = [k \in 0..n |-> IF k = 0 THEN Blank ELSE Applied(I[k - 1], list[k])]
  BY AppliesExists, LenProperties DEF Applies
<1>3. Applies(f, list, n)
  BY <1>2 DEF Applies
<1> HIDE DEF f
<1> QED
  BY <1>1, <1>3

\* The image of no layers, and of one more.
LEMMA ImageEmpty == ImageOf(<< >>) = Blank
<1>1. << >> \in Seq(Layer) /\ Len(<< >>) = 0
  OBVIOUS
<1>2. PICK f : Applies(f, << >>, 0) /\ ImageOf(<< >>) = f[0]
  BY <1>1, ImageApplies
<1> QED
  BY <1>2 DEF Applies

LEMMA ImageAppend ==
  ASSUME NEW list \in Seq(Layer), NEW a \in Layer
  PROVE  ImageOf(Append(list, a)) = Applied(ImageOf(list), a)
<1> DEFINE n    == Len(list)
           more == Append(list, a)
<1>1. /\ more \in Seq(Layer) /\ n \in Nat /\ Len(more) = n + 1
      /\ more[n + 1] = a /\ \A i \in 1..n : more[i] = list[i]
  BY AppendProperties, LenProperties
<1> HIDE DEF n, more
<1>2. PICK f : Applies(f, list, n) /\ ImageOf(list) = f[n]
  BY ImageApplies DEF n
<1>3. PICK g : Applies(g, more, n + 1) /\ ImageOf(more) = g[n + 1]
  BY <1>1, ImageApplies
<1>4. f[n] = g[n]
  BY <1>1, <1>2, <1>3, AppliesUnique
<1>5. g[n + 1] = Applied(g[n], a)
  <2>1. n + 1 \in 0..(n + 1) /\ n + 1 # 0 /\ (n + 1) - 1 = n
    BY <1>1
  <2> QED
    BY <1>1, <1>3, <2>1 DEF Applies
<1> QED
  BY <1>2, <1>3, <1>4, <1>5 DEF more

-----------------------------------------------------------------------------
(* The stack. *)

TypeOK ==
  /\ given \in Seq(Layer)
  /\ layers \in Seq(Layer)
  /\ latest \in 0..Len(given)

\* The layers of the stack are in the order in which they were listed first.
FirstListedOrder ==
  \A i, j \in 1..Len(layers), n \in 1..Len(given) :
    i < j /\ given[n] = layers[j] =>
      \E m \in 1..Len(given) : m < n /\ given[m] = layers[i]

\* What OverlayShowsImage says, of stacks that are not overlaid too.
StackShowsImage ==
  OnlyEmptyListedAgain /\ NoOpaqueRoot => Overlay(layers) = ImageOf(given)

\* A layer on its own is the image, however often it was listed.
LayerIsImage ==
  Len(layers) = 1 =>
    ImageOf(given) = [p \in Path |-> Shown(layers[1].kind[p], layers[1])]

IInv ==
  TypeOK /\ EachLayerOnce /\ FirstListedOrder /\ StackShowsImage /\ LayerIsImage

\* The layers that are listed are those that are stacked.
LEMMA Listed ==
  ASSUME EachLayerOnce
  PROVE  /\ \A i \in 1..Len(layers) : \E n \in 1..Len(given) : given[n] = layers[i]
         /\ \A n \in 1..Len(given) : \E i \in 1..Len(layers) : layers[i] = given[n]
<1>1. Members(layers) = Members(given)
  BY DEF EachLayerOnce
<1>2. \A s : /\ \A i \in 1..Len(s) : s[i] \in Members(s)
            /\ \A x \in Members(s) : \E i \in 1..Len(s) : s[i] = x
  BY DEF Members
<1> QED
  BY <1>1, <1>2

\* Nothing stacked shows nothing.
LEMMA InitOK == Init => IInv
<1> SUFFICES ASSUME Init PROVE IInv
  OBVIOUS
<1>1. given = << >> /\ layers = << >> /\ latest = 0
  BY DEF Init
<1>2. TypeOK /\ EachLayerOnce /\ FirstListedOrder /\ LayerIsImage
  BY <1>1 DEF TypeOK, EachLayerOnce, Members, FirstListedOrder, LayerIsImage
<1>3. Overlay(<< >>) = Blank
  <2>1. \A p \in Path : Overlay(<< >>)[p] = Nothing
    <3>1. << >> \in Seq(Layer) /\ \A i \in 1..Len(<< >>) : FALSE
      OBVIOUS
    <3> QED
      BY <3>1, OverlayAt
  <2>2. Overlay(<< >>) = [p \in Path |-> Overlay(<< >>)[p]]
    BY Zenon DEF Overlay
  <2> QED
    BY <2>1, <2>2 DEF Blank
<1> QED
  BY <1>1, <1>2, <1>3, ImageEmpty DEF IInv, StackShowsImage

\* Applying an empty layer changes nothing.
LEMMA AppliedNoFiles ==
  ASSUME NEW image, image = [p \in Path |-> image[p]]
  PROVE  Applied(image, NoFiles) = image
<1>1. /\ NoFiles.kind = [p \in Path |-> "none"]
      /\ NoFiles.whiteouts = {} /\ NoFiles.opaques = {}
  BY DEF NoFiles
<1>2. ASSUME NEW p \in Path PROVE NoFiles.kind[p] = "none" /\ ~Hides(NoFiles, p)
  <2>1. Chain[p] \subseteq Path
    BY ChainDef DEF Directory
  <2> QED
    BY <1>1, <2>1 DEF Hides
<1> QED
  BY <1>2 DEF Applied

\* A layer that is new to the stack goes on top.
LEMMA NewLayerKeeps ==
  ASSUME IInv, NEW a \in Layer, StackLayer(a), a \notin Members(layers)
  PROVE  IInv'
<1> DEFINE n == Len(given)
           h == Len(layers)
<1>1. /\ n \in Nat /\ given' \in Seq(Layer) /\ Len(given') = n + 1
      /\ given'[n + 1] = a /\ \A i \in 1..n : given'[i] = given[i]
  BY AppendProperties, LenProperties DEF StackLayer, IInv, TypeOK
<1>2. /\ h \in Nat /\ layers' \in Seq(Layer) /\ Len(layers') = h + 1
      /\ layers'[h + 1] = a /\ \A i \in 1..h : layers'[i] = layers[i]
  BY AppendProperties, LenProperties DEF StackLayer, IInv, TypeOK
<1>3. given' = Append(given, a) /\ layers' = Append(layers, a) /\ latest' = latest
  BY DEF StackLayer
<1> HIDE DEF n, h
<1>4. 1..(n + 1) = (1..n) \cup {n + 1} /\ 1..(h + 1) = (1..h) \cup {h + 1}
  BY <1>1, <1>2
<1>5. \A i \in 1..n : given[i] # a
  BY DEF IInv, EachLayerOnce, Members, n
<1>6. \A i \in 1..h : layers[i] # a
  BY DEF Members, h
<1>7. TypeOK'
  BY <1>1, <1>2, <1>3 DEF IInv, TypeOK, n
<1>8. EachLayerOnce'
  <2>1. Members(given') = Members(given) \cup {a}
    BY <1>1, <1>4 DEF Members, n
  <2>2. Members(layers') = Members(layers) \cup {a}
    BY <1>2, <1>4 DEF Members, h
  <2>3. \A i, j \in 1..Len(layers') : layers'[i] = layers'[j] => i = j
    BY <1>2, <1>4, <1>6 DEF IInv, EachLayerOnce, h
  <2> QED
    BY <2>1, <2>2, <2>3 DEF IInv, EachLayerOnce, Members
<1>9. FirstListedOrder'
  <2> SUFFICES ASSUME NEW i \in 1..(h + 1), NEW j \in 1..(h + 1), NEW k \in 1..(n + 1),
                      i < j, given'[k] = layers'[j]
               PROVE  \E m \in 1..(n + 1) : m < k /\ given'[m] = layers'[i]
    BY <1>1, <1>2 DEF FirstListedOrder
  <2>1. i \in 1..h /\ layers'[i] = layers[i]
    BY <1>2
  <2>2. CASE j = h + 1
    <3>1. k = n + 1
      BY <1>1, <1>2, <1>4, <1>5, <2>2
    <3>2. PICK m \in 1..n : given[m] = layers[i]
      BY <2>1, Listed DEF IInv, n, h
    <3> QED
      BY <1>1, <2>1, <3>1, <3>2
  <2>3. CASE j \in 1..h
    <3>1. k \in 1..n /\ given[k] = layers[j]
      BY <1>1, <1>2, <1>4, <1>6, <2>3
    <3>2. PICK m \in 1..n : m < k /\ given[m] = layers[i]
      BY <2>1, <2>3, <3>1 DEF IInv, FirstListedOrder, n, h
    <3> QED
      BY <1>1, <2>1, <3>2
  <2> QED
    BY <1>4, <2>2, <2>3
<1>10. StackShowsImage'
  <2> SUFFICES ASSUME OnlyEmptyListedAgain', NoOpaqueRoot'
               PROVE  Overlay(layers') = ImageOf(given')
    BY DEF StackShowsImage
  <2>1. OnlyEmptyListedAgain
    BY <1>1, <1>4 DEF OnlyEmptyListedAgain, n
  <2>2. NoOpaqueRoot
    BY <1>1 DEF NoOpaqueRoot, n
  <2>3. Root \notin a.opaques \/ layers = << >>
    <3>1. CASE n = 0
      <4>2. h = 0
        BY <1>2, <3>1, Listed DEF IInv, n, h
      <4> QED
        BY <4>2 DEF IInv, TypeOK, h
    <3>2. CASE n # 0
      BY <1>1, <3>2 DEF NoOpaqueRoot
    <3> QED
      BY <3>1, <3>2
  <2>4. Overlay(layers) = ImageOf(given)
    BY <2>1, <2>2 DEF IInv, StackShowsImage
  <2> QED
    BY <1>3, <2>3, <2>4, OverlayAppend, ImageAppend DEF IInv, TypeOK
<1>11. LayerIsImage'
  <2> SUFFICES ASSUME Len(layers') = 1
               PROVE  ImageOf(given') = [p \in Path |-> Shown(a.kind[p], a)] /\ layers'[1] = a
    BY DEF LayerIsImage
  <2>1. h = 0 /\ layers'[1] = a
    BY <1>2
  <2>2. given = << >>
    <3>2. n = 0
      BY <1>1, <2>1, Listed DEF IInv, n, h
    <3> QED
      BY <3>2 DEF IInv, TypeOK, n
  <2>3. ImageOf(given') = Applied(Blank, a)
    BY <1>3, <2>2, ImageEmpty, ImageAppend, << >> \in Seq(Layer)
  <2>4. Applied(Blank, a) = [p \in Path |-> Shown(a.kind[p], a)]
    BY DEF Applied, Blank, Shown
  <2> QED
    BY <2>1, <2>3, <2>4
<1> QED
  BY <1>7, <1>8, <1>9, <1>10, <1>11 DEF IInv

\* A layer that the stack has stays where it is.
LEMMA KnownLayerKeeps ==
  ASSUME IInv, NEW a \in Layer, StackLayer(a), a \in Members(layers)
  PROVE  IInv'
<1> DEFINE n == Len(given)
<1>1. /\ n \in Nat /\ given' \in Seq(Layer) /\ Len(given') = n + 1
      /\ given'[n + 1] = a /\ \A i \in 1..n : given'[i] = given[i]
  BY AppendProperties, LenProperties DEF StackLayer, IInv, TypeOK
<1>2. given' = Append(given, a) /\ layers' = layers /\ latest' = latest
  BY DEF StackLayer
<1> HIDE DEF n
<1>3. 1..(n + 1) = (1..n) \cup {n + 1}
  BY <1>1
<1>4. PICK e \in 1..n : given[e] = a
  BY Listed DEF IInv, Members, n
<1>5. TypeOK'
  BY <1>1, <1>2 DEF IInv, TypeOK, n
<1>6. EachLayerOnce'
  <2>1. Members(given') = Members(given)
    BY <1>1, <1>3, <1>4 DEF Members, n
  <2>2. Members(layers') = Members(layers)
    BY <1>2
  <2> QED
    BY <1>2, <2>1, <2>2 DEF IInv, EachLayerOnce
<1>7. FirstListedOrder'
  <2> SUFFICES ASSUME NEW i \in 1..Len(layers), NEW j \in 1..Len(layers),
                      NEW k \in 1..(n + 1), i < j, given'[k] = layers[j]
               PROVE  \E m \in 1..(n + 1) : m < k /\ given'[m] = layers[i]
    BY <1>1, <1>2 DEF FirstListedOrder
  <2>1. CASE k \in 1..n
    <3>1. PICK m \in 1..n : m < k /\ given[m] = layers[i]
      BY <1>1, <2>1 DEF IInv, FirstListedOrder, n
    <3> QED
      BY <1>1, <3>1
  <2>2. CASE k = n + 1
    <3>1. PICK m \in 1..n : given[m] = layers[i]
      BY Listed DEF IInv, n
    <3> QED
      BY <1>1, <2>2, <3>1
  <2> QED
    BY <1>3, <2>1, <2>2
<1>8. StackShowsImage'
  <2> SUFFICES ASSUME OnlyEmptyListedAgain', NoOpaqueRoot'
               PROVE  Overlay(layers) = ImageOf(given')
    BY <1>2 DEF StackShowsImage
  <2>1. OnlyEmptyListedAgain
    BY <1>1, <1>3 DEF OnlyEmptyListedAgain, n
  <2>2. NoOpaqueRoot
    BY <1>1 DEF NoOpaqueRoot, n
  <2>3. a = NoFiles
    <3>1. e \in 1..(n + 1) /\ n + 1 \in 1..(n + 1) /\ e # n + 1
      BY <1>1
    <3> QED
      BY <1>1, <1>4, <3>1 DEF OnlyEmptyListedAgain, HoldsNothing
  <2>4. Overlay(layers) = ImageOf(given)
    BY <2>1, <2>2 DEF IInv, StackShowsImage
  <2>5. Overlay(layers) = [p \in Path |-> Overlay(layers)[p]]
    BY Zenon DEF Overlay
  <2>6. Applied(Overlay(layers), NoFiles) = Overlay(layers)
    BY <2>5, AppliedNoFiles
  <2> QED
    BY <1>2, <2>3, <2>4, <2>6, ImageAppend DEF IInv, TypeOK
<1>9. LayerIsImage'
  <2> SUFFICES ASSUME Len(layers) = 1
               PROVE  ImageOf(given') = [p \in Path |-> Shown(layers[1].kind[p], layers[1])]
    BY <1>2 DEF LayerIsImage
  <2>1. layers[1] = a
    BY DEF Members
  <2>2. ImageOf(given) = [p \in Path |-> Shown(a.kind[p], a)]
    BY <2>1 DEF IInv, LayerIsImage
  <2>3. ImageOf(given') = Applied([p \in Path |-> Shown(a.kind[p], a)], a)
    BY <1>2, <2>2, ImageAppend DEF IInv, TypeOK
  <2>4. Applied([p \in Path |-> Shown(a.kind[p], a)], a) = [p \in Path |-> Shown(a.kind[p], a)]
    BY DEF Applied, Shown
  <2> QED
    BY <2>1, <2>3, <2>4
<1> QED
  BY <1>5, <1>6, <1>7, <1>8, <1>9 DEF IInv

\* Every step keeps the invariant.
LEMMA StepKeeps == IInv /\ [Next]_vars => IInv'
<1> SUFFICES ASSUME IInv, [Next]_vars PROVE IInv'
  OBVIOUS
<1>1. ASSUME NEW a \in Layer, StackLayer(a) PROVE IInv'
  BY <1>1, NewLayerKeeps, KnownLayerKeeps
<1>2. CASE NextContainer \/ UNCHANGED vars
  <2>1. given' = given /\ layers' = layers /\ latest' \in 0..Len(given)
    BY <1>2, LenProperties DEF NextContainer, vars, IInv, TypeOK
  <2> QED
    <3>1. TypeOK'
      BY <2>1 DEF IInv, TypeOK
    <3>2. EachLayerOnce' /\ FirstListedOrder' /\ LayerIsImage'
      BY <2>1 DEF IInv, EachLayerOnce, FirstListedOrder, LayerIsImage
    <3>3. StackShowsImage'
      BY <2>1 DEF IInv, StackShowsImage, OnlyEmptyListedAgain, NoOpaqueRoot
    <3> QED
      BY <3>1, <3>2, <3>3 DEF IInv
<1> QED
  BY <1>1, <1>2 DEF Next

\* The invariant holds in every reachable state.
THEOREM Inductive == Spec => []IInv
<1> QED
  BY InitOK, StepKeeps, PTL DEF Spec

\* read_stacked_layers stacks every layer that a manifest lists, and each once,
\* however many containers share it.
THEOREM StackIsExact == Spec => []EachLayerOnce
<1>1. IInv => EachLayerOnce
  BY DEF IInv
<1> QED
  BY <1>1, Inductive, PTL

\* What bwrap overlays is the image by the OCI rules, for layers of any shape: in
\* the order in which read_stacked_layers leaves them, converted as they are.
THEOREM SandboxShowsImage == Spec => []OverlayShowsImage
<1>1. IInv => OverlayShowsImage
  <2> SUFFICES ASSUME IInv, Len(layers) > 1, OnlyEmptyListedAgain, NoOpaqueRoot
               PROVE  SandboxRoot = ImageOf(given)
    BY DEF OverlayShowsImage
  <2>1. Len(layers) # 1
    <3>1. Len(layers) \in Nat
      BY LenProperties DEF IInv, TypeOK
    <3>2. \A n \in Nat : n > 1 => n # 1
      OBVIOUS
    <3> QED
      BY <3>1, <3>2
  <2> QED
    BY <2>1 DEF IInv, StackShowsImage, SandboxRoot
<1> QED
  BY <1>1, Inductive, PTL

\* A single layer that is bound is the image, but for the empty files that its
\* whiteouts are when nobody overlays them.
THEOREM BoundLayerShows == Spec => []BindShowsLayer
<1>1. IInv => BindShowsLayer
  <2> SUFFICES ASSUME IInv, Len(layers) = 1, NEW p \in Path
               PROVE  SandboxRoot[p] =
                        IF p \in Targets(layers[1]) /\ layers[1].kind[p] = "none"
                        THEN EmptyFile ELSE ImageOf(given)[p]
    BY DEF BindShowsLayer
  <2> DEFINE a == layers[1]
  <2>1. a \in Layer
    <3>1. layers \in Seq(Layer) /\ 1 \in 1..Len(layers)
      BY DEF IInv, TypeOK
    <3> QED
      BY <3>1, ElementOfSeq
  <2> HIDE DEF a
  <2>2. SandboxRoot[p] = Shown(OnDisk[a].kind[p], a)
    BY DEF SandboxRoot, Bind, a
  <2>3. ImageOf(given)[p] = Shown(a.kind[p], a)
    BY DEF IInv, LayerIsImage, a
  <2>4. OnDisk[a].kind[p] = IF p \in Targets(a) /\ a.kind[p] = "none"
                           THEN "whiteout" ELSE a.kind[p]
    BY <2>1, DiskShape
  <2>5. Shown("whiteout", a) = EmptyFile
    BY DEF Shown
  <2> QED
    BY <2>2, <2>3, <2>4, <2>5 DEF a
<1> QED
  BY <1>1, Inductive, PTL

\* A file that the last container brings, in a layer that it shares with no
\* earlier one, is what the sandbox shows: later containers come on top.
THEOREM LatterWins == Spec => []LatterOnTop
<1>1. IInv => LatterOnTop
  <2> DEFINE earlier == SubSeq(given, 1, latest)
             last    == SubSeq(given, latest + 1, Len(given))
  <2> SUFFICES ASSUME IInv, \A i, j \in 1..Len(last) : last[i] = last[j] => i = j,
                      NEW p \in Path, NEW a \in Members(last) \ Members(earlier),
                      Overlay(last)[p] = FileOf(a)
               PROVE  SandboxRoot[p] = FileOf(a)
    BY DEF LatterOnTop
  <2>1. /\ given \in Seq(Layer) /\ layers \in Seq(Layer) /\ latest \in 0..Len(given)
        /\ Len(given) \in Nat /\ Len(layers) \in Nat
    BY LenProperties DEF IInv, TypeOK
  <2>2. /\ Len(earlier) = latest
        /\ \A i \in 1..latest : earlier[i] = given[i]
    BY <2>1, SubSeqProperties
  <2>3. /\ last \in Seq(Layer) /\ Len(last) = Len(given) - latest
        /\ \A i \in 1..Len(last) : last[i] = given[latest + i]
    BY <2>1, SubSeqProperties
  <2> HIDE DEF earlier, last
  <2>4. PICK i \in 1..Len(last) : Decides(last, p, i) /\ Look(last[i], p) = FileOf(a)
    <3>1. Nothing # FileOf(a)
      BY DEF Nothing, FileOf
    <3> QED
      BY <2>3, <3>1, OverlayAt
  <2>5. last[i] = a /\ a \in Layer /\ Look(a, p) = FileOf(a)
    <3>1. last[i] \in Layer
      BY <2>3, ElementOfSeq
    <3>2. last[i] = a
      BY <2>4 DEF Look, Shown, Nothing, Dir, EmptyFile, FileOf
    <3> QED
      BY <2>4, <3>1, <3>2
  <2>6. \A n \in 1..Len(given) : given[n] = a => n = latest + i
    <3> SUFFICES ASSUME NEW n \in 1..Len(given), given[n] = a PROVE n = latest + i
      OBVIOUS
    <3>1. ~(n \in 1..latest)
      BY <2>2 DEF Members
    <3>2. n - latest \in 1..Len(last) /\ latest + (n - latest) = n
      BY <2>1, <2>3, <3>1
    <3>3. last[n - latest] = last[i]
      BY <2>3, <2>5, <3>2
    <3> QED
      BY <2>1, <3>2, <3>3
  <2>7. PICK h \in 1..Len(layers) : layers[h] = a
    <3>1. latest + i \in 1..Len(given) /\ given[latest + i] = a
      BY <2>1, <2>3, <2>5
    <3> QED
      BY <3>1, Listed DEF IInv
  <2>8. ASSUME NEW j \in 1..Len(layers), j > h
        PROVE  \E k \in 1..Len(last) : k > i /\ last[k] = layers[j]
    <3>1. PICK n \in 1..Len(given) : given[n] = layers[j]
      BY Listed DEF IInv
    <3>2. PICK m \in 1..Len(given) : m < n /\ given[m] = layers[h]
      BY <2>1, <2>8, <3>1 DEF IInv, FirstListedOrder
    <3>3. n > latest + i
      BY <2>6, <2>7, <3>2
    <3>4. n - latest \in 1..Len(last) /\ n - latest > i /\ latest + (n - latest) = n
      BY <2>1, <2>3, <3>3
    <3> QED
      BY <2>3, <3>1, <3>4
  <2>9. Decides(layers, p, h)
    <3>1. OnDisk[layers[h]].kind[p] # "none"
      BY <2>4, <2>5, <2>7 DEF Decides
    <3>2. ASSUME NEW j \in 1..Len(layers), j > h
          PROVE  OnDisk[layers[j]].kind[p] = "none" /\ ~Covers(layers[j], Parent[p])
      <4>1. PICK k \in 1..Len(last) : k > i /\ last[k] = layers[j]
        BY <2>8, <3>2
      <4>2. OnDisk[last[k]].kind[p] = "none" /\ ~Covers(last[k], Parent[p])
        BY <2>4, <4>1 DEF Decides
      <4> QED
        BY <4>1, <4>2
    <3> QED
      BY <3>1, <3>2 DEF Decides
  <2>10. CASE Len(layers) = 1
    <3>1. SandboxRoot[p] = Shown(OnDisk[a].kind[p], a)
      BY <2>7, <2>10 DEF SandboxRoot, Bind
    <3> QED
      BY <2>5, <3>1 DEF Look, Nothing, FileOf
  <2>11. CASE Len(layers) # 1
    BY <2>1, <2>5, <2>7, <2>9, <2>11, OverlayAt DEF SandboxRoot
  <2> QED
    BY <2>10, <2>11
<1> QED
  BY <1>1, Inductive, PTL
=============================================================================
