--------------------------- MODULE WhiteoutsProofs ---------------------------
(***************************************************************************)
(* The conversion of whiteouts is exact for every layer: the inductive     *)
(* invariant says how far the walk has converted the tree, and that it     *)
(* cannot pass over a directory.                                           *)
(***************************************************************************)
EXTENDS Whiteouts, TLAPS

\* The whiteout markers, and the opaque markers, that are dealt with.
Handled ==
  {p \in unpacked.whiteouts : Parent[p] \in walked /\ <<"whiteout", p>> \notin entries}

Opened == {d \in unpacked.opaques \cap walked : <<"opaque", d>> \notin entries}

\* The tree is the unpacked one, converted as far as that.
TreeOK ==
  /\ tree \in Tree
  /\ tree.kind =
       [p \in Path |-> IF p \in Handled \cap Targets(unpacked)
                           /\ unpacked.kind[p] = "none"
                       THEN "whiteout" ELSE unpacked.kind[p]]
  /\ tree.whiteouts = unpacked.whiteouts \ Handled
  /\ tree.opaques = unpacked.opaques \ Opened
  /\ tree.opaque = (unpacked.opaques \cap walked) \cup
                     {p \in Handled \cap Targets(unpacked) : unpacked.kind[p] = "dir"}
  /\ tree.denied = unpacked.denied

\* What is left of the directory at hand.
EntriesOK ==
  /\ entries # {} => directory \in walked
  /\ directory \in walked => isOpaque = (directory \in unpacked.opaques)
  /\ \A e \in entries :
       \/ \E p \in Path : /\ e = <<"path", p>> /\ Parent[p] = directory
                          /\ p \notin walked \cup pending
       \/ \E p \in unpacked.whiteouts : e = <<"whiteout", p>> /\ Parent[p] = directory
       \/ e = <<"opaque", directory>> /\ directory \in unpacked.opaques

\* Every directory is walked once: it waits in pending, or as an entry of the
\* directory at hand, or for its parent's turn.
WalkOK ==
  /\ pending \subseteq Directory
  /\ pending \cap walked = {}
  /\ Root \in pending \cup walked
  /\ \A p \in Path : p \in pending \cup walked => Parent[p] \in walked
  /\ \A p \in Path :
       unpacked.kind[p] = "dir" /\ Parent[p] \in walked =>
         p \in pending \cup walked \/ <<"path", p>> \in entries

IInv ==
  /\ stage \in {"unpack", "walk", "done", "failed", "refused"}
  /\ stage = "unpack" => walked = {} /\ entries = {}
  /\ stage = "walk" => IsArchive(unpacked) /\ TreeOK /\ EntriesOK /\ WalkOK
  /\ ConversionIsExact

-----------------------------------------------------------------------------
\* Below the root every directory of an archive is in a directory.
LEMMA ParentIsDirectory ==
  ASSUME NEW a, IsArchive(a), NEW p \in Path,
         a.kind[p] # "none" \/ p \in a.whiteouts
  PROVE  IsDirectory(a, Parent[p]) /\ Parent[p] \in Directory
BY PathAssumption DEF IsArchive, IsRooted

\* When nothing is pending, no directory was left out.
LEMMA AllWalked ==
  ASSUME IsArchive(unpacked), WalkOK, entries = {}, pending = {},
         NEW d \in Directory, IsDirectory(unpacked, d)
  PROVE  d \in walked
<1> DEFINE S == {p \in Path : unpacked.kind[p] = "dir" /\ p \notin walked}
<1>1. S = {}
  <2> SUFFICES ASSUME S # {} PROVE FALSE
    OBVIOUS
  <2>1. PICK p \in S : Parent[p] \notin S
    BY PathAssumption
  <2>2. IsDirectory(unpacked, Parent[p])
    BY ParentIsDirectory
  <2>3. Parent[p] \in walked
    BY <2>1, <2>2 DEF IsDirectory, WalkOK
  <2> QED
    BY <2>3 DEF WalkOK
<1> QED
  BY <1>1 DEF IsDirectory, WalkOK

\* A tree whose markers are all dealt with is the converted one.
LEMMA Complete ==
  ASSUME IsArchive(unpacked), TreeOK, WalkOK, entries = {}, pending = {}
  PROVE  tree = Converted(unpacked)
<1>1. Handled = unpacked.whiteouts
  <2>1. \A p \in unpacked.whiteouts : p \in Path /\ Parent[p] \in walked
    BY ParentIsDirectory, AllWalked DEF IsArchive, Tree
  <2> QED
    BY <2>1 DEF Handled
<1>2. \A d \in unpacked.opaques : d \in Directory /\ d \in walked
  BY AllWalked DEF IsArchive, IsRooted, Tree
<1>3. Opened = unpacked.opaques
  BY <1>2 DEF Opened
<1>4. Targets(unpacked) \subseteq Handled
  BY <1>1 DEF Targets
<1>5. unpacked \in Tree /\ tree \in Tree
  BY DEF IsArchive, TreeOK
<1> DEFINE c == Converted(unpacked)
<1>6. c \in Tree /\ tree.kind = c.kind
  BY <1>4, <1>5 DEF TreeOK, Converted, Tree, Directory, Targets
<1>7. tree.whiteouts = c.whiteouts /\ tree.opaques = c.opaques
  BY <1>1, <1>3, <1>5 DEF TreeOK, Converted, Tree
<1>8. tree.opaque = c.opaque /\ tree.denied = c.denied
  BY <1>2, <1>4, <1>5 DEF TreeOK, Converted, Tree
<1> QED
  BY <1>5, <1>6, <1>7, <1>8 DEF Tree

-----------------------------------------------------------------------------
WalkInv == IsArchive(unpacked) /\ TreeOK /\ EntriesOK /\ WalkOK

\* The walk starts with the tree as it was unpacked.
LEMMA UnpackStarts ==
  ASSUME IInv, Unpack
  PROVE  WalkInv'
<1>1. IsArchive(unpacked')
  BY ArchiveAssumption DEF Unpack
<1>2. /\ walked' = {} /\ entries' = {} /\ pending' = {Root}
      /\ tree' = unpacked'
  BY DEF IInv, Unpack
<1>3. Handled' = {} /\ Opened' = {}
  BY <1>2 DEF Handled, Opened
<1>4. TreeOK'
  <2>1. unpacked' \in Tree /\ unpacked'.opaque = {}
    BY <1>1 DEF IsArchive
  <2>2. unpacked'.kind = [p \in Path |-> unpacked'.kind[p]]
    BY <2>1 DEF Tree
  <2> QED
    BY <1>2, <1>3, <2>1, <2>2 DEF TreeOK
<1>5. EntriesOK' /\ WalkOK'
  BY <1>2, PathAssumption DEF EntriesOK, WalkOK, Directory
<1> QED
  BY <1>1, <1>4, <1>5 DEF WalkInv

\* Reading a directory deals with no marker yet, but makes it opaque.
LEMMA ReadDirectoryKeeps ==
  ASSUME WalkInv, NEW dir \in Directory, ReadDirectory(dir), stage' = "walk"
  PROVE  WalkInv'
<1> USE DEF WalkInv
<1>1. /\ entries = {} /\ dir \in pending /\ dir \notin walked
      /\ pending' = pending \ {dir} /\ walked' = walked \cup {dir}
      /\ directory' = dir /\ entries' = EntriesOf(dir)
      /\ isOpaque' = (dir \in tree.opaques)
      /\ tree' = [tree EXCEPT !.opaque = @ \cup ({dir} \cap tree.opaques)]
      /\ unpacked' = unpacked
  BY DEF ReadDirectory, Fail, WalkOK
<1>2. \A p \in Path : Parent[p] = dir =>
        (<<"whiteout", p>> \in EntriesOf(dir) <=> p \in unpacked.whiteouts)
  <2>1. \A p \in Path : Parent[p] = dir => p \notin Handled
    BY <1>1 DEF Handled
  <2> QED
    BY <2>1 DEF EntriesOf, Children, TreeOK
<1>3. \A p \in Path : Parent[p] # dir => <<"whiteout", p>> \notin EntriesOf(dir)
  BY DEF EntriesOf, Children
<1>4. unpacked.whiteouts \subseteq Path
  BY DEF IsArchive, Tree
<1>5. Handled' = Handled
  BY <1>1, <1>2, <1>3, <1>4 DEF Handled
<1>6. dir \in tree.opaques <=> dir \in unpacked.opaques
  BY <1>1 DEF TreeOK, Opened
<1>7. \A d : <<"opaque", d>> \in EntriesOf(dir) <=> d = dir /\ d \in tree.opaques
  BY DEF EntriesOf
<1>8. Opened' = Opened
  BY <1>1, <1>6, <1>7 DEF Opened
<1>9. TreeOK'
  <2>1. tree \in Tree /\ dir \in Directory
    BY DEF TreeOK
  <2>2. tree' \in Tree
    BY <1>1, <2>1 DEF Tree
  <2>3. /\ tree'.kind = tree.kind /\ tree'.whiteouts = tree.whiteouts
        /\ tree'.opaques = tree.opaques /\ tree'.denied = tree.denied
        /\ tree'.opaque = tree.opaque \cup ({dir} \cap tree.opaques)
    BY <1>1, <2>1 DEF Tree
  <2> QED
    BY <1>1, <1>5, <1>6, <1>8, <2>2, <2>3 DEF TreeOK
<1>10. \A e \in EntriesOf(dir) :
         \/ \E p \in Path : e = <<"path", p>> /\ Parent[p] = dir
         \/ \E p \in unpacked.whiteouts : e = <<"whiteout", p>> /\ Parent[p] = dir
         \/ e = <<"opaque", dir>> /\ dir \in unpacked.opaques
  BY <1>6 DEF EntriesOf, Children, TreeOK
<1>11. \A p \in Path : Parent[p] = dir => p # dir /\ p \notin walked \cup pending
  BY <1>1, PathAssumption DEF WalkOK
<1>12. \A p \in Path : <<"path", p>> \in EntriesOf(dir) <=>
                         Parent[p] = dir /\ tree.kind[p] # "none"
  BY DEF EntriesOf, Children
<1>13. EntriesOK'
  BY <1>1, <1>6, <1>10, <1>11, <1>12 DEF EntriesOK
<1>14. \A p \in Path : unpacked.kind[p] = "dir" => tree.kind[p] = "dir"
  BY DEF TreeOK
<1>15. WalkOK'
  BY <1>1, <1>11, <1>12, <1>14, PathAssumption DEF WalkOK, Directory
<1> QED
  BY <1>1, <1>9, <1>13, <1>15

\* A whiteout marker that is removed is dealt with, and nothing else is.
LEMMA WhiteoutRemoved ==
  ASSUME WalkInv, NEW p \in Path, NEW new,
         RemoveMarker(<<"whiteout", p>>, new), stage' = "walk"
  PROVE  /\ p \in unpacked.whiteouts \ Handled
         /\ isOpaque = (Parent[p] \in unpacked.opaques)
         /\ tree' = new /\ unpacked' = unpacked /\ walked' = walked
         /\ Handled' = Handled \cup {p} /\ Opened' = Opened
         /\ EntriesOK' /\ WalkOK'
<1> USE DEF WalkInv
<1>1. /\ <<"whiteout", p>> \in entries
      /\ tree' = new /\ entries' = entries \ {<<"whiteout", p>>}
      /\ unpacked' = unpacked /\ pending' = pending /\ walked' = walked
      /\ directory' = directory /\ isOpaque' = isOpaque
  BY DEF RemoveMarker, Fail, walk
<1>2. p \in unpacked.whiteouts /\ Parent[p] = directory /\ directory \in walked
  BY <1>1 DEF EntriesOK
<1>3. p \notin Handled
  BY <1>1 DEF Handled
<1>4. Handled' = Handled \cup {p}
  BY <1>1, <1>2 DEF Handled
<1>5. Opened' = Opened
  BY <1>1 DEF Opened
<1>6. EntriesOK'
  BY <1>1 DEF EntriesOK
<1>7. WalkOK'
  BY <1>1 DEF WalkOK
<1> QED
  BY <1>1, <1>2, <1>3, <1>4, <1>5, <1>6, <1>7 DEF EntriesOK

LEMMA OpaqueMarkerKeeps ==
  ASSUME WalkInv, OpaqueMarker, stage' = "walk"
  PROVE  WalkInv'
<1> USE DEF WalkInv
<1>1. /\ <<"opaque", directory>> \in entries
      /\ tree' = [tree EXCEPT !.opaques = @ \ {directory}]
      /\ entries' = entries \ {<<"opaque", directory>>}
      /\ unpacked' = unpacked /\ pending' = pending /\ walked' = walked
      /\ directory' = directory /\ isOpaque' = isOpaque
  BY DEF OpaqueMarker, RemoveMarker, Fail, walk
<1>2. directory \in unpacked.opaques /\ directory \in walked
  BY <1>1 DEF EntriesOK
<1>3. Handled' = Handled
  BY <1>1 DEF Handled
<1>4. Opened' = Opened \cup {directory}
  BY <1>1, <1>2 DEF Opened
<1>5. tree \in Tree
  BY DEF TreeOK
<1>6. /\ tree' \in Tree /\ tree'.kind = tree.kind
      /\ tree'.whiteouts = tree.whiteouts /\ tree'.opaque = tree.opaque
      /\ tree'.denied = tree.denied
      /\ tree'.opaques = tree.opaques \ {directory}
  BY <1>1, <1>5 DEF Tree
<1>7. TreeOK'
  BY <1>1, <1>3, <1>4, <1>6 DEF TreeOK
<1>8. EntriesOK' /\ WalkOK'
  BY <1>1 DEF EntriesOK, WalkOK
<1> QED
  BY <1>1, <1>7, <1>8

\* In an opaque directory a whiteout marker has no target.
LEMMA RedundantWhiteoutKeeps ==
  ASSUME WalkInv, NEW p \in Path, RedundantWhiteout(p), stage' = "walk"
  PROVE  WalkInv'
<1> DEFINE new == [tree EXCEPT !.whiteouts = @ \ {p}]
<1>1. isOpaque /\ RemoveMarker(<<"whiteout", p>>, new)
  BY DEF RedundantWhiteout
<1>2. tree \in Tree
  BY DEF WalkInv, TreeOK
<1> HIDE DEF new
<1>3. /\ p \in unpacked.whiteouts \ Handled
      /\ isOpaque = (Parent[p] \in unpacked.opaques)
      /\ tree' = new /\ unpacked' = unpacked /\ walked' = walked
      /\ Handled' = Handled \cup {p} /\ Opened' = Opened
      /\ EntriesOK' /\ WalkOK'
  BY <1>1, WhiteoutRemoved
<1>4. p \notin Targets(unpacked)
  BY <1>1, <1>3 DEF Targets
<1>5. /\ tree' \in Tree /\ tree'.kind = tree.kind
      /\ tree'.whiteouts = tree.whiteouts \ {p}
      /\ tree'.opaques = tree.opaques /\ tree'.opaque = tree.opaque
      /\ tree'.denied = tree.denied
  BY <1>2, <1>3 DEF Tree, new
<1>6. TreeOK'
  BY <1>3, <1>4, <1>5 DEF TreeOK, WalkInv
<1> QED
  BY <1>3, <1>6 DEF WalkInv

\* Elsewhere it has one, which becomes what the conversion wants it to be.
LEMMA WhiteoutKeeps ==
  ASSUME WalkInv, NEW p \in Path, stage' = "walk",
         WhiteoutOfDirectory(p) \/ WhiteoutOfFile(p) \/ WhiteoutOfNothing(p)
  PROVE  WalkInv'
<1>1. PICK new :
        /\ RemoveMarker(<<"whiteout", p>>, new) /\ ~isOpaque
        /\ \/ /\ tree.kind[p] = "dir"
              /\ new = [tree EXCEPT !.whiteouts = @ \ {p}, !.opaque = @ \cup {p}]
           \/ /\ tree.kind[p] \in {"file", "whiteout"}
              /\ new = [tree EXCEPT !.whiteouts = @ \ {p}]
           \/ /\ tree.kind[p] = "none"
              /\ new = [tree EXCEPT !.whiteouts = @ \ {p}, !.kind[p] = "whiteout"]
  BY DEF WhiteoutOfDirectory, WhiteoutOfFile, WhiteoutOfNothing
<1>2. /\ p \in unpacked.whiteouts \ Handled
      /\ isOpaque = (Parent[p] \in unpacked.opaques)
      /\ tree' = new /\ unpacked' = unpacked /\ walked' = walked
      /\ Handled' = Handled \cup {p} /\ Opened' = Opened
      /\ EntriesOK' /\ WalkOK'
  BY <1>1, WhiteoutRemoved
<1>3. p \in Targets(unpacked)
  BY <1>1, <1>2 DEF Targets
<1>4. tree \in Tree /\ tree.kind[p] = unpacked.kind[p] /\ TreeOK
  BY <1>2 DEF WalkInv, TreeOK
<1>5. CASE tree.kind[p] = "dir"
  <2>1. tree' = [tree EXCEPT !.whiteouts = @ \ {p}, !.opaque = @ \cup {p}]
    BY <1>1, <1>2, <1>5
  <2>2. /\ tree' \in Tree /\ tree'.kind = tree.kind
        /\ tree'.whiteouts = tree.whiteouts \ {p}
        /\ tree'.opaques = tree.opaques /\ tree'.opaque = tree.opaque \cup {p}
        /\ tree'.denied = tree.denied
    BY <1>4, <2>1 DEF Tree, Directory
  <2> QED
    BY <1>2, <1>3, <1>4, <1>5, <2>2 DEF TreeOK, WalkInv
<1>6. CASE tree.kind[p] \in {"file", "whiteout"}
  <2>1. /\ tree' \in Tree /\ tree'.kind = tree.kind
        /\ tree'.whiteouts = tree.whiteouts \ {p}
        /\ tree'.opaques = tree.opaques /\ tree'.opaque = tree.opaque
        /\ tree'.denied = tree.denied
    BY <1>1, <1>2, <1>4, <1>6 DEF Tree
  <2> QED
    BY <1>2, <1>3, <1>4, <1>6, <2>1 DEF TreeOK, WalkInv
<1>7. CASE tree.kind[p] = "none"
  <2>1. tree' = [tree EXCEPT !.whiteouts = @ \ {p}, !.kind[p] = "whiteout"]
    BY <1>1, <1>2, <1>7
  <2>2. /\ tree' \in Tree
        /\ tree'.kind = [tree.kind EXCEPT ![p] = "whiteout"]
        /\ tree'.whiteouts = tree.whiteouts \ {p}
        /\ tree'.opaques = tree.opaques /\ tree'.opaque = tree.opaque
        /\ tree'.denied = tree.denied
    BY <1>4, <2>1 DEF Tree
  <2> QED
    BY <1>2, <1>3, <1>4, <1>7, <2>2 DEF TreeOK, WalkInv
<1> QED
  BY <1>1, <1>5, <1>6, <1>7

\* A directory among the entries waits for its turn from now on.
LEMMA DescendKeeps ==
  ASSUME WalkInv, NEW p \in Path, Descend(p), stage' = "walk"
  PROVE  WalkInv'
<1> USE DEF WalkInv
<1>1. /\ <<"path", p>> \in entries /\ entries' = entries \ {<<"path", p>>}
      /\ pending' = IF tree.kind[p] = "dir" THEN pending \cup {p} ELSE pending
      /\ tree' = tree /\ unpacked' = unpacked /\ walked' = walked
      /\ directory' = directory /\ isOpaque' = isOpaque
  BY DEF Descend, Fail
<1>2. Parent[p] = directory /\ directory \in walked /\ p \notin walked \cup pending
  BY <1>1 DEF EntriesOK
<1>3. Handled' = Handled /\ Opened' = Opened
  BY <1>1 DEF Handled, Opened
<1>4. TreeOK'
  BY <1>1, <1>3 DEF TreeOK
<1>5. EntriesOK'
  BY <1>1 DEF EntriesOK
<1>6. unpacked.kind[p] = "dir" => tree.kind[p] = "dir"
  BY DEF TreeOK
<1>7. WalkOK'
  BY <1>1, <1>2, <1>6 DEF WalkOK, Directory
<1> QED
  BY <1>1, <1>4, <1>5, <1>7

-----------------------------------------------------------------------------
\* The three parts of the induction.
LEMMA InitOK == Init => IInv
BY DEF Init, IInv, ConversionIsExact

LEMMA StepKeeps == IInv /\ [Next]_vars => IInv'
<1> SUFFICES ASSUME IInv, [Next]_vars PROVE IInv'
  OBVIOUS
<1>1. CASE stage' \notin {"unpack", "walk", "done"}
  <2>1. stage' \in {"failed", "refused"}
    BY <1>1 DEF IInv, Next, vars, Unpack, UnpackError, Fail, ReadDirectory,
         OpaqueMarker, RemoveMarker, RedundantWhiteout, WhiteoutOfDirectory,
         WhiteoutOfReadonly, WhiteoutOfFile, WhiteoutOfNothing, Descend, Verify
  <2> QED
    BY <2>1 DEF IInv, ConversionIsExact
<1>2. CASE stage' = "unpack"
  <2>1. UNCHANGED vars
    BY <1>2 DEF IInv, Next, Unpack, UnpackError, Fail, ReadDirectory,
         OpaqueMarker, RemoveMarker, RedundantWhiteout, WhiteoutOfDirectory,
         WhiteoutOfReadonly, WhiteoutOfFile, WhiteoutOfNothing, Descend, Verify
  <2> QED
    BY <1>2, <2>1 DEF IInv, ConversionIsExact, vars, walk
<1>3. CASE stage' = "done"
  <2>1. Verify \/ UNCHANGED vars
    BY <1>3 DEF Next, Unpack, UnpackError, Fail, ReadDirectory,
         OpaqueMarker, RemoveMarker, RedundantWhiteout, WhiteoutOfDirectory,
         WhiteoutOfReadonly, WhiteoutOfFile, WhiteoutOfNothing, Descend
  <2>2. CASE Verify
    BY <1>3, <2>2, Complete DEF IInv, ConversionIsExact, Verify
  <2>3. CASE UNCHANGED vars
    BY <1>3, <2>3 DEF IInv, ConversionIsExact, vars
  <2> QED
    BY <2>1, <2>2, <2>3
<1>4. CASE stage' = "walk"
  <2> SUFFICES WalkInv'
    BY <1>4 DEF WalkInv, IInv, ConversionIsExact
  <2>1. CASE Unpack
    BY <2>1, UnpackStarts
  <2>2. CASE stage = "walk"
    <3> USE <1>4
    <3>1. WalkInv
      BY <2>2 DEF IInv, WalkInv
    <3>2. CASE \E dir \in Directory : ReadDirectory(dir)
      BY <3>1, <3>2, ReadDirectoryKeeps
    <3>3. CASE OpaqueMarker
      BY <3>1, <3>3, OpaqueMarkerKeeps
    <3>4. ASSUME NEW p \in Path,
                 \/ RedundantWhiteout(p) \/ WhiteoutOfDirectory(p)
                 \/ WhiteoutOfFile(p) \/ WhiteoutOfNothing(p) \/ Descend(p)
          PROVE  WalkInv'
      BY <3>1, <3>4, RedundantWhiteoutKeeps, WhiteoutKeeps, DescendKeeps
    <3>5. CASE UNCHANGED vars
      BY <3>1, <3>5 DEF WalkInv, vars, walk, TreeOK, EntriesOK, WalkOK,
                        Handled, Opened
    <3>6. ~UnpackError /\ ~Verify /\ ~Unpack /\ \A p \in Path : ~WhiteoutOfReadonly(p)
      BY <2>2 DEF UnpackError, Verify, Unpack, WhiteoutOfReadonly, Fail
    <3> QED
      BY <3>2, <3>3, <3>4, <3>5, <3>6 DEF Next
  <2>3. Unpack \/ stage = "walk"
    BY <1>4 DEF Next, vars, UnpackError, ReadDirectory, OpaqueMarker, RemoveMarker,
         RedundantWhiteout, WhiteoutOfDirectory, WhiteoutOfReadonly,
         WhiteoutOfFile, WhiteoutOfNothing, Descend, Verify
  <2> QED
    BY <2>1, <2>2, <2>3
<1> QED
  BY <1>1, <1>2, <1>3, <1>4

\* Every extraction that succeeds has converted its layer exactly, for any
\* paths, any layers, and any order of directories and entries.
THEOREM ConversionExact == Spec => []ConversionIsExact
<1>1. Init => IInv
  BY InitOK
<1>2. IInv /\ [Next]_vars => IInv'
  BY StepKeeps
<1>3. IInv => ConversionIsExact
  BY DEF IInv
<1> QED
  BY <1>1, <1>2, <1>3, PTL DEF Spec
=============================================================================
