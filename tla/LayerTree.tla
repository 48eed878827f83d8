------------------------------ MODULE LayerTree ------------------------------
(***************************************************************************)
(* The files of one layer: as the archive of an OCI layer unpacks, with    *)
(* whiteout markers, and as overlayfs wants them, with extended attributes.*)
(*                                                                         *)
(* A "file" is anything that is no directory, symbolic links included.  A  *)
(* marker <dir>/.wh.<name> is represented by the path <dir>/<name> it      *)
(* speaks of, and a marker <dir>/.wh..wh..opq by the directory it is in.   *)
(***************************************************************************)
CONSTANTS
  Path,     \* the paths below the root that a layer may hold
  Root,     \* the root of a layer
  Parent    \* Parent[p] is the directory p is in

Directory == Path \cup {Root}

\* Every path leads up to the root: no set of paths is closed under Parent.
ASSUME PathAssumption ==
  /\ Root \notin Path
  /\ Parent \in [Path -> Directory]
  /\ \A S \in SUBSET Path : S # {} => \E p \in S : Parent[p] \notin S

Children(dir) == {p \in Path : Parent[p] = dir}

(***************************************************************************)
(* What is on disk.  opaque and the kind "whiteout" are the attributes     *)
(* user.overlay.opaque and user.overlay.whiteout; denied are the           *)
(* directories whose mode keeps their owner from reading, writing or       *)
(* searching them; the root itself is made by the program, with all rights *)
(* for its owner.                                                          *)
(***************************************************************************)
Denied == [read : SUBSET Path, write : SUBSET Path, search : SUBSET Path]

Tree ==
  [kind      : [Path -> {"none", "file", "dir", "whiteout"}],
   whiteouts : SUBSET Path,
   opaques   : SUBSET Directory,
   opaque    : SUBSET Directory,
   denied    : Denied]

NoFiles ==
  [kind |-> [p \in Path |-> "none"], whiteouts |-> {}, opaques |-> {},
   opaque |-> {}, denied |-> [read |-> {}, write |-> {}, search |-> {}]]

IsDirectory(tree, dir) == dir = Root \/ (dir \in Path /\ tree.kind[dir] = "dir")

\* Whatever is in the tree is in a directory of the tree.
IsRooted(tree) ==
  /\ \A p \in Path : tree.kind[p] # "none" \/ p \in tree.whiteouts =>
                       IsDirectory(tree, Parent[p])
  /\ \A dir \in tree.opaques \cup tree.denied.read \cup tree.denied.write
                  \cup tree.denied.search : IsDirectory(tree, dir)

\* What unpacking a layer may leave: no attributes yet.
IsArchive(tree) ==
  /\ tree \in Tree
  /\ \A p \in Path : tree.kind[p] # "whiteout"
  /\ tree.opaque = {}
  /\ IsRooted(tree)

-----------------------------------------------------------------------------
(***************************************************************************)
(* What convert_oci_whiteouts_to_overlayfs makes of an archive, said at    *)
(* once.  Module Whiteouts walks the directories as the code does.         *)
(***************************************************************************)
Targets(tree) == {p \in tree.whiteouts : Parent[p] \notin tree.opaques}

\* Mutant: a directory that is made anew does not become opaque.
ConvertedMerging(tree) ==
  [tree EXCEPT
     !.kind = [p \in Path |-> IF p \in Targets(tree) /\ tree.kind[p] = "none"
                              THEN "whiteout" ELSE tree.kind[p]],
     !.whiteouts = {},
     !.opaques = {},
     !.opaque = tree.opaques]

\* Mutant: a whiteout takes the place of the file that is made anew.
ConvertedOverFiles(tree) ==
  [tree EXCEPT
     !.kind = [p \in Path |-> IF p \in Targets(tree) /\ tree.kind[p] # "dir"
                              THEN "whiteout" ELSE tree.kind[p]],
     !.whiteouts = {},
     !.opaques = {},
     !.opaque = tree.opaques \cup {p \in Targets(tree) : tree.kind[p] = "dir"}]

Converted(tree) ==
  [tree EXCEPT
     !.kind = [p \in Path |-> IF p \in Targets(tree) /\ tree.kind[p] = "none"
                              THEN "whiteout" ELSE tree.kind[p]],
     !.whiteouts = {},
     !.opaques = {},
     !.opaque = tree.opaques \cup {p \in Targets(tree) : tree.kind[p] = "dir"}]
=============================================================================
