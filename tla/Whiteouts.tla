------------------------------ MODULE Whiteouts ------------------------------
(***************************************************************************)
(* extract_layer: the stream of a layer is unpacked into the staging       *)
(* directory, its whiteout markers are converted for overlayfs, and the    *)
(* rest of the stream is read for the digest.                              *)
(*                                                                         *)
(* The conversion keeps the directories it has still to walk; it reads the *)
(* names in a directory once, handles them in whatever order the file      *)
(* system yields them, and looks at a path again when it comes to it.  An  *)
(* error ends extract_layer, and write_layer gives up the directory.       *)
(***************************************************************************)
EXTENDS LayerTree

\* What the layers a registry sends may decode to, whatever their format.
CONSTANT Archive

ASSUME ArchiveAssumption == \A a \in Archive : IsArchive(a)

VARIABLES
  stage,       \* "unpack", "walk", "done"; "failed" or "refused"
  unpacked,    \* history: what the layer was unpacked to
  tree,        \* the staging directory
  pending,     \* the directories still to walk
  walked,      \* history: the directories walked so far
  directory,   \* the last of them
  entries,     \* its entries that are still to handle
  isOpaque     \* it had an opaque marker

walk  == <<pending, walked, directory, isOpaque>>
vars  == <<stage, unpacked, tree, walk, entries>>

Init ==
  /\ stage = "unpack"
  /\ unpacked = NoFiles
  /\ tree = NoFiles
  /\ pending = {}
  /\ walked = {}
  /\ directory = Root
  /\ entries = {}
  /\ isOpaque = FALSE

-----------------------------------------------------------------------------
\* Archive::unpack, into an empty directory.
Unpack ==
  /\ stage = "unpack"
  /\ unpacked' \in Archive
  /\ tree' = unpacked'
  /\ pending' = {Root}
  /\ stage' = "walk"
  /\ UNCHANGED <<walked, directory, isOpaque, entries>>

\* The stream does not unpack.
UnpackError ==
  /\ stage = "unpack"
  /\ stage' = "refused"
  /\ UNCHANGED <<unpacked, tree, walk, entries>>

\* The file system does not let the conversion read or write: it ends here.
Fail ==
  /\ stage' = "failed"
  /\ UNCHANGED <<unpacked, tree, walk, entries>>

EntriesOf(dir) ==
  {<<"path", p>> : p \in {q \in Children(dir) : tree.kind[q] # "none"}}
    \cup {<<"whiteout", p>> : p \in Children(dir) \cap tree.whiteouts}
    \cup {<<"opaque", d>> : d \in {dir} \cap tree.opaques}

\* Mutant: an opaque marker is remembered for the directories that follow.
ReadDirectoryKeepingOpaque(dir) ==
  /\ stage = "walk"
  /\ entries = {}
  /\ dir \in pending
  /\ pending' = pending \ {dir}
  /\ walked' = walked \cup {dir}
  /\ directory' = dir
  /\ entries' = EntriesOf(dir)
  /\ isOpaque' = (isOpaque \/ dir \in tree.opaques)
  /\ tree' = [tree EXCEPT !.opaque = @ \cup ({dir} \cap tree.opaques)]
  /\ UNCHANGED <<stage, unpacked>>

\* The next directory: its names are read, if they may be, and an opaque
\* marker among them makes it opaque.
ReadDirectory(dir) ==
  /\ stage = "walk"
  /\ entries = {}
  /\ dir \in pending
  /\ IF \/ dir \in tree.denied.read
        \/ dir \in tree.opaques /\ dir \in tree.denied.write
     THEN Fail
     ELSE /\ pending' = pending \ {dir}
          /\ walked' = walked \cup {dir}
          /\ directory' = dir
          /\ entries' = EntriesOf(dir)
          /\ isOpaque' = (dir \in tree.opaques)
          /\ tree' = [tree EXCEPT !.opaque = @ \cup ({dir} \cap tree.opaques)]
          /\ UNCHANGED <<stage, unpacked>>

-----------------------------------------------------------------------------
\* remove_oci_whiteout_marker, after which the tree is newTree.  It makes the
\* marker writable, not the directory that the marker is in; in one that may
\* not be searched already symlink_metadata fails.
RemoveMarker(entry, newTree) ==
  /\ stage = "walk"
  /\ entry \in entries
  /\ IF directory \in tree.denied.write \cup tree.denied.search
     THEN Fail
     ELSE /\ tree' = newTree
          /\ entries' = entries \ {entry}
          /\ UNCHANGED <<stage, unpacked, walk>>

OpaqueMarker ==
  RemoveMarker(<<"opaque", directory>>,
               [tree EXCEPT !.opaques = @ \ {directory}])

\* "Per-file whiteouts are redundant inside an opaque directory."
RedundantWhiteout(p) ==
  /\ isOpaque
  /\ RemoveMarker(<<"whiteout", p>>, [tree EXCEPT !.whiteouts = @ \ {p}])

\* "Recreated directories must be opaque"
WhiteoutOfDirectory(p) ==
  /\ ~isOpaque
  /\ tree.kind[p] = "dir"
  /\ p \notin tree.denied.write
  /\ RemoveMarker(<<"whiteout", p>>, [tree EXCEPT !.whiteouts = @ \ {p},
                                                  !.opaque = @ \cup {p}])

\* The attribute cannot be set on a directory that is read-only.
WhiteoutOfReadonly(p) ==
  /\ stage = "walk"
  /\ <<"whiteout", p>> \in entries
  /\ ~isOpaque
  /\ tree.kind[p] = "dir"
  /\ p \in tree.denied.write
  /\ Fail

\* "Recreated files/symlinks already hide the lower target"
WhiteoutOfFile(p) ==
  /\ ~isOpaque
  /\ tree.kind[p] \in {"file", "whiteout"}
  /\ RemoveMarker(<<"whiteout", p>>, [tree EXCEPT !.whiteouts = @ \ {p}])

\* "Missing targets need an explicit overlayfs whiteout"
WhiteoutOfNothing(p) ==
  /\ ~isOpaque
  /\ tree.kind[p] = "none"
  /\ RemoveMarker(<<"whiteout", p>>, [tree EXCEPT !.whiteouts = @ \ {p},
                                                  !.kind[p] = "whiteout"])

\* Mutant: symbolic links are followed, here to the directory they are in.
DescendFollowingLinks(p) ==
  /\ stage = "walk"
  /\ <<"path", p>> \in entries
  /\ entries' = entries \ {<<"path", p>>}
  /\ pending' = CASE tree.kind[p] = "dir"  -> pending \cup {p}
                  [] tree.kind[p] = "file" -> pending \cup {Parent[p]}
                  [] OTHER                 -> pending
  /\ UNCHANGED <<stage, unpacked, tree, walked, directory, isOpaque>>

\* Any other entry: a directory is walked later.
Descend(p) ==
  /\ stage = "walk"
  /\ <<"path", p>> \in entries
  /\ IF directory \in tree.denied.search
     THEN Fail
     ELSE /\ entries' = entries \ {<<"path", p>>}
          /\ pending' = IF tree.kind[p] = "dir" THEN pending \cup {p} ELSE pending
          /\ UNCHANGED <<stage, unpacked, tree, walked, directory, isOpaque>>

-----------------------------------------------------------------------------
\* The rest of the stream is read; the digest verifies, or it does not.
Verify ==
  /\ stage = "walk"
  /\ entries = {}
  /\ pending = {}
  /\ stage' \in {"done", "refused"}
  /\ UNCHANGED <<unpacked, tree, walk, entries>>

Next ==
  \/ Unpack
  \/ UnpackError
  \/ \E dir \in Directory : ReadDirectory(dir)
  \/ OpaqueMarker
  \/ \E p \in Path :
       \/ RedundantWhiteout(p)
       \/ WhiteoutOfDirectory(p)
       \/ WhiteoutOfReadonly(p)
       \/ WhiteoutOfFile(p)
       \/ WhiteoutOfNothing(p)
       \/ Descend(p)
  \/ Verify

Spec == Init /\ [][Next]_vars

\* What is left is local work on a finite directory.
FairSpec == Spec /\ WF_vars(Next)

-----------------------------------------------------------------------------
(***************************************************************************)
(* An extraction that succeeds has converted every marker, in whatever     *)
(* order the directories and their entries came: the same tree each time,  *)
(* with no marker left, none misread, and no file of the layer touched.    *)
(***************************************************************************)
ConversionIsExact == stage = "done" => tree = Converted(unpacked)

\* The walk comes to an end, whatever it finds.
ExtractionEnds == <>(stage \in {"done", "failed", "refused"})

\* "Require no special privileges (be rootless)" (README.md): no layer needs
\* more than its owner's rights for its markers to be converted.
MarkersNeedNoPrivileges == stage # "failed"
=============================================================================
