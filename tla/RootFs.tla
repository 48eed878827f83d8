-------------------------------- MODULE RootFs --------------------------------
(***************************************************************************)
(* The root that run gives a sandbox: read_stacked_layers stacks the       *)
(* layers of the manifests of the named containers, one container after    *)
(* the other, and bwrap is told to bind a single layer or to overlay       *)
(* several.  The layers on disk are what module Whiteouts leaves there.    *)
(*                                                                         *)
(* A digest determines its layer, so a layer is named by its archive.      *)
(***************************************************************************)
EXTENDS LayerTree, Naturals, SequencesExt

CONSTANTS
  Layer,        \* the archives from which layers are made
  MaxLayers     \* the manifests of one run list at most so many layers

ASSUME LayerAssumption ==
  /\ \A a \in Layer : IsArchive(a)
  /\ MaxLayers \in Nat

VARIABLES
  given,    \* the layers of the manifests read so far, lowest first
  latest,   \* how many of them belong to earlier containers than the last
  layers    \* the stack, lowest first

vars == <<given, latest, layers>>

Init == given = << >> /\ latest = 0 /\ layers = << >>

Members(s) == {s[i] : i \in 1..Len(s)}

\* The next container on the command line; the last one had some layer.
NextContainer ==
  /\ latest < Len(given)
  /\ Len(given) < MaxLayers
  /\ latest' = Len(given)
  /\ UNCHANGED <<given, layers>>

\* Mutant: a layer is only compared with the last one of the stack.
StackLayerAgain(a) ==
  /\ Len(given) < MaxLayers
  /\ given' = Append(given, a)
  /\ layers' = IF layers # << >> /\ layers[Len(layers)] = a
               THEN layers ELSE Append(layers, a)
  /\ UNCHANGED latest

\* "We cannot stack same layer twice": it stays where it came first.
StackLayer(a) ==
  /\ Len(given) < MaxLayers
  /\ given' = Append(given, a)
  /\ layers' = IF a \in Members(layers) THEN layers ELSE Append(layers, a)
  /\ UNCHANGED latest

Next == NextContainer \/ \E a \in Layer : StackLayer(a)

Spec == Init /\ [][Next]_vars

-----------------------------------------------------------------------------
(* Roots.  A root shows at each path nothing, a directory, or the file of  *)
(* some layer; an attribute that nobody interprets is an empty file.       *)

Nothing   == [kind |-> "none"]
Dir       == [kind |-> "dir"]
EmptyFile == [kind |-> "empty"]
FileOf(a) == [kind |-> "file", layer |-> a]

Shown(kind, a) ==
  CASE kind = "file"     -> FileOf(a)
    [] kind = "dir"      -> Dir
    [] kind = "whiteout" -> EmptyFile
    [] OTHER             -> Nothing

\* The directory that get_layer_path names, as extraction left it.
OnDisk == [a \in Layer |-> Converted(a)]

\* bwrap --ro-bind <layer> /: the layer as it is on disk.
Bind(a) == [p \in Path |-> Shown(OnDisk[a].kind[p], a)]

(***************************************************************************)
(* bwrap --overlay-src ... --ro-overlay /: the last source is on top.  A   *)
(* lookup goes through the layers that make up the directory, from the top *)
(* down; a file or a whiteout ends it, and so does an opaque directory.    *)
(***************************************************************************)
Merged(stack) ==
  LET M[dir \in Directory] ==
        IF dir = Root
        THEN 1..Len(stack)
        ELSE {i \in M[Parent[dir]] :
                /\ OnDisk[stack[i]].kind[dir] = "dir"
                /\ \A j \in M[Parent[dir]] :
                     j > i => /\ OnDisk[stack[j]].kind[dir] \in {"none", "dir"}
                              /\ dir \notin OnDisk[stack[j]].opaque}
  IN  M

Overlay(stack) ==
  LET merged == Merged(stack)
      Holders(p) == {i \in merged[Parent[p]] : OnDisk[stack[i]].kind[p] # "none"}
      Look(p, i) == IF OnDisk[stack[i]].kind[p] = "whiteout"
                    THEN Nothing
                    ELSE Shown(OnDisk[stack[i]].kind[p], stack[i])
  IN  [p \in Path |->
         IF Holders(p) = {} THEN Nothing ELSE Look(p, Max(Holders(p)))]

\* Mutant: the sources are listed from the top down.
SandboxRootUpsideDown ==
  IF Len(layers) = 1 THEN Bind(layers[1]) ELSE Overlay(Reverse(layers))

\* build_bwrap_command
SandboxRoot == IF Len(layers) = 1 THEN Bind(layers[1]) ELSE Overlay(layers)

-----------------------------------------------------------------------------
(* The image: what its layers mean by the OCI rules, applied one after the *)
(* other to a single tree.                                                 *)

\* A path and the directories above it, without the root.
Chain[dir \in Directory] ==
  IF dir = Root THEN {} ELSE {dir} \cup Chain[Parent[dir]]

\* What was at p before the layer a is gone: deleted, or below a directory that
\* hides what it had or is now a file.
Hides(a, p) ==
  \/ \E q \in Chain[p] : q \in a.whiteouts \/ Parent[q] \in a.opaques
  \/ \E q \in Chain[p] \ {p} : a.kind[q] = "file"

Applied(image, a) ==
  [p \in Path |-> IF a.kind[p] = "none"
                  THEN IF Hides(a, p) THEN Nothing ELSE image[p]
                  ELSE Shown(a.kind[p], a)]

ImageOf(list) ==
  LET I[n \in 0..Len(list)] ==
        IF n = 0 THEN [p \in Path |-> Nothing] ELSE Applied(I[n - 1], list[n])
  IN  I[Len(list)]

-----------------------------------------------------------------------------
\* "overlayfs layers must not overlap" (run.rs:103): the stack has every layer
\* that was listed, and each only once.
EachLayerOnce ==
  /\ Members(layers) = Members(given)
  /\ \A i, j \in 1..Len(layers) : layers[i] = layers[j] => i = j

HoldsNothing(a) == a = NoFiles

OnlyEmptyListedAgain ==
  \A i, j \in 1..Len(given) :
    given[i] = given[j] /\ i # j => HoldsNothing(given[i])

\* overlayfs does not look for the opaque attribute on the root of a layer.
NoOpaqueRoot == \A i \in 2..Len(given) : Root \notin given[i].opaques

(***************************************************************************)
(* An overlay of converted layers shows the image: applying the layers one *)
(* after the other, with their deletions, gives the same tree, unless one  *)
(* of them deletes everything at once.  A layer that is listed again is    *)
(* passed over, which must not matter; it is known not to when the layer   *)
(* is empty, the common case.                                              *)
(***************************************************************************)
OverlayShowsImage ==
  Len(layers) > 1 /\ OnlyEmptyListedAgain /\ NoOpaqueRoot =>
    SandboxRoot = ImageOf(given)

(***************************************************************************)
(* A single layer is bound, not overlaid: the sandbox sees the image, with *)
(* an empty file in place of each deletion of something the layer does not *)
(* make anew, and nowhere else.                                            *)
(***************************************************************************)
BindShowsLayer ==
  Len(layers) = 1 =>
    \A p \in Path :
      SandboxRoot[p] =
        IF p \in Targets(layers[1]) /\ layers[1].kind[p] = "none"
        THEN EmptyFile
        ELSE ImageOf(given)[p]

(***************************************************************************)
(* "Containers are stacked in the order provided, the latter on top of the *)
(* former" (main.rs:65), whatever layers they share: a file that the last  *)
(* container has from a layer of its own is the one the sandbox sees.      *)
(***************************************************************************)
LatterOnTop ==
  LET earlier == SubSeq(given, 1, latest)
      last    == SubSeq(given, latest + 1, Len(given))
  IN  (\A i, j \in 1..Len(last) : last[i] = last[j] => i = j) =>
        \A p \in Path, a \in Members(last) \ Members(earlier) :
          Overlay(last)[p] = FileOf(a) => SandboxRoot[p] = FileOf(a)
=============================================================================
