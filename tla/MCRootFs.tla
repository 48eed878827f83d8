------------------------------ MODULE MCRootFs ------------------------------
(***************************************************************************)
(* Instances of RootFs for TLC.                                            *)
(***************************************************************************)
EXTENDS RootFs

MCPath == {"x", "x/y", "x/y/z"}
MCRoot == "/"
MCParent ==
  [p \in MCPath |-> CASE p = "x" -> "/" [] p = "x/y" -> "x" [] OTHER -> "x/y"]

\* All layers on these paths, x/y/z being a file at most.  x stands in for the
\* root: it has no markers, and what is in it has all of them.  The root itself
\* may be opaque instead.
MCLayer ==
  {a \in [kind      : {k \in [Path -> {"none", "file", "dir"}] :
                         k["x/y/z"] # "dir"},
          whiteouts : SUBSET {"x/y", "x/y/z"},
          opaques   : {{}, {"x/y"}, {Root}},
          opaque    : {{}},
          denied    : {NoFiles.denied}] : IsRooted(a)}
=============================================================================
