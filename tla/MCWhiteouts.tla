----------------------------- MODULE MCWhiteouts -----------------------------
(***************************************************************************)
(* Instances of Whiteouts for TLC: a directory with a file and a directory *)
(* in it, and in that one a path that is a file at most.                   *)
(***************************************************************************)
EXTENDS Whiteouts

MCPath == {"x", "x/w", "x/y", "x/y/z"}
MCRoot == "/"
MCParent ==
  [p \in MCPath |->
     CASE p = "x" -> "/" [] p \in {"x/w", "x/y"} -> "x" [] OTHER -> "x/y"]

\* All layers on these paths in which the leaves are files at most.
MCArchive ==
  {a \in [kind      : {k \in [Path -> {"none", "file", "dir"}] :
                         "dir" \notin {k["x/w"], k["x/y/z"]}},
          whiteouts : SUBSET Path,
          opaques   : SUBSET {"/", "x", "x/y"},
          opaque    : {{}},
          denied    : [read   : SUBSET {"x/y"},
                       write  : SUBSET {"x", "x/y"},
                       search : SUBSET {"x"}]] : IsRooted(a)}

\* Those that delete files and recreate nothing, with no other trouble than
\* directories their owner may not write.
DeletingArchive ==
  {a \in MCArchive : /\ \A p \in a.whiteouts : a.kind[p] = "none"
                     /\ a.opaques = {}
                     /\ a.denied.read = {} /\ a.denied.search = {}}
=============================================================================
