------------------------------ MODULE MCRemoval ------------------------------
(***************************************************************************)
(* An instance of Removal for TLC: t is deleted, o is beside it and named  *)
(* by the symbolic links that may be in t.                                 *)
(***************************************************************************)
EXTENDS Removal

MCPath == {"t", "t/x", "t/w", "t/x/y", "o"}
MCRoot == "/"
MCParent ==
  [p \in MCPath |-> CASE p \in {"t", "o"}     -> "/"
                      [] p \in {"t/x", "t/w"} -> "t"
                      [] OTHER                -> "t/x"]
MCLink == [p \in MCPath |-> "o"]
=============================================================================
