------------------------------- MODULE Removal -------------------------------
(***************************************************************************)
(* remove_dir_all_writable: a directory tree with whatever modes a layer   *)
(* or an interrupted extraction left in it is made writable from the top   *)
(* down and then deleted.  Every command that writes begins with it, on    *)
(* temporary/: a tree that it could not delete would be the end of them    *)
(* all.                                                                    *)
(***************************************************************************)
EXTENDS LayerTree, Naturals

CONSTANTS
  Top,       \* the directory to delete
  Link,      \* Link[p] is what p names if it is a symbolic link
  MaxKills   \* the process is killed at most so often

ASSUME RemovalAssumption ==
  /\ Top \in Path
  /\ Link \in [Path -> Directory]
  /\ MaxKills \in Nat

\* p is the directory top or below it.
IsWithin[p \in Directory] == p = Top \/ (p # Root /\ IsWithin[Parent[p]])

VARIABLES
  kind,      \* path -> "none", "file", "dir" or "link"
  locked,    \* the directories whose mode keeps their owner out
  pending,   \* make_tree_writable: the paths still to visit
  stage,     \* "start", "visit", "delete"; "done" or "failed"
  kills

vars == <<kind, locked, pending, stage, kills>>

IsDir(p) == p \in {Root} \cup {q \in Path : kind[q] = "dir"}

Init ==
  /\ kind \in [Path -> {"none", "file", "dir", "link"}]
  /\ kind[Top] = "dir"
  /\ \A p \in Path : kind[p] # "none" => IsDir(Parent[p])
  /\ \A p \in Path : kind[p] = "link" => IsWithin[p] /\ IsDir(Link[p])
  /\ locked \in SUBSET {p \in Path : kind[p] = "dir"}
  /\ Parent[Top] \notin locked
  /\ pending = {}
  /\ stage = "start"
  /\ kills = 0

-----------------------------------------------------------------------------
Start ==
  /\ stage = "start"
  /\ stage' = "visit"
  /\ pending' = {Top}
  /\ UNCHANGED <<kind, locked, kills>>

\* symlink_metadata has to search the directory that p is in.
Fail(p) ==
  /\ Parent[p] \in locked
  /\ stage' = "failed"
  /\ UNCHANGED <<kind, locked, pending, kills>>

Entries(dir) == {p \in Children(dir) : kind[p] # "none"}

\* Mutant: set_permissions follows symbolic links.
MadeWritableThroughLinks(p) ==
  locked \ {IF kind[p] = "link" THEN Link[p] ELSE p}

\* make_path_writable passes over symbolic links.
MadeWritable(p) == IF kind[p] = "link" THEN locked ELSE locked \ {p}

\* Mutant: a directory becomes writable when all below it is.
VisitBottomUp(p) ==
  /\ stage = "visit"
  /\ p \in pending
  /\ IF Parent[p] \in locked
     THEN Fail(p)
     ELSE /\ locked' = IF Entries(p) = {} THEN MadeWritable(p) ELSE locked
          /\ pending' = (pending \ {p}) \cup
                          (IF kind[p] = "dir" THEN Entries(p) ELSE {})
          /\ UNCHANGED <<kind, stage, kills>>

\* The next path: it is made writable before it is read.
Visit(p) ==
  /\ stage = "visit"
  /\ p \in pending
  /\ IF Parent[p] \in locked
     THEN Fail(p)
     ELSE /\ locked' = MadeWritable(p)
          /\ pending' = (pending \ {p}) \cup
                          (IF kind[p] = "dir" THEN Entries(p) ELSE {})
          /\ UNCHANGED <<kind, stage, kills>>

AllVisited ==
  /\ stage = "visit"
  /\ pending = {}
  /\ stage' = "delete"
  /\ UNCHANGED <<kind, locked, pending, kills>>

\* fs::remove_dir_all, one entry after the other.
Delete(p) ==
  /\ stage = "delete"
  /\ IsWithin[p]
  /\ kind[p] # "none"
  /\ Entries(p) = {}
  /\ IF Parent[p] \in locked
     THEN Fail(p)
     ELSE /\ kind' = [kind EXCEPT ![p] = "none"]
          /\ stage' = IF p = Top THEN "done" ELSE "delete"
          /\ UNCHANGED <<locked, pending, kills>>

\* The process dies; the next command begins again with what is left.
Kill ==
  /\ stage \in {"visit", "delete"}
  /\ kills < MaxKills
  /\ kills' = kills + 1
  /\ stage' = "start"
  /\ pending' = {}
  /\ UNCHANGED <<kind, locked>>

Work == Start \/ AllVisited \/ \E p \in Path : Visit(p) \/ Delete(p)

Next == Work \/ Kill

Spec == Init /\ [][Next]_vars

\* Local work, and nobody kills a command again and again for ever.
FairSpec == Spec /\ WF_vars(Work)

-----------------------------------------------------------------------------
\* Whatever its modes, and wherever it was interrupted before, the tree goes.
TreeIsRemoved == <>(stage = "done" /\ \A p \in Path : IsWithin[p] => kind[p] = "none")

\* There is no tree of which only a part can be deleted: no directory is in the
\* way of those below it when its turn comes.
RemovalSucceeds ==
  /\ stage # "failed"
  /\ stage = "done" => \A p \in Path : IsWithin[p] => kind[p] = "none"

\* Nothing outside of the tree is changed, not even the modes of what symbolic
\* links in the tree name.
OutsideIsUntouched ==
  [][\A p \in Path : ~IsWithin[p] =>
       kind'[p] = kind[p] /\ (p \in locked' <=> p \in locked)]_vars
=============================================================================
