------------------------------ MODULE Publishing ------------------------------
(***************************************************************************)
(* The calls of StorageMutable that change containers/ and manifests/, one *)
(* system call at a time: what is new is written under temporary/ and then *)
(* renamed, what goes is renamed to temporary/ and then deleted.  Module   *)
(* Storage has each of them as a single step, and so does the process that *)
(* dies in the middle, with the command that clears up behind it.          *)
(*                                                                         *)
(* temporary/ is flat.  An entry is staged there under its own file name,  *)
(* and the digest of a container under the name manifest_digest, which a   *)
(* container may have, too.                                                *)
(***************************************************************************)
EXTENDS Naturals, Sequences

CONSTANTS
  Container,
  Manifest,
  Value,     \* what a file may hold when it is complete
  Torn,      \* what it holds while it is being written
  None

Part == {"manifest_digest", "reference", "self"}

\* What a name may stand for: a directory or a file, in whatever state.
Entry == UNION {[S -> Value \cup {Torn}] : S \in SUBSET Part}

ASSUME PlaceAssumption ==
  /\ Container \cap Manifest = {}
  /\ "manifest_digest" \notin Manifest
  /\ Torn \notin Value
  /\ None \notin Entry

VARIABLES
  published,   \* container or manifest -> its parts, or None
  temporary,   \* name -> the parts of what is staged, or None
  call,        \* the current call
  todo,        \* the parts that it has still to write
  step         \* "closed", "clear", "ready", "stage", "remove" or "delete"

vars == <<published, temporary, call, todo, step>>

C == INSTANCE Catalog WITH catalog <- published, asked <- call

Place == Container \cup Manifest

Name == Place \cup {"manifest_digest"}

Init ==
  /\ published = [p \in Place |-> None]
  /\ temporary = [n \in Name |-> None]
  /\ call \in C!RemoveCall
  /\ todo = << >>
  /\ step = "closed"

-----------------------------------------------------------------------------
\* temporary_path_for
StagingName(c) ==
  IF c.op = "write_container_manifest_digest" THEN "manifest_digest" ELSE c.place

\* fs::remove_dir_all, one file after the other; fs::remove_file.
DeletePiece(n) ==
  \/ \E part \in DOMAIN temporary[n] \ {"self"} :
       temporary' = [temporary EXCEPT ![n] =
                       [q \in DOMAIN @ \ {part} |-> @[q]]]
  \/ /\ DOMAIN temporary[n] \subseteq {"self"}
     /\ temporary' = [temporary EXCEPT ![n] = None]

\* Mutant: temporary/ is left as it is.
OpenKeepingTemporary ==
  /\ step = "closed"
  /\ step' = "ready"
  /\ UNCHANGED <<published, temporary, call, todo>>

\* StorageMutable::new has the lock.
Open ==
  /\ step = "closed"
  /\ step' = "clear"
  /\ UNCHANGED <<published, temporary, call, todo>>

ClearTemporary ==
  /\ step = "clear"
  /\ \/ /\ \E n \in Name : temporary[n] # None /\ DeletePiece(n)
        /\ UNCHANGED step
     \/ /\ \A n \in Name : temporary[n] = None
        /\ step' = "ready"
        /\ UNCHANGED temporary
  /\ UNCHANGED <<published, call, todo>>

\* is_container_taken, ensure_container_installed
IsPossible(c) ==
  CASE c.op = "write_container" -> published[c.place] = None
    [] c.op = "write_manifest"  -> TRUE
    [] OTHER                    -> published[c.place] # None

Begin(c) ==
  /\ step = "ready"
  /\ IsPossible(c)
  /\ call' = c
  /\ todo' = CASE c \in C!ContainerCall -> <<"manifest_digest", "reference">>
               [] c \in C!FileCall      -> <<"self">>
               [] OTHER                 -> << >>
  /\ step' = IF c \in C!RemoveCall THEN "remove" ELSE "stage"
  /\ UNCHANGED <<published, temporary>>

-----------------------------------------------------------------------------
Staged == temporary[StagingName(call)]

StagedParts == IF Staged = None THEN {} ELSE DOMAIN Staged

\* create_dir_all
MakeDirectory ==
  /\ step = "stage"
  /\ call \in C!ContainerCall
  /\ Staged = None
  /\ temporary' = [temporary EXCEPT ![StagingName(call)] = << >>]
  /\ UNCHANGED <<published, call, todo, step>>

StagedWith(part, v) ==
  [temporary EXCEPT ![StagingName(call)] =
     [q \in StagedParts \cup {part} |-> IF q = part THEN v ELSE Staged[q]]]

IsTorn(part) == part \in StagedParts /\ Staged[part] = Torn

\* fs::write opens the next file, which creates or truncates it, ...
OpenFile ==
  /\ step = "stage"
  /\ todo # << >>
  /\ ~IsTorn(Head(todo))
  /\ call \in C!ContainerCall => Staged # None
  /\ temporary' = StagedWith(Head(todo), Torn)
  /\ UNCHANGED <<published, call, todo, step>>

\* ... and fills it.
FillFile ==
  /\ step = "stage"
  /\ todo # << >>
  /\ IsTorn(Head(todo))
  /\ temporary' = StagedWith(Head(todo), call.contents[Head(todo)])
  /\ todo' = Tail(todo)
  /\ UNCHANGED <<published, call, step>>

\* What is published once the rename is done.
Renamed ==
  IF call.op = "write_container_manifest_digest"
  THEN [published[call.place] EXCEPT !["manifest_digest"] = Staged["self"]]
  ELSE Staged

\* Mutant: the container is published with its first file.
PublishEarly ==
  /\ step = "stage"
  /\ IF call \in C!ContainerCall THEN Len(todo) <= 1 /\ Staged # None
     ELSE todo = << >>
  /\ published' = [published EXCEPT ![call.place] = Renamed]
  /\ temporary' = [temporary EXCEPT ![StagingName(call)] = None]
  /\ step' = "ready"
  /\ UNCHANGED <<call, todo>>

\* publish_directory, or the rename of atomic_write.
Publish ==
  /\ step = "stage"
  /\ todo = << >>
  /\ published' = [published EXCEPT ![call.place] = Renamed]
  /\ temporary' = [temporary EXCEPT ![StagingName(call)] = None]
  /\ step' = "ready"
  /\ UNCHANGED <<call, todo>>

\* remove_directory, remove_file: what has the name in temporary/ goes first.
MoveAway ==
  /\ step = "remove"
  /\ \/ /\ Staged # None
        /\ DeletePiece(call.place)
        /\ UNCHANGED <<published, step>>
     \/ /\ Staged = None
        /\ temporary' = [temporary EXCEPT ![call.place] = published[call.place]]
        /\ published' = [published EXCEPT ![call.place] = None]
        /\ step' = "delete"
  /\ UNCHANGED <<call, todo>>

Delete ==
  /\ step = "delete"
  /\ \/ /\ Staged # None
        /\ DeletePiece(call.place)
        /\ UNCHANGED step
     \/ /\ Staged = None
        /\ step' = "ready"
        /\ UNCHANGED temporary
  /\ UNCHANGED <<published, call, todo>>

\* The command returns, fails, or dies.
Close ==
  /\ step # "closed"
  /\ step' = "closed"
  /\ UNCHANGED <<published, temporary, call, todo>>

Next ==
  \/ Open
  \/ ClearTemporary
  \/ \E c \in C!Call : Begin(c)
  \/ MakeDirectory
  \/ OpenFile
  \/ FillFile
  \/ Publish
  \/ MoveAway
  \/ Delete
  \/ Close

Spec == Init /\ [][Next]_vars

-----------------------------------------------------------------------------
(***************************************************************************)
(* Wherever a process dies, the entries that others find are complete, and *)
(* each call has happened or has not.                                      *)
(***************************************************************************)
ImplementsCatalog == C!Spec

(***************************************************************************)
(* Nothing an earlier command left in temporary/, and no entry of the same *)
(* file name, is in the way of a call when it begins.                      *)
(***************************************************************************)
StagingIsFree ==
  [][step = "ready" /\ step' \in {"stage", "remove"} =>
       temporary[StagingName(call')] = None]_vars
=============================================================================
