------------------------------- MODULE Catalog -------------------------------
(***************************************************************************)
(* What StorageMutable promises of containers/ and manifests/: an entry is *)
(* there as a whole or not at all, and each call changes one entry at once *)
(* to what was asked for.                                                  *)
(*                                                                         *)
(* An entry is what its parts hold: a container has a manifest_digest and  *)
(* a reference; a manifest is a single file, with the one part "self".     *)
(***************************************************************************)
CONSTANTS Container, Manifest, Value, None

VARIABLES
  catalog,   \* container or manifest -> its parts, or None
  asked      \* the current call

vars == <<catalog, asked>>

ContainerCall ==
  [op : {"write_container"}, place : Container,
   contents : [{"manifest_digest", "reference"} -> Value]]

FileCall ==
  [op : {"write_manifest"}, place : Manifest, contents : [{"self"} -> Value]]
    \cup [op : {"write_container_manifest_digest"}, place : Container,
          contents : [{"self"} -> Value]]

RemoveCall ==
  [op : {"remove_container"}, place : Container, contents : {None}]
    \cup [op : {"remove_manifest"}, place : Manifest, contents : {None}]

Call == ContainerCall \cup FileCall \cup RemoveCall

Init ==
  /\ catalog = [p \in Container \cup Manifest |-> None]
  /\ asked \in RemoveCall

Ask == asked' \in Call /\ UNCHANGED catalog

Becomes(entry) ==
  /\ catalog' = [catalog EXCEPT ![asked.place] = entry]
  /\ UNCHANGED asked

Put == asked.op \in {"write_container", "write_manifest"} /\ Becomes(asked.contents)

Amend ==
  /\ asked.op = "write_container_manifest_digest"
  /\ Becomes([catalog[asked.place] EXCEPT !["manifest_digest"] =
                                            asked.contents["self"]])

Drop == asked.op \in {"remove_container", "remove_manifest"} /\ Becomes(None)

Next == Ask \/ Put \/ Amend \/ Drop

Spec == Init /\ [][Next]_vars
=============================================================================
