-------------------------------- MODULE Images --------------------------------
(***************************************************************************)
(* Pakstak as an ImageStore.  The images are the canonical digests: a      *)
(* container that records an alias or the digest of an index stands for no *)
(* image, because nothing may be saved under that name.                    *)
(***************************************************************************)
EXTENDS Pakstak

CanonicalDigest == {d \in Digest : Canonical(d)}

StoredImages == {d \in CanonicalDigest : ManifestIsSound(d)}

ImageOf(c) ==
  IF c \in Installed /\ containers[c].manifest_digest \in CanonicalDigest
  THEN containers[c].manifest_digest
  ELSE None

Abstract == INSTANCE ImageStore
              WITH Image   <- CanonicalDigest,
                   stored  <- StoredImages,
                   current <- [c \in Container |-> ImageOf(c)]

(***************************************************************************)
(* Every step of every process is a step of the image store or invisible   *)
(* to it: layers come before the manifest that completes them, the         *)
(* manifest before the container, and a prune takes them away in the       *)
(* opposite order.                                                         *)
(***************************************************************************)
ImplementsImageStore == Abstract!Spec
=============================================================================
