----------------------------- MODULE MCPublishing -----------------------------
(***************************************************************************)
(* An instance of Publishing for TLC: a container that has the name under  *)
(* which digests are staged, another one, and a manifest.                  *)
(***************************************************************************)
EXTENDS Publishing

MCContainer == {"app", "manifest_digest"}
MCManifest == {"sha256:abc.json"}
=============================================================================
