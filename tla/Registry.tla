------------------------------- MODULE Registry -------------------------------
(***************************************************************************)
(* What pakstak knows of an OCI registry: image references, digests, and   *)
(* the manifest that fetch_image_manifest obtains for a reference.         *)
(*                                                                         *)
(* Bytes are members of Blob.  A digest string names exactly one blob, but *)
(* a blob may have several digest strings (sha256 and sha512, or the same  *)
(* hex digits in another case), so Denotes need not be injective.  Blobs   *)
(* that are neither an image manifest nor an image index do not parse;     *)
(* bytes that parse as both are not excluded.                              *)
(***************************************************************************)
EXTENDS Naturals, Sequences

CONSTANTS
  Tag,        \* tags; the registry may answer a tag with anything
  Digest,     \* digest strings of manifest-level blobs
  Blob,       \* manifest-level byte strings
  Layer,      \* digest strings of layer blobs
  Denotes,    \* Denotes[d] is the blob that hashes to digest d
  LayersOf,   \* image manifest -> the layers it lists, lowest first
  EntriesOf,  \* image index -> the manifests it lists
  None        \* "no such file", "not set"

ImageManifest == DOMAIN LayersOf

ImageIndex == DOMAIN EntriesOf

\* An entry of an image index; native says that its platform is the current one.
Descriptor == [digest : Digest, native : BOOLEAN]

ASSUME RegistryAssumption ==
  /\ Tag \cap Digest = {}
  /\ Denotes \in [Digest -> Blob]
  /\ ImageManifest \subseteq Blob
  /\ \A m \in ImageManifest : LayersOf[m] \in Seq(Layer)
  /\ ImageIndex \subseteq Blob
  /\ \A x \in ImageIndex : EntriesOf[x] \in Seq(Descriptor)
  /\ None \notin Blob \cup Layer \cup Digest

-----------------------------------------------------------------------------
Specifier == Tag \cup Digest

FetchedManifest == [bytes : ImageManifest, digest : Digest]

\* The layers of an image manifest, without their order.
LayerSet(m) == {LayersOf[m][i] : i \in 1..Len(LayersOf[m])}

\* digest::verify_bytes: the bytes hash to the digest.
Verifies(bytes, digest) == Denotes[digest] = bytes

(***************************************************************************)
(* The answers fetch_manifest_bytes accepts: the body hashes to the        *)
(* Docker-Content-Digest header and, when the reference is pinned, also to *)
(* the requested digest.  The digest handed on is the HEADER's.            *)
(***************************************************************************)
FetchManifestBytes(specifier) ==
  {r \in [bytes : Blob, digest : Digest] :
     /\ Verifies(r.bytes, r.digest)
     /\ specifier \in Digest => Verifies(r.bytes, specifier)}

\* The first entry for this platform, else the first entry.
SelectedDigest(index) ==
  LET entries == EntriesOf[index]
      native  == {i \in 1..Len(entries) : entries[i].native}
  IN  IF native = {}
      THEN entries[1].digest
      ELSE entries[CHOOSE i \in native : \A j \in native : i <= j].digest

(***************************************************************************)
(* fetch_image_manifest: a manifest is taken as it is; an index sends a    *)
(* second request, pinned to the selected entry, whose answer has to be a  *)
(* manifest.  An answer whose Content-Type contradicts its bytes only      *)
(* makes the parse fail, which any step of the client may do anyway.       *)
(***************************************************************************)
FetchImageManifest(specifier) ==
  LET answers == FetchManifestBytes(specifier)
      indexes == {a.bytes : a \in answers} \cap
                 {x \in ImageIndex : EntriesOf[x] # << >>}
      Manifests(rs) == {r \in rs : r.bytes \in ImageManifest}
  IN  Manifests(answers) \cup
      UNION {Manifests(FetchManifestBytes(SelectedDigest(x))) : x \in indexes}
=============================================================================
