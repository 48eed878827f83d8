-------------------------------- MODULE Fetch --------------------------------
(***************************************************************************)
(* RegistryClient::fetch_image, the routine by which install, update,      *)
(* switch and repair bring an image into the storage: the manifest first,  *)
(* then its layers one by one, and the manifest file last, so that a saved *)
(* manifest stands for a complete image.                                   *)
(*                                                                         *)
(* A caller enters with pc = "fetch_manifest" and goes on at "fetched", or *)
(* at "failed" when fetch_image returned an error.  Errors that leave      *)
(* nothing behind are the caller's Leave (module Commands).                *)
(***************************************************************************)
EXTENDS Storage

VARIABLE fetch   \* mutator -> arguments and locals of fetch_image

FetchRecord ==
  [reference : Specifier \cup {None},
   repair    : BOOLEAN,
   fetched   : FetchedManifest \cup {None},
   saved     : BOOLEAN,    \* is_manifest_saved
   next      : Nat,        \* the layer of the manifest fetch_layers is at
   fresh     : BOOLEAN]    \* the staging directory was created empty

NoFetch ==
  [reference |-> None, repair |-> FALSE, fetched |-> None, saved |-> FALSE,
   next |-> 0, fresh |-> FALSE]

FetchInit == fetch = [p \in Mutator |-> NoFetch]

FetchTypeOK == fetch \in [Mutator -> FetchRecord]

LayerList(p) == LayersOf[fetch[p].fetched.bytes]

CurrentLayer(p) == LayerList(p)[fetch[p].next]

BeginFetch(p, specifier, repair) ==
  /\ fetch' = [fetch EXCEPT ![p] =
                 [NoFetch EXCEPT !.reference = specifier, !.repair = repair]]
  /\ pc' = [pc EXCEPT ![p] = "fetch_manifest"]

-----------------------------------------------------------------------------
\* fetch_image_manifest and is_manifest_saved.  A manifest that is already
\* saved ends fetch_image here, without a look at the layers, unless repairing.
FetchManifest(p) ==
  /\ pc[p] = "fetch_manifest"
  /\ \E m \in FetchImageManifest(fetch[p].reference) :
       LET saved == IsManifestSaved(m.digest, fetch[p].repair)
       IN  /\ fetch' = [fetch EXCEPT ![p] = [@ EXCEPT !.fetched = m,
                                                      !.saved = saved,
                                                      !.next = 1]]
           /\ pc' = [pc EXCEPT ![p] = IF saved /\ ~fetch[p].repair
                                      THEN "fetched" ELSE "fetch_layers"]
  /\ UNCHANGED <<disk, locks, mounts>>

\* Mutant: a layer that is there is looked at again.
SkipLayerAgain(p) ==
  /\ pc[p] = "fetch_layers"
  /\ fetch[p].next <= Len(LayerList(p))
  /\ layers[CurrentLayer(p)] # "absent"
  /\ UNCHANGED <<disk, locks, mounts, pc, fetch>>

\* "layer already extracted"
SkipLayer(p) ==
  /\ pc[p] = "fetch_layers"
  /\ fetch[p].next <= Len(LayerList(p))
  /\ layers[CurrentLayer(p)] # "absent"
  /\ fetch' = [fetch EXCEPT ![p].next = @ + 1]
  /\ UNCHANGED <<disk, locks, mounts, pc>>

\* write_layer: create_dir_all leaves what a staging directory already holds.
StageLayer(p) ==
  /\ pc[p] = "fetch_layers"
  /\ fetch[p].next <= Len(LayerList(p))
  /\ layers[CurrentLayer(p)] = "absent"
  /\ fetch' = [fetch EXCEPT ![p].fresh = CurrentLayer(p) \notin temporary]
  /\ temporary' = temporary \cup {CurrentLayer(p)}
  /\ pc' = [pc EXCEPT ![p] = "extract_layer"]
  /\ UNCHANGED <<published, lockFiles, locks, mounts>>

\* What the registry may send for a layer: tampered bytes still unpack.
Stream == {"genuine", "tampered", "unreadable"}

\* extract_layer succeeds: the stream unpacks and its digest is the expected one.
ExtractLayer(stream) == stream = "genuine"

\* write_layer: extracted and verified, the staging directory is renamed.
FinishLayer(p) ==
  /\ pc[p] = "extract_layer"
  /\ \E stream \in Stream :
       /\ ExtractLayer(stream)
       /\ PublishLayer(CurrentLayer(p),
            IF stream = "genuine" /\ fetch[p].fresh THEN "whole" ELSE "damaged")
  /\ fetch' = [fetch EXCEPT ![p].next = @ + 1]
  /\ pc' = [pc EXCEPT ![p] = "fetch_layers"]
  /\ UNCHANGED <<containers, manifests, lockFiles, locks, mounts>>

\* write_layer: extraction failed; the staging directory is removed if it can be.
DiscardLayer(p) ==
  /\ pc[p] = "extract_layer"
  /\ \E stream \in Stream : ~ExtractLayer(stream)
  /\ temporary' \in {temporary, temporary \ {CurrentLayer(p)}}
  /\ pc' = [pc EXCEPT ![p] = "failed"]
  /\ UNCHANGED <<published, lockFiles, locks, mounts, fetch>>

\* All layers are there: atomic_write of the manifest, unless a sound one is saved.
WriteManifest(p) ==
  /\ pc[p] = "fetch_layers"
  /\ fetch[p].next > Len(LayerList(p))
  /\ manifests' = IF fetch[p].saved
                  THEN manifests
                  ELSE [manifests EXCEPT ![fetch[p].fetched.digest] =
                                            fetch[p].fetched.bytes]
  /\ pc' = [pc EXCEPT ![p] = "fetched"]
  /\ UNCHANGED <<containers, layers, temporary, lockFiles, locks, mounts, fetch>>

FetchStep(p) ==
  \/ FetchManifest(p)
  \/ SkipLayer(p)
  \/ StageLayer(p)
  \/ FinishLayer(p)
  \/ DiscardLayer(p)
  \/ WriteManifest(p)
=============================================================================
