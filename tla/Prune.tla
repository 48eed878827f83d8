-------------------------------- MODULE Prune --------------------------------
(***************************************************************************)
(* prune: drop every saved manifest that no installed container uses, then *)
(* every layer that none of the remaining manifests lists, then the lock   *)
(* files of layers that are gone.  Manifests go first, so that a prune     *)
(* that dies half way leaves unused layers and never an incomplete image.  *)
(*                                                                         *)
(* A layer may be in use by a sandbox that runs without the storage lock.  *)
(* Prune looks for it with a write lock on the layer's lock file.          *)
(*                                                                         *)
(* The caller enters with pc = "prune" and goes on at "done".              *)
(***************************************************************************)
EXTENDS Storage

VARIABLE scan   \* mutator -> locals of prune

ScanRecord ==
  [manifests : SUBSET Digest,        \* used_manifests
   layers    : SUBSET Layer,         \* used_layers
   todo      : SUBSET Layer,         \* what the directory listing still holds
   layer     : Layer \cup {None},    \* the layer whose LayerLock is held
   kept      : SUBSET Layer]         \* unused layers it said it could not prune

NoScan ==
  [manifests |-> {}, layers |-> {}, todo |-> {}, layer |-> None, kept |-> {}]

PruneInit == scan = [p \in Mutator |-> NoScan]

PruneTypeOK == scan \in [Mutator -> ScanRecord]

-----------------------------------------------------------------------------
\* Mutant: the layers of every saved manifest count as used.
ReadSaved(p) ==
  /\ pc[p] = "prune"
  /\ scan' = [scan EXCEPT
       ![p].manifests = {containers[c].manifest_digest : c \in Installed},
       ![p].layers = UNION {LayerSet(m) :
                              m \in {manifests[d] : d \in Digest} \ {None}}]
  /\ pc' = [pc EXCEPT ![p] = "prune_manifests"]
  /\ UNCHANGED <<disk, locks, mounts>>

\* read_used_manifests and read_used_layers: one unreadable manifest ends prune.
ReadUsed(p) ==
  /\ pc[p] = "prune"
  /\ LET used == {containers[c].manifest_digest : c \in Installed}
     IN  IF \A d \in used : IsManifestReadable(d)
         THEN /\ scan' = [scan EXCEPT ![p].manifests = used,
                    ![p].layers = UNION {LayerSet(manifests[d]) : d \in used}]
              /\ pc' = [pc EXCEPT ![p] = "prune_manifests"]
         ELSE /\ scan' = scan
              /\ pc' = [pc EXCEPT ![p] = "failed"]
  /\ UNCHANGED <<disk, locks, mounts>>

\* Mutant: the manifests in use are not spared.
SavedManifests(p) == {d \in Digest : manifests[d] # None}

\* Mutant: manifests that do not parse are passed over.
UnusedReadableManifests(p) ==
  {d \in Digest : IsManifestReadable(d) /\ d \notin scan[p].manifests}

UnusedManifests(p) ==
  {d \in Digest : manifests[d] # None /\ d \notin scan[p].manifests}

PruneManifest(p) ==
  /\ pc[p] = "prune_manifests"
  /\ \E d \in UnusedManifests(p) : manifests' = [manifests EXCEPT ![d] = None]
  /\ UNCHANGED <<containers, layers, temporary, lockFiles, locks, mounts,
                 pc, scan>>

\* Mutant: layers are pruned although unused manifests are still there.
ListLayersEarly(p) ==
  /\ pc[p] = "prune_manifests"
  /\ scan' = [scan EXCEPT ![p].todo = PresentLayers]
  /\ pc' = [pc EXCEPT ![p] = "prune_layers"]
  /\ UNCHANGED <<disk, locks, mounts>>

ListLayers(p) ==
  /\ pc[p] = "prune_manifests"
  /\ UnusedManifests(p) = {}
  /\ scan' = [scan EXCEPT ![p].todo = PresentLayers]
  /\ pc' = [pc EXCEPT ![p] = "prune_layers"]
  /\ UNCHANGED <<disk, locks, mounts>>

-----------------------------------------------------------------------------
\* The listing yields l, a layer that no used manifest lists.
NextUnused(p, l) ==
  /\ pc[p] = "prune_layers"
  /\ l \in scan[p].todo \ scan[p].layers

KeepLayer(p) ==
  /\ pc[p] = "prune_layers"
  /\ \E l \in scan[p].todo \cap scan[p].layers :
       scan' = [scan EXCEPT ![p].todo = @ \ {l}]
  /\ UNCHANGED <<disk, locks, mounts, pc>>

LockLayer(p) ==
  /\ \E l \in Layer :
       /\ NextUnused(p, l)
       /\ LockLayerForPrune(p, l)
       /\ scan' = [scan EXCEPT ![p].todo = @ \ {l}, ![p].layer = l]
  /\ pc' = [pc EXCEPT ![p] = "remove_layer"]
  /\ UNCHANGED <<published, temporary, flock, readLock, mounts>>

\* Mutant: prune waits for the sandboxes that hold the layer.
WaitForLockedLayer(p) == FALSE

\* "layer is locked"; opening the lock file may have created it.
SkipLockedLayer(p) ==
  /\ \E l \in Layer :
       /\ NextUnused(p, l)
       /\ readLock[l] # {}
       /\ lockFiles' = lockFiles \cup {l}
       /\ scan' = [scan EXCEPT ![p].todo = @ \ {l}, ![p].kept = @ \cup {l}]
  /\ UNCHANGED <<published, temporary, locks, mounts, pc>>

\* An I/O error of lock_layer_for_prune is reported and passed over.
LockLayerError(p) ==
  /\ \E l \in Layer :
       /\ NextUnused(p, l)
       /\ lockFiles' \in {lockFiles, lockFiles \cup {l}}
       /\ scan' = [scan EXCEPT ![p].todo = @ \ {l}, ![p].kept = @ \cup {l}]
  /\ UNCHANGED <<published, temporary, locks, mounts, pc>>

\* remove_layer, up to the rename into temporary/.
RemoveLayer(p) ==
  /\ pc[p] = "remove_layer"
  /\ MoveLayerAway(scan[p].layer)
  /\ pc' = [pc EXCEPT ![p] = "remove_lock"]
  /\ UNCHANGED <<containers, manifests, lockFiles, locks, bound, scan>>

\* The rest of remove_layer, and LayerLock::remove_file.
RemoveLock(p) ==
  /\ pc[p] = "remove_lock"
  /\ temporary' = temporary \ {scan[p].layer}
  /\ RemoveLockFile(scan[p].layer)
  /\ scan' = [scan EXCEPT ![p].layer = None]
  /\ pc' = [pc EXCEPT ![p] = "prune_layers"]
  /\ UNCHANGED <<published, flock, mounted>>

\* remove_layer or remove_file failed: the LayerLock is dropped, its file stays.
RemoveLayerError(p) ==
  /\ pc[p] \in {"remove_layer", "remove_lock"}
  /\ temporary' \in {temporary, temporary \ {scan[p].layer}}
  /\ writeLock' = [writeLock EXCEPT ![scan[p].layer] = {}]
  /\ scan' = [scan EXCEPT ![p].layer = None, ![p].kept = @ \cup {scan[p].layer}]
  /\ pc' = [pc EXCEPT ![p] = "prune_layers"]
  /\ UNCHANGED <<published, lockFiles, flock, readLock, mounts>>

-----------------------------------------------------------------------------
\* cleanup_layer_locks

ListLocks(p) ==
  /\ pc[p] = "prune_layers"
  /\ scan[p].todo = {}
  /\ scan' = [scan EXCEPT ![p].todo = lockFiles]
  /\ pc' = [pc EXCEPT ![p] = "cleanup_locks"]
  /\ UNCHANGED <<disk, locks, mounts>>

\* No layer and no reader: the lock file is locked and removed.
CleanupLock(p) ==
  /\ pc[p] = "cleanup_locks"
  /\ \E l \in scan[p].todo :
       /\ layers[l] = "absent"
       /\ readLock[l] = {}
       /\ RemoveLockFile(l)
       /\ scan' = [scan EXCEPT ![p].todo = @ \ {l}]
  /\ UNCHANGED <<published, temporary, flock, mounted, pc>>

\* The layer is there, or the lock file is locked.
KeepLock(p) ==
  /\ pc[p] = "cleanup_locks"
  /\ \E l \in scan[p].todo :
       /\ layers[l] # "absent" \/ readLock[l] # {}
       /\ scan' = [scan EXCEPT ![p].todo = @ \ {l}]
  /\ UNCHANGED <<disk, locks, mounts, pc>>

\* An I/O error is reported and passed over.
CleanupLockError(p) ==
  /\ pc[p] = "cleanup_locks"
  /\ \E l \in scan[p].todo : scan' = [scan EXCEPT ![p].todo = @ \ {l}]
  /\ UNCHANGED <<disk, locks, mounts, pc>>

PruneDone(p) ==
  /\ pc[p] = "cleanup_locks"
  /\ scan[p].todo = {}
  /\ pc' = [pc EXCEPT ![p] = "done"]
  /\ UNCHANGED <<disk, locks, mounts, scan>>

PruneWork(p) ==
  \/ ReadUsed(p)
  \/ PruneManifest(p)
  \/ ListLayers(p)
  \/ KeepLayer(p)
  \/ LockLayer(p)
  \/ SkipLockedLayer(p)
  \/ RemoveLayer(p)
  \/ RemoveLock(p)
  \/ ListLocks(p)
  \/ CleanupLock(p)
  \/ KeepLock(p)
  \/ PruneDone(p)

PruneError(p) ==
  \/ LockLayerError(p)
  \/ RemoveLayerError(p)
  \/ CleanupLockError(p)

PruneStep(p) == PruneWork(p) \/ PruneError(p)
=============================================================================
