------------------------------ MODULE Inductive ------------------------------
(***************************************************************************)
(* The inductive invariant of Pakstak: what each process may rely on at    *)
(* each of its program points.  The safety properties follow from it.      *)
(***************************************************************************)
EXTENDS Pakstak

\* Where a command is inside fetch_image.
FetchPc == {"fetch_manifest", "fetch_layers", "extract_layer", "fetched"}

\* Where a command is inside prune.
PrunePc ==
  {"prune_manifests", "prune_layers", "remove_layer", "remove_lock",
   "cleanup_locks"}

-----------------------------------------------------------------------------
\* The storage lock is held from the first to the last step of a command, and
\* by run up to its exec.
StorageLockInv ==
  /\ \A p \in Mutator : flock[p] = IF pc[p] = "idle" THEN "none" ELSE "exclusive"
  /\ \A r \in Runner :
       flock[r] = IF pc[r] \in {"run", "lock_files"} THEN "shared" ELSE "none"
  /\ \A p \in Mutator, q \in Process :
       flock[p] = "exclusive" /\ q # p => flock[q] = "none"

\* The command line of a command fits its program point.
JobOK(p) ==
  /\ pc[p] \in Operation => job[p].op = pc[p]
  /\ pc[p] \in FetchPc => job[p].op \in {"install", "update", "switch", "repair"}
  /\ pc[p] \in PrunePc => job[p].op = "prune"
  /\ pc[p] # "idle" =>
       /\ job[p].op \in {"install", "switch", "uninstall"} =>
            job[p].container \in Container
       /\ job[p].op = "install" => job[p].reference \in Specifier
       /\ job[p].op = "switch" => job[p].reference \in Digest
       /\ job[p].op = "repair" => job[p].targets \subseteq Installed
  /\ pc[p] \in FetchPc =>
       /\ fetch[p].reference \in Specifier
       /\ job[p].op = "switch" => fetch[p].reference = job[p].reference
       /\ job[p].op \in {"update", "switch"} => job[p].container \in Installed

\* A process that has no layer staged leaves temporary/ empty.
TemporaryOK(p) ==
  pc[p] \in {"install", "update", "switch", "repair",
             "fetch_manifest", "fetch_layers", "fetched"} => temporary = {}

\* What fetch_image knows of the manifest it fetched.
FetchOK(p) ==
  /\ pc[p] \in {"fetch_layers", "extract_layer", "fetched"} =>
       /\ fetch[p].fetched \in FetchedManifest
       /\ Verifies(fetch[p].fetched.bytes, fetch[p].fetched.digest)
       /\ fetch[p].reference \in Digest /\ Canonical(fetch[p].reference) =>
            fetch[p].fetched.digest = fetch[p].reference
  /\ pc[p] \in {"fetch_layers", "extract_layer"} =>
       /\ fetch[p].saved => manifests[fetch[p].fetched.digest] # None
       /\ fetch[p].next \in 1..Len(LayerList(p)) + 1
       /\ \A i \in 1..Len(LayerList(p)) :
            i < fetch[p].next => layers[LayerList(p)[i]] # "absent"
  /\ pc[p] = "extract_layer" =>
       /\ fetch[p].next \in 1..Len(LayerList(p))
       /\ fetch[p].fresh
       /\ temporary = {CurrentLayer(p)}
  /\ pc[p] = "fetched" => manifests[fetch[p].fetched.digest] # None

\* What prune knows of the containers, and what it has removed so far.
ScanOK(p) ==
  /\ pc[p] \in PrunePc \/ (pc[p] = "done" /\ job[p].op = "prune") =>
       /\ scan[p].manifests = {containers[c].manifest_digest : c \in Installed}
       /\ \A d \in scan[p].manifests : manifests[d] # None
       /\ scan[p].layers = UNION {LayerSet(manifests[d]) : d \in scan[p].manifests}
  /\ \/ pc[p] \in PrunePc \ {"prune_manifests"}
     \/ pc[p] = "done" /\ job[p].op = "prune"
     => \A d \in Digest : manifests[d] # None => d \in scan[p].manifests
  /\ pc[p] \in {"prune_layers", "remove_layer", "remove_lock"} =>
       PresentLayers \subseteq scan[p].todo \cup scan[p].layers \cup scan[p].kept
                                 \cup {scan[p].layer}
  /\ pc[p] = "cleanup_locks" \/ (pc[p] = "done" /\ job[p].op = "prune") =>
       PresentLayers \subseteq scan[p].layers \cup scan[p].kept
  /\ pc[p] \in {"remove_layer", "remove_lock"} =>
       /\ scan[p].layer \in Layer \ scan[p].layers
       /\ writeLock[scan[p].layer] = {p}
       /\ \A l \in Layer : p \in writeLock[l] => l = scan[p].layer
  /\ pc[p] = "remove_lock" => layers[scan[p].layer] = "absent"
  /\ pc[p] \notin {"remove_layer", "remove_lock"} =>
       scan[p].layer = None /\ \A l \in Layer : p \notin writeLock[l]

-----------------------------------------------------------------------------
\* Read and write locks exclude each other, and nobody sees a layer that has
\* lost its name.
LayerLockInv ==
  \A l \in Layer :
    /\ writeLock[l] # {} => readLock[l] = {}
    /\ layers[l] = "absent" => mounted[l] = {}

\* The layers that a sandbox still sees are bound, and then locked, in the lock
\* file that prune will look at.
BoxOK(r) ==
  /\ pc[r] \in {"bind", "lock"} => box[r].todo \subseteq box[r].stack
  /\ pc[r] = "bind" =>
       \A l \in box[r].stack \ box[r].todo : r \in mounted[l] => r \in bound[l]
  /\ pc[r] = "lock" =>
       \A l \in box[r].stack :
         r \in mounted[l] => IF l \in box[r].todo
                             THEN r \in bound[l] ELSE r \in readLock[l]
  /\ pc[r] = "running" =>
       \A l \in box[r].stack : r \in mounted[l] => r \in readLock[l]

-----------------------------------------------------------------------------
\* What every command knows, what every run knows, and what is published.
MutatorInv ==
  \A p \in Mutator : JobOK(p) /\ TemporaryOK(p) /\ FetchOK(p) /\ ScanOK(p)

RunnerInv == \A r \in Runner : BoxOK(r)

StorageInv ==
  /\ SavedManifestsAreComplete
  /\ PublishedLayersAreWhole
  /\ ContainersResolve

\* The inductive invariant.
IInv ==
  /\ TypeOK
  /\ StorageLockInv
  /\ MutatorInv
  /\ LayerLockInv
  /\ RunnerInv
  /\ StorageInv

-----------------------------------------------------------------------------
(* On a storage that damage may reach between commands, StorageInv fails,  *)
(* and what remains is what each process has seen for itself.              *)

\* The containers that a repair has dealt with.
Repaired(p) ==
  {c \in Installed \ job[p].targets :
     pc[p] \in FetchPc \ {"fetched"} => c # job[p].container}

\* What repair knows: the containers that are dealt with resolve.
RepairOK(p) ==
  job[p].op = "repair" =>
    /\ pc[p] \in FetchPc =>
         /\ fetch[p].repair
         /\ job[p].container \in Installed
         /\ fetch[p].reference = containers[job[p].container].manifest_digest
    /\ pc[p] \in {"fetch_layers", "extract_layer"} /\ fetch[p].saved =>
         Verifies(manifests[fetch[p].fetched.digest], fetch[p].fetched.digest)
    /\ pc[p] \in FetchPc \cup {"repair"} =>
         \A c \in Repaired(p) :
           Canonical(containers[c].manifest_digest) =>
             ManifestIsSound(containers[c].manifest_digest)

RepairInv == \A p \in Mutator : RepairOK(p)

\* The invariant that damage leaves.
DamageInv ==
  /\ TypeOK
  /\ StorageLockInv
  /\ MutatorInv
  /\ RepairInv
=============================================================================
