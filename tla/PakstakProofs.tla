----------------------------- MODULE PakstakProofs -----------------------------
(***************************************************************************)
(* What is published stays sound: layers come before the manifest that     *)
(* lists them and manifests before the container that names them, and      *)
(* prune takes away only what no installed container reaches.  With that   *)
(* the inductive invariant holds, and what follows from it: the safety     *)
(* properties that TLC checks on small instances, here for any number of   *)
(* processes, containers, images and layers.  Then what repair promises on *)
(* a damaged storage, and that the whole implements ImageStore.            *)
(***************************************************************************)
EXTENDS StepProofs, Corruption, Images

\* Nothing published changes, so nothing is lost.
LEMMA SameStorage ==
  ASSUME StorageInv, UNCHANGED published
  PROVE  StorageInv'
BY DEF StorageInv, SavedManifestsAreComplete, PublishedLayersAreWhole,
       ContainersResolve, ManifestIsSound, Installed, PresentLayers, published

\* A container may be given any digest under which a manifest is saved, and any
\* digest that is not canonical.
LEMMA PublishContainer ==
  ASSUME StorageInv, StorageTypeOK, NEW d \in Digest, NEW c0 \in Container,
         Canonical(d) => manifests[d] # None,
         UNCHANGED <<manifests, layers>>,
         \A c \in Container : c # c0 => containers'[c] = containers[c],
         containers'[c0].manifest_digest = d
  PROVE  StorageInv'
<1>1. SavedManifestsAreComplete' /\ PublishedLayersAreWhole'
  BY DEF StorageInv, SavedManifestsAreComplete, PublishedLayersAreWhole,
         ManifestIsSound, PresentLayers
<1>2. ASSUME NEW c \in Installed', Canonical(containers'[c].manifest_digest)
      PROVE  ManifestIsSound(containers'[c].manifest_digest)
  <2>1. CASE c = c0
    BY <1>2, <2>1 DEF StorageInv, SavedManifestsAreComplete
  <2>2. CASE c # c0
    BY <1>2, <2>2 DEF StorageInv, ContainersResolve, Installed
  <2> QED BY <2>1, <2>2
<1>3. ContainersResolve'
  BY <1>2 DEF ContainersResolve, ManifestIsSound, PresentLayers
<1> QED BY <1>1, <1>3 DEF StorageInv

\* install, update and switch publish only what resolves.
LEMMA CommandStorage ==
  ASSUME TypeOK, StorageInv, NEW p \in Mutator, CommandOK(p), CommandStep(p)
  PROVE  StorageInv'
<1>t. /\ StorageTypeOK /\ job[p] \in JobRecord
      /\ JobOK(p) /\ FetchOK(p)
  BY DEF TypeOK, CommandsTypeOK, CommandOK
<1> USE DEF disk, published
<1>1. CASE PublishInstall(p)
  <2>1. /\ job[p].container \in Container
        /\ fetch[p].fetched.digest \in Digest
        /\ manifests[fetch[p].fetched.digest] # None
    BY <1>t, <1>1
       DEF PublishInstall, JobOK, FetchOK, FetchPc, FetchedManifest
  <2>2. /\ \A c \in Container : c # job[p].container => containers'[c] = containers[c]
        /\ containers'[job[p].container].manifest_digest = fetch[p].fetched.digest
        /\ UNCHANGED <<manifests, layers>>
    BY <1>t, <1>1, <2>1 DEF PublishInstall, StorageTypeOK
  <2> QED BY <1>t, <2>1, <2>2, PublishContainer
<1>2. CASE PublishUpdate(p)
  <2>1. /\ job[p].container \in Installed
        /\ fetch[p].fetched.digest \in Digest
        /\ manifests[fetch[p].fetched.digest] # None
    BY <1>t, <1>2 DEF PublishUpdate, JobOK, FetchOK, FetchPc, FetchedManifest
  <2>2. /\ \A c \in Container : c # job[p].container => containers'[c] = containers[c]
        /\ containers'[job[p].container].manifest_digest = fetch[p].fetched.digest
        /\ UNCHANGED <<manifests, layers>>
    BY <1>t, <1>2, <2>1 DEF PublishUpdate, StorageTypeOK, Installed, ContainerRecord
  <2> QED BY <1>t, <2>1, <2>2, PublishContainer DEF Installed
<1>3. CASE PublishSwitch(p)
  <2>1. /\ job[p].container \in Installed
        /\ job[p].reference \in Digest
        /\ fetch[p].reference = job[p].reference
        /\ manifests[fetch[p].fetched.digest] # None
        /\ Canonical(job[p].reference) => fetch[p].fetched.digest = job[p].reference
    BY <1>t, <1>3 DEF PublishSwitch, JobOK, FetchOK, FetchPc
  <2>2. /\ \A c \in Container : c # job[p].container => containers'[c] = containers[c]
        /\ containers'[job[p].container].manifest_digest = job[p].reference
        /\ UNCHANGED <<manifests, layers>>
    BY <1>t, <1>3, <2>1 DEF PublishSwitch, StorageTypeOK, Installed, ContainerRecord
  <2> QED BY <1>t, <2>1, <2>2, PublishContainer DEF Installed
<1>4. CASE Uninstall(p)
  <2>1. CASE job[p].container \in Installed
    <3>1. /\ UNCHANGED <<manifests, layers>>
          /\ \A c \in Container :
               containers'[c] \in {containers[c], None}
      BY <1>t, <1>4, <2>1 DEF Uninstall, StorageTypeOK
    <3>2. SavedManifestsAreComplete' /\ PublishedLayersAreWhole'
      BY <3>1 DEF StorageInv, SavedManifestsAreComplete, PublishedLayersAreWhole,
                  ManifestIsSound, PresentLayers
    <3>3. \A c \in Installed' : c \in Installed /\ containers'[c] = containers[c]
      BY <3>1 DEF Installed
    <3>4. ContainersResolve'
      BY <3>1, <3>3
         DEF StorageInv, ContainersResolve, ManifestIsSound, PresentLayers
    <3> QED BY <3>2, <3>4 DEF StorageInv
  <2>2. CASE job[p].container \notin Installed
    BY <1>4, <2>2, SameStorage DEF Uninstall, Return
  <2> QED BY <2>1, <2>2
<1>5. CASE Install(p) \/ UpdateNext(p) \/ UpdateDone(p) \/ Switch(p)
  BY <1>5, SameStorage DEF Install, UpdateNext, UpdateDone, Switch, Return
<1>6. CASE RepairNext(p) \/ RepairFetched(p) \/ CheckStorage(p)
  BY <1>6, SameStorage DEF RepairNext, RepairFetched, CheckStorage, Return
<1> QED BY <1>1, <1>2, <1>3, <1>4, <1>5, <1>6 DEF CommandStep

-----------------------------------------------------------------------------
\* When fetch_image writes a manifest, it has seen all of its layers.
LEMMA AllLayersPresent ==
  ASSUME NEW p \in Mutator, FetchOK(p), WriteManifest(p)
  PROVE  LET m == fetch[p].fetched
         IN  /\ m.bytes \in ImageManifest /\ m.digest \in Digest
             /\ Verifies(m.bytes, m.digest)
             /\ LayerSet(m.bytes) \subseteq PresentLayers
<1> DEFINE m == fetch[p].fetched
<1>1. pc[p] = "fetch_layers" /\ fetch[p].next > Len(LayerList(p))
  BY DEF WriteManifest
<1>2. /\ m \in FetchedManifest /\ Verifies(m.bytes, m.digest)
      /\ fetch[p].next \in 1..Len(LayerList(p)) + 1
      /\ \A i \in 1..Len(LayerList(p)) :
           i < fetch[p].next => layers[LayerList(p)[i]] # "absent"
  BY <1>1 DEF FetchOK
<1>3. m.bytes \in ImageManifest /\ m.digest \in Digest
  BY <1>2 DEF FetchedManifest
<1>4. Len(LayerList(p)) \in Nat
  BY <1>3, LayerFacts DEF LayerList
<1>5. \A i \in 1..Len(LayerList(p)) : layers[LayerList(p)[i]] # "absent"
  BY <1>1, <1>2, <1>4
<1>6. LayerSet(m.bytes) \subseteq PresentLayers
  BY <1>3, <1>5, LayerFacts DEF LayerSet, PresentLayers, LayerList
<1> QED BY <1>2, <1>3, <1>6

\* fetch_image publishes whole layers, and manifests whose layers are all there.
LEMMA FetchStorage ==
  ASSUME TypeOK, StorageInv, NEW p \in Mutator, CommandOK(p), FetchStep(p)
  PROVE  StorageInv'
<1>t. StorageTypeOK /\ FetchOK(p)
  BY DEF TypeOK, CommandOK
<1> USE DEF disk, published
<1>1. CASE FinishLayer(p)
  <2>1. UNCHANGED <<manifests, containers>>
    BY <1>1 DEF FinishLayer
  <2>2. \A l \in Layer : layers'[l] \in {layers[l], "whole"}
    BY <1>t, <1>1
       DEF FinishLayer, PublishLayer, ExtractLayer, FetchOK, StorageTypeOK
  <2>3. PresentLayers \subseteq PresentLayers'
    BY <2>2 DEF PresentLayers
  <2>4. \A d \in Digest : ManifestIsSound(d) => ManifestIsSound(d)'
    BY <2>1, <2>3 DEF ManifestIsSound
  <2> QED BY <1>t, <2>1, <2>2, <2>4
          DEF StorageInv, SavedManifestsAreComplete, PublishedLayersAreWhole,
              ContainersResolve, Installed, StorageTypeOK, ContainerRecord
<1>2. CASE WriteManifest(p)
  <2> DEFINE m == fetch[p].fetched
  <2>1. /\ UNCHANGED <<layers, containers>>
        /\ pc[p] = "fetch_layers"
        /\ fetch[p].next > Len(LayerList(p))
        /\ manifests' = IF fetch[p].saved
                        THEN manifests
                        ELSE [manifests EXCEPT ![m.digest] = m.bytes]
    BY <1>2 DEF WriteManifest
  <2>2. /\ m.bytes \in ImageManifest /\ m.digest \in Digest
        /\ Verifies(m.bytes, m.digest)
        /\ LayerSet(m.bytes) \subseteq PresentLayers
    BY <1>t, <1>2, AllLayersPresent
  <2>5. PresentLayers' = PresentLayers
    BY <2>1 DEF PresentLayers
  <2>6. ASSUME NEW d \in Digest, manifests'[d] # None PROVE ManifestIsSound(d)'
    <3>1. CASE manifests'[d] = manifests[d]
      <4>1. ManifestIsSound(d)
        BY <2>6, <3>1 DEF StorageInv, SavedManifestsAreComplete
      <4> QED BY <4>1, <3>1, <2>5 DEF ManifestIsSound
    <3>2. CASE manifests'[d] # manifests[d]
      <4>1. d = m.digest /\ manifests'[d] = m.bytes
        BY <1>t, <2>1, <3>2 DEF StorageTypeOK
      <4> QED BY <4>1, <2>2, <2>5 DEF ManifestIsSound
    <3> QED BY <3>1, <3>2
  <2>7. \A d \in Digest : ManifestIsSound(d) => manifests'[d] # None
    BY <1>t, <2>1, <2>2, RegistryAssumption DEF ManifestIsSound, StorageTypeOK
  <2>8. \A c \in Installed : containers[c].manifest_digest \in Digest
    BY <1>t DEF StorageTypeOK, Installed, ContainerRecord
  <2> QED BY <2>1, <2>6, <2>7, <2>8
          DEF StorageInv, SavedManifestsAreComplete, PublishedLayersAreWhole,
              ContainersResolve, Installed
<1>3. CASE FetchManifest(p) \/ SkipLayer(p) \/ StageLayer(p) \/ DiscardLayer(p)
  BY <1>3, SameStorage DEF FetchManifest, SkipLayer, StageLayer, DiscardLayer
<1> QED BY <1>1, <1>2, <1>3 DEF FetchStep

-----------------------------------------------------------------------------
\* prune removes no manifest in use and no layer of a saved manifest.
LEMMA PruneStorage ==
  ASSUME TypeOK, StorageInv, NEW p \in Mutator, CommandOK(p), PruneStep(p)
  PROVE  StorageInv'
<1>t. /\ StorageTypeOK /\ ScanOK(p)
      /\ \A c \in Installed : containers[c].manifest_digest \in Digest
  BY DEF TypeOK, CommandOK, StorageTypeOK, Installed, ContainerRecord
<1> USE DEF disk, published
<1>1. CASE PruneManifest(p)
  <2>1. PICK d \in UnusedManifests(p) : manifests' = [manifests EXCEPT ![d] = None]
    BY <1>1 DEF PruneManifest
  <2>2. /\ UNCHANGED <<layers, containers>>
        /\ scan[p].manifests = {containers[c].manifest_digest : c \in Installed}
    BY <1>t, <1>1 DEF PruneManifest, ScanOK, PrunePc
  <2>3. \A c \in Installed :
          manifests'[containers[c].manifest_digest] =
            manifests[containers[c].manifest_digest]
    BY <1>t, <2>1, <2>2 DEF UnusedManifests, StorageTypeOK
  <2>4. \A e \in Digest : manifests'[e] # None => manifests'[e] = manifests[e]
    BY <1>t, <2>1 DEF UnusedManifests, StorageTypeOK
  <2> QED BY <2>2, <2>3, <2>4
          DEF StorageInv, SavedManifestsAreComplete, PublishedLayersAreWhole,
              ContainersResolve, ManifestIsSound, Installed, PresentLayers
<1>2. CASE RemoveLayer(p)
  <2> DEFINE l == scan[p].layer
  <2>1. /\ layers' = [layers EXCEPT ![l] = "absent"]
        /\ UNCHANGED <<manifests, containers>>
        /\ pc[p] = "remove_layer"
    BY <1>2 DEF RemoveLayer, MoveLayerAway
  <2>2. /\ l \in Layer \ scan[p].layers
        /\ scan[p].layers = UNION {LayerSet(manifests[d]) : d \in scan[p].manifests}
        /\ \A d \in Digest : manifests[d] # None => d \in scan[p].manifests
    BY <1>t, <2>1 DEF ScanOK, PrunePc
  <2>3. /\ \A k \in Layer : layers'[k] \in {layers[k], "absent"}
        /\ PresentLayers' = PresentLayers \ {l}
    BY <1>t, <2>1, <2>2 DEF StorageTypeOK, PresentLayers
  <2>4. \A d \in Digest : manifests[d] # None => l \notin LayerSet(manifests[d])
    BY <2>2
  <2>5. \A d \in Digest : ManifestIsSound(d) => ManifestIsSound(d)'
    BY <2>1, <2>3, <2>4, RegistryAssumption DEF ManifestIsSound
  <2>6. SavedManifestsAreComplete'
    BY <2>1, <2>5 DEF StorageInv, SavedManifestsAreComplete
  <2>7. ContainersResolve'
    BY <1>t, <2>1, <2>5 DEF StorageInv, ContainersResolve, Installed
  <2>8. PublishedLayersAreWhole'
    BY <2>3 DEF StorageInv, PublishedLayersAreWhole
  <2> QED BY <2>6, <2>7, <2>8 DEF StorageInv
<1>3. CASE ReadUsed(p) \/ ListLayers(p) \/ KeepLayer(p) \/ LockLayer(p)
  BY <1>3, SameStorage DEF ReadUsed, ListLayers, KeepLayer, LockLayer
<1>4. CASE SkipLockedLayer(p) \/ LockLayerError(p) \/ RemoveLock(p)
           \/ RemoveLayerError(p)
  BY <1>4, SameStorage DEF SkipLockedLayer, LockLayerError, RemoveLock, RemoveLayerError
<1>5. CASE ListLocks(p) \/ CleanupLock(p) \/ KeepLock(p) \/ CleanupLockError(p)
           \/ PruneDone(p)
  BY <1>5, SameStorage DEF ListLocks, CleanupLock, KeepLock, CleanupLockError, PruneDone
<1> QED BY <1>1, <1>2, <1>3, <1>4, <1>5 DEF PruneStep, PruneWork, PruneError

-----------------------------------------------------------------------------
\* A run publishes nothing.
LEMMA RunnerStorage ==
  ASSUME NEW r \in Runner, RunnerStep(r)
  PROVE  UNCHANGED published
BY SMTT(30) DEF RunnerStep, RunOpen, RunRead, CreateLockFile, Exec, Mount, BindLockFile,
       TakeReadLock, BoxExit, disk, published

\* Opening or leaving the storage publishes nothing.
LEMMA OpenLeaveStorage ==
  ASSUME NEW p \in Mutator, Open(p) \/ Leave(p)
  PROVE  UNCHANGED published
BY DEF Open, Start, OpenMutable, Leave, ReleaseMutable, disk, published

\* Every step keeps what is published sound.
LEMMA StorageInvNext ==
  ASSUME TypeOK, MutatorInv, StorageInv, Next
  PROVE  StorageInv'
<1>1. ASSUME NEW p \in Mutator, MutatorStep(p) PROVE StorageInv'
  <2>0. CommandOK(p)
    BY DEF MutatorInv, CommandOK
  <2>1. CASE Open(p) \/ Leave(p)
    BY <2>1, OpenLeaveStorage, SameStorage
  <2>2. CASE InnerStep(p)
    BY <2>0, <2>2, CommandStorage, FetchStorage, PruneStorage DEF InnerStep
  <2> QED BY <1>1, <2>1, <2>2, MutatorKinds
<1>2. ASSUME NEW r \in Runner, RunnerStep(r) PROVE StorageInv'
  BY <1>2, RunnerStorage, SameStorage
<1> QED BY <1>1, <1>2 DEF Next

-----------------------------------------------------------------------------
\* The inductive invariant holds of an empty storage with nobody at work.
LEMMA InductiveInit == Init => IInv
<1> SUFFICES ASSUME Init PROVE IInv
  OBVIOUS
<1>1. TypeOK
  BY TypeInit
<1>2. /\ \A q \in Process : pc[q] = "idle" /\ flock[q] = "none"
      /\ \A l \in Layer :
           /\ writeLock[l] = {} /\ readLock[l] = {} /\ mounted[l] = {}
           /\ layers[l] = "absent"
      /\ \A p \in Mutator : scan[p] = NoScan
      /\ \A d \in Digest : manifests[d] = None
      /\ Installed = {}
      /\ Mutator \subseteq Process /\ Runner \subseteq Process
  BY DEF Init, StorageInit, CommandsInit, PruneInit, Installed, Process
<1>3. StorageLockInv
  BY <1>2 DEF StorageLockInv
<1>4. MutatorInv
  <2> SUFFICES ASSUME NEW p \in Mutator
               PROVE  JobOK(p) /\ TemporaryOK(p) /\ FetchOK(p) /\ ScanOK(p)
    BY DEF MutatorInv
  <2>1. pc[p] = "idle" /\ scan[p].layer = None /\ \A l \in Layer : p \notin writeLock[l]
    BY <1>2 DEF NoScan
  <2> QED BY <2>1 DEF JobOK, TemporaryOK, FetchOK, ScanOK, Operation, FetchPc, PrunePc
<1>5. LayerLockInv
  BY <1>2 DEF LayerLockInv
<1>6. RunnerInv
  BY <1>2 DEF RunnerInv, BoxOK
<1>7. StorageInv
  BY <1>2 DEF StorageInv, SavedManifestsAreComplete, PublishedLayersAreWhole,
              ContainersResolve
<1> QED BY <1>1, <1>3, <1>4, <1>5, <1>6, <1>7 DEF IInv

\* Every step keeps the inductive invariant.
LEMMA InductiveNext ==
  ASSUME IInv, [Next]_vars
  PROVE  IInv'
<1>0. TypeOK /\ StorageLockInv /\ MutatorInv /\ LayerLockInv /\ RunnerInv /\ StorageInv
  BY DEF IInv
<1>1. CASE Next
  <2>1. TypeOK'
    BY <1>0, <1>1, TypeNext
  <2>2. StorageLockInv'
    BY <1>0, <1>1, StorageLockNext
  <2>3. MutatorInv'
    BY <1>0, <1>1, MutatorInvNext
  <2>4. LayerLockInv'
    BY <1>0, <1>1, LayerLockNext
  <2>5. RunnerInv'
    BY <1>0, <1>1, RunnerInvNext
  <2>6. StorageInv'
    BY <1>0, <1>1, StorageInvNext
  <2> QED BY <2>1, <2>2, <2>3, <2>4, <2>5, <2>6 DEF IInv
<1>2. CASE UNCHANGED vars
  <2> USE <1>0, <1>2 DEF vars, disk, locks, mounts
  <2>1. TypeOK'
    BY DEF TypeOK, StorageTypeOK, CommandsTypeOK, FetchTypeOK, PruneTypeOK,
           SandboxTypeOK
  <2>2. StorageLockInv'
    BY DEF StorageLockInv
  <2>3. MutatorInv'
    <3>1. \A p \in Mutator : CommandOK(p)
      BY DEF MutatorInv, CommandOK
    <3>2. \A p \in Mutator : CommandOK(p)'
      BY <3>1, Unmoved
    <3> QED BY <3>2 DEF MutatorInv, CommandOK
  <2>4. LayerLockInv'
    BY DEF LayerLockInv
  <2>5. RunnerInv'
    BY DEF RunnerInv, BoxOK
  <2>6. StorageInv'
    BY SameStorage DEF published
  <2> QED BY <2>1, <2>2, <2>3, <2>4, <2>5, <2>6 DEF IInv
<1> QED BY <1>1, <1>2

\* The inductive invariant is an invariant.
THEOREM Inductive == Spec => []IInv
BY InductiveInit, InductiveNext, PTL DEF Spec

-----------------------------------------------------------------------------
\* Every variable keeps its type (TypeOK).
THEOREM TypeCorrect == Spec => []TypeOK
<1>1. IInv => TypeOK
  BY DEF IInv
<1> QED BY <1>1, Inductive, PTL

\* A saved manifest is the right one and all its layers are there, whatever
\* was interrupted: fetch_image may skip the layers of a manifest it finds.
THEOREM ManifestsComplete == Spec => []SavedManifestsAreComplete
<1>1. IInv => SavedManifestsAreComplete
  BY DEF IInv, StorageInv
<1> QED BY <1>1, Inductive, PTL

\* A published layer never holds leftovers of an earlier extraction.
THEOREM LayersWhole == Spec => []PublishedLayersAreWhole
<1>1. IInv => PublishedLayersAreWhole
  BY DEF IInv, StorageInv
<1> QED BY <1>1, Inductive, PTL

\* A container that records a canonical digest can always be run.
THEOREM ContainersRun == Spec => []ContainersResolve
<1>1. IInv => ContainersResolve
  BY DEF IInv, StorageInv
<1> QED BY <1>1, Inductive, PTL

\* A prune that succeeds leaves only what installed containers need and what it
\* reported as locked.
THEOREM PruneIsThorough == Spec => []PruneReclaims
<1>1. IInv => PruneReclaims
  <2> SUFFICES ASSUME IInv, NEW p \in Mutator,
                      pc[p] = "done", job[p].op = "prune"
               PROVE  LET used == {containers[c].manifest_digest : c \in Installed}
                      IN  /\ {d \in Digest : manifests[d] # None} = used
                          /\ PresentLayers \subseteq scan[p].kept \cup
                               UNION {LayerSet(manifests[d]) : d \in used}
    BY DEF PruneReclaims
  <2>1. /\ scan[p].manifests = {containers[c].manifest_digest : c \in Installed}
        /\ \A d \in scan[p].manifests : manifests[d] # None
        /\ scan[p].layers = UNION {LayerSet(manifests[d]) : d \in scan[p].manifests}
        /\ \A d \in Digest : manifests[d] # None => d \in scan[p].manifests
        /\ PresentLayers \subseteq scan[p].layers \cup scan[p].kept
    BY DEF IInv, MutatorInv, ScanOK
  <2>2. scan[p].manifests \subseteq Digest
    BY DEF IInv, TypeOK, CommandsTypeOK, PruneTypeOK, ScanRecord
  <2> QED BY <2>1, <2>2
<1> QED BY <1>1, Inductive, PTL

-----------------------------------------------------------------------------
\* While a run reads under the shared lock, no command publishes or removes
\* anything: whoever writes holds the storage lock alone.
THEOREM ReadersStable == Spec => ReadersSeeStableStorage
<1>1. ASSUME IInv, [Next]_vars, NEW r \in Runner,
             flock[r] = "shared", flock'[r] = "shared"
      PROVE  UNCHANGED published
  <2>1. CASE \E p \in Mutator : MutatorStep(p) /\ UNCHANGED box
    <3> PICK p \in Mutator : MutatorStep(p)
      BY <2>1
    <3>1. CASE Open(p) \/ Leave(p)
      BY <3>1, OpenLeaveStorage
    <3>2. CASE InnerStep(p)
      <4>1. flock[p] = "exclusive" /\ r # p
        BY <1>1, <3>2, InnerFrame, ProcessAssumption DEF IInv, StorageLockInv
      <4>2. flock[r] = "none"
        BY <1>1, <4>1 DEF IInv, StorageLockInv, Process
      <4> QED BY <1>1, <4>2
    <3> QED BY <3>1, <3>2, MutatorKinds
  <2>2. CASE \E q \in Runner : RunnerStep(q) /\ UNCHANGED <<fetch, scan, job>>
    BY <2>2, RunnerStorage
  <2>3. CASE UNCHANGED vars
    BY <2>3 DEF vars, disk, published
  <2> QED BY <1>1, <2>1, <2>2, <2>3 DEF Next
<1>2. IInv /\ [Next]_vars =>
        [\A r \in Runner :
           flock[r] = "shared" /\ flock'[r] = "shared" => UNCHANGED published]_vars
  BY <1>1
<1> QED BY <1>2, Inductive, PTL DEF Spec, ReadersSeeStableStorage

\* What a runner does changes neither the stack nor the mounts of another, nor
\* where that one stands.
LEMMA OtherRunnerMounts ==
  ASSUME TypeOK, NEW q \in Runner, RunnerStep(q), NEW r \in Runner, q # r
  PROVE  pc'[r] = pc[r] /\ (Intact(r) => Intact(r)')
<1>1. /\ StorageTypeOK /\ SandboxTypeOK /\ q \in Process /\ r \in Process
      /\ DOMAIN pc = Process /\ box[r].stack \subseteq Layer
  BY DEF TypeOK, SandboxTypeOK, BoxRecord, Process
<1> QED BY <1>1
       DEF RunnerStep, RunOpen, RunRead, CreateLockFile, Exec, Mount,
           BindLockFile, TakeReadLock, BoxExit, Intact, mounts, StorageTypeOK,
           SandboxTypeOK

\* No step takes a layer from a sandbox that has all its locks.
LEMMA RunningStaysIntact ==
  ASSUME IInv, [Next]_vars, NEW r \in Runner,
         pc[r] = "running", Intact(r), pc'[r] = "running"
  PROVE  Intact(r)'
<1>0. /\ TypeOK /\ StorageTypeOK /\ SandboxTypeOK /\ MutatorInv /\ LayerLockInv
      /\ box[r].stack \subseteq Layer
      /\ \A l \in box[r].stack : r \in mounted[l] /\ r \in readLock[l]
  BY DEF IInv, TypeOK, SandboxTypeOK, BoxRecord, RunnerInv, BoxOK, Intact
<1>1. CASE \E p \in Mutator : MutatorStep(p) /\ UNCHANGED box
  <2> PICK p \in Mutator : MutatorStep(p) /\ UNCHANGED box
    BY <1>1
  <2>1. ASSUME NEW l \in box[r].stack PROVE r \in mounted'[l]
    <3>1. LayerFrame(l) /\ readLock[l] # {} /\ l \in Layer
      BY <1>0, LayerFrameStep
    <3> QED BY <1>0, <3>1 DEF LayerFrame, LayerLockInv
  <2> QED BY <2>1 DEF Intact
<1>2. CASE \E q \in Runner : RunnerStep(q)
  <2> PICK q \in Runner : RunnerStep(q)
    BY <1>2
  <2>1. CASE q = r
    BY <1>0, <2>1
       DEF RunnerStep, RunOpen, RunRead, CreateLockFile, Exec, Mount,
           BindLockFile, TakeReadLock, BoxExit, TypeOK, Process
  <2>2. CASE q # r
    BY <1>0, <2>2, OtherRunnerMounts
  <2> QED BY <2>1, <2>2
<1>3. CASE UNCHANGED vars
  BY <1>3 DEF vars, mounts, Intact
<1> QED BY <1>1, <1>2, <1>3 DEF Next

\* A sandbox that has all its locks and all its layers keeps its layers: prune
\* removes a layer only under a write lock, which excludes the sandbox's.
THEOREM SandboxIsSafe == Spec => IntactSandboxStaysIntact
<1>1. IInv /\ [Next]_vars =>
        [\A r \in Runner :
           /\ pc[r] = "running" /\ Intact(r)
           /\ pc'[r] = "running"
           => Intact(r)']_vars
  BY RunningStaysIntact
<1> QED BY <1>1, Inductive, PTL DEF Spec, IntactSandboxStaysIntact

------------------------------------------------------------------------------
(***************************************************************************)
(* repair on a storage whose manifests get damaged and whose layers get    *)
(* lost: what it leaves can be relied on; prune does the rest.  Nothing    *)
(* that is published need be sound here.  What a command has seen for      *)
(* itself since it took the storage lock still holds, and that is enough.  *)
(***************************************************************************)

\* A step that changes nothing RepairOK speaks of.
LEMMA RepairUnmoved ==
  ASSUME NEW p \in Mutator, RepairOK(p), pc'[p] = pc[p],
         UNCHANGED <<containers, manifests, layers, fetch, job>>
  PROVE  RepairOK(p)'
BY DEF RepairOK, Repaired, Installed, ManifestIsSound, PresentLayers

\* Nothing is asked of an idle process.
LEMMA RepairIdle ==
  ASSUME NEW p \in Mutator, pc[p] = "idle"
  PROVE  RepairOK(p)
BY DEF RepairOK, FetchPc

\* repair begins with all containers to do.
LEMMA RepairOpen ==
  ASSUME TypeOK, NEW p \in Mutator, Open(p)
  PROVE  RepairOK(p)'
<1>t. CommandsTypeOK /\ DOMAIN pc = Process /\ p \in Process
  BY SMTT(30) DEF TypeOK, Process
<1>1. PICK j \in JobRecord : Start(p, j) /\ j.op \in Operation
  BY JobFacts DEF Open
<1>2. /\ pc'[p] = j.op /\ job'[p] = j
      /\ UNCHANGED containers
  BY <1>t, <1>1 DEF Start, OpenMutable, CommandsTypeOK, published
<1>3. j.op = "repair" => j.targets = Installed
  <2>1. \A k : Start(p, k) => k = job'[p]
    BY <1>t DEF Start, CommandsTypeOK
  <2> QED BY <1>1, <1>2, <2>1 DEF Open, NoJob
<1>4. j.op = "repair" => Repaired(p)' = {}
  BY <1>2, <1>3 DEF Repaired, Installed
<1> QED BY <1>1, <1>2, <1>4 DEF RepairOK, Operation, FetchPc

-----------------------------------------------------------------------------
\* The loop over the containers, and the check at the end.
LEMMA RepairCommand ==
  ASSUME TypeOK, NEW p \in Mutator, JobOK(p), RepairOK(p), CommandStep(p)
  PROVE  RepairOK(p)'
<1>t. /\ CommandsTypeOK /\ DOMAIN pc = Process /\ p \in Process
      /\ job[p] \in JobRecord
  BY DEF TypeOK, Process, CommandsTypeOK
<1> USE DEF disk, published, locks, mounts
<1>1. CASE RepairNext(p)
  <2> PICK c \in job[p].targets :
         /\ BeginFetch(p, containers[c].manifest_digest, TRUE)
         /\ job' = [job EXCEPT ![p].container = c, ![p].targets = @ \ {c}]
    BY <1>1 DEF RepairNext
  <2>1. /\ UNCHANGED <<containers, manifests, layers>>
        /\ pc[p] = "repair" /\ pc'[p] = "fetch_manifest"
        /\ job[p].op = "repair" /\ c \in Installed
    BY <1>t, <1>1 DEF RepairNext, BeginFetch, JobOK, Operation
  <2>2. /\ job'[p].container = c
        /\ job'[p].targets = job[p].targets \ {c}
        /\ fetch'[p].repair
        /\ fetch'[p].reference = containers[c].manifest_digest
    BY <1>t DEF CommandsTypeOK, FetchTypeOK, JobRecord, BeginFetch, NoFetch
  <2>3. Repaired(p)' \subseteq Repaired(p)
    BY <2>1, <2>2 DEF Repaired, FetchPc, Installed
  <2>4. \A d : ManifestIsSound(d) => ManifestIsSound(d)'
    BY <2>1 DEF ManifestIsSound, PresentLayers
  <2> QED BY <2>1, <2>2, <2>3, <2>4 DEF RepairOK, FetchPc, Installed
<1>2. CASE RepairFetched(p)
  <2>1. /\ UNCHANGED <<containers, manifests, layers, job>>
        /\ pc[p] = "fetched" /\ pc'[p] = "repair"
    BY <1>t, <1>2 DEF RepairFetched, Return
  <2>2. Repaired(p)' = Repaired(p)
    BY <2>1 DEF Repaired, FetchPc, Installed
  <2> QED BY <2>1, <2>2 DEF RepairOK, FetchPc, ManifestIsSound, PresentLayers
<1>3. CASE CheckStorage(p)
  <2>1. /\ UNCHANGED <<containers, manifests, layers, job>>
        /\ pc'[p] \in {"done", "failed"}
    BY <1>t, <1>3 DEF CheckStorage, Return
  <2> QED BY <2>1 DEF RepairOK, FetchPc
<1>4. CASE Install(p) \/ UpdateNext(p) \/ UpdateDone(p) \/ Switch(p) \/ Uninstall(p)
  <2>1. job[p].op # "repair"
    BY <1>4 DEF Install, UpdateNext, UpdateDone, Switch, Uninstall, JobOK, Operation
  <2>2. job'[p].op = job[p].op
    <3>1. CASE UpdateNext(p)
      <4>1. \/ job' = job
            \/ \E c \in job[p].targets :
                 job' = [job EXCEPT ![p].container = c, ![p].targets = @ \ {c}]
        BY <3>1 DEF UpdateNext, Return
      <4> QED BY <1>t, <4>1 DEF CommandsTypeOK, JobRecord
    <3>2. CASE Install(p) \/ UpdateDone(p) \/ Switch(p) \/ Uninstall(p)
      BY <3>2 DEF Install, UpdateDone, Switch, Uninstall, Return
    <3> QED BY <1>4, <3>1, <3>2
  <2> QED BY <2>1, <2>2 DEF RepairOK
<1>5. CASE PublishInstall(p) \/ PublishUpdate(p) \/ PublishSwitch(p)
  BY <1>5 DEF PublishInstall, PublishUpdate, PublishSwitch, RepairOK
<1> QED BY <1>1, <1>2, <1>3, <1>4, <1>5 DEF CommandStep

\* One container's fetch: what is written is what its digest promises, and no
\* other container loses anything by it.
LEMMA RepairFetch ==
  ASSUME TypeOK, NEW p \in Mutator, JobOK(p), FetchOK(p), RepairOK(p),
         FetchStep(p), UNCHANGED job
  PROVE  RepairOK(p)'
<1>t. /\ FetchTypeOK /\ StorageTypeOK /\ DOMAIN pc = Process /\ p \in Process
      /\ fetch[p] \in FetchRecord
      /\ \A c \in Installed : containers[c].manifest_digest \in Digest
  BY SMTT(30) DEF TypeOK, Process, CommandsTypeOK, FetchTypeOK, StorageTypeOK, Installed,
         ContainerRecord
<1> USE DEF disk, published, locks, mounts
<1>0. UNCHANGED <<containers, job>>
  BY DEF FetchStep, FetchManifest, SkipLayer, StageLayer, FinishLayer,
     DiscardLayer, WriteManifest
<1> SUFFICES ASSUME job[p].op = "repair"
             PROVE  RepairOK(p)'
  BY <1>0 DEF RepairOK
<1>1. CASE FetchManifest(p)
  <2>1. PICK m \in FetchImageManifest(fetch[p].reference) :
          LET saved == IsManifestSaved(m.digest, fetch[p].repair)
          IN  /\ fetch' = [fetch EXCEPT ![p] = [@ EXCEPT !.fetched = m,
                                                         !.saved = saved,
                                                         !.next = 1]]
              /\ pc' = [pc EXCEPT ![p] = IF saved /\ ~fetch[p].repair
                                         THEN "fetched" ELSE "fetch_layers"]
    BY <1>1 DEF FetchManifest
  <2>2. /\ UNCHANGED <<manifests, layers>>
        /\ pc[p] = "fetch_manifest"
        /\ fetch[p].repair
    BY <1>1 DEF FetchManifest, RepairOK, FetchPc
  <2>3. /\ pc'[p] = "fetch_layers"
        /\ fetch'[p].repair
        /\ fetch'[p].reference = fetch[p].reference
        /\ fetch'[p].fetched = m
        /\ fetch'[p].saved => Verifies(manifests[m.digest], m.digest)
    BY <1>t, <2>1, <2>2 DEF FetchTypeOK, FetchRecord, IsManifestSaved
  <2>4. Repaired(p)' = Repaired(p)
    BY <1>0, <2>2, <2>3 DEF Repaired, FetchPc, Installed
  <2> QED BY <1>0, <2>2, <2>3, <2>4
          DEF RepairOK, FetchPc, Installed, ManifestIsSound, PresentLayers
<1>2. CASE SkipLayer(p) \/ StageLayer(p) \/ FinishLayer(p)
  <2>1. /\ UNCHANGED manifests
        /\ pc[p] \in {"fetch_layers", "extract_layer"}
        /\ pc'[p] \in {"fetch_layers", "extract_layer"}
    BY <1>t, <1>2 DEF SkipLayer, StageLayer, FinishLayer
  <2>2. /\ fetch'[p].repair = fetch[p].repair
        /\ fetch'[p].reference = fetch[p].reference
        /\ fetch'[p].fetched = fetch[p].fetched
        /\ fetch'[p].saved = fetch[p].saved
    BY <1>t, <1>2 DEF SkipLayer, StageLayer, FinishLayer, FetchTypeOK, FetchRecord
  <2>3. PresentLayers \subseteq PresentLayers'
    BY <1>t, <1>2
       DEF SkipLayer, StageLayer, FinishLayer, PublishLayer, ExtractLayer,
           StorageTypeOK, PresentLayers
  <2>4. Repaired(p)' = Repaired(p)
    BY <1>0, <2>1 DEF Repaired, FetchPc, Installed
  <2>5. \A d : ManifestIsSound(d) => ManifestIsSound(d)'
    BY <2>1, <2>3 DEF ManifestIsSound
  <2> QED BY <1>0, <2>1, <2>2, <2>4, <2>5 DEF RepairOK, FetchPc, Installed
<1>3. CASE DiscardLayer(p)
  BY <1>t, <1>3 DEF DiscardLayer, RepairOK, FetchPc
<1>4. CASE WriteManifest(p)
  <2> DEFINE m == fetch[p].fetched
             k == job[p].container
  <2>1. /\ m.bytes \in ImageManifest /\ m.digest \in Digest
        /\ Verifies(m.bytes, m.digest)
        /\ LayerSet(m.bytes) \subseteq PresentLayers
    BY <1>4, AllLayersPresent
  <2>2. /\ UNCHANGED <<layers, fetch>>
        /\ pc[p] = "fetch_layers" /\ pc'[p] = "fetched"
        /\ manifests' = IF fetch[p].saved
                        THEN manifests
                        ELSE [manifests EXCEPT ![m.digest] = m.bytes]
    BY <1>t, <1>4 DEF WriteManifest
  <2>3. /\ fetch[p].repair
        /\ k \in Installed
        /\ fetch[p].reference = containers[k].manifest_digest
        /\ fetch[p].saved => Verifies(manifests[m.digest], m.digest)
    BY <2>2 DEF RepairOK, FetchPc
  <2>4. manifests'[m.digest] = m.bytes
    BY <1>t, <2>1, <2>2, <2>3 DEF Verifies, StorageTypeOK
  <2>5. \A d \in Digest : manifests'[d] = manifests[d] \/ d = m.digest
    BY <1>t, <2>2 DEF StorageTypeOK
  <2>6. ManifestIsSound(m.digest)'
    BY <2>1, <2>2, <2>4 DEF ManifestIsSound, PresentLayers
  <2>7. \A d \in Digest : ManifestIsSound(d) => ManifestIsSound(d)'
    BY <2>2, <2>5, <2>6 DEF ManifestIsSound, PresentLayers
  <2>8. Canonical(containers[k].manifest_digest) =>
          containers[k].manifest_digest = m.digest
    BY <1>t, <2>2, <2>3 DEF FetchOK
  <2>9. Repaired(p)' \subseteq Repaired(p) \cup {k}
    BY <1>0, <2>2 DEF Repaired, FetchPc, Installed
  <2>10. ASSUME NEW c \in Repaired(p)', Canonical(containers[c].manifest_digest)
         PROVE  ManifestIsSound(containers[c].manifest_digest)'
    <3>1. CASE c = k
      BY <1>0, <2>2, <2>6, <2>8, <2>10, <3>1 DEF ManifestIsSound
    <3>2. CASE c # k
      <4>1. c \in Repaired(p) /\ c \in Installed
        BY <2>9, <3>2 DEF Repaired
      <4>2. ManifestIsSound(containers[c].manifest_digest)
        BY <2>2, <2>10, <4>1 DEF RepairOK, FetchPc
      <4> QED BY <1>0, <1>t, <2>7, <4>1, <4>2
    <3> QED BY <3>1, <3>2
  <2> QED BY <1>0, <2>2, <2>3, <2>10 DEF RepairOK, FetchPc, Installed
<1> QED BY <1>1, <1>2, <1>3, <1>4 DEF FetchStep

-----------------------------------------------------------------------------
\* Whatever a command does, it keeps what it knows about the repair.
LEMMA RepairMutator ==
  ASSUME TypeOK, StorageLockInv, MutatorInv, RepairInv,
         NEW p \in Mutator, MutatorStep(p)
  PROVE  RepairInv'
<1>1. RepairOK(p)'
  <2>0. JobOK(p) /\ FetchOK(p) /\ RepairOK(p)
    BY DEF MutatorInv, RepairInv
  <2>1. CASE Open(p)
    BY <2>1, RepairOpen
  <2>2. CASE Exit(p) \/ Crash(p)
    <3>1. pc'[p] = "idle"
      BY <2>2 DEF Exit, Crash, Leave, ReleaseMutable, TypeOK, Process
    <3> QED BY <3>1 DEF RepairOK, FetchPc
  <2>3. CASE CommandStep(p)
    BY <2>0, <2>3, RepairCommand
  <2>4. CASE FetchStep(p) /\ UNCHANGED <<scan, job>>
    BY <2>0, <2>4, RepairFetch
  <2>5. CASE PruneStep(p) /\ UNCHANGED <<fetch, job>>
    <3>1. pc[p] = "prune" \/ pc[p] \in PrunePc
      BY <2>5
         DEF PruneStep, PruneWork, PruneError, ReadUsed, PruneManifest, ListLayers,
             KeepLayer, LockLayer, SkipLockedLayer, LockLayerError, RemoveLayer,
             RemoveLock, RemoveLayerError, ListLocks, CleanupLock, KeepLock,
             CleanupLockError, PruneDone, NextUnused, PrunePc
    <3>2. job[p].op = "prune"
      BY <2>0, <3>1 DEF JobOK, Operation
    <3> QED BY <2>5, <3>2 DEF RepairOK
  <2> QED BY <2>1, <2>2, <2>3, <2>4, <2>5 DEF MutatorStep
<1>2. \A q \in Mutator : q # p => RepairOK(q)'
  BY OthersIdle DEF RepairOK, FetchPc
<1> QED BY <1>1, <1>2 DEF RepairInv

\* Every step keeps DamageInv, those of the damage included.
LEMMA DamageNext ==
  ASSUME DamageInv, [Next \/ DamageManifest \/ LoseLayer]_vars
  PROVE  DamageInv'
<1>0. TypeOK /\ StorageLockInv /\ MutatorInv /\ RepairInv
  BY DEF DamageInv
<1>1. CASE Next
  <2>1. TypeOK' /\ StorageLockInv' /\ MutatorInv'
    BY <1>0, <1>1, TypeNext, StorageLockNext, MutatorInvNext
  <2>2. CASE \E p \in Mutator : MutatorStep(p)
    BY <1>0, <2>1, <2>2, RepairMutator DEF DamageInv
  <2>3. CASE \E r \in Runner : RunnerStep(r) /\ UNCHANGED <<fetch, scan, job>>
    <3> PICK r \in Runner : RunnerStep(r) /\ UNCHANGED <<fetch, scan, job>>
      BY <2>3
    <3>1. UNCHANGED published
      BY RunnerStorage
    <3>2. \A p \in Mutator : pc'[p] = pc[p]
      BY <1>0, ProcessAssumption
         DEF RunnerStep, RunOpen, RunRead, CreateLockFile, Exec, Mount,
             BindLockFile, TakeReadLock, BoxExit, TypeOK, Process
    <3>3. RepairInv'
      BY <1>0, <3>1, <3>2, RepairUnmoved DEF RepairInv, published
    <3> QED BY <2>1, <3>3 DEF DamageInv
  <2> QED BY <1>1, <2>2, <2>3 DEF Next
<1>2. CASE DamageManifest \/ LoseLayer
  <2>0. /\ \A p \in Mutator : pc[p] = "idle"
        /\ UNCHANGED <<containers, temporary, lockFiles, locks, bound, pc, fetch,
                       scan, job, box>>
    BY <1>2 DEF DamageManifest, LoseLayer, Quiet, mounts
  <2>1. TypeOK'
    <3>1. StorageTypeOK'
      BY <1>0, <1>2
         DEF DamageManifest, LoseLayer, TypeOK, StorageTypeOK, LayerState, locks,
             mounts
    <3>2. CommandsTypeOK' /\ SandboxTypeOK'
      BY <1>0, <2>0 DEF TypeOK, CommandsTypeOK, FetchTypeOK, PruneTypeOK,
                        SandboxTypeOK
    <3> QED BY <1>0, <2>0, <3>1, <3>2 DEF TypeOK
  <2>2. StorageLockInv'
    BY <1>0, <2>0 DEF StorageLockInv, locks
  <2>3. MutatorInv'
    <3> SUFFICES ASSUME NEW p \in Mutator
                 PROVE  (JobOK(p) /\ TemporaryOK(p) /\ FetchOK(p) /\ ScanOK(p))'
      BY DEF MutatorInv
    <3>1. /\ pc'[p] = "idle"
          /\ scan'[p].layer = None /\ \A l \in Layer : p \notin writeLock'[l]
      BY <1>0, <2>0 DEF MutatorInv, ScanOK, locks
    <3> QED BY <3>1 DEF JobOK, TemporaryOK, FetchOK, ScanOK, Operation, FetchPc,
                        PrunePc
  <2>4. RepairInv'
    BY <2>0 DEF RepairInv, RepairOK, FetchPc
  <2> QED BY <2>1, <2>2, <2>3, <2>4 DEF DamageInv
<1>3. CASE UNCHANGED vars
  <2> USE <1>0, <1>3 DEF vars, disk, locks, mounts
  <2>1. TypeOK'
    BY DEF TypeOK, StorageTypeOK, CommandsTypeOK, FetchTypeOK, PruneTypeOK,
           SandboxTypeOK
  <2>2. StorageLockInv'
    BY DEF StorageLockInv
  <2>3. MutatorInv'
    <3>1. \A p \in Mutator : CommandOK(p)
      BY DEF MutatorInv, CommandOK
    <3>2. \A p \in Mutator : CommandOK(p)'
      BY <3>1, Unmoved
    <3> QED BY <3>2 DEF MutatorInv, CommandOK
  <2>4. RepairInv'
    BY RepairUnmoved DEF RepairInv
  <2> QED BY <2>1, <2>2, <2>3, <2>4 DEF DamageInv
<1> QED BY <1>1, <1>2, <1>3

\* What a process has seen since it took the storage lock holds, damage or not.
THEOREM Damaged == CorruptibleSpec => []DamageInv
<1>1. Init => DamageInv
  <2> SUFFICES ASSUME Init PROVE DamageInv
    OBVIOUS
  <2>1. TypeOK /\ StorageLockInv /\ MutatorInv
    BY InductiveInit DEF IInv
  <2>2. RepairInv
    BY RepairIdle DEF Init, RepairInv, Process
  <2> QED BY <2>1, <2>2 DEF DamageInv
<1> QED BY <1>1, DamageNext, PTL DEF CorruptibleSpec

\* Before repair looks for what else is wrong, every container that records a
\* canonical digest can be run again (RepairRestoresContainers).
THEOREM RepairRestores == CorruptibleSpec => []RepairRestoresContainers
<1>1. DamageInv => RepairRestoresContainers
  <2> SUFFICES ASSUME DamageInv, NEW p \in Mutator,
                      pc[p] = "repair", job[p].targets = {}
               PROVE  ContainersResolve
    BY DEF RepairRestoresContainers
  <2>1. job[p].op = "repair" /\ RepairOK(p)
    BY DEF DamageInv, MutatorInv, JobOK, Operation, RepairInv
  <2>2. Repaired(p) = Installed
    BY DEF Repaired, FetchPc
  <2> QED BY <2>1, <2>2 DEF RepairOK, ContainersResolve
<1> QED BY <1>1, Damaged, PTL

\* What a prune keeps is in use, so where every container can be run, the check
\* of repair has nothing left to complain of (PruneClearsWhatRepairReports).
THEOREM PruneFinishesRepair ==
  CorruptibleSpec => []PruneClearsWhatRepairReports
<1>1. DamageInv => PruneClearsWhatRepairReports
  <2> SUFFICES ASSUME DamageInv, NEW p \in Mutator,
                      pc[p] = "done", job[p].op = "prune",
                      \A c \in Installed :
                        ManifestIsSound(containers[c].manifest_digest)
               PROVE  SavedManifestsAreComplete
    BY DEF PruneClearsWhatRepairReports
  <2>1. /\ scan[p].manifests = {containers[c].manifest_digest : c \in Installed}
        /\ \A d \in Digest : manifests[d] # None => d \in scan[p].manifests
    BY DEF DamageInv, MutatorInv, ScanOK
  <2> QED BY <2>1 DEF SavedManifestsAreComplete
<1> QED BY <1>1, Damaged, PTL

------------------------------------------------------------------------------
(***************************************************************************)
(* Pakstak implements ImageStore.  Under the invariant an image is stored  *)
(* exactly when its manifest is saved, so the only steps the image store   *)
(* sees are those that write a manifest, remove one, or change what a      *)
(* container records.                                                      *)
(***************************************************************************)

\* The abstract state, and a step that changes at most that much of it.
current == [c \in Container |-> ImageOf(c)]

AbstractStep == [Abstract!Next]_<<StoredImages, current>>

\* Whatever saves a manifest has saved a whole image.
LEMMA StoredIsSaved ==
  ASSUME SavedManifestsAreComplete
  PROVE  StoredImages = {d \in CanonicalDigest : manifests[d] # None}
BY RegistryAssumption
   DEF StoredImages, CanonicalDigest, SavedManifestsAreComplete, ManifestIsSound

\* The same in the next state.
LEMMA StoredIsSavedNext ==
  ASSUME SavedManifestsAreComplete'
  PROVE  StoredImages' = {d \in CanonicalDigest : manifests'[d] # None}
BY RegistryAssumption
   DEF StoredImages, CanonicalDigest, SavedManifestsAreComplete, ManifestIsSound

\* Steps that leave manifests and containers alone are invisible.
LEMMA Invisible ==
  ASSUME SavedManifestsAreComplete, SavedManifestsAreComplete',
         UNCHANGED <<manifests, containers>>
  PROVE  AbstractStep
<1>1. UNCHANGED StoredImages
  BY StoredIsSaved, StoredIsSavedNext
<1>2. UNCHANGED current
  BY DEF current, ImageOf, Installed
<1> QED BY <1>1, <1>2 DEF AbstractStep

\* A container that records another digest uses its image, or forgets its own
\* when the digest is not canonical.
LEMMA RecordDigest ==
  ASSUME SavedManifestsAreComplete, SavedManifestsAreComplete',
         UNCHANGED manifests, NEW c0 \in Container, NEW d \in Digest,
         Canonical(d) => manifests[d] # None,
         \A c \in Container : c # c0 => containers'[c] = containers[c],
         containers'[c0].manifest_digest = d
  PROVE  AbstractStep
<1>1. UNCHANGED StoredImages
  BY StoredIsSaved, StoredIsSavedNext
<1>2. \A c \in Container : c # c0 => ImageOf(c)' = ImageOf(c)
  BY DEF ImageOf, Installed
<1>3. current' = [current EXCEPT ![c0] = ImageOf(c0)']
  BY <1>2 DEF current
<1>4. CASE ImageOf(c0)' = None
  <2>1. Abstract!Forget(c0)
    BY <1>1, <1>3, <1>4 DEF Abstract!Forget, current
  <2> QED BY <2>1 DEF AbstractStep, Abstract!Next
<1>5. CASE ImageOf(c0)' # None
  <2>1. ImageOf(c0)' = d /\ d \in CanonicalDigest
    BY <1>5 DEF ImageOf
  <2>2. d \in StoredImages
    BY <2>1, StoredIsSaved DEF CanonicalDigest
  <2>3. Abstract!Use(c0, d)
    BY <1>1, <1>3, <2>1, <2>2 DEF Abstract!Use, current
  <2> QED BY <2>1, <2>3 DEF AbstractStep, Abstract!Next
<1> QED BY <1>4, <1>5

\* The commands, between their fetches, are seen only when they publish.
LEMMA CommandImage ==
  ASSUME TypeOK, SavedManifestsAreComplete, SavedManifestsAreComplete',
         NEW p \in Mutator, CommandOK(p), CommandStep(p)
  PROVE  AbstractStep
<1>t. /\ StorageTypeOK /\ job[p] \in JobRecord
      /\ JobOK(p) /\ FetchOK(p)
  BY DEF TypeOK, CommandsTypeOK, CommandOK
<1> USE DEF disk, published
<1>1. CASE PublishInstall(p)
  <2>1. /\ job[p].container \in Container
        /\ fetch[p].fetched.digest \in Digest
        /\ manifests[fetch[p].fetched.digest] # None
    BY <1>t, <1>1 DEF PublishInstall, JobOK, FetchOK, FetchPc, FetchedManifest
  <2>2. /\ \A c \in Container : c # job[p].container => containers'[c] = containers[c]
        /\ containers'[job[p].container].manifest_digest = fetch[p].fetched.digest
        /\ UNCHANGED manifests
    BY <1>t, <1>1, <2>1 DEF PublishInstall, StorageTypeOK
  <2> QED BY <2>1, <2>2, RecordDigest
<1>2. CASE PublishUpdate(p)
  <2>1. /\ job[p].container \in Installed
        /\ fetch[p].fetched.digest \in Digest
        /\ manifests[fetch[p].fetched.digest] # None
    BY <1>t, <1>2 DEF PublishUpdate, JobOK, FetchOK, FetchPc, FetchedManifest
  <2>2. /\ \A c \in Container : c # job[p].container => containers'[c] = containers[c]
        /\ containers'[job[p].container].manifest_digest = fetch[p].fetched.digest
        /\ UNCHANGED manifests
    BY <1>t, <1>2, <2>1 DEF PublishUpdate, StorageTypeOK, Installed, ContainerRecord
  <2> QED BY <2>1, <2>2, RecordDigest DEF Installed
<1>3. CASE PublishSwitch(p)
  <2>1. /\ job[p].container \in Installed
        /\ job[p].reference \in Digest
        /\ fetch[p].reference = job[p].reference
        /\ manifests[fetch[p].fetched.digest] # None
        /\ Canonical(job[p].reference) => fetch[p].fetched.digest = job[p].reference
    BY <1>t, <1>3 DEF PublishSwitch, JobOK, FetchOK, FetchPc
  <2>2. /\ \A c \in Container : c # job[p].container => containers'[c] = containers[c]
        /\ containers'[job[p].container].manifest_digest = job[p].reference
        /\ UNCHANGED manifests
    BY <1>t, <1>3, <2>1 DEF PublishSwitch, StorageTypeOK, Installed, ContainerRecord
  <2> QED BY <2>1, <2>2, RecordDigest DEF Installed
<1>4. CASE Uninstall(p)
  <2>1. ASSUME NEW c0 \in Installed, c0 = job[p].container PROVE AbstractStep
    <3>1. /\ UNCHANGED manifests
          /\ c0 \in Container
          /\ containers' = [containers EXCEPT ![c0] = None]
      BY <1>4, <2>1 DEF Uninstall, Installed
    <3>2. /\ c0 \notin Installed'
          /\ \A c \in Container : c # c0 => containers'[c] = containers[c]
      BY <1>t, <3>1 DEF StorageTypeOK, Installed
    <3>3. UNCHANGED StoredImages
      BY <3>1, StoredIsSaved, StoredIsSavedNext
    <3>4. current' = [current EXCEPT ![c0] = None]
      <4>1. ImageOf(c0)' = None
        BY <3>2 DEF ImageOf
      <4>2. \A c \in Container : c # c0 => ImageOf(c)' = ImageOf(c)
        BY <3>1, <3>2 DEF ImageOf, Installed
      <4> QED BY <4>1, <4>2 DEF current
    <3>5. Abstract!Forget(c0)
      BY <3>3, <3>4 DEF Abstract!Forget, current
    <3> QED BY <3>1, <3>5 DEF AbstractStep, Abstract!Next
  <2>2. CASE job[p].container \notin Installed
    BY <1>4, <2>2, Invisible DEF Uninstall, Return
  <2> QED BY <2>1, <2>2
<1>5. CASE Install(p) \/ UpdateNext(p) \/ UpdateDone(p) \/ Switch(p)
  BY <1>5, Invisible DEF Install, UpdateNext, UpdateDone, Switch, Return
<1>6. CASE RepairNext(p) \/ RepairFetched(p) \/ CheckStorage(p)
  BY <1>6, Invisible DEF RepairNext, RepairFetched, CheckStorage, Return
<1> QED BY <1>1, <1>2, <1>3, <1>4, <1>5, <1>6 DEF CommandStep

\* A fetch is seen when it writes a manifest: Store.
LEMMA FetchImage ==
  ASSUME TypeOK, SavedManifestsAreComplete, SavedManifestsAreComplete',
         NEW p \in Mutator, CommandOK(p), FetchStep(p)
  PROVE  AbstractStep
<1>t. StorageTypeOK /\ FetchOK(p)
  BY DEF TypeOK, CommandOK
<1> USE DEF disk, published
<1>1. CASE WriteManifest(p) /\ ~fetch[p].saved
  <2> DEFINE d == fetch[p].fetched.digest
             b == fetch[p].fetched.bytes
  <2>1. /\ UNCHANGED containers
        /\ manifests' = [manifests EXCEPT ![d] = b]
        /\ d \in Digest /\ b \in ImageManifest
    BY <1>t, <1>1 DEF WriteManifest, FetchOK, FetchedManifest
  <2>2. b # None
    BY <2>1, RegistryAssumption
  <2>3. \A e \in Digest : manifests'[e] # None <=> manifests[e] # None \/ e = d
    BY <1>t, <2>1, <2>2 DEF StorageTypeOK
  <2>4. UNCHANGED current
    BY <2>1 DEF current, ImageOf, Installed
  <2>5. CASE d \in CanonicalDigest
    <3>1. StoredImages' = StoredImages \cup {d}
      BY <2>3, <2>5, StoredIsSaved, StoredIsSavedNext DEF CanonicalDigest
    <3>2. Abstract!Store(d)
      BY <2>4, <3>1 DEF Abstract!Store, current
    <3> QED BY <2>5, <3>2 DEF AbstractStep, Abstract!Next
  <2>6. CASE d \notin CanonicalDigest
    <3>1. UNCHANGED StoredImages
      BY <2>3, <2>6, StoredIsSaved, StoredIsSavedNext DEF CanonicalDigest
    <3> QED BY <2>4, <3>1 DEF AbstractStep
  <2> QED BY <2>5, <2>6
<1>2. CASE WriteManifest(p) /\ fetch[p].saved
  BY <1>2, Invisible DEF WriteManifest
<1>3. CASE FetchManifest(p) \/ SkipLayer(p) \/ StageLayer(p) \/ FinishLayer(p)
           \/ DiscardLayer(p)
  BY <1>3, Invisible
     DEF FetchManifest, SkipLayer, StageLayer, FinishLayer, DiscardLayer
<1> QED BY <1>1, <1>2, <1>3 DEF FetchStep

\* A prune is seen when it removes a manifest, which no container names: Discard.
LEMMA PruneImage ==
  ASSUME TypeOK, SavedManifestsAreComplete, SavedManifestsAreComplete',
         NEW p \in Mutator, CommandOK(p), PruneStep(p)
  PROVE  AbstractStep
<1>t. StorageTypeOK /\ ScanOK(p)
  BY DEF TypeOK, CommandOK
<1> USE DEF disk, published
<1>1. CASE PruneManifest(p)
  <2>1. PICK d \in UnusedManifests(p) : manifests' = [manifests EXCEPT ![d] = None]
    BY <1>1 DEF PruneManifest
  <2>2. /\ UNCHANGED containers
        /\ d \in Digest /\ d \notin scan[p].manifests
        /\ scan[p].manifests = {containers[c].manifest_digest : c \in Installed}
    BY <1>t, <1>1, <2>1 DEF PruneManifest, UnusedManifests, ScanOK, PrunePc
  <2>3. \A e \in Digest : manifests'[e] # None <=> manifests[e] # None /\ e # d
    BY <1>t, <2>1, <2>2 DEF StorageTypeOK
  <2>4. UNCHANGED current
    BY <2>2 DEF current, ImageOf, Installed
  <2>5. \A c \in Container : current[c] # d
    BY <2>2, RegistryAssumption DEF current, ImageOf
  <2>6. CASE d \in CanonicalDigest
    <3>1. StoredImages' = StoredImages \ {d}
      BY <2>3, <2>6, StoredIsSaved, StoredIsSavedNext DEF CanonicalDigest
    <3>2. Abstract!Discard(d)
      BY <2>4, <2>5, <3>1 DEF Abstract!Discard, current
    <3> QED BY <2>6, <3>2 DEF AbstractStep, Abstract!Next
  <2>7. CASE d \notin CanonicalDigest
    <3>1. UNCHANGED StoredImages
      BY <2>3, <2>7, StoredIsSaved, StoredIsSavedNext DEF CanonicalDigest
    <3> QED BY <2>4, <3>1 DEF AbstractStep
  <2> QED BY <2>6, <2>7
<1>2. CASE ReadUsed(p) \/ ListLayers(p) \/ KeepLayer(p) \/ LockLayer(p)
  BY <1>2, Invisible DEF ReadUsed, ListLayers, KeepLayer, LockLayer
<1>3. CASE SkipLockedLayer(p) \/ LockLayerError(p) \/ RemoveLayer(p)
           \/ RemoveLock(p) \/ RemoveLayerError(p)
  BY <1>3, Invisible DEF SkipLockedLayer, LockLayerError, RemoveLayer, RemoveLock,
     RemoveLayerError
<1>4. CASE ListLocks(p) \/ CleanupLock(p) \/ KeepLock(p) \/ CleanupLockError(p)
           \/ PruneDone(p)
  BY <1>4, Invisible
     DEF ListLocks, CleanupLock, KeepLock, CleanupLockError, PruneDone
<1> QED BY <1>1, <1>2, <1>3, <1>4 DEF PruneStep, PruneWork, PruneError

-----------------------------------------------------------------------------
\* An empty storage is an empty image store.
LEMMA AbstractInit == Init => Abstract!Init
BY RegistryAssumption
   DEF Init, StorageInit, Abstract!Init, StoredImages, CanonicalDigest,
       ManifestIsSound, ImageOf, Installed

\* Every step is one of the image store or invisible to it.
LEMMA AbstractNext ==
  ASSUME IInv, IInv', [Next]_vars
  PROVE  AbstractStep
<1>0. /\ TypeOK /\ SavedManifestsAreComplete /\ SavedManifestsAreComplete'
      /\ \A p \in Mutator : CommandOK(p)
  BY DEF IInv, StorageInv, MutatorInv, CommandOK
<1>1. ASSUME NEW p \in Mutator, MutatorStep(p) PROVE AbstractStep
  <2>1. CASE Open(p) \/ Leave(p)
    BY <1>0, <2>1, OpenLeaveStorage, Invisible DEF published
  <2>2. CASE InnerStep(p)
    BY <1>0, <2>2, CommandImage, FetchImage, PruneImage DEF InnerStep
  <2> QED BY <1>1, <2>1, <2>2, MutatorKinds
<1>2. ASSUME NEW r \in Runner, RunnerStep(r) PROVE AbstractStep
  BY <1>0, <1>2, RunnerStorage, Invisible DEF published
<1>3. CASE UNCHANGED vars
  BY <1>0, <1>3, Invisible DEF vars, disk
<1> QED BY <1>1, <1>2, <1>3 DEF Next

\* Pakstak implements ImageStore: images appear and vanish as a whole, only a
\* stored image is given to a container, and it stays while it is in use.
THEOREM Implementation == Spec => ImplementsImageStore
<1>1. IInv /\ IInv' /\ [Next]_vars =>
        [Abstract!Next]_<<StoredImages, [c \in Container |-> ImageOf(c)]>>
  BY AbstractNext DEF AbstractStep, current
<1> QED BY <1>1, AbstractInit, Inductive, PTL
        DEF Spec, ImplementsImageStore, Abstract!Spec
==============================================================================
