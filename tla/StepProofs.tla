----------------------------- MODULE StepProofs ------------------------------
(***************************************************************************)
(* The steps of commands and runs: what each of them leaves of types and   *)
(* locks, and of what the commands know at their program points.           *)
(***************************************************************************)
EXTENDS Inductive, TLAPS

------------------------------------------------------------------------------
(***************************************************************************)
(* Type correctness, and the locks: a step from a state of the inductive   *)
(* invariant ends in a state whose variables have their types and whose    *)
(* locks exclude each other.                                               *)
(***************************************************************************)

\* What fetch_image_manifest hands on has a digest that its bytes hash to, and
\* it is the requested digest when that one is canonical.
LEMMA FetchedFacts ==
  ASSUME NEW s \in Specifier, NEW m \in FetchImageManifest(s)
  PROVE  /\ m \in FetchedManifest
         /\ Verifies(m.bytes, m.digest)
         /\ s \in Digest /\ Canonical(s) => m.digest = s
<1>1. \A x : FetchManifestBytes(x) \subseteq [bytes : Blob, digest : Digest]
  BY DEF FetchManifestBytes
<1>2. \A x : \A r \in FetchManifestBytes(x) : Verifies(r.bytes, r.digest)
  BY DEF FetchManifestBytes
<1>3. m \in FetchedManifest /\ Verifies(m.bytes, m.digest)
  BY <1>1, <1>2 DEF FetchImageManifest, FetchedManifest
<1>4. ASSUME s \in Digest, Canonical(s) PROVE m.digest = s
  <2>1. \A r \in FetchManifestBytes(s) : r.bytes = Denotes[s] /\ r.digest = s
    BY <1>1, <1>2, <1>4 DEF FetchManifestBytes, Verifies, Canonical
  <2>2. {r.bytes : r \in FetchManifestBytes(s)} \cap ImageIndex = {}
    BY <1>4, <2>1 DEF Canonical
  <2>3. m \in FetchManifestBytes(s)
    BY <2>2 DEF FetchImageManifest
  <2> QED BY <2>1, <2>3
<1> QED BY <1>3, <1>4

\* The layers of an image manifest are layers.
LEMMA LayerFacts ==
  ASSUME NEW m \in ImageManifest
  PROVE  /\ Len(LayersOf[m]) \in Nat
         /\ \A i \in 1..Len(LayersOf[m]) : LayersOf[m][i] \in Layer
         /\ LayerSet(m) \subseteq Layer
BY RegistryAssumption DEF LayerSet

\* The initial values have their types.
LEMMA TypeInit == Init => TypeOK
BY ProcessAssumption
   DEF Init, TypeOK, StorageInit, StorageTypeOK, CommandsInit, CommandsTypeOK,
       SandboxInit, SandboxTypeOK, FetchInit, FetchTypeOK, FetchRecord, NoFetch,
       PruneInit, PruneTypeOK, ScanRecord, NoScan, JobRecord, NoJob, BoxRecord,
       NoBox, LayerState, MutatorPc, RunnerPc, Process

-----------------------------------------------------------------------------
\* The program counters have their types.
PcTypeOK ==
  /\ DOMAIN pc = Process
  /\ \A p \in Mutator : pc[p] \in MutatorPc
  /\ \A r \in Runner : pc[r] \in RunnerPc

\* A mutator stays at a program point of a mutator.
LEMMA PcTypeMutator ==
  ASSUME PcTypeOK, NEW p \in Mutator, NEW v \in MutatorPc,
         pc' = [pc EXCEPT ![p] = v]
  PROVE  PcTypeOK'
BY ProcessAssumption DEF PcTypeOK, Process

\* The same for a runner.
LEMMA PcTypeRunner ==
  ASSUME PcTypeOK, NEW r \in Runner, NEW v \in RunnerPc,
         pc' = [pc EXCEPT ![r] = v]
  PROVE  PcTypeOK'
BY ProcessAssumption DEF PcTypeOK, Process

\* The steps of fetch_image keep every type.
LEMMA TypeFetchStep ==
  ASSUME TypeOK, MutatorInv, NEW p \in Mutator, FetchStep(p)
  PROVE  FetchTypeOK' /\ StorageTypeOK' /\ PcTypeOK'
<1>t. FetchTypeOK /\ StorageTypeOK /\ PcTypeOK
  BY DEF TypeOK, CommandsTypeOK, PcTypeOK
<1>0. /\ pc[p] = "fetch_manifest" => fetch[p].reference \in Specifier
      /\ pc[p] \in {"fetch_layers", "extract_layer"} =>
           /\ fetch[p].fetched \in FetchedManifest
           /\ fetch[p].next \in Nat \ {0}
      /\ pc[p] = "extract_layer" => fetch[p].next <= Len(LayerList(p))
  BY LayerFacts DEF MutatorInv, JobOK, FetchOK, FetchPc, LayerList, FetchedManifest
<1>1. pc[p] \in {"fetch_layers", "extract_layer"}
        /\ fetch[p].next <= Len(LayerList(p)) => CurrentLayer(p) \in Layer
  BY <1>0, LayerFacts DEF LayerList, CurrentLayer, FetchedManifest
<1> USE DEF FetchTypeOK, FetchRecord
<1>2. CASE FetchManifest(p)
  <2> PICK m \in FetchImageManifest(fetch[p].reference) :
             fetch' = [fetch EXCEPT ![p] =
                         [@ EXCEPT !.fetched = m,
                                   !.saved = IsManifestSaved(m.digest, fetch[p].repair),
                                   !.next = 1]]
    BY <1>2 DEF FetchManifest
  <2>1. m \in FetchedManifest
    BY <1>0, <1>2, FetchedFacts DEF FetchManifest
  <2>2. FetchTypeOK'
    BY ZenonT(60), <1>t, <2>1 DEF IsManifestSaved
  <2>3. StorageTypeOK'
    BY <1>t, <1>2 DEF FetchManifest, StorageTypeOK, disk, published, locks, mounts
  <2>4. PcTypeOK'
    BY <1>t, <1>2, PcTypeMutator DEF FetchManifest, MutatorPc
  <2> QED BY <2>2, <2>3, <2>4
<1>3. CASE SkipLayer(p)
  <2>0. fetch' = [fetch EXCEPT ![p].next = @ + 1]
    BY <1>3 DEF SkipLayer
  <2>1. FetchTypeOK'
    BY <1>t, <2>0
  <2>2. StorageTypeOK' /\ PcTypeOK'
    BY <1>t, <1>3
       DEF SkipLayer, StorageTypeOK, PcTypeOK, disk, published, locks, mounts
  <2> QED BY <2>1, <2>2
<1>4. CASE StageLayer(p)
  <2>1. FetchTypeOK'
    BY ZenonT(60), <1>t, <1>4 DEF StageLayer
  <2>2. StorageTypeOK'
    BY <1>t, <1>1, <1>4 DEF StageLayer, StorageTypeOK, published, locks, mounts
  <2>3. PcTypeOK'
    BY <1>t, <1>4, PcTypeMutator DEF StageLayer, MutatorPc
  <2> QED BY <2>1, <2>2, <2>3
<1>5. CASE FinishLayer(p)
  <2>1. FetchTypeOK'
    BY <1>t, <1>5 DEF FinishLayer
  <2>2. StorageTypeOK'
    BY <1>t, <1>1, <1>5
       DEF FinishLayer, PublishLayer, LayerState, StorageTypeOK, locks, mounts
  <2>3. PcTypeOK'
    BY <1>t, <1>5, PcTypeMutator DEF FinishLayer, MutatorPc
  <2> QED BY <2>1, <2>2, <2>3
<1>6. CASE DiscardLayer(p)
  <2>1. FetchTypeOK' /\ StorageTypeOK'
    BY <1>t, <1>6 DEF DiscardLayer, StorageTypeOK, published, locks, mounts
  <2>2. PcTypeOK'
    BY <1>t, <1>6, PcTypeMutator DEF DiscardLayer, MutatorPc
  <2> QED BY <2>1, <2>2
<1>7. CASE WriteManifest(p)
  <2>1. FetchTypeOK'
    BY <1>t, <1>7 DEF WriteManifest
  <2>2. StorageTypeOK'
    BY <1>t, <1>0, <1>7, RegistryAssumption
       DEF WriteManifest, FetchedManifest, StorageTypeOK, locks, mounts
  <2>3. PcTypeOK'
    BY <1>t, <1>7, PcTypeMutator DEF WriteManifest, MutatorPc
  <2> QED BY <2>1, <2>2, <2>3
<1> QED BY <1>2, <1>3, <1>4, <1>5, <1>6, <1>7 DEF FetchStep

\* The steps of prune keep every type.
LEMMA TypePruneStep ==
  ASSUME TypeOK, MutatorInv, NEW p \in Mutator, PruneStep(p)
  PROVE  PruneTypeOK' /\ StorageTypeOK' /\ PcTypeOK'
<1>t. PruneTypeOK /\ StorageTypeOK /\ PcTypeOK
  BY DEF TypeOK, CommandsTypeOK, PcTypeOK
<1>0. pc[p] \in {"remove_layer", "remove_lock"} => scan[p].layer \in Layer
  BY DEF MutatorInv, ScanOK
<1>1. scan[p] \in ScanRecord
  BY <1>t DEF PruneTypeOK
<1> USE DEF PruneTypeOK, ScanRecord
<1>2. CASE ReadUsed(p)
  <2> DEFINE used == {containers[c].manifest_digest : c \in Installed}
  <2>1. used \subseteq Digest
    BY <1>t DEF Installed, StorageTypeOK, ContainerRecord
  <2>2. (\A d \in used : IsManifestReadable(d)) =>
          UNION {LayerSet(manifests[d]) : d \in used} \subseteq Layer
    BY LayerFacts DEF IsManifestReadable
  <2>3. PruneTypeOK'
    BY <1>t, <1>2, <2>1, <2>2 DEF ReadUsed
  <2>4. StorageTypeOK'
    BY <1>t, <1>2 DEF ReadUsed, StorageTypeOK, disk, published, locks, mounts
  <2>5. PcTypeOK'
    BY <1>t, <1>2, PcTypeMutator DEF ReadUsed, MutatorPc
  <2> QED BY <2>3, <2>4, <2>5
<1>3. CASE PruneManifest(p)
  BY <1>t, <1>3 DEF PruneManifest, PcTypeOK, StorageTypeOK, locks, mounts
<1>4. CASE ListLayers(p)
  <2>1. PresentLayers \subseteq Layer
    BY DEF PresentLayers
  <2>0. scan' = [scan EXCEPT ![p].todo = PresentLayers]
    BY <1>4 DEF ListLayers
  <2>2. PruneTypeOK'
    BY <1>t, <2>0, <2>1
  <2>4. StorageTypeOK'
    BY <1>t, <1>4
       DEF ListLayers, StorageTypeOK, disk, published, locks, mounts
  <2>3. PcTypeOK'
    BY <1>t, <1>4, PcTypeMutator DEF ListLayers, MutatorPc
  <2> QED BY <2>2, <2>3, <2>4
<1>5. CASE KeepLayer(p)
  <2>1. PICK l \in Layer : scan' = [scan EXCEPT ![p].todo = @ \ {l}]
    BY <1>1, <1>5 DEF KeepLayer
  <2>2. PruneTypeOK'
    BY <1>t, <2>1
  <2>3. StorageTypeOK' /\ PcTypeOK'
    BY <1>t, <1>5
       DEF KeepLayer, StorageTypeOK, PcTypeOK, disk, published, locks, mounts
  <2> QED BY <2>2, <2>3
<1>6. CASE LockLayer(p)
  <2>1. PruneTypeOK'
    <3>1. PICK l \in Layer :
                 scan' = [scan EXCEPT ![p].todo = @ \ {l}, ![p].layer = l]
      BY <1>6 DEF LockLayer
    <3> QED BY ZenonT(60), <1>t, <3>1
  <2>2. StorageTypeOK'
    BY <1>t, <1>6
       DEF LockLayer, LockLayerForPrune, StorageTypeOK, published, mounts
  <2>3. PcTypeOK'
    BY <1>t, <1>6, PcTypeMutator DEF LockLayer, MutatorPc
  <2> QED BY <2>1, <2>2, <2>3
<1>7. CASE SkipLockedLayer(p)
  <2>1. PruneTypeOK'
    <3>1. PICK l \in Layer :
                 scan' = [scan EXCEPT ![p].todo = @ \ {l}, ![p].kept = @ \cup {l}]
      BY <1>7 DEF SkipLockedLayer
    <3> QED BY ZenonT(60), <1>t, <3>1
  <2>2. StorageTypeOK' /\ PcTypeOK'
    BY <1>t, <1>7
       DEF SkipLockedLayer, StorageTypeOK, PcTypeOK, published, locks, mounts
  <2> QED BY <2>1, <2>2
<1>8. CASE LockLayerError(p)
  <2>1. PruneTypeOK'
    <3>1. PICK l \in Layer :
                 scan' = [scan EXCEPT ![p].todo = @ \ {l}, ![p].kept = @ \cup {l}]
      BY <1>8 DEF LockLayerError
    <3> QED BY ZenonT(60), <1>t, <3>1
  <2>2. StorageTypeOK' /\ PcTypeOK'
    BY <1>t, <1>8
       DEF LockLayerError, StorageTypeOK, PcTypeOK, published, locks, mounts
  <2> QED BY <2>1, <2>2
<1>9. CASE RemoveLayer(p)
  <2>1. PruneTypeOK' /\ StorageTypeOK'
    BY <1>t, <1>0, <1>9
       DEF RemoveLayer, MoveLayerAway, StorageTypeOK, LayerState, locks
  <2>2. PcTypeOK'
    BY <1>t, <1>9, PcTypeMutator DEF RemoveLayer, MutatorPc
  <2> QED BY <2>1, <2>2
<1>10. CASE RemoveLock(p)
  <2>1. PruneTypeOK'
    BY <1>t, <1>1, <1>10 DEF RemoveLock
  <2>2. StorageTypeOK'
    BY <1>t, <1>0, <1>10 DEF RemoveLock, RemoveLockFile, StorageTypeOK, published
  <2>3. PcTypeOK'
    BY <1>t, <1>10, PcTypeMutator DEF RemoveLock, MutatorPc
  <2> QED BY <2>1, <2>2, <2>3
<1>11. CASE RemoveLayerError(p)
  <2>1. PruneTypeOK'
    BY <1>t, <1>0, <1>1, <1>11 DEF RemoveLayerError
  <2>2. StorageTypeOK'
    BY <1>t, <1>0, <1>11 DEF RemoveLayerError, StorageTypeOK, published, mounts
  <2>3. PcTypeOK'
    BY <1>t, <1>11, PcTypeMutator DEF RemoveLayerError, MutatorPc
  <2> QED BY <2>1, <2>2, <2>3
<1>12. CASE ListLocks(p)
  <2>0. scan' = [scan EXCEPT ![p].todo = lockFiles] /\ lockFiles \subseteq Layer
    BY <1>t, <1>12 DEF ListLocks, StorageTypeOK
  <2>1. PruneTypeOK'
    BY <1>t, <2>0
  <2>2. StorageTypeOK'
    BY <1>t, <1>12 DEF ListLocks, StorageTypeOK, disk, published, locks, mounts
  <2>3. PcTypeOK'
    BY <1>t, <1>12, PcTypeMutator DEF ListLocks, MutatorPc
  <2> QED BY <2>1, <2>2, <2>3
<1>13. CASE CleanupLock(p)
  <2>1. PruneTypeOK'
    BY <1>t, <1>1, <1>13 DEF CleanupLock
  <2>2. StorageTypeOK' /\ PcTypeOK'
    BY <1>t, <1>1, <1>13
       DEF CleanupLock, RemoveLockFile, StorageTypeOK, PcTypeOK, published
  <2> QED BY <2>1, <2>2
<1>14. CASE KeepLock(p) \/ CleanupLockError(p)
  <2>1. PruneTypeOK'
    BY <1>t, <1>1, <1>14 DEF KeepLock, CleanupLockError
  <2>2. StorageTypeOK' /\ PcTypeOK'
    BY <1>t, <1>14 DEF KeepLock, CleanupLockError, StorageTypeOK, PcTypeOK,
                       disk, published, locks, mounts
  <2> QED BY <2>1, <2>2
<1>15. CASE PruneDone(p)
  <2>1. PruneTypeOK' /\ StorageTypeOK'
    BY <1>t, <1>15
       DEF PruneDone, StorageTypeOK, disk, published, locks, mounts
  <2>2. PcTypeOK'
    BY <1>t, <1>15, PcTypeMutator DEF PruneDone, MutatorPc
  <2> QED BY <2>1, <2>2
<1> QED
  BY <1>2, <1>3, <1>4, <1>5, <1>6, <1>7, <1>8, <1>9, <1>10, <1>11, <1>12, <1>13,
     <1>14, <1>15
     DEF PruneStep, PruneWork, PruneError

\* The command lines that main accepts.
LEMMA JobFacts ==
  /\ \A c \in Container, r \in Specifier :
       LET j == [NoJob EXCEPT !.op = "install", !.container = c, !.reference = r]
       IN  j \in JobRecord /\ j.op \in Operation
  /\ \A cs \in SUBSET Container :
       LET j == [NoJob EXCEPT !.op = "update", !.targets = cs]
       IN  j \in JobRecord /\ j.op \in Operation
  /\ \A c \in Container, d \in Digest :
       LET j == [NoJob EXCEPT !.op = "switch", !.container = c, !.reference = d]
       IN  j \in JobRecord /\ j.op \in Operation
  /\ \A c \in Container :
       LET j == [NoJob EXCEPT !.op = "uninstall", !.container = c]
       IN  j \in JobRecord /\ j.op \in Operation
  /\ LET j == [NoJob EXCEPT !.op = "repair", !.targets = Installed]
     IN  j \in JobRecord /\ j.op \in Operation
  /\ LET j == [NoJob EXCEPT !.op = "prune"]
     IN  j \in JobRecord /\ j.op \in Operation
  /\ Installed \subseteq Container
BY DEF NoJob, JobRecord, Operation, Specifier, Installed

\* Starting a command keeps every type.
LEMMA TypeOpen ==
  ASSUME TypeOK, NEW p \in Mutator, Open(p)
  PROVE  CommandsTypeOK' /\ StorageTypeOK' /\ PcTypeOK'
<1>t. CommandsTypeOK /\ StorageTypeOK /\ PcTypeOK
  BY DEF TypeOK, PcTypeOK
<1>1. PICK j \in JobRecord : Start(p, j) /\ j.op \in Operation
  BY JobFacts DEF Open
<1>3. CommandsTypeOK'
  BY <1>t, <1>1 DEF Start, CommandsTypeOK, FetchTypeOK, PruneTypeOK
<1>4. StorageTypeOK'
  BY <1>t, <1>1
     DEF Start, OpenMutable, TryLockExclusive, StorageTypeOK, published, mounts
<1>5. PcTypeOK'
  BY <1>t, <1>1, PcTypeMutator DEF Start, MutatorPc
<1> QED BY <1>3, <1>4, <1>5

\* The end of a command keeps every type.
LEMMA TypeLeave ==
  ASSUME TypeOK, NEW p \in Mutator, Leave(p)
  PROVE  CommandsTypeOK' /\ StorageTypeOK' /\ PcTypeOK'
<1>t. CommandsTypeOK /\ StorageTypeOK /\ PcTypeOK
  BY DEF TypeOK, PcTypeOK
<1>1. NoFetch \in FetchRecord /\ NoScan \in ScanRecord /\ NoJob \in JobRecord
  BY DEF NoFetch, FetchRecord, NoScan, ScanRecord, NoJob, JobRecord
<1>2. CommandsTypeOK'
  BY <1>t, <1>1 DEF Leave, CommandsTypeOK, FetchTypeOK, PruneTypeOK
<1>3. StorageTypeOK'
  BY <1>t DEF Leave, ReleaseMutable, StorageTypeOK, disk, published, mounts
<1>4. PcTypeOK'
  BY <1>t, PcTypeMutator DEF Leave, ReleaseMutable, MutatorPc
<1> QED BY <1>2, <1>3, <1>4

\* Entering fetch_image with a reference to an image.
LEMMA TypeBeginFetch ==
  ASSUME FetchTypeOK, PcTypeOK, NEW p \in Mutator, NEW s \in Specifier,
         NEW b \in BOOLEAN, BeginFetch(p, s, b)
  PROVE  FetchTypeOK' /\ PcTypeOK'
<1>1. [NoFetch EXCEPT !.reference = s, !.repair = b] \in FetchRecord
  BY DEF NoFetch, FetchRecord
<1>2. FetchTypeOK'
  BY <1>1 DEF BeginFetch, FetchTypeOK
<1>3. PcTypeOK'
  BY PcTypeMutator DEF BeginFetch, MutatorPc
<1> QED BY <1>2, <1>3

\* Returning from a command keeps every type.
LEMMA TypeReturn ==
  ASSUME TypeOK, NEW p \in Mutator, NEW v \in MutatorPc, Return(p, v)
  PROVE  CommandsTypeOK' /\ StorageTypeOK' /\ PcTypeOK'
<1>t. CommandsTypeOK /\ StorageTypeOK /\ PcTypeOK
  BY DEF TypeOK, PcTypeOK
<1>1. CommandsTypeOK' /\ StorageTypeOK'
  BY <1>t DEF Return, CommandsTypeOK, FetchTypeOK, PruneTypeOK, StorageTypeOK,
              disk, published, locks, mounts
<1>2. PcTypeOK'
  BY <1>t, PcTypeMutator DEF Return
<1> QED BY <1>1, <1>2

\* The other steps of the commands keep every type.
LEMMA TypeCommandStep ==
  ASSUME TypeOK, MutatorInv, NEW p \in Mutator, CommandStep(p)
  PROVE  CommandsTypeOK' /\ StorageTypeOK' /\ PcTypeOK'
<1>t. CommandsTypeOK /\ FetchTypeOK /\ StorageTypeOK /\ PcTypeOK
  BY DEF TypeOK, CommandsTypeOK, PcTypeOK
<1>0. /\ JobOK(p) /\ FetchOK(p)
      /\ job[p] \in JobRecord
      /\ {"failed", "done", "repair", "update"} \subseteq MutatorPc
  BY <1>t DEF MutatorInv, CommandsTypeOK, MutatorPc, Operation
<1>1. \A c \in Installed : containers[c] \in ContainerRecord
  BY <1>t DEF Installed, StorageTypeOK
<1>2. CASE Install(p)
  <2>1. CASE job[p].container \in Installed
    BY <1>0, <1>2, <2>1, TypeReturn DEF Install
  <2>2. CASE job[p].container \notin Installed
    <3>1. job[p].reference \in Specifier
      BY <1>0, <1>2 DEF Install, JobOK, Operation
    <3>2. FetchTypeOK' /\ PcTypeOK'
      BY <1>t, <1>2, <2>2, <3>1, TypeBeginFetch DEF Install
    <3> QED BY <1>t, <1>2, <2>2, <3>2
            DEF Install, CommandsTypeOK, PruneTypeOK, StorageTypeOK,
                disk, published, locks, mounts
  <2> QED BY <2>1, <2>2
<1>3. CASE PublishInstall(p)
  <2>1. /\ job[p].container \in Container
        /\ [manifest_digest |-> fetch[p].fetched.digest,
            reference |-> job[p].reference] \in ContainerRecord
    BY <1>0, <1>3
       DEF PublishInstall, JobOK, FetchOK, FetchedManifest, ContainerRecord
  <2>2. StorageTypeOK'
    BY <1>t, <1>3, <2>1 DEF PublishInstall, StorageTypeOK, locks, mounts
  <2>3. CommandsTypeOK' /\ PcTypeOK'
    BY <1>t, <1>0, <1>3, PcTypeMutator
       DEF PublishInstall, CommandsTypeOK, FetchTypeOK, PruneTypeOK
  <2> QED BY <2>2, <2>3
<1>4. CASE UpdateNext(p)
  <2> PICK c \in job[p].targets :
         IF c \in Installed
         THEN /\ BeginFetch(p, containers[c].reference, FALSE)
              /\ job' = [job EXCEPT ![p].container = c, ![p].targets = @ \ {c}]
              /\ UNCHANGED <<disk, locks, mounts, scan>>
         ELSE Return(p, "failed")
    BY <1>4 DEF UpdateNext
  <2>1. CASE c \in Installed
    <3>1. FetchTypeOK' /\ PcTypeOK'
      BY <1>t, <1>1, <2>1, TypeBeginFetch DEF ContainerRecord
    <3>2. c \in Container
      BY <2>1 DEF Installed
    <3>3. job' \in [Mutator -> JobRecord]
      BY <1>t, <2>1, <3>2 DEF CommandsTypeOK, JobRecord
    <3> QED BY <1>t, <2>1, <3>1, <3>3
            DEF CommandsTypeOK, PruneTypeOK, StorageTypeOK,
                disk, published, locks, mounts
  <2>2. CASE c \notin Installed
    BY <1>0, <2>2, TypeReturn
  <2> QED BY <2>1, <2>2
<1>5. CASE PublishUpdate(p) \/ PublishSwitch(p)
  <2>1. PICK d \in Digest :
          containers' = [containers EXCEPT ![job[p].container].manifest_digest = d]
    BY <1>0, <1>5
       DEF PublishUpdate, PublishSwitch, JobOK, FetchOK, FetchedManifest
  <2>2. job[p].container \in Installed
    BY <1>0, <1>5 DEF PublishUpdate, PublishSwitch, JobOK, FetchPc
  <2>3. containers' \in [Container -> ContainerRecord \cup {None}]
    BY <1>t, <1>1, <2>1, <2>2 DEF StorageTypeOK, ContainerRecord
  <2>4. StorageTypeOK' /\ CommandsTypeOK'
    BY <1>t, <1>5, <2>3
       DEF PublishUpdate, PublishSwitch, StorageTypeOK, CommandsTypeOK,
           FetchTypeOK, PruneTypeOK, locks, mounts
  <2>5. PcTypeOK'
    BY <1>t, <1>0, <1>5, PcTypeMutator DEF PublishUpdate, PublishSwitch
  <2> QED BY <2>4, <2>5
<1>6. CASE UpdateDone(p) \/ RepairFetched(p) \/ CheckStorage(p)
  BY <1>0, <1>6, TypeReturn DEF UpdateDone, RepairFetched, CheckStorage
<1>7. CASE Switch(p)
  <2>1. CASE job[p].container \notin Installed
    BY <1>0, <1>7, <2>1, TypeReturn DEF Switch
  <2>2. CASE job[p].container \in Installed
    <3>1. job[p].reference \in Specifier
      BY <1>0, <1>7 DEF Switch, JobOK, Operation, Specifier
    <3>2. FetchTypeOK' /\ PcTypeOK'
      BY <1>t, <1>7, <2>2, <3>1, TypeBeginFetch DEF Switch
    <3> QED BY <1>t, <1>7, <2>2, <3>2
            DEF Switch, CommandsTypeOK, PruneTypeOK, StorageTypeOK,
                disk, published, locks, mounts
  <2> QED BY <2>1, <2>2
<1>8. CASE Uninstall(p)
  <2>1. CASE job[p].container \notin Installed
    BY <1>0, <1>8, <2>1, TypeReturn DEF Uninstall
  <2>2. CASE job[p].container \in Installed
    <3>1. StorageTypeOK' /\ CommandsTypeOK'
      BY <1>t, <1>8, <2>2
         DEF Uninstall, StorageTypeOK, CommandsTypeOK, FetchTypeOK, PruneTypeOK,
             locks, mounts
    <3>2. PcTypeOK'
      BY <1>t, <1>0, <1>8, <2>2, PcTypeMutator DEF Uninstall
    <3> QED BY <3>1, <3>2
  <2> QED BY <2>1, <2>2
<1>9. CASE RepairNext(p)
  <2> PICK c \in job[p].targets :
         /\ BeginFetch(p, containers[c].manifest_digest, TRUE)
         /\ job' = [job EXCEPT ![p].container = c, ![p].targets = @ \ {c}]
    BY <1>9 DEF RepairNext
  <2>1. c \in Installed /\ c \in Container
    BY <1>0, <1>9 DEF RepairNext, JobOK, Operation, Installed
  <2>2. containers[c].manifest_digest \in Specifier
    BY <1>1, <2>1 DEF ContainerRecord, Specifier
  <2>3. FetchTypeOK' /\ PcTypeOK'
    BY <1>t, <2>2, TypeBeginFetch
  <2>4. job' \in [Mutator -> JobRecord]
    BY <1>t, <2>1 DEF CommandsTypeOK, JobRecord
  <2> QED BY <1>t, <1>9, <2>3, <2>4
          DEF RepairNext, CommandsTypeOK, PruneTypeOK, StorageTypeOK,
              disk, published, locks, mounts
<1> QED
  BY <1>2, <1>3, <1>4, <1>5, <1>6, <1>7, <1>8, <1>9 DEF CommandStep

-----------------------------------------------------------------------------
\* The steps of a run and of its sandbox keep every type.
LEMMA TypeRunnerStep ==
  ASSUME TypeOK, NEW r \in Runner, RunnerStep(r)
  PROVE  SandboxTypeOK' /\ StorageTypeOK' /\ PcTypeOK'
<1>t. SandboxTypeOK /\ StorageTypeOK /\ PcTypeOK
  BY DEF TypeOK, PcTypeOK
<1>0. box[r] \in BoxRecord /\ NoBox \in BoxRecord /\ r \in Process
  BY <1>t DEF SandboxTypeOK, BoxRecord, NoBox, Process
<1> USE DEF SandboxTypeOK, BoxRecord
<1>1. CASE RunOpen(r)
  <2>1. SandboxTypeOK' /\ StorageTypeOK'
    BY <1>t, <1>0, <1>1
       DEF RunOpen, TryLockShared, StorageTypeOK, disk, published, mounts
  <2>2. PcTypeOK'
    BY <1>t, <1>1, PcTypeRunner DEF RunOpen, RunnerPc
  <2> QED BY <2>1, <2>2
<1>2. CASE RunRead(r)
  <2>1. PICK cs \in SUBSET Installed :
          LET used == {containers[c].manifest_digest : c \in cs}
              all  == UNION {LayerSet(manifests[d]) : d \in used}
          IN  /\ \A d \in used : IsManifestReadable(d)
              /\ box' = [box EXCEPT ![r] = [stack |-> all, todo |-> all]]
    BY <1>2 DEF RunRead
  <2>2. PICK all \in SUBSET Layer :
          box' = [box EXCEPT ![r] = [stack |-> all, todo |-> all]]
    BY <2>1, LayerFacts DEF IsManifestReadable
  <2>3. SandboxTypeOK'
    BY <1>t, <2>2
  <2>4. StorageTypeOK'
    BY <1>t, <1>2 DEF RunRead, StorageTypeOK, disk, published, locks, mounts
  <2>5. PcTypeOK'
    BY <1>t, <1>2, PcTypeRunner DEF RunRead, RunnerPc
  <2> QED BY <2>3, <2>4, <2>5
<1>3. CASE CreateLockFile(r)
  <2>1. PICK l \in Layer : /\ lockFiles' = lockFiles \cup {l}
                           /\ box' = [box EXCEPT ![r].todo = @ \ {l}]
    BY <1>0, <1>3 DEF CreateLockFile
  <2>2. SandboxTypeOK'
    BY <1>t, <2>1
  <2>3. StorageTypeOK' /\ PcTypeOK'
    BY <1>t, <1>3, <2>1
       DEF CreateLockFile, StorageTypeOK, PcTypeOK, published, locks, mounts
  <2> QED BY <2>2, <2>3
<1>4. CASE Exec(r)
  <2>1. SandboxTypeOK' /\ StorageTypeOK'
    BY <1>t, <1>0, <1>4 DEF Exec, StorageTypeOK, disk, published, mounts
  <2>2. PcTypeOK'
    BY <1>t, <1>4, PcTypeRunner DEF Exec, RunnerPc
  <2> QED BY <2>1, <2>2
<1>5. CASE Mount(r)
  <2>1. SandboxTypeOK'
    BY <1>t, <1>5 DEF Mount
  <2>2. StorageTypeOK'
    BY <1>t, <1>5 DEF Mount, StorageTypeOK, disk, published, locks
  <2>3. PcTypeOK'
    BY <1>t, <1>5, PcTypeRunner DEF Mount, RunnerPc
  <2> QED BY <2>1, <2>2, <2>3
<1>6. CASE BindLockFile(r)
  <2>1. PICK l \in Layer :
          /\ bound' = [bound EXCEPT ![l] = @ \cup {r}]
          /\ \/ /\ box' = [box EXCEPT ![r].todo = box[r].stack]
                /\ pc' = [pc EXCEPT ![r] = "lock"]
             \/ /\ box' = [box EXCEPT ![r].todo = @ \ {l}]
                /\ pc' = pc
    BY <1>0, <1>6 DEF BindLockFile
  <2>2. SandboxTypeOK'
    BY <1>t, <2>1
  <2>3. StorageTypeOK'
    BY <1>t, <1>6, <2>1
       DEF BindLockFile, StorageTypeOK, disk, published, locks
  <2>4. PcTypeOK'
    BY <1>t, <2>1, PcTypeRunner DEF PcTypeOK, RunnerPc
  <2> QED BY <2>2, <2>3, <2>4
<1>7. CASE TakeReadLock(r)
  <2>1. PICK l \in Layer :
          /\ readLock' = readLock \/ readLock' = [readLock EXCEPT ![l] = @ \cup {r}]
          /\ box' = [box EXCEPT ![r].todo = @ \ {l}]
          /\ pc' = pc \/ pc' = [pc EXCEPT ![r] = "running"]
    BY <1>0, <1>7 DEF TakeReadLock
  <2>2. SandboxTypeOK'
    BY <1>t, <2>1
  <2>3. StorageTypeOK'
    <3>1. readLock' \in [Layer -> SUBSET Runner]
      BY <1>t, <2>1 DEF StorageTypeOK
    <3> QED BY <1>t, <1>7, <3>1
            DEF TakeReadLock, StorageTypeOK, disk, published, mounts
  <2>4. PcTypeOK'
    BY <1>t, <2>1, PcTypeRunner DEF PcTypeOK, RunnerPc
  <2> QED BY <2>2, <2>3, <2>4
<1>8. CASE BoxExit(r)
  <2>1. SandboxTypeOK' /\ StorageTypeOK'
    BY <1>t, <1>0, <1>8 DEF BoxExit, StorageTypeOK, disk, published
  <2>2. PcTypeOK'
    BY <1>t, <1>8, PcTypeRunner DEF BoxExit, RunnerPc
  <2> QED BY <2>1, <2>2
<1> QED
  BY <1>1, <1>2, <1>3, <1>4, <1>5, <1>6, <1>7, <1>8 DEF RunnerStep

-----------------------------------------------------------------------------
\* Every step keeps every type.
LEMMA TypeNext ==
  ASSUME TypeOK, MutatorInv, Next
  PROVE  TypeOK'
<1>t. /\ TypeOK /\ MutatorInv
      /\ TypeOK <=> StorageTypeOK /\ CommandsTypeOK /\ SandboxTypeOK /\ PcTypeOK
      /\ TypeOK' <=> StorageTypeOK' /\ CommandsTypeOK' /\ SandboxTypeOK' /\ PcTypeOK'
  BY DEF TypeOK, PcTypeOK
<1>1. ASSUME NEW p \in Mutator, MutatorStep(p), UNCHANGED box PROVE TypeOK'
  <2>0. SandboxTypeOK'
    BY <1>t, <1>1 DEF SandboxTypeOK
  <2>1. CASE Open(p)
    BY <1>t, <2>0, <2>1, TypeOpen
  <2>2. CASE Exit(p) \/ Crash(p)
    BY <1>t, <2>0, <2>2, TypeLeave DEF Exit, Crash
  <2>3. CASE CommandStep(p)
    BY <1>t, <2>0, <2>3, TypeCommandStep
  <2>4. CASE FetchStep(p) /\ UNCHANGED <<scan, job>>
    BY <1>t, <2>0, <2>4, TypeFetchStep DEF CommandsTypeOK, PruneTypeOK
  <2>5. CASE PruneStep(p) /\ UNCHANGED <<fetch, job>>
    BY <1>t, <2>0, <2>5, TypePruneStep DEF CommandsTypeOK, FetchTypeOK
  <2> QED BY <1>1, <2>1, <2>2, <2>3, <2>4, <2>5 DEF MutatorStep
<1>2. ASSUME NEW r \in Runner, RunnerStep(r), UNCHANGED <<fetch, scan, job>>
      PROVE  TypeOK'
  BY <1>t, <1>2, TypeRunnerStep DEF CommandsTypeOK, FetchTypeOK, PruneTypeOK
<1> QED BY <1>1, <1>2 DEF Next

-----------------------------------------------------------------------------
(***************************************************************************)
(* The locks: the storage lock follows the program counters, read and      *)
(* write locks on a layer exclude each other, and a sandbox holds its      *)
(* locks in the files that prune looks at.                                 *)
(***************************************************************************)

\* A step of a command that neither starts nor ends it.
InnerStep(p) == CommandStep(p) \/ FetchStep(p) \/ PruneStep(p)

\* What the inner steps of commands have in common.
LEMMA InnerFrame ==
  ASSUME TypeOK, NEW p \in Mutator, InnerStep(p)
  PROVE  /\ flock' = flock
         /\ pc[p] # "idle" /\ pc'[p] # "idle"
         /\ \A q \in Process : q # p => pc'[q] = pc[q]
<1> USE DEF TypeOK, Process, locks
<1>1. CASE CommandStep(p)
  BY <1>1 DEF CommandStep, Install, PublishInstall, UpdateNext, PublishUpdate,
     UpdateDone, Switch, PublishSwitch, Uninstall, RepairNext, RepairFetched,
     CheckStorage, Return, BeginFetch
<1>2. CASE FetchStep(p)
  BY <1>2 DEF FetchStep, FetchManifest, SkipLayer, StageLayer, FinishLayer,
     DiscardLayer, WriteManifest
<1>3. CASE PruneStep(p)
  BY <1>3 DEF PruneStep, PruneWork, PruneError, ReadUsed, PruneManifest,
     ListLayers, KeepLayer, LockLayer, SkipLockedLayer, LockLayerError,
     RemoveLayer, RemoveLock, RemoveLayerError, ListLocks, CleanupLock,
     KeepLock, CleanupLockError, PruneDone, NextUnused
<1> QED BY <1>1, <1>2, <1>3 DEF InnerStep

\* Every step of a mutator is one of three kinds.
LEMMA MutatorKinds ==
  ASSUME NEW p \in Mutator, MutatorStep(p)
  PROVE  Open(p) \/ Leave(p) \/ InnerStep(p)
BY DEF MutatorStep, Exit, Crash, InnerStep

\* The storage lock keeps following the program counters, and excludes.
LEMMA StorageLockNext ==
  ASSUME TypeOK, StorageLockInv, Next
  PROVE  StorageLockInv'
<1> USE ProcessAssumption DEF Process
<1>t. /\ DOMAIN pc = Process
      /\ flock \in [Process -> {"none", "shared", "exclusive"}]
  BY DEF TypeOK, StorageTypeOK
<1>1. ASSUME NEW p \in Mutator, MutatorStep(p) PROVE StorageLockInv'
  <2>1. CASE Open(p)
    <3>1. /\ \A q \in Process \ {p} : flock[q] = "none"
          /\ flock' = [flock EXCEPT ![p] = "exclusive"]
          /\ \E v \in Operation : pc' = [pc EXCEPT ![p] = v]
      BY <2>1 DEF Open, Start, OpenMutable, TryLockExclusive, Operation, NoJob
    <3> QED BY <1>t, <3>1 DEF StorageLockInv, Operation
  <2>2. CASE Leave(p)
    BY <1>t, <2>2 DEF Leave, ReleaseMutable, StorageLockInv
  <2>3. CASE InnerStep(p)
    BY <1>t, <2>3, InnerFrame DEF StorageLockInv
  <2> QED BY <1>1, <2>1, <2>2, <2>3, MutatorKinds
<1>2. ASSUME NEW r \in Runner, RunnerStep(r) PROVE StorageLockInv'
  <2>1. CASE RunOpen(r)
    BY <1>t, <2>1 DEF RunOpen, TryLockShared, StorageLockInv
  <2>2. CASE RunRead(r) \/ CreateLockFile(r)
    BY <1>t, <2>2 DEF RunRead, CreateLockFile, StorageLockInv, locks
  <2>3. CASE Exec(r) \/ BoxExit(r)
    BY <1>t, <2>3 DEF Exec, BoxExit, StorageLockInv
  <2>4. CASE Mount(r) \/ BindLockFile(r) \/ TakeReadLock(r)
    BY <1>t, <2>4 DEF Mount, BindLockFile, TakeReadLock, StorageLockInv, locks
  <2> QED BY <1>2, <2>1, <2>2, <2>3, <2>4 DEF RunnerStep
<1> QED BY <1>1, <1>2 DEF Next

-----------------------------------------------------------------------------
(***************************************************************************)
(* What a mutator may do to the kernel's side of a layer: it takes a write *)
(* lock only where nobody reads, it moves a layer away only under such a   *)
(* lock and together with its mounts, and it unlinks a lock file only when *)
(* the layer is gone.                                                      *)
(***************************************************************************)

LayerFrame(l) ==
  /\ mounted'[l] = mounted[l] \/ (mounted'[l] = {} /\ writeLock[l] # {})
  /\ \/ readLock'[l] = readLock[l] /\ bound'[l] = bound[l]
     \/ layers[l] = "absent" /\ readLock'[l] = {} /\ bound'[l] = {}
  /\ writeLock'[l] \subseteq writeLock[l] \/ readLock'[l] = {}
  /\ layers'[l] = "absent" => layers[l] = "absent" \/ mounted'[l] = {}

\* Every mutator step is within that frame.
LEMMA LayerFrameStep ==
  ASSUME TypeOK, MutatorInv, NEW p \in Mutator, MutatorStep(p), NEW l \in Layer
  PROVE  LayerFrame(l)
<1>t. StorageTypeOK
  BY SMTT(60) DEF TypeOK
<1> USE DEF LayerFrame, StorageTypeOK, disk, published, locks, mounts
<1>1. CASE Open(p)
  BY <1>t, <1>1 DEF Open, Start, OpenMutable
<1>2. CASE Leave(p)
  BY <1>t, <1>2 DEF Leave, ReleaseMutable
<1>3. CASE CommandStep(p)
  BY <1>t, <1>3 DEF CommandStep, Install, PublishInstall, UpdateNext,
     PublishUpdate, UpdateDone, Switch, PublishSwitch, Uninstall, RepairNext,
     RepairFetched, CheckStorage, Return
<1>4. CASE FetchStep(p)
  <2>1. CASE FinishLayer(p)
    BY <1>t, <2>1 DEF FinishLayer, PublishLayer
  <2>2. CASE ~FinishLayer(p)
    BY <1>t, <1>4, <2>2 DEF FetchStep, FetchManifest, SkipLayer, StageLayer,
       DiscardLayer, WriteManifest
  <2> QED BY <2>1, <2>2
<1>5. CASE PruneStep(p)
  <2>0. ScanOK(p)
    BY DEF MutatorInv
  <2>1. CASE LockLayer(p)
    BY <1>t, <2>1 DEF LockLayer, LockLayerForPrune
  <2>2. CASE RemoveLayer(p)
    BY <1>t, <2>0, <2>2 DEF RemoveLayer, MoveLayerAway, ScanOK
  <2>3. CASE RemoveLock(p)
    BY <1>t, <2>0, <2>3 DEF RemoveLock, RemoveLockFile, ScanOK
  <2>4. CASE RemoveLayerError(p)
    BY <1>t, <2>4 DEF RemoveLayerError
  <2>5. CASE CleanupLock(p)
    BY <1>t, <2>5 DEF CleanupLock, RemoveLockFile
  <2>6. CASE ReadUsed(p) \/ PruneManifest(p) \/ ListLayers(p) \/ KeepLayer(p)
               \/ SkipLockedLayer(p) \/ LockLayerError(p) \/ ListLocks(p)
               \/ KeepLock(p) \/ CleanupLockError(p) \/ PruneDone(p)
    BY <1>t, <2>6 DEF ReadUsed, PruneManifest, ListLayers, KeepLayer,
       SkipLockedLayer, LockLayerError, ListLocks, KeepLock, CleanupLockError,
       PruneDone
  <2> QED BY <1>5, <2>1, <2>2, <2>3, <2>4, <2>5, <2>6
          DEF PruneStep, PruneWork, PruneError
<1> QED BY <1>1, <1>2, <1>3, <1>4, <1>5, MutatorKinds DEF InnerStep

\* A mutator step leaves the boxes of the runners alone, and where they stand.
LEMMA RunnerFrame ==
  ASSUME TypeOK, NEW p \in Mutator, MutatorStep(p), NEW r \in Runner
  PROVE  pc'[r] = pc[r]
<1> USE ProcessAssumption DEF Process
<1>1. CASE Open(p)
  BY <1>1 DEF Open, Start, TypeOK
<1>2. CASE Leave(p)
  BY <1>2 DEF Leave, ReleaseMutable, TypeOK
<1>3. CASE InnerStep(p)
  BY <1>3, InnerFrame
<1> QED BY <1>1, <1>2, <1>3, MutatorKinds

\* Read and write locks on a layer go on excluding each other.
LEMMA LayerLockNext ==
  ASSUME TypeOK, MutatorInv, LayerLockInv, Next
  PROVE  LayerLockInv'
<1>t. StorageTypeOK
  BY DEF TypeOK
<1>1. ASSUME NEW p \in Mutator, MutatorStep(p) PROVE LayerLockInv'
  <2> SUFFICES ASSUME NEW l \in Layer
               PROVE  /\ writeLock'[l] # {} => readLock'[l] = {}
                      /\ layers'[l] = "absent" => mounted'[l] = {}
    BY DEF LayerLockInv
  <2>1. LayerFrame(l)
    BY <1>1, LayerFrameStep
  <2> QED BY <2>1 DEF LayerFrame, LayerLockInv
<1>2. ASSUME NEW r \in Runner, RunnerStep(r) PROVE LayerLockInv'
  <2>1. CASE Mount(r)
    BY <1>t, <2>1
       DEF Mount, LayerLockInv, StorageTypeOK, PresentLayers, disk, published, locks
  <2>2. CASE TakeReadLock(r)
    <3>1. PICK l \in box[r].todo :
            \/ writeLock[l] = {} /\ readLock' = [readLock EXCEPT ![l] = @ \cup {r}]
            \/ readLock' = readLock
      BY <2>2 DEF TakeReadLock
    <3>2. UNCHANGED <<layers, mounted, writeLock>>
      BY <2>2 DEF TakeReadLock, disk, published, mounts
    <3> QED BY <1>t, <3>1, <3>2 DEF LayerLockInv, StorageTypeOK
  <2>3. CASE BoxExit(r)
    BY <1>t, <2>3 DEF BoxExit, LayerLockInv, StorageTypeOK, disk, published
  <2>4. CASE RunOpen(r) \/ RunRead(r) \/ CreateLockFile(r) \/ Exec(r) \/ BindLockFile(r)
    BY <1>t, <2>4 DEF RunOpen, RunRead, CreateLockFile, Exec, BindLockFile,
       LayerLockInv, disk, published, locks, mounts
  <2> QED BY <1>2, <2>1, <2>2, <2>3, <2>4 DEF RunnerStep
<1> QED BY <1>1, <1>2 DEF Next

-----------------------------------------------------------------------------
\* A step of one runner is none of another's business.
LEMMA OtherRunner ==
  ASSUME TypeOK, NEW r \in Runner, RunnerStep(r), NEW s \in Runner, s # r, BoxOK(s)
  PROVE  BoxOK(s)'
<1>t. StorageTypeOK /\ SandboxTypeOK /\ DOMAIN pc = Process /\ s \in Process
  BY DEF TypeOK, Process
<1>1. /\ pc'[s] = pc[s] /\ box'[s] = box[s]
      /\ \A l \in Layer :
           /\ s \in mounted'[l] => s \in mounted[l]
           /\ s \in bound[l] => s \in bound'[l]
           /\ s \in readLock[l] => s \in readLock'[l]
  <2> USE <1>t DEF StorageTypeOK, SandboxTypeOK
  <2>1. CASE RunOpen(r) \/ RunRead(r) \/ CreateLockFile(r) \/ Exec(r)
    BY <2>1 DEF RunOpen, RunRead, CreateLockFile, Exec, locks, mounts
  <2>2. CASE Mount(r)
    BY <2>2 DEF Mount, locks
  <2>3. CASE BindLockFile(r)
    BY <2>3 DEF BindLockFile, locks
  <2>4. CASE TakeReadLock(r)
    BY <2>4 DEF TakeReadLock, mounts
  <2>5. CASE BoxExit(r)
    BY <2>5 DEF BoxExit
  <2> QED BY <2>1, <2>2, <2>3, <2>4, <2>5 DEF RunnerStep
<1>2. box[s].stack \subseteq Layer
  BY <1>t DEF SandboxTypeOK, BoxRecord
<1> QED BY <1>1, <1>2 DEF BoxOK

\* The runner's own step keeps its part of the invariant.
LEMMA SameRunner ==
  ASSUME TypeOK, NEW r \in Runner, RunnerStep(r), BoxOK(r)
  PROVE  BoxOK(r)'
<1>t. StorageTypeOK /\ SandboxTypeOK /\ DOMAIN pc = Process /\ r \in Process
  BY DEF TypeOK, Process
<1>0. box[r] \in BoxRecord
  BY <1>t DEF SandboxTypeOK
<1> USE <1>t, <1>0 DEF BoxRecord, SandboxTypeOK, StorageTypeOK
<1>1. CASE RunOpen(r)
  BY <1>1 DEF RunOpen, BoxOK
<1>2. CASE RunRead(r)
  BY <1>2 DEF RunRead, BoxOK
<1>3. CASE CreateLockFile(r)
  BY <1>3 DEF CreateLockFile, BoxOK
<1>4. CASE Exec(r)
  BY <1>4 DEF Exec, BoxOK
<1>5. CASE Mount(r)
  BY <1>5 DEF Mount, BoxOK, locks
<1>6. CASE BindLockFile(r)
  <2>1. PICK l \in box[r].todo :
       /\ bound' = [bound EXCEPT ![l] = @ \cup {r}]
       /\ IF box[r].todo = {l}
          THEN /\ box' = [box EXCEPT ![r].todo = box[r].stack]
               /\ pc' = [pc EXCEPT ![r] = "lock"]
          ELSE /\ box' = [box EXCEPT ![r].todo = @ \ {l}]
               /\ pc' = pc
    BY <1>6 DEF BindLockFile
  <2>2. UNCHANGED <<mounted, readLock>> /\ pc[r] = "bind"
    BY <1>6 DEF BindLockFile, locks
  <2>3. CASE box[r].todo = {l}
    BY <2>1, <2>2, <2>3 DEF BoxOK
  <2>4. CASE box[r].todo # {l}
    BY <2>1, <2>2, <2>4 DEF BoxOK
  <2> QED BY <2>3, <2>4
<1>7. CASE TakeReadLock(r)
  <2>1. PICK l \in box[r].todo :
       /\ r \in bound[l] => readLock' = [readLock EXCEPT ![l] = @ \cup {r}]
       /\ r \notin bound[l] => readLock' = readLock
       /\ box' = [box EXCEPT ![r].todo = @ \ {l}]
       /\ pc' = IF box[r].todo = {l} THEN [pc EXCEPT ![r] = "running"] ELSE pc
    BY <1>7 DEF TakeReadLock
  <2>2. UNCHANGED <<mounted, bound>> /\ pc[r] = "lock"
    BY <1>7 DEF TakeReadLock, mounts
  <2>3. \A k \in Layer : r \in readLock[k] => r \in readLock'[k]
    BY <2>1
  <2>4. r \in bound[l] => r \in readLock'[l]
    BY <2>1
  <2>5. box'[r].stack = box[r].stack /\ box'[r].todo = box[r].todo \ {l}
    BY <2>1
  <2>6. \A k \in box[r].stack : r \in mounted[k] =>
          IF k \in box'[r].todo THEN r \in bound[k] ELSE r \in readLock'[k]
    BY <2>2, <2>3, <2>4, <2>5 DEF BoxOK
  <2>7. CASE box[r].todo = {l}
    BY <2>1, <2>2, <2>5, <2>6, <2>7 DEF BoxOK
  <2>8. CASE box[r].todo # {l}
    BY <2>1, <2>2, <2>5, <2>6, <2>8 DEF BoxOK
  <2> QED BY <2>7, <2>8
<1>8. CASE BoxExit(r)
  BY <1>8 DEF BoxExit, BoxOK
<1> QED
  BY <1>1, <1>2, <1>3, <1>4, <1>5, <1>6, <1>7, <1>8 DEF RunnerStep

\* A sandbox keeps the locks of the layers it sees, whatever the others do.
LEMMA RunnerInvNext ==
  ASSUME TypeOK, MutatorInv, LayerLockInv, RunnerInv, Next
  PROVE  RunnerInv'
<1>t. SandboxTypeOK
  BY DEF TypeOK
<1>1. ASSUME NEW p \in Mutator, MutatorStep(p), UNCHANGED box,
             NEW r \in Runner, BoxOK(r)
      PROVE  BoxOK(r)'
  <2>1. pc'[r] = pc[r]
    BY <1>1, RunnerFrame
  <2>2. \A l \in Layer : r \in mounted'[l] =>
          /\ r \in mounted[l]
          /\ r \in bound[l] => r \in bound'[l]
          /\ r \in readLock[l] => r \in readLock'[l]
    <3>1. \A l \in Layer : LayerFrame(l)
      BY <1>1, LayerFrameStep
    <3> QED BY <3>1 DEF LayerFrame, LayerLockInv
  <2>3. box[r] \in BoxRecord
    BY <1>t DEF SandboxTypeOK
  <2> QED BY <1>1, <2>1, <2>2, <2>3 DEF BoxOK, BoxRecord
<1>2. ASSUME NEW r \in Runner, RunnerStep(r) PROVE RunnerInv'
  BY <1>2, SameRunner, OtherRunner DEF RunnerInv
<1> QED BY <1>1, <1>2 DEF Next, RunnerInv

------------------------------------------------------------------------------
(***************************************************************************)
(* The commands: what each knows at each of its program points stays true, *)
(* because no other command runs and no runner writes.                     *)
(***************************************************************************)

\* One mutator's part of the invariant.
CommandOK(p) == JobOK(p) /\ TemporaryOK(p) /\ FetchOK(p) /\ ScanOK(p)

\* All that a mutator's part of the invariant speaks of.
LEMMA Unmoved ==
  ASSUME NEW p \in Mutator, CommandOK(p), pc'[p] = pc[p],
         UNCHANGED <<containers, manifests, layers, temporary, writeLock,
                     fetch, scan, job>>
  PROVE  CommandOK(p)'
<1>1. JobOK(p)'
  BY DEF CommandOK, JobOK, Installed
<1>2. TemporaryOK(p)'
  BY DEF CommandOK, TemporaryOK
<1>3. FetchOK(p)'
  BY DEF CommandOK, FetchOK, LayerList, CurrentLayer
<1>4. ScanOK(p)'
  BY DEF CommandOK, ScanOK, Installed, PresentLayers
<1> QED BY <1>1, <1>2, <1>3, <1>4 DEF CommandOK

\* While a command runs, the other mutators are idle.
LEMMA OthersIdle ==
  ASSUME TypeOK, StorageLockInv, NEW p \in Mutator, MutatorStep(p),
         NEW q \in Mutator, q # p
  PROVE  pc[q] = "idle" /\ pc'[q] = "idle"
<1> USE DEF Process
<1>1. CASE Open(p)
  BY <1>1 DEF Open, Start, OpenMutable, TryLockExclusive, StorageLockInv, TypeOK
<1>2. CASE Leave(p)
  BY <1>2 DEF Leave, ReleaseMutable, StorageLockInv, TypeOK
<1>3. CASE InnerStep(p)
  BY <1>3, InnerFrame DEF StorageLockInv
<1> QED BY <1>1, <1>2, <1>3, MutatorKinds

\* A step of one command keeps what is known of the others: they are idle.
LEMMA OtherMutator ==
  ASSUME TypeOK, StorageLockInv, MutatorInv, NEW p \in Mutator, MutatorStep(p),
         NEW q \in Mutator, q # p
  PROVE  CommandOK(q)'
<1>t. CommandsTypeOK /\ StorageTypeOK
  BY DEF TypeOK
<1>1. pc[q] = "idle" /\ pc'[q] = "idle"
  BY OthersIdle
<1>2. /\ job'[q] = job[q]
      /\ scan'[q] = scan[q]
      /\ \A l \in Layer : q \in writeLock'[l] => q \in writeLock[l]
  <2> USE <1>t DEF CommandsTypeOK, PruneTypeOK, StorageTypeOK, locks
  <2>1. CASE Open(p)
    BY <2>1 DEF Open, Start, OpenMutable
  <2>2. CASE Leave(p)
    BY <2>2 DEF Leave, ReleaseMutable
  <2>3. CASE CommandStep(p)
    BY <2>3 DEF CommandStep, Install, PublishInstall, UpdateNext, PublishUpdate,
       UpdateDone, Switch, PublishSwitch, Uninstall, RepairNext, RepairFetched,
       CheckStorage, Return
  <2>4. CASE FetchStep(p) /\ UNCHANGED <<scan, job>>
    BY <2>4 DEF FetchStep, FetchManifest, SkipLayer, StageLayer, FinishLayer,
       DiscardLayer, WriteManifest
  <2>5. CASE PruneStep(p) /\ UNCHANGED <<fetch, job>>
    <3>1. CASE LockLayer(p)
      BY <2>5, <3>1 DEF LockLayer, LockLayerForPrune
    <3>2. CASE RemoveLock(p) \/ CleanupLock(p)
      BY <2>5, <3>2 DEF RemoveLock, CleanupLock, RemoveLockFile
    <3>3. CASE RemoveLayerError(p)
      BY <2>5, <3>3 DEF RemoveLayerError
    <3>4. CASE ReadUsed(p) \/ PruneManifest(p) \/ ListLayers(p) \/ KeepLayer(p)
      BY <2>5, <3>4 DEF ReadUsed, PruneManifest, ListLayers, KeepLayer
    <3>5. CASE SkipLockedLayer(p) \/ LockLayerError(p) \/ RemoveLayer(p)
      BY <2>5, <3>5 DEF SkipLockedLayer, LockLayerError, RemoveLayer
    <3>6. CASE ListLocks(p) \/ KeepLock(p) \/ CleanupLockError(p) \/ PruneDone(p)
      BY <2>5, <3>6 DEF ListLocks, KeepLock, CleanupLockError, PruneDone
    <3> QED BY <2>5, <3>1, <3>2, <3>3, <3>4, <3>5, <3>6
            DEF PruneStep, PruneWork, PruneError
  <2> QED BY <2>1, <2>2, <2>3, <2>4, <2>5 DEF MutatorStep, Exit, Crash
<1>3. scan[q].layer = None /\ \A l \in Layer : q \notin writeLock[l]
  BY <1>1 DEF MutatorInv, ScanOK
<1>4. JobOK(q)'
  BY <1>1 DEF JobOK, Operation, FetchPc, PrunePc
<1>5. TemporaryOK(q)' /\ FetchOK(q)'
  BY <1>1 DEF TemporaryOK, FetchOK
<1>6. ScanOK(q)'
  BY <1>1, <1>2, <1>3 DEF ScanOK, PrunePc
<1> QED BY <1>4, <1>5, <1>6 DEF CommandOK

\* A run changes nothing that a mutator's part of the invariant speaks of.
LEMMA RunnerUnmoved ==
  ASSUME TypeOK, MutatorInv, NEW r \in Runner, RunnerStep(r),
         UNCHANGED <<fetch, scan, job>>
  PROVE  MutatorInv'
<1>1. UNCHANGED <<containers, manifests, layers, temporary, writeLock>>
  BY DEF RunnerStep, RunOpen, RunRead, CreateLockFile, Exec, Mount, BindLockFile,
     TakeReadLock, BoxExit, disk, published, locks
<1>2. \A p \in Mutator : pc'[p] = pc[p]
  BY ProcessAssumption
     DEF RunnerStep, RunOpen, RunRead, CreateLockFile, Exec, Mount, BindLockFile,
         TakeReadLock, BoxExit, TypeOK, Process
<1>3. \A p \in Mutator : CommandOK(p)
  BY DEF MutatorInv, CommandOK
<1>4. \A p \in Mutator : CommandOK(p)'
  BY <1>1, <1>2, <1>3, Unmoved
<1> QED BY <1>4 DEF MutatorInv, CommandOK

-----------------------------------------------------------------------------
\* Starting and ending a command.
LEMMA OpenOK ==
  ASSUME TypeOK, StorageLockInv, MutatorInv, NEW p \in Mutator, Open(p)
  PROVE  CommandOK(p)'
<1>t. CommandsTypeOK /\ StorageTypeOK /\ DOMAIN pc = Process /\ p \in Process
  BY DEF TypeOK, Process
<1>1. PICK j \in JobRecord : Start(p, j) /\ j.op \in Operation
  BY JobFacts DEF Open
<1>2. /\ pc'[p] = j.op /\ job'[p] = j
      /\ temporary' = {}
      /\ UNCHANGED <<containers, scan, writeLock>>
  BY <1>t, <1>1 DEF Start, OpenMutable, CommandsTypeOK, published
<1>3. pc[p] = "idle"
  BY <1>1 DEF Start, OpenMutable
<1>4. /\ j.op \in {"install", "switch", "uninstall"} => j.container \in Container
      /\ j.op = "install" => j.reference \in Specifier
      /\ j.op = "switch" => j.reference \in Digest
      /\ j.op = "repair" => j.targets \subseteq Installed
  <2>1. \A k : Start(p, k) => k = job'[p]
    BY <1>t DEF Start, CommandsTypeOK
  <2> QED BY <1>1, <1>2, <2>1 DEF Open, NoJob
<1>5. JobOK(p)'
  BY <1>2, <1>4, <1>1 DEF JobOK, Operation, FetchPc, PrunePc, Installed
<1>6. TemporaryOK(p)' /\ FetchOK(p)'
  BY <1>1, <1>2 DEF TemporaryOK, FetchOK, Operation
<1>7. ScanOK(p)'
  BY <1>1, <1>2, <1>3 DEF ScanOK, MutatorInv, Operation, PrunePc
<1> QED BY <1>5, <1>6, <1>7 DEF CommandOK

\* A process that is gone knows nothing and holds no write lock.
LEMMA LeaveOK ==
  ASSUME TypeOK, NEW p \in Mutator, Leave(p)
  PROVE  CommandOK(p)'
<1>t. CommandsTypeOK /\ StorageTypeOK /\ DOMAIN pc = Process /\ p \in Process
  BY DEF TypeOK, Process
<1>1. /\ pc'[p] = "idle"
      /\ scan'[p].layer = None
      /\ \A l \in Layer : p \notin writeLock'[l]
  BY <1>t DEF Leave, ReleaseMutable, CommandsTypeOK, PruneTypeOK, NoScan
<1> QED BY <1>1 DEF CommandOK, JobOK, TemporaryOK, FetchOK, ScanOK, Operation,
                    FetchPc, PrunePc

-----------------------------------------------------------------------------
\* A command that fetches or uninstalls ends, or is about to.
LEMMA SettleOK ==
  ASSUME NEW p \in Mutator, CommandOK(p),
         pc[p] \in {"install", "update", "switch", "uninstall", "repair", "fetched"},
         pc'[p] \in {"done", "failed"},
         UNCHANGED <<scan, job, writeLock>>,
         job[p].op = "repair" => UNCHANGED containers
  PROVE  CommandOK(p)'
<1>1. job[p].op # "prune"
  BY DEF CommandOK, JobOK, Operation, FetchPc
<1>2. JobOK(p)'
  BY <1>1 DEF CommandOK, JobOK, Operation, FetchPc, PrunePc, Installed
<1>3. TemporaryOK(p)' /\ FetchOK(p)'
  BY DEF TemporaryOK, FetchOK
<1>4. ScanOK(p)'
  BY <1>1 DEF CommandOK, ScanOK, PrunePc
<1> QED BY <1>2, <1>3, <1>4 DEF CommandOK

\* A command enters fetch_image.
LEMMA EnterOK ==
  ASSUME TypeOK, NEW p \in Mutator, CommandOK(p), NEW s \in Specifier,
         NEW b \in BOOLEAN, BeginFetch(p, s, b),
         pc[p] \in {"install", "update", "switch", "repair"},
         UNCHANGED <<containers, temporary, writeLock, scan>>,
         job'[p].op = job[p].op, job'[p].reference = job[p].reference,
         job'[p].targets \subseteq job[p].targets,
         pc[p] = "switch" => s = job[p].reference,
         pc[p] = "install" => job'[p].container = job[p].container,
         pc[p] \in {"update", "switch"} => job'[p].container \in Installed
  PROVE  CommandOK(p)'
<1>t. CommandsTypeOK /\ DOMAIN pc = Process /\ p \in Process
  BY DEF TypeOK, Process
<1>1. /\ pc'[p] = "fetch_manifest"
      /\ fetch'[p].reference = s
      /\ job[p].op = pc[p]
  BY <1>t DEF BeginFetch, CommandsTypeOK, FetchTypeOK, NoFetch, CommandOK, JobOK,
              Operation
<1>2. Installed \subseteq Container
  BY DEF Installed
<1>3. JobOK(p)'
  BY <1>1, <1>2
     DEF CommandOK, JobOK, Operation, FetchPc, PrunePc, Installed, Specifier
<1>4. TemporaryOK(p)' /\ FetchOK(p)'
  BY <1>1 DEF CommandOK, TemporaryOK, FetchOK
<1>5. ScanOK(p)'
  BY <1>1 DEF CommandOK, ScanOK, PrunePc
<1> QED BY <1>3, <1>4, <1>5 DEF CommandOK

\* A container has been dealt with and the loop goes on.
LEMMA ResumeOK ==
  ASSUME NEW p \in Mutator, CommandOK(p), pc[p] = "fetched",
         pc'[p] = job[p].op, job[p].op \in {"update", "repair"},
         UNCHANGED <<temporary, writeLock, scan, job>>,
         job[p].op = "repair" => UNCHANGED containers
  PROVE  CommandOK(p)'
<1>1. JobOK(p)'
  BY DEF CommandOK, JobOK, Operation, FetchPc, PrunePc, Installed
<1>2. TemporaryOK(p)' /\ FetchOK(p)'
  BY DEF CommandOK, TemporaryOK, FetchOK
<1>3. ScanOK(p)'
  BY DEF CommandOK, ScanOK, PrunePc
<1> QED BY <1>1, <1>2, <1>3 DEF CommandOK

\* The steps of the commands, apart from fetch_image and prune.
LEMMA CommandStepOK ==
  ASSUME TypeOK, NEW p \in Mutator, CommandOK(p), CommandStep(p)
  PROVE  CommandOK(p)'
<1>t. CommandsTypeOK /\ StorageTypeOK /\ DOMAIN pc = Process /\ p \in Process
  BY DEF TypeOK, Process
<1>j. JobOK(p) /\ job[p] \in JobRecord
  BY <1>t DEF CommandOK, CommandsTypeOK
<1>c. \A c \in Installed : containers[c] \in ContainerRecord
  BY <1>t DEF Installed, StorageTypeOK
<1> USE DEF disk, published, locks
<1>1. CASE Install(p)
  <2>1. CASE job[p].container \in Installed
    BY <1>t, <1>1, <2>1, SettleOK DEF Install, Return
  <2>2. CASE job[p].container \notin Installed
    <3>1. job[p].reference \in Specifier /\ job[p].op = "install"
      BY <1>j, <1>1 DEF Install, JobOK, Operation
    <3> QED BY <1>1, <2>2, <3>1, EnterOK DEF Install
  <2> QED BY <2>1, <2>2
<1>2. CASE PublishInstall(p)
  BY <1>t, <1>2, SettleOK DEF PublishInstall
<1>3. CASE UpdateNext(p)
  <2> PICK c \in job[p].targets :
         IF c \in Installed
         THEN /\ BeginFetch(p, containers[c].reference, FALSE)
              /\ job' = [job EXCEPT ![p].container = c, ![p].targets = @ \ {c}]
              /\ UNCHANGED <<disk, locks, mounts, scan>>
         ELSE Return(p, "failed")
    BY <1>3 DEF UpdateNext
  <2>1. CASE c \in Installed
    <3>1. containers[c].reference \in Specifier
      BY <1>c, <2>1 DEF ContainerRecord
    <3>2. /\ job'[p].op = job[p].op /\ job'[p].reference = job[p].reference
          /\ job'[p].targets \subseteq job[p].targets /\ job'[p].container = c
      BY <1>t, <2>1 DEF CommandsTypeOK, JobRecord
    <3> QED BY <1>3, <2>1, <3>1, <3>2, EnterOK DEF UpdateNext
  <2>2. CASE c \notin Installed
    BY <1>t, <1>3, <2>2, SettleOK DEF UpdateNext, Return
  <2> QED BY <2>1, <2>2
<1>4. CASE PublishUpdate(p)
  BY <1>t, <1>4, ResumeOK DEF PublishUpdate
<1>5. CASE UpdateDone(p)
  BY <1>t, <1>5, SettleOK DEF UpdateDone, Return
<1>6. CASE Switch(p)
  <2>1. CASE job[p].container \notin Installed
    BY <1>t, <1>6, <2>1, SettleOK DEF Switch, Return
  <2>2. CASE job[p].container \in Installed
    <3>1. job[p].reference \in Specifier
      BY <1>j, <1>6 DEF Switch, JobOK, Operation, Specifier
    <3> QED BY <1>6, <2>2, <3>1, EnterOK DEF Switch
  <2> QED BY <2>1, <2>2
<1>7. CASE PublishSwitch(p)
  BY <1>t, <1>7, SettleOK DEF PublishSwitch
<1>8. CASE Uninstall(p)
  <2>1. job[p].op = "uninstall" /\ pc[p] = "uninstall"
    BY <1>j, <1>8 DEF Uninstall, JobOK, Operation
  <2>2. pc'[p] \in {"done", "failed"} /\ UNCHANGED <<scan, job, writeLock>>
    BY <1>t, <1>8 DEF Uninstall, Return
  <2> QED BY <2>1, <2>2, SettleOK
<1>9. CASE RepairNext(p)
  <2> PICK c \in job[p].targets :
         /\ BeginFetch(p, containers[c].manifest_digest, TRUE)
         /\ job' = [job EXCEPT ![p].container = c, ![p].targets = @ \ {c}]
    BY <1>9 DEF RepairNext
  <2>1. c \in Installed
    BY <1>j, <1>9 DEF RepairNext, JobOK, Operation
  <2>2. containers[c].manifest_digest \in Specifier
    BY <1>c, <2>1 DEF ContainerRecord, Specifier
  <2>3. /\ job'[p].op = job[p].op /\ job'[p].reference = job[p].reference
        /\ job'[p].targets \subseteq job[p].targets
    BY <1>t DEF CommandsTypeOK, JobRecord
  <2> QED BY <1>9, <2>2, <2>3, EnterOK DEF RepairNext
<1>10. CASE RepairFetched(p)
  BY <1>t, <1>10, ResumeOK DEF RepairFetched, Return
<1>11. CASE CheckStorage(p)
  BY <1>t, <1>11, SettleOK DEF CheckStorage, Return
<1> QED
  BY <1>1, <1>2, <1>3, <1>4, <1>5, <1>6, <1>7, <1>8, <1>9, <1>10, <1>11
     DEF CommandStep

-----------------------------------------------------------------------------
\* The steps of fetch_image leave the command line and prune's locals alone.
LEMMA FetchStepJob ==
  ASSUME TypeOK, NEW p \in Mutator, CommandOK(p), FetchStep(p),
         UNCHANGED <<scan, job>>
  PROVE  /\ pc[p] \in FetchPc \ {"fetched"}
         /\ pc'[p] \in FetchPc \cup {"failed"}
         /\ fetch'[p].reference = fetch[p].reference
         /\ UNCHANGED <<containers, writeLock>>
         /\ JobOK(p)' /\ ScanOK(p)'
<1>t. FetchTypeOK /\ DOMAIN pc = Process /\ p \in Process
  BY DEF TypeOK, CommandsTypeOK, Process
<1>0. fetch[p] \in FetchRecord
  BY <1>t DEF FetchTypeOK
<1> USE DEF disk, published, locks, FetchPc
<1>1. /\ pc[p] \in FetchPc \ {"fetched"}
      /\ pc'[p] \in FetchPc \cup {"failed"}
      /\ UNCHANGED <<containers, writeLock>>
  BY <1>t DEF FetchStep, FetchManifest, SkipLayer, StageLayer, FinishLayer,
     DiscardLayer, WriteManifest
<1>2. fetch'[p].reference = fetch[p].reference
  <2> USE <1>t, <1>0 DEF FetchTypeOK, FetchRecord
  <2>1. CASE FetchManifest(p)
    BY <2>1 DEF FetchManifest
  <2>2. CASE SkipLayer(p)
    BY <2>2 DEF SkipLayer
  <2>3. CASE StageLayer(p)
    BY <2>3 DEF StageLayer
  <2>4. CASE FinishLayer(p)
    BY <2>4 DEF FinishLayer
  <2>5. CASE DiscardLayer(p) \/ WriteManifest(p)
    BY <2>5 DEF DiscardLayer, WriteManifest
  <2> QED BY <2>1, <2>2, <2>3, <2>4, <2>5 DEF FetchStep
<1>3. JobOK(p)'
  BY <1>1, <1>2 DEF CommandOK, JobOK, Operation, PrunePc, Installed
<1>4. ScanOK(p)'
  BY <1>1 DEF CommandOK, ScanOK, PrunePc
<1> QED BY <1>1, <1>2, <1>3, <1>4

\* fetch_image: the layers it has passed are there, the one it extracts is alone
\* in temporary/, and at the end the manifest is saved.
LEMMA FetchStepOK ==
  ASSUME TypeOK, NEW p \in Mutator, CommandOK(p), FetchStep(p)
  PROVE  FetchOK(p)' /\ TemporaryOK(p)'
<1>t. /\ FetchTypeOK /\ StorageTypeOK /\ DOMAIN pc = Process /\ p \in Process
      /\ fetch[p] \in FetchRecord
  BY DEF TypeOK, CommandsTypeOK, FetchTypeOK, Process
<1>0. FetchOK(p) /\ TemporaryOK(p) /\ (pc[p] \in FetchPc => fetch[p].reference \in Specifier)
  BY DEF CommandOK, JobOK
<1>f. \A m \in FetchedManifest :
        /\ m.bytes \in ImageManifest
        /\ Len(LayersOf[m.bytes]) \in Nat
        /\ \A i \in 1..Len(LayersOf[m.bytes]) : LayersOf[m.bytes][i] \in Layer
  BY LayerFacts DEF FetchedManifest
<1> USE DEF disk, published, locks, mounts, FetchPc, LayerList, CurrentLayer
<1>1. CASE FetchManifest(p)
  <2> PICK m \in FetchImageManifest(fetch[p].reference) :
         LET saved == IsManifestSaved(m.digest, fetch[p].repair)
         IN  /\ fetch' = [fetch EXCEPT ![p] = [@ EXCEPT !.fetched = m,
                                                        !.saved = saved,
                                                        !.next = 1]]
             /\ pc' = [pc EXCEPT ![p] = IF saved /\ ~fetch[p].repair
                                        THEN "fetched" ELSE "fetch_layers"]
    BY <1>1 DEF FetchManifest
  <2>1. /\ fetch'[p].fetched = m
        /\ fetch'[p].reference = fetch[p].reference
        /\ fetch'[p].saved = IsManifestSaved(m.digest, fetch[p].repair)
        /\ fetch'[p].next = 1
        /\ pc'[p] = "fetched" => IsManifestSaved(m.digest, fetch[p].repair)
        /\ pc'[p] \in {"fetched", "fetch_layers"}
    BY <1>t DEF FetchTypeOK, FetchRecord
  <2>2. /\ m \in FetchedManifest
        /\ Verifies(m.bytes, m.digest)
        /\ fetch[p].reference \in Digest /\ Canonical(fetch[p].reference) =>
             m.digest = fetch[p].reference
    BY <1>0, <1>1, FetchedFacts DEF FetchManifest
  <2>3. IsManifestSaved(m.digest, fetch[p].repair) => manifests'[m.digest] # None
    BY <1>1 DEF FetchManifest, IsManifestSaved
  <2>4. FetchOK(p)'
    BY <1>f, <2>1, <2>2, <2>3 DEF FetchOK
  <2>5. TemporaryOK(p)'
    BY <1>0, <1>1 DEF FetchManifest, TemporaryOK
  <2> QED BY <2>4, <2>5
<1>2. CASE SkipLayer(p)
  <2>1. /\ fetch'[p].fetched = fetch[p].fetched
        /\ fetch'[p].reference = fetch[p].reference
        /\ fetch'[p].saved = fetch[p].saved
        /\ fetch'[p].next = fetch[p].next + 1
        /\ UNCHANGED <<manifests, layers, temporary, pc>>
        /\ pc[p] = "fetch_layers"
    BY SMTT(60), <1>t, <1>2 DEF SkipLayer, FetchTypeOK, FetchRecord
  <2>2. FetchOK(p)'
    BY SMTT(60), <1>0, <1>2, <1>f, <2>1 DEF FetchOK, SkipLayer
  <2> QED BY <1>0, <2>1, <2>2 DEF TemporaryOK
<1>3. CASE StageLayer(p)
  <2>1. /\ pc[p] = "fetch_layers" /\ pc'[p] = "extract_layer"
        /\ temporary = {}
        /\ temporary' = {CurrentLayer(p)}
        /\ UNCHANGED <<manifests, layers>>
    BY <1>t, <1>0, <1>3 DEF StageLayer, TemporaryOK
  <2>2. /\ fetch'[p].fetched = fetch[p].fetched
        /\ fetch'[p].reference = fetch[p].reference
        /\ fetch'[p].saved = fetch[p].saved
        /\ fetch'[p].next = fetch[p].next
        /\ fetch'[p].fresh
    BY <1>t, <1>3, <2>1 DEF StageLayer, FetchTypeOK, FetchRecord
  <2>a. /\ LayerList(p)' = LayerList(p)
        /\ CurrentLayer(p)' = CurrentLayer(p)
    BY <2>2
  <2>b. /\ fetch[p].fetched \in FetchedManifest
        /\ Len(LayerList(p)) \in Nat
        /\ fetch[p].next \in 1..Len(LayerList(p)) + 1
        /\ fetch[p].next <= Len(LayerList(p))
    BY <1>0, <1>3, <1>f, <2>1 DEF FetchOK, StageLayer
  <2>c. fetch[p].next \in 1..Len(LayerList(p))
    BY SMTT(60), <2>b
  <2>3. FetchOK(p)'
    BY <1>0, <2>1, <2>2, <2>a, <2>c DEF FetchOK
  <2> QED BY <2>1, <2>3 DEF TemporaryOK
<1>4. CASE FinishLayer(p)
  <2>1. /\ fetch'[p].fetched = fetch[p].fetched
        /\ fetch'[p].reference = fetch[p].reference
        /\ fetch'[p].saved = fetch[p].saved
        /\ fetch'[p].next = fetch[p].next + 1
        /\ UNCHANGED manifests
        /\ pc[p] = "extract_layer" /\ pc'[p] = "fetch_layers"
    BY SMTT(60), <1>t, <1>4 DEF FinishLayer, FetchTypeOK, FetchRecord
  <2>2. temporary' = {} /\ CurrentLayer(p) \in Layer
    BY <1>0, <1>4, <1>f, <2>1 DEF FetchOK, FinishLayer, PublishLayer
  <2>3. /\ layers'[CurrentLayer(p)] # "absent"
        /\ \A l \in Layer : layers[l] # "absent" => layers'[l] # "absent"
    BY SMTT(60), <1>t, <1>4, <2>2 DEF FinishLayer, PublishLayer, StorageTypeOK
  <2>4. FetchOK(p)'
    BY SMTT(60), <1>0, <1>f, <2>1, <2>2, <2>3 DEF FetchOK
  <2> QED BY <2>1, <2>2, <2>4 DEF TemporaryOK
<1>5. CASE DiscardLayer(p)
  BY <1>t, <1>5 DEF DiscardLayer, FetchOK, TemporaryOK
<1>6. CASE WriteManifest(p)
  <2>1. /\ pc[p] = "fetch_layers" /\ pc'[p] = "fetched"
        /\ UNCHANGED <<fetch, temporary>>
    BY <1>t, <1>6 DEF WriteManifest
  <2>2. manifests'[fetch[p].fetched.digest] # None
    BY <1>t, <1>0, <1>6, <2>1, RegistryAssumption
       DEF WriteManifest, FetchOK, FetchedManifest, StorageTypeOK
  <2> QED BY <1>0, <2>1, <2>2 DEF FetchOK, TemporaryOK
<1> QED BY <1>1, <1>2, <1>3, <1>4, <1>5, <1>6 DEF FetchStep

-----------------------------------------------------------------------------
\* The steps of prune leave the command line alone.
LEMMA PruneStepJob ==
  ASSUME TypeOK, NEW p \in Mutator, CommandOK(p), PruneStep(p),
         UNCHANGED <<fetch, job>>
  PROVE  /\ pc'[p] \in PrunePc \cup {"done", "failed"}
         /\ UNCHANGED containers
         /\ JobOK(p)' /\ TemporaryOK(p)' /\ FetchOK(p)'
<1>t. DOMAIN pc = Process /\ p \in Process
  BY DEF TypeOK, Process
<1>1. /\ pc[p] \in PrunePc \cup {"prune"}
      /\ pc'[p] \in PrunePc \cup {"done", "failed"}
      /\ UNCHANGED containers
  BY <1>t DEF PruneStep, PruneWork, PruneError, ReadUsed, PruneManifest,
     ListLayers, KeepLayer, LockLayer, SkipLockedLayer, LockLayerError,
     RemoveLayer, RemoveLock, RemoveLayerError, ListLocks, CleanupLock, KeepLock,
     CleanupLockError, PruneDone, NextUnused, PrunePc, disk, published
<1>2. JobOK(p)'
  BY <1>1 DEF CommandOK, JobOK, Operation, PrunePc, FetchPc, Installed
<1> QED BY <1>1, <1>2 DEF TemporaryOK, FetchOK, PrunePc

\* prune: what it found in use stays in use, what it has not yet looked at is
\* still in its listing, and it removes only a layer it holds a write lock on.
LEMMA PruneStepOK ==
  ASSUME TypeOK, NEW p \in Mutator, CommandOK(p), PruneStep(p)
  PROVE  ScanOK(p)'
<1>t. /\ PruneTypeOK /\ StorageTypeOK /\ DOMAIN pc = Process /\ p \in Process
      /\ scan[p] \in ScanRecord
  BY DEF TypeOK, CommandsTypeOK, PruneTypeOK, Process
<1>0. ScanOK(p) /\ (pc[p] \in PrunePc => job[p].op = "prune")
  BY DEF CommandOK, JobOK
<1> USE DEF disk, published, locks, PrunePc
<1>1. CASE ReadUsed(p)
  <2> DEFINE used == {containers[c].manifest_digest : c \in Installed}
  <2>1. CASE \A d \in used : IsManifestReadable(d)
    <3>1. /\ pc'[p] = "prune_manifests"
          /\ scan'[p].manifests = used
          /\ scan'[p].layers = UNION {LayerSet(manifests[d]) : d \in used}
          /\ scan'[p].layer = scan[p].layer
          /\ UNCHANGED <<containers, manifests, layers, writeLock>>
          /\ pc[p] = "prune"
      BY <1>t, <1>1, <2>1 DEF ReadUsed, PruneTypeOK, ScanRecord
    <3>2. \A d \in used : manifests[d] # None
      BY <2>1, RegistryAssumption DEF IsManifestReadable
    <3> QED BY <1>0, <3>1, <3>2 DEF ScanOK, Installed
  <2>2. CASE ~ \A d \in used : IsManifestReadable(d)
    BY <1>t, <1>0, <1>1, <2>2 DEF ReadUsed, ScanOK
  <2> QED BY <2>1, <2>2
<1>2. CASE PruneManifest(p)
  <2>1. PICK d \in UnusedManifests(p) : manifests' = [manifests EXCEPT ![d] = None]
    BY <1>2 DEF PruneManifest
  <2>2. /\ pc[p] = "prune_manifests"
        /\ UNCHANGED <<pc, scan, containers, layers, writeLock>>
    BY <1>2 DEF PruneManifest
  <2>3. d \notin scan[p].manifests
    BY <2>1 DEF UnusedManifests
  <2>4. \A e \in scan[p].manifests : manifests'[e] = manifests[e]
    BY <1>t, <2>1, <2>3 DEF StorageTypeOK, ScanRecord
  <2>5. /\ scan[p].manifests = {containers[c].manifest_digest : c \in Installed}
        /\ \A e \in scan[p].manifests : manifests[e] # None
        /\ scan[p].layers = UNION {LayerSet(manifests[e]) : e \in scan[p].manifests}
        /\ scan[p].layer = None /\ \A l \in Layer : p \notin writeLock[l]
    BY <1>0, <2>2 DEF ScanOK
  <2> QED BY <2>2, <2>4, <2>5 DEF ScanOK, Installed
<1>3. CASE ListLayers(p)
  <2>1. /\ pc[p] = "prune_manifests" /\ pc'[p] = "prune_layers"
        /\ scan'[p] = [scan[p] EXCEPT !.todo = PresentLayers]
        /\ UNCHANGED <<containers, manifests, layers, writeLock>>
        /\ \A d \in Digest : manifests[d] # None => d \in scan[p].manifests
    BY <1>t, <1>3 DEF ListLayers, PruneTypeOK, UnusedManifests
  <2>2. /\ scan'[p].manifests = scan[p].manifests
        /\ scan'[p].layers = scan[p].layers
        /\ scan'[p].layer = scan[p].layer
        /\ scan'[p].todo = PresentLayers
    BY <1>t, <2>1 DEF ScanRecord
  <2> QED BY <1>0, <2>1, <2>2 DEF ScanOK, Installed, PresentLayers
<1>4. CASE KeepLayer(p)
  <2>1. PICK l \in scan[p].todo \cap scan[p].layers :
               scan' = [scan EXCEPT ![p].todo = @ \ {l}]
    BY <1>4 DEF KeepLayer
  <2>2. /\ scan'[p].manifests = scan[p].manifests
        /\ scan'[p].layers = scan[p].layers
        /\ scan'[p].layer = scan[p].layer
        /\ scan'[p].kept = scan[p].kept
        /\ scan'[p].todo = scan[p].todo \ {l}
    BY <1>t, <2>1 DEF ScanRecord, PruneTypeOK
  <2>3. /\ UNCHANGED <<pc, containers, manifests, layers, writeLock>>
        /\ pc[p] = "prune_layers"
    BY <1>4 DEF KeepLayer
  <2> QED BY <1>0, <2>2, <2>3 DEF ScanOK, Installed, PresentLayers
<1>5. CASE SkipLockedLayer(p) \/ LockLayerError(p)
  <2>1. PICK l \in Layer :
          scan' = [scan EXCEPT ![p].todo = @ \ {l}, ![p].kept = @ \cup {l}]
    BY <1>5 DEF SkipLockedLayer, LockLayerError
  <2>2. /\ scan'[p].manifests = scan[p].manifests
        /\ scan'[p].layers = scan[p].layers
        /\ scan'[p].layer = scan[p].layer
        /\ scan'[p].kept = scan[p].kept \cup {l}
        /\ scan'[p].todo = scan[p].todo \ {l}
    BY <1>t, <2>1 DEF ScanRecord, PruneTypeOK
  <2>3. /\ UNCHANGED <<pc, containers, manifests, layers, writeLock>>
        /\ pc[p] = "prune_layers"
    BY <1>5 DEF SkipLockedLayer, LockLayerError, NextUnused
  <2> QED BY <1>0, <2>2, <2>3 DEF ScanOK, Installed, PresentLayers
<1>6. CASE LockLayer(p)
  <2>1. PICK l \in Layer :
          /\ NextUnused(p, l)
          /\ LockLayerForPrune(p, l)
          /\ scan' = [scan EXCEPT ![p].todo = @ \ {l}, ![p].layer = l]
    BY <1>6 DEF LockLayer
  <2>2. /\ scan'[p].manifests = scan[p].manifests
        /\ scan'[p].layers = scan[p].layers
        /\ scan'[p].layer = l
        /\ scan'[p].kept = scan[p].kept
        /\ scan'[p].todo = scan[p].todo \ {l}
    BY <1>t, <2>1 DEF ScanRecord, PruneTypeOK
  <2>3. /\ UNCHANGED <<containers, manifests, layers>>
        /\ pc[p] = "prune_layers" /\ pc'[p] = "remove_layer"
        /\ l \notin scan[p].layers
        /\ writeLock'[l] = {p}
        /\ \A k \in Layer : k # l => writeLock'[k] = writeLock[k]
    BY <1>t, <1>6, <2>1
       DEF LockLayer, NextUnused, LockLayerForPrune, StorageTypeOK
  <2>4. /\ scan[p].layer = None /\ None \notin Layer
        /\ \A k \in Layer : p \notin writeLock[k]
    BY <1>0, <2>3, RegistryAssumption DEF ScanOK
  <2>5. PresentLayers' \subseteq scan'[p].todo \cup scan'[p].layers
                                \cup scan'[p].kept \cup {scan'[p].layer}
    BY <1>0, <2>2, <2>3, <2>4 DEF ScanOK, PresentLayers
  <2> QED BY <1>0, <2>2, <2>3, <2>4, <2>5 DEF ScanOK, Installed
<1>7. CASE RemoveLayer(p)
  <2>1. /\ layers' = [layers EXCEPT ![scan[p].layer] = "absent"]
        /\ UNCHANGED <<containers, manifests, writeLock, scan>>
        /\ pc[p] = "remove_layer" /\ pc'[p] = "remove_lock"
    BY <1>t, <1>7 DEF RemoveLayer, MoveLayerAway
  <2>2. scan[p].layer \in Layer
    BY <1>0, <2>1 DEF ScanOK
  <2>3. layers'[scan[p].layer] = "absent" /\ PresentLayers' \subseteq PresentLayers
    BY <1>t, <2>1, <2>2 DEF StorageTypeOK, PresentLayers
  <2> QED BY <1>0, <2>1, <2>3 DEF ScanOK, Installed
<1>8. CASE RemoveLock(p)
  <2>1. /\ scan' = [scan EXCEPT ![p].layer = None]
        /\ writeLock' = [writeLock EXCEPT ![scan[p].layer] = {}]
        /\ UNCHANGED <<containers, manifests, layers>>
        /\ pc[p] = "remove_lock" /\ pc'[p] = "prune_layers"
    BY <1>t, <1>8 DEF RemoveLock, RemoveLockFile
  <2>2. /\ scan'[p].manifests = scan[p].manifests
        /\ scan'[p].layers = scan[p].layers
        /\ scan'[p].layer = None
        /\ scan'[p].kept = scan[p].kept
        /\ scan'[p].todo = scan[p].todo
    BY <1>t, <2>1 DEF ScanRecord, PruneTypeOK
  <2>3. \A l \in Layer : p \notin writeLock'[l]
    BY <1>t, <1>0, <2>1 DEF ScanOK, StorageTypeOK
  <2>4. PresentLayers' \subseteq scan'[p].todo \cup scan'[p].layers
                                \cup scan'[p].kept \cup {scan'[p].layer}
    BY <1>0, <2>1, <2>2 DEF ScanOK, PresentLayers
  <2> QED BY <1>0, <2>1, <2>2, <2>3, <2>4 DEF ScanOK, Installed
<1>9. CASE RemoveLayerError(p)
  <2>1. /\ scan' = [scan EXCEPT ![p].layer = None,
                               ![p].kept = @ \cup {scan[p].layer}]
        /\ writeLock' = [writeLock EXCEPT ![scan[p].layer] = {}]
        /\ UNCHANGED <<containers, manifests, layers>>
        /\ pc[p] \in {"remove_layer", "remove_lock"} /\ pc'[p] = "prune_layers"
    BY <1>t, <1>9 DEF RemoveLayerError
  <2>2. /\ scan'[p].manifests = scan[p].manifests
        /\ scan'[p].layers = scan[p].layers
        /\ scan'[p].layer = None
        /\ scan'[p].kept = scan[p].kept \cup {scan[p].layer}
        /\ scan'[p].todo = scan[p].todo
    BY <1>t, <2>1 DEF ScanRecord, PruneTypeOK
  <2>3. \A l \in Layer : p \notin writeLock'[l]
    BY <1>t, <1>0, <2>1 DEF ScanOK, StorageTypeOK
  <2>4. PresentLayers' \subseteq scan'[p].todo \cup scan'[p].layers
                                \cup scan'[p].kept \cup {scan'[p].layer}
    BY <1>0, <2>1, <2>2 DEF ScanOK, PresentLayers
  <2>5. /\ scan[p].manifests = {containers[c].manifest_digest : c \in Installed}
        /\ \A d \in scan[p].manifests : manifests[d] # None
        /\ scan[p].layers = UNION {LayerSet(manifests[d]) : d \in scan[p].manifests}
        /\ \A d \in Digest : manifests[d] # None => d \in scan[p].manifests
    BY <1>0, <2>1 DEF ScanOK
  <2>6. UNCHANGED <<containers, manifests, Installed>>
    BY <2>1 DEF Installed
  <2> HIDE DEF PrunePc
  <2>7. pc[p] \in PrunePc /\ pc'[p] = "prune_layers"
    BY <2>1 DEF PrunePc
  <2> QED BY <2>2, <2>3, <2>4, <2>5, <2>6, <2>7 DEF ScanOK
<1>10. CASE ListLocks(p)
  <2>1. /\ scan[p].todo = {}
        /\ scan' = [scan EXCEPT ![p].todo = lockFiles]
        /\ UNCHANGED <<containers, manifests, layers, writeLock>>
        /\ pc[p] = "prune_layers" /\ pc'[p] = "cleanup_locks"
    BY <1>t, <1>10 DEF ListLocks
  <2>2. /\ scan'[p].manifests = scan[p].manifests
        /\ scan'[p].layers = scan[p].layers
        /\ scan'[p].layer = scan[p].layer
        /\ scan'[p].kept = scan[p].kept
    BY <1>t, <2>1 DEF ScanRecord, PruneTypeOK
  <2>3. scan[p].layer = None /\ None \notin Layer
    BY <1>0, <2>1, RegistryAssumption DEF ScanOK
  <2>4. PresentLayers' \subseteq scan'[p].layers \cup scan'[p].kept
    BY <1>0, <2>1, <2>2, <2>3 DEF ScanOK, PresentLayers
  <2> QED BY <1>0, <2>1, <2>2, <2>4 DEF ScanOK, Installed
<1>11. CASE CleanupLock(p) \/ KeepLock(p) \/ CleanupLockError(p)
  <2>1. /\ \E l \in scan[p].todo : scan' = [scan EXCEPT ![p].todo = @ \ {l}]
        /\ UNCHANGED <<pc, containers, manifests, layers>>
        /\ pc[p] = "cleanup_locks"
    BY <1>11 DEF CleanupLock, KeepLock, CleanupLockError
  <2>2. /\ scan'[p].manifests = scan[p].manifests
        /\ scan'[p].layers = scan[p].layers
        /\ scan'[p].layer = scan[p].layer
        /\ scan'[p].kept = scan[p].kept
    BY <1>t, <2>1 DEF ScanRecord, PruneTypeOK
  <2>3. \A l \in Layer : p \in writeLock'[l] => p \in writeLock[l]
    BY <1>t, <1>11
       DEF CleanupLock, KeepLock, CleanupLockError, RemoveLockFile, StorageTypeOK
  <2> QED BY <1>0, <2>1, <2>2, <2>3 DEF ScanOK, Installed, PresentLayers
<1>12. CASE PruneDone(p)
  <2>1. /\ UNCHANGED <<scan, containers, manifests, layers, writeLock>>
        /\ pc[p] = "cleanup_locks" /\ pc'[p] = "done"
    BY <1>t, <1>12 DEF PruneDone
  <2> QED BY <1>0, <2>1 DEF ScanOK, Installed, PresentLayers
<1> QED
  BY <1>1, <1>2, <1>3, <1>4, <1>5, <1>6, <1>7, <1>8, <1>9, <1>10, <1>11, <1>12
     DEF PruneStep, PruneWork, PruneError

-----------------------------------------------------------------------------
\* Every step keeps what the commands know.
LEMMA MutatorInvNext ==
  ASSUME TypeOK, StorageLockInv, MutatorInv, Next
  PROVE  MutatorInv'
<1>0. \A q \in Mutator : CommandOK(q)
  BY DEF MutatorInv, CommandOK
<1>1. CASE \E p \in Mutator : MutatorStep(p) /\ UNCHANGED box
  <2> PICK p \in Mutator : MutatorStep(p)
    BY <1>1
  <2>1. CommandOK(p)'
    <3>1. CASE Open(p)
      BY <3>1, OpenOK
    <3>2. CASE Exit(p) \/ Crash(p)
      BY <3>2, LeaveOK DEF Exit, Crash
    <3>3. CASE CommandStep(p)
      BY <1>0, <3>3, CommandStepOK
    <3>4. CASE FetchStep(p) /\ UNCHANGED <<scan, job>>
      BY <1>0, <3>4, FetchStepJob, FetchStepOK DEF CommandOK
    <3>5. CASE PruneStep(p) /\ UNCHANGED <<fetch, job>>
      BY <1>0, <3>5, PruneStepJob, PruneStepOK DEF CommandOK
    <3> QED BY <3>1, <3>2, <3>3, <3>4, <3>5 DEF MutatorStep
  <2>2. \A q \in Mutator : CommandOK(q)'
    BY <2>1, OtherMutator
  <2> QED BY <2>2 DEF MutatorInv, CommandOK
<1>2. CASE \E r \in Runner : RunnerStep(r) /\ UNCHANGED <<fetch, scan, job>>
  BY <1>2, RunnerUnmoved
<1> QED BY <1>1, <1>2 DEF Next
==============================================================================
