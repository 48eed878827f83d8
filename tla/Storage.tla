------------------------------- MODULE Storage -------------------------------
(***************************************************************************)
(* The storage directory and the kernel state that guards it.              *)
(*                                                                         *)
(*   containers/<name>/            manifest_digest and reference.json      *)
(*   manifests/<digest>.json       image manifests                         *)
(*   layers/<digest>/              extracted layers                        *)
(*   locks/layers/<digest>         one lock file per layer                 *)
(*   locks/storage                 flock taken for a whole command         *)
(*   temporary/                    staging area, cleared by every command  *)
(*                                 that opens the storage for writing      *)
(*                                                                         *)
(* A Mutator is an invocation of a command that writes (StorageMutable), a *)
(* Runner an invocation of "pakstak run" (Storage) and later the bwrap     *)
(* process it becomes.                                                     *)
(*                                                                         *)
(* Inodes are not numbered.  bound, readLock and writeLock speak of the    *)
(* lock file that NOW has the name locks/layers/<l>, and mounted of the    *)
(* directory that NOW has the name layers/<l>: whoever still holds an      *)
(* older inode of that name is no longer in the set.                       *)
(***************************************************************************)
EXTENDS Registry

CONSTANTS Container, Mutator, Runner

Process == Mutator \cup Runner

ASSUME ProcessAssumption == Mutator \cap Runner = {}

VARIABLES
  containers,   \* container -> [manifest_digest, reference] or None
  manifests,    \* digest -> the blob stored under it or None
  layers,       \* layer -> "absent", "whole" or "damaged"
  temporary,    \* the layers that have a directory under temporary/
  lockFiles,    \* the layers that have a lock file
  flock,        \* process -> the mode in which it holds locks/storage
  readLock,     \* layer -> runners holding a read lock on its lock file
  writeLock,    \* layer -> mutators holding a write lock on its lock file
  bound,        \* layer -> runners whose sandbox has its lock file mounted
  mounted,      \* layer -> runners whose root shows its directory
  pc            \* process -> where it stands

published == <<containers, manifests, layers>>
disk      == <<containers, manifests, layers, temporary, lockFiles>>
locks     == <<flock, readLock, writeLock>>
mounts    == <<bound, mounted>>

ContainerRecord == [manifest_digest : Digest, reference : Specifier]

LayerState == {"absent", "whole", "damaged"}

StorageTypeOK ==
  /\ containers \in [Container -> ContainerRecord \cup {None}]
  /\ manifests \in [Digest -> Blob \cup {None}]
  /\ layers \in [Layer -> LayerState]
  /\ temporary \subseteq Layer
  /\ lockFiles \subseteq Layer
  /\ flock \in [Process -> {"none", "shared", "exclusive"}]
  /\ readLock \in [Layer -> SUBSET Runner]
  /\ writeLock \in [Layer -> SUBSET Mutator]
  /\ bound \in [Layer -> SUBSET Runner]
  /\ mounted \in [Layer -> SUBSET Runner]

StorageInit ==
  /\ containers = [c \in Container |-> None]
  /\ manifests = [d \in Digest |-> None]
  /\ layers = [l \in Layer |-> "absent"]
  /\ temporary = {}
  /\ lockFiles = {}
  /\ flock = [q \in Process |-> "none"]
  /\ readLock = [l \in Layer |-> {}]
  /\ writeLock = [l \in Layer |-> {}]
  /\ bound = [l \in Layer |-> {}]
  /\ mounted = [l \in Layer |-> {}]

-----------------------------------------------------------------------------
(* Queries.                                                                *)

Installed == {c \in Container : containers[c] # None}

PresentLayers == {l \in Layer : layers[l] # "absent"}

\* Mutant: a manifest that is there is taken for sound.
IsManifestSavedUnverified(digest, verify) == manifests[digest] # None

IsManifestSaved(digest, verify) ==
  /\ manifests[digest] # None
  /\ verify => Verifies(manifests[digest], digest)

\* read_manifest succeeds: the file exists and parses.  It is not verified.
IsManifestReadable(digest) == manifests[digest] \in ImageManifest

-----------------------------------------------------------------------------
(* The storage lock.  Both modes are tried once; a process that does not   *)
(* get it exits at once, having changed nothing.                           *)

\* Mutant: a command that writes takes the lock in a mode that readers share.
TryLockBesideReaders(p) ==
  /\ \A q \in Process \ {p} : flock[q] # "exclusive"
  /\ flock' = [flock EXCEPT ![p] = "exclusive"]

TryLockExclusive(p) ==
  /\ \A q \in Process \ {p} : flock[q] = "none"
  /\ flock' = [flock EXCEPT ![p] = "exclusive"]

TryLockShared(p) ==
  /\ \A q \in Process \ {p} : flock[q] # "exclusive"
  /\ flock' = [flock EXCEPT ![p] = "shared"]

\* Mutant: what an earlier command left in temporary/ is not cleared.
OpenMutableKeepingTemporary(p) ==
  /\ pc[p] = "idle"
  /\ TryLockExclusive(p)
  /\ UNCHANGED <<disk, readLock, writeLock, mounts>>

\* StorageMutable::new, up to the first statement of the command.
OpenMutable(p) ==
  /\ pc[p] = "idle"
  /\ TryLockExclusive(p)
  /\ temporary' = {}
  /\ UNCHANGED <<published, lockFiles, readLock, writeLock, mounts>>

\* The process is gone: the kernel drops its locks, the disk stays as it is.
ReleaseMutable(p) ==
  /\ flock' = [flock EXCEPT ![p] = "none"]
  /\ writeLock' = [l \in Layer |-> writeLock[l] \ {p}]
  /\ pc' = [pc EXCEPT ![p] = "idle"]
  /\ UNCHANGED <<disk, readLock, mounts>>

-----------------------------------------------------------------------------
(* Changes to the directory tree.                                          *)

\* publish_directory renames the staged layer into place.
PublishLayer(l, content) ==
  /\ layers' = [layers EXCEPT ![l] = content]
  /\ temporary' = temporary \ {l}

\* remove_directory renames the layer into temporary/ before deleting it.
MoveLayerAway(l) ==
  /\ layers' = [layers EXCEPT ![l] = "absent"]
  /\ mounted' = [mounted EXCEPT ![l] = {}]
  /\ temporary' = temporary \cup {l}

\* Mutant: a lock of another family, which does not meet the sandboxes' locks.
LockLayerBesideReaders(p, l) ==
  /\ lockFiles' = lockFiles \cup {l}
  /\ writeLock' = [writeLock EXCEPT ![l] = {p}]

\* lock_layer_for_prune opens the lock file, creating it if need be, and asks
\* for a write lock; Failed is the case of a conflicting read lock.
LockLayerForPrune(p, l) ==
  /\ readLock[l] = {}
  /\ lockFiles' = lockFiles \cup {l}
  /\ writeLock' = [writeLock EXCEPT ![l] = {p}]

\* Unlinking a lock file takes the locks and the mounts of its inode with it.
RemoveLockFile(l) ==
  /\ lockFiles' = lockFiles \ {l}
  /\ readLock' = [readLock EXCEPT ![l] = {}]
  /\ writeLock' = [writeLock EXCEPT ![l] = {}]
  /\ bound' = [bound EXCEPT ![l] = {}]
=============================================================================
