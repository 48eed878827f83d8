------------------------------- MODULE Sandbox -------------------------------
(***************************************************************************)
(* run: under the shared storage lock it reads the manifests of the named  *)
(* containers, stacks their layers, creates one lock file per layer, and   *)
(* replaces itself with bwrap.  The storage lock is close-on-exec, so from *)
(* then on only bwrap's own locks tell prune that the layers are in use.   *)
(*                                                                         *)
(* bwrap is not part of the repository.  It is modelled from the command   *)
(* line that run builds for it: it mounts the root, then the lock files,   *)
(* and its pid 1 then takes a read lock on each.                           *)
(***************************************************************************)
EXTENDS Storage

VARIABLE box   \* runner -> the layers of its stack and those still to handle

BoxRecord == [stack : SUBSET Layer, todo : SUBSET Layer]

NoBox == [stack |-> {}, todo |-> {}]

SandboxInit == box = [r \in Runner |-> NoBox]

SandboxTypeOK == box \in [Runner -> BoxRecord]

-----------------------------------------------------------------------------
\* Storage::new
RunOpen(r) ==
  /\ pc[r] = "idle"
  /\ TryLockShared(r)
  /\ pc' = [pc EXCEPT ![r] = "run"]
  /\ UNCHANGED <<disk, readLock, writeLock, mounts, box>>

\* read_stacked_layers, for one or more installed containers.
RunRead(r) ==
  /\ pc[r] = "run"
  /\ \E cs \in SUBSET Installed \ {{}} :
       LET used == {containers[c].manifest_digest : c \in cs}
           all  == UNION {LayerSet(manifests[d]) : d \in used}
       IN  /\ \A d \in used : IsManifestReadable(d)
           /\ box' = [box EXCEPT ![r] = [stack |-> all, todo |-> all]]
  /\ pc' = [pc EXCEPT ![r] = "lock_files"]
  /\ UNCHANGED <<disk, locks, mounts>>

\* create_layer_lock_file
CreateLockFile(r) ==
  /\ pc[r] = "lock_files"
  /\ \E l \in box[r].todo :
       /\ lockFiles' = lockFiles \cup {l}
       /\ box' = [box EXCEPT ![r].todo = @ \ {l}]
  /\ UNCHANGED <<published, temporary, locks, mounts, pc>>

\* Every layer has a directory: exec.
Exec(r) ==
  /\ pc[r] = "lock_files"
  /\ box[r].todo = {}
  /\ box[r].stack # {}
  /\ box[r].stack \subseteq PresentLayers
  /\ flock' = [flock EXCEPT ![r] = "none"]
  /\ pc' = [pc EXCEPT ![r] = "mount"]
  /\ UNCHANGED <<disk, readLock, writeLock, mounts, box>>

-----------------------------------------------------------------------------
\* bwrap: --ro-bind or --overlay-src ... --ro-overlay.
Mount(r) ==
  /\ pc[r] = "mount"
  /\ box[r].stack \subseteq PresentLayers
  /\ mounted' = [l \in Layer |-> IF l \in box[r].stack
                                 THEN mounted[l] \cup {r} ELSE mounted[l]]
  /\ box' = [box EXCEPT ![r].todo = box[r].stack]
  /\ pc' = [pc EXCEPT ![r] = "bind"]
  /\ UNCHANGED <<disk, locks, bound>>

\* bwrap: --ro-bind locks/layers/<l> into the sandbox; all done, pid 1 starts.
BindLockFile(r) ==
  /\ pc[r] = "bind"
  /\ \E l \in box[r].todo \cap lockFiles :
       /\ bound' = [bound EXCEPT ![l] = @ \cup {r}]
       /\ IF box[r].todo = {l}
          THEN /\ box' = [box EXCEPT ![r].todo = box[r].stack]
               /\ pc' = [pc EXCEPT ![r] = "lock"]
          ELSE /\ box' = [box EXCEPT ![r].todo = @ \ {l}]
               /\ pc' = pc
  /\ UNCHANGED <<disk, locks, mounted>>

\* bwrap: --lock-file.  The lock goes to the inode that was mounted, which may
\* have lost its name since; a write lock on it makes bwrap fail.
TakeReadLock(r) ==
  /\ pc[r] = "lock"
  /\ \E l \in box[r].todo :
       /\ IF r \in bound[l]
          THEN /\ writeLock[l] = {}
               /\ readLock' = [readLock EXCEPT ![l] = @ \cup {r}]
          ELSE readLock' = readLock
       /\ box' = [box EXCEPT ![r].todo = @ \ {l}]
       /\ pc' = IF box[r].todo = {l} THEN [pc EXCEPT ![r] = "running"] ELSE pc
  /\ UNCHANGED <<disk, flock, writeLock, mounts>>

-----------------------------------------------------------------------------
\* run gives up, bwrap fails, or the sandbox ends: the kernel cleans up.
BoxExit(r) ==
  /\ pc[r] # "idle"
  /\ pc' = [pc EXCEPT ![r] = "idle"]
  /\ flock' = [flock EXCEPT ![r] = "none"]
  /\ readLock' = [l \in Layer |-> readLock[l] \ {r}]
  /\ bound' = [l \in Layer |-> bound[l] \ {r}]
  /\ mounted' = [l \in Layer |-> mounted[l] \ {r}]
  /\ box' = [box EXCEPT ![r] = NoBox]
  /\ UNCHANGED <<disk, writeLock>>

RunnerStep(r) ==
  \/ RunOpen(r)
  \/ RunRead(r)
  \/ CreateLockFile(r)
  \/ Exec(r)
  \/ Mount(r)
  \/ BindLockFile(r)
  \/ TakeReadLock(r)
  \/ BoxExit(r)
=============================================================================
