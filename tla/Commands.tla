------------------------------- MODULE Commands -------------------------------
(***************************************************************************)
(* The commands that write: install, update, switch, uninstall, repair and *)
(* prune.  Each is one process that takes the storage lock exclusively,    *)
(* does its work and exits.  It may also stop at any point, because an I/O *)
(* or network operation fails or because it is killed: nothing is undone,  *)
(* and the next command that opens the storage clears temporary/.          *)
(***************************************************************************)
EXTENDS Fetch, Prune

VARIABLE job   \* mutator -> its command line and the locals of the command

Operation == {"install", "update", "switch", "uninstall", "repair", "prune"}

JobRecord ==
  [op        : Operation \cup {None},
   container : Container \cup {None},   \* the container it is working on
   reference : Specifier \cup {None},   \* install: the image, switch: the digest
   targets   : SUBSET Container]        \* update, repair: containers still to do

NoJob == [op |-> None, container |-> None, reference |-> None, targets |-> {}]

CommandsInit == FetchInit /\ PruneInit /\ job = [p \in Mutator |-> NoJob]

CommandsTypeOK ==
  /\ FetchTypeOK
  /\ PruneTypeOK
  /\ job \in [Mutator -> JobRecord]

-----------------------------------------------------------------------------
\* main: parse the command line, then StorageMutable::new.
Start(p, j) ==
  /\ OpenMutable(p)
  /\ job' = [job EXCEPT ![p] = j]
  /\ pc' = [pc EXCEPT ![p] = j.op]
  /\ UNCHANGED <<fetch, scan>>

Open(p) ==
  \/ \E c \in Container, r \in Specifier :
       Start(p, [NoJob EXCEPT !.op = "install", !.container = c, !.reference = r])
  \/ \E cs \in SUBSET Container \ {{}} :
       Start(p, [NoJob EXCEPT !.op = "update", !.targets = cs])
  \/ Start(p, [NoJob EXCEPT !.op = "update", !.targets = Installed])
  \/ \E c \in Container, d \in Digest :
       Start(p, [NoJob EXCEPT !.op = "switch", !.container = c, !.reference = d])
  \/ \E c \in Container :
       Start(p, [NoJob EXCEPT !.op = "uninstall", !.container = c])
  \/ Start(p, [NoJob EXCEPT !.op = "repair", !.targets = Installed])
  \/ Start(p, [NoJob EXCEPT !.op = "prune"])

\* The command returns without a further change to the storage.
Return(p, result) ==
  /\ pc' = [pc EXCEPT ![p] = result]
  /\ UNCHANGED <<disk, locks, mounts, fetch, scan, job>>

\* Exit, and everything that ends the process before it is done.
Leave(p) ==
  /\ pc[p] # "idle"
  /\ ReleaseMutable(p)
  /\ fetch' = [fetch EXCEPT ![p] = NoFetch]
  /\ scan' = [scan EXCEPT ![p] = NoScan]
  /\ job' = [job EXCEPT ![p] = NoJob]

Exit(p) == pc[p] \in {"done", "failed"} /\ Leave(p)

Crash(p) == pc[p] \notin {"done", "failed"} /\ Leave(p)

-----------------------------------------------------------------------------
\* install: "container already exists", or fetch the image.
Install(p) ==
  /\ pc[p] = "install"
  /\ IF job[p].container \in Installed
     THEN Return(p, "failed")
     ELSE /\ BeginFetch(p, job[p].reference, FALSE)
          /\ UNCHANGED <<disk, locks, mounts, scan, job>>

\* Mutant: the digest file receives the manifest itself.
PublishInstallBytes(p) ==
  /\ pc[p] = "fetched"
  /\ job[p].op = "install"
  /\ containers' = [containers EXCEPT ![job[p].container] =
                      [manifest_digest |-> fetch[p].fetched.bytes,
                       reference       |-> job[p].reference]]
  /\ pc' = [pc EXCEPT ![p] = "done"]
  /\ UNCHANGED <<manifests, layers, temporary, lockFiles, locks, mounts,
                 fetch, scan, job>>

\* write_container: both files appear with one rename.
PublishInstall(p) ==
  /\ pc[p] = "fetched"
  /\ job[p].op = "install"
  /\ containers' = [containers EXCEPT ![job[p].container] =
                      [manifest_digest |-> fetch[p].fetched.digest,
                       reference       |-> job[p].reference]]
  /\ pc' = [pc EXCEPT ![p] = "done"]
  /\ UNCHANGED <<manifests, layers, temporary, lockFiles, locks, mounts,
                 fetch, scan, job>>

-----------------------------------------------------------------------------
\* update: the next container, in whatever order the HashSet yields them.
UpdateNext(p) ==
  /\ pc[p] = "update"
  /\ \E c \in job[p].targets :
       IF c \in Installed
       THEN /\ BeginFetch(p, containers[c].reference, FALSE)
            /\ job' = [job EXCEPT ![p].container = c, ![p].targets = @ \ {c}]
            /\ UNCHANGED <<disk, locks, mounts, scan>>
       ELSE Return(p, "failed")

\* "already up to date", or write_container_manifest_digest.
PublishUpdate(p) ==
  /\ pc[p] = "fetched"
  /\ job[p].op = "update"
  /\ containers' = [containers EXCEPT ![job[p].container].manifest_digest =
                      fetch[p].fetched.digest]
  /\ pc' = [pc EXCEPT ![p] = "update"]
  /\ UNCHANGED <<manifests, layers, temporary, lockFiles, locks, mounts,
                 fetch, scan, job>>

UpdateDone(p) ==
  /\ pc[p] = "update"
  /\ job[p].targets = {}
  /\ Return(p, "done")

-----------------------------------------------------------------------------
\* Mutant: the digest is recorded without being fetched.
SwitchWithoutFetch(p) ==
  /\ pc[p] = "switch"
  /\ Return(p, IF job[p].container \in Installed THEN "fetched" ELSE "failed")

\* switch: fetch by digest from the container's repository.
Switch(p) ==
  /\ pc[p] = "switch"
  /\ IF job[p].container \in Installed
     THEN /\ BeginFetch(p, job[p].reference, FALSE)
          /\ UNCHANGED <<disk, locks, mounts, scan, job>>
     ELSE Return(p, "failed")

\* What is written is the digest of the command line, not the fetched one's.
PublishSwitch(p) ==
  /\ pc[p] = "fetched"
  /\ job[p].op = "switch"
  /\ containers' = [containers EXCEPT ![job[p].container].manifest_digest =
                      job[p].reference]
  /\ pc' = [pc EXCEPT ![p] = "done"]
  /\ UNCHANGED <<manifests, layers, temporary, lockFiles, locks, mounts,
                 fetch, scan, job>>

-----------------------------------------------------------------------------
\* uninstall: the rename into temporary/ decides; deleting what is there may fail.
Uninstall(p) ==
  /\ pc[p] = "uninstall"
  /\ IF job[p].container \in Installed
     THEN /\ containers' = [containers EXCEPT ![job[p].container] = None]
          /\ pc' = [pc EXCEPT ![p] = "done"]
          /\ UNCHANGED <<manifests, layers, temporary, lockFiles, locks, mounts,
                         fetch, scan, job>>
     ELSE Return(p, "failed")

-----------------------------------------------------------------------------
\* repair: fetch every container's manifest again, by its recorded digest.
RepairNext(p) ==
  /\ pc[p] = "repair"
  /\ \E c \in job[p].targets :
       /\ BeginFetch(p, containers[c].manifest_digest, TRUE)
       /\ job' = [job EXCEPT ![p].container = c, ![p].targets = @ \ {c}]
  /\ UNCHANGED <<disk, locks, mounts, scan>>

RepairFetched(p) ==
  /\ pc[p] = "fetched"
  /\ job[p].op = "repair"
  /\ Return(p, "repair")

\* The second loop of repair finds nothing wrong with a saved manifest.
ManifestIsSound(d) ==
  /\ manifests[d] \in ImageManifest
  /\ Verifies(manifests[d], d)
  /\ LayerSet(manifests[d]) \subseteq PresentLayers

CheckStorage(p) ==
  /\ pc[p] = "repair"
  /\ job[p].targets = {}
  /\ Return(p, IF \A d \in Digest : manifests[d] # None => ManifestIsSound(d)
               THEN "done" ELSE "failed")

-----------------------------------------------------------------------------
CommandStep(p) ==
  \/ Install(p) \/ PublishInstall(p)
  \/ UpdateNext(p) \/ PublishUpdate(p) \/ UpdateDone(p)
  \/ Switch(p) \/ PublishSwitch(p)
  \/ Uninstall(p)
  \/ RepairNext(p) \/ RepairFetched(p) \/ CheckStorage(p)

MutatorStep(p) ==
  \/ Open(p)
  \/ Exit(p)
  \/ Crash(p)
  \/ CommandStep(p)
  \/ FetchStep(p) /\ UNCHANGED <<scan, job>>
  \/ PruneStep(p) /\ UNCHANGED <<fetch, job>>
=============================================================================
