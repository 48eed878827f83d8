------------------------------- MODULE Pakstak -------------------------------
(***************************************************************************)
(* Any number of pakstak processes on one storage directory: commands that *)
(* write, each under the exclusive storage lock, and runs, which read      *)
(* under the shared lock and live on as sandboxes without it.              *)
(***************************************************************************)
EXTENDS Commands, Sandbox

vars == <<disk, locks, mounts, pc, fetch, scan, job, box>>

MutatorPc ==
  {"idle", "fetch_manifest", "fetch_layers", "extract_layer", "fetched",
   "prune_manifests", "prune_layers", "remove_layer", "remove_lock",
   "cleanup_locks", "done", "failed"} \cup Operation

RunnerPc == {"idle", "run", "lock_files", "mount", "bind", "lock", "running"}

Init ==
  /\ StorageInit
  /\ CommandsInit
  /\ SandboxInit
  /\ pc = [q \in Process |-> "idle"]

Next ==
  \/ \E p \in Mutator : MutatorStep(p) /\ UNCHANGED box
  \/ \E r \in Runner : RunnerStep(r) /\ UNCHANGED <<fetch, scan, job>>

Spec == Init /\ [][Next]_vars

(***************************************************************************)
(* Fairness: only what needs no network and nobody's leave.  A fetch may   *)
(* hang for ever, since the client sets no timeout; a sandbox may run for  *)
(* ever; no I/O error has to happen and no command has to be started.      *)
(***************************************************************************)
LocalWork(p) ==
  \/ PruneWork(p) /\ UNCHANGED <<fetch, job>>
  \/ Uninstall(p)
  \/ Exit(p)

Reading(r) == pc[r] \in {"run", "lock_files"} /\ RunnerStep(r)

FairSpec ==
  /\ Spec
  /\ \A p \in Mutator : WF_vars(LocalWork(p) /\ UNCHANGED box)
  /\ \A r \in Runner : WF_vars(Reading(r) /\ UNCHANGED <<fetch, scan, job>>)

(***************************************************************************)
(* With a registry that answers, downloads go on, too.  An answer may be   *)
(* useless, and a reference for which no answer would do ends the command. *)
(***************************************************************************)
Unanswerable(p) ==
  /\ pc[p] = "fetch_manifest"
  /\ FetchImageManifest(fetch[p].reference) = {}
  /\ Crash(p)

AnsweredWork(p) ==
  \/ CommandStep(p)
  \/ FetchStep(p) /\ UNCHANGED <<scan, job>>
  \/ Unanswerable(p)
  \/ PruneWork(p) /\ UNCHANGED <<fetch, job>>
  \/ Exit(p)

Answered == \A p \in Mutator : WF_vars(AnsweredWork(p) /\ UNCHANGED box)

-----------------------------------------------------------------------------
\* Every variable, the program counters included, has a value of its type.
TypeOK ==
  /\ StorageTypeOK
  /\ CommandsTypeOK
  /\ SandboxTypeOK
  /\ DOMAIN pc = Process
  /\ \A p \in Mutator : pc[p] \in MutatorPc
  /\ \A r \in Runner : pc[r] \in RunnerPc

(***************************************************************************)
(* A saved manifest is an image manifest, it is the one its name promises, *)
(* and all its layers are there: whoever finds it in the storage (fetch    *)
(* does, and then skips the layers) may rely on the whole image.  It has   *)
(* to survive a crash between any two steps of fetch_image and of prune.   *)
(***************************************************************************)
SavedManifestsAreComplete ==
  \A d \in Digest : manifests[d] # None => ManifestIsSound(d)

\* A published layer is exactly what the registry's verified bytes unpack to,
\* whatever an earlier, interrupted extraction left in temporary/.
PublishedLayersAreWhole == \A l \in Layer : layers[l] # "damaged"

\* The digest of a plain image manifest that goes by no other digest.
Canonical(d) ==
  /\ Denotes[d] \in ImageManifest \ ImageIndex
  /\ \A e \in Digest : Denotes[e] = Denotes[d] => e = d

(***************************************************************************)
(* A container that records a canonical digest can be run: its manifest is *)
(* saved (and so complete), whatever was switched, updated, pruned or      *)
(* interrupted since.                                                      *)
(***************************************************************************)
ContainersResolve ==
  \A c \in Installed :
    Canonical(containers[c].manifest_digest) =>
      ManifestIsSound(containers[c].manifest_digest)

\* switch reports success only when the manifest it recorded is saved.
SwitchedContainersResolve ==
  \A p \in Mutator :
    pc[p] = "done" /\ job[p].op = "switch" =>
      IsManifestSaved(containers[job[p].container].manifest_digest, TRUE)

(***************************************************************************)
(* A prune that succeeds leaves only what an installed container needs,    *)
(* apart from the layers for which it reported a lock or an error.         *)
(***************************************************************************)
PruneReclaims ==
  \A p \in Mutator :
    pc[p] = "done" /\ job[p].op = "prune" =>
      LET used == {containers[c].manifest_digest : c \in Installed}
      IN  /\ {d \in Digest : manifests[d] # None} = used
          /\ PresentLayers \subseteq
               scan[p].kept \cup UNION {LayerSet(manifests[d]) : d \in used}

\* Between the manifests it reads and its exec, a run sees nothing published
\* or removed: what it found is what it hands to bwrap.
ReadersSeeStableStorage ==
  [][\A r \in Runner :
       flock[r] = "shared" /\ flock'[r] = "shared" => UNCHANGED published]_vars

\* The sandbox has all its locks, and its root shows all its layers.
Intact(r) == \A l \in box[r].stack : r \in mounted[l]

(***************************************************************************)
(* Once the locks are taken, nothing takes a layer away from a sandbox     *)
(* that still had all of them at that moment.                              *)
(***************************************************************************)
IntactSandboxStaysIntact ==
  [][\A r \in Runner :
       /\ pc[r] = "running" /\ Intact(r)
       /\ pc'[r] = "running"
       => Intact(r)']_vars

\* A sandbox that holds its locks has all its layers: prune observes the locks
\* of running sandboxes.
RunningSandboxIsIntact == \A r \in Runner : pc[r] = "running" => Intact(r)

(***************************************************************************)
(* The storage lock is given back by whoever needs only the local disk:    *)
(* prune and uninstall, even while sandboxes hold layers, and run.         *)
(***************************************************************************)
LocalWorkEnds ==
  /\ \A p \in Mutator :
       job[p].op \in {"prune", "uninstall"} ~> flock[p] = "none"
  /\ \A r \in Runner : flock[r] = "shared" ~> flock[r] = "none"

\* Every command comes to its end when the registry answers: no loop over
\* containers, manifests, layers or lock files goes round for ever.
AnsweredCommandsEnd ==
  Answered => \A p \in Mutator : job[p].op # None ~> job[p].op = None
=============================================================================
