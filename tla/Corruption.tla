------------------------------ MODULE Corruption ------------------------------
(***************************************************************************)
(* Pakstak on a storage that loses or damages what it keeps while no       *)
(* command is writing to it: a manifest file may hold other bytes, and a   *)
(* layer directory may be gone.  It is what repair is for.                 *)
(***************************************************************************)
EXTENDS Pakstak

Quiet == \A p \in Mutator : pc[p] = "idle"

DamageManifest ==
  /\ Quiet
  /\ \E d \in Digest, b \in Blob :
       /\ manifests[d] # None
       /\ manifests' = [manifests EXCEPT ![d] = b]
  /\ UNCHANGED <<containers, layers, temporary, lockFiles, locks, mounts,
                 pc, fetch, scan, job, box>>

LoseLayer ==
  /\ Quiet
  /\ \E l \in PresentLayers :
       /\ layers' = [layers EXCEPT ![l] = "absent"]
       /\ mounted' = [mounted EXCEPT ![l] = {}]
  /\ UNCHANGED <<containers, manifests, temporary, lockFiles, locks, bound,
                 pc, fetch, scan, job, box>>

CorruptibleSpec == Init /\ [][Next \/ DamageManifest \/ LoseLayer]_vars

(***************************************************************************)
(* What the check of repair may still complain of belongs to no container: *)
(* "unused invalid manifests, unused missing layers" (repair.rs:67-68).    *)
(***************************************************************************)
RepairRestoresContainers ==
  \A p \in Mutator :
    pc[p] = "repair" /\ job[p].targets = {} => ContainersResolve

(***************************************************************************)
(* "To prune unused manifests and layers use `prune` command"              *)
(* (repair.rs:69): where every container can be run, as after a repair, a  *)
(* prune that succeeds leaves nothing for the check of repair to complain  *)
(* of, whatever the unused manifests hold that it finds.                   *)
(***************************************************************************)
PruneClearsWhatRepairReports ==
  \A p \in Mutator :
    /\ pc[p] = "done" /\ job[p].op = "prune"
    /\ \A c \in Installed : ManifestIsSound(containers[c].manifest_digest)
    => SavedManifestsAreComplete
=============================================================================
