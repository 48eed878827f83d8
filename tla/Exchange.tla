------------------------------- MODULE Exchange -------------------------------
(***************************************************************************)
(* What RegistryClient promises its callers of a single call: it is        *)
(* answered when the registry lets anybody have what was asked for, it is  *)
(* refused when it does not, and it may always break.  Nothing else        *)
(* matters: no earlier call, and no token that was granted for one.        *)
(***************************************************************************)
CONSTANT Repository

VARIABLES
  public,       \* the repositories that anybody may read
  repository,   \* of the current call
  status        \* "idle", "asked", or how the call ended

vars == <<public, repository, status>>

Outcome == {"answered", "refused", "broken"}

Init ==
  /\ public \subseteq Repository
  /\ repository \in Repository
  /\ status = "idle"

Ask ==
  /\ status = "idle"
  /\ status' = "asked"
  /\ repository' \in Repository
  /\ UNCHANGED public

Reply ==
  /\ status = "asked"
  /\ status' \in {IF repository \in public THEN "answered" ELSE "refused",
                  "broken"}
  /\ UNCHANGED <<public, repository>>

Return ==
  /\ status \in Outcome
  /\ status' = "idle"
  /\ UNCHANGED <<public, repository>>

Next == Ask \/ Reply \/ Return

Spec == Init /\ [][Next]_vars
=============================================================================
