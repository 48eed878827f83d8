-------------------------------- MODULE Client --------------------------------
(***************************************************************************)
(* The side of the program that faces the registries: the texts of a       *)
(* command line name the repositories, and the registries that host them,  *)
(* to which RegistryClient makes its calls.                                *)
(***************************************************************************)
EXTENDS Tokens, Reference

\* What a call takes of a reference: request_get needs the registry for the
\* token, registry_url both.
RepositoryOf(ref) == [registry |-> ref.registry, name |-> ref.repository]

ASSUME ClientAssumption ==
  /\ Repository = {RepositoryOf(Intended(w)) : w \in Written}
  /\ \A r \in Repository : Host[r] = r.registry

(***************************************************************************)
(* Whatever was typed for the repository of a call is read as it was meant,*)
(* in whatever order its separators come, and so is the text that the      *)
(* program displays of it.                                                 *)
(***************************************************************************)
ReadsAsIntended ==
  \A w \in Written :
    RepositoryOf(Intended(w)) = repository =>
      /\ ReadsAs(TextOf(w), Intended(w))
      /\ ReadsAgain(TextOf(w), Intended(w))
=============================================================================
