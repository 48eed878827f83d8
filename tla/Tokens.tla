-------------------------------- MODULE Tokens --------------------------------
(***************************************************************************)
(* Authentication in RegistryClient: call_get_with_auth_retry, and the     *)
(* bearer tokens that it keeps for the life of the process.                *)
(*                                                                         *)
(* A registry's challenge, and the token granted for it, are for a single  *)
(* repository; the client keeps the token for the registry.  So the calls  *)
(* of an update of several containers, and the layers of a long download,  *)
(* meet tokens that are another repository's or have expired.              *)
(*                                                                         *)
(* Registries are modelled from how the client uses them, with two         *)
(* assumptions: a token that gives no access is answered like no token,    *)
(* with 401 and not 403, and a registry that needs no token ignores one.   *)
(***************************************************************************)
CONSTANTS
  Registry,
  Repository,
  Host,         \* Host[r] is the registry of the repository r
  None

ASSUME HostAssumption ==
  /\ Host \in [Repository -> Registry]
  /\ None \notin Repository

(***************************************************************************)
(* A repository is "open" to requests without a token, open to those with  *)
(* a "token" that anybody is granted, "closed" to all tokens this client   *)
(* can get, "foreign" when its challenge is none that the client knows, or *)
(* "gone".                                                                 *)
(***************************************************************************)
Access == {"open", "token", "closed", "foreign", "gone"}

VARIABLES
  access,       \* repository -> how its registry treats it
  valid,        \* the repositories whose tokens have not expired
  tokens,       \* registry -> the repository its token was granted for
  repository,   \* the one of the current call
  stage         \* "idle", the next request of the call, or how it ended

vars == <<access, valid, tokens, repository, stage>>

Request == {"first", "challenge", "grant", "retry"}

Outcome == {"answered", "refused", "broken"}

Init ==
  /\ access \in [Repository -> Access]
  /\ valid = {}
  /\ tokens = [h \in Registry |-> None]
  /\ repository \in Repository
  /\ stage = "idle"

-----------------------------------------------------------------------------
\* The registry's answer to a request with the token t, or with None.
Status(t) ==
  CASE access[repository] = "open" -> "ok"
    [] access[repository] = "gone" -> "error"
    [] access[repository] = "token" /\ t = repository /\ t \in valid -> "ok"
    [] OTHER -> "unauthorized"

\* Mutant: a registry without a token is sent that of another.
BearerTokenOfAny ==
  LET others == {h \in Registry : tokens[h] # None}
  IN  IF tokens[Host[repository]] # None \/ others = {}
      THEN tokens[Host[repository]]
      ELSE tokens[CHOOSE h \in others : TRUE]

\* request_get
BearerToken == tokens[Host[repository]]

\* parse_bearer_challenge: there is one for the scheme Bearer, and it has a realm.
IsBearer == access[repository] # "foreign"

\* token_from_unauthorized: an answer to a request without a token has such a
\* challenge.
IsChallenged == Status(None) = "unauthorized" /\ IsBearer

Proceed(next) ==
  /\ stage' = next
  /\ UNCHANGED <<access, valid, tokens, repository>>

Call(r) ==
  /\ stage = "idle"
  /\ repository' = r
  /\ stage' = "first"
  /\ UNCHANGED <<access, valid, tokens>>

\* The first request, with the token of an earlier call if there is one.
FirstGet ==
  /\ stage = "first"
  /\ Proceed(CASE Status(BearerToken) = "ok"           -> "answered"
               [] Status(BearerToken) = "unauthorized" -> "challenge"
               [] OTHER                                -> "refused")

\* The request again, without a token and whatever its status: only its
\* challenge counts.
ChallengeGet ==
  /\ stage = "challenge"
  /\ Proceed(IF IsChallenged THEN "grant" ELSE "refused")

\* Mutant: the first token of a registry is kept.
GrantKeepingFirst ==
  /\ stage = "grant"
  /\ valid' = valid \cup {repository}
  /\ tokens' = [tokens EXCEPT ![Host[repository]] =
                                IF @ = None THEN repository ELSE @]
  /\ stage' = "retry"
  /\ UNCHANGED <<access, repository>>

\* fetch_bearer_token: the token replaces the one the registry had.
Grant ==
  /\ stage = "grant"
  /\ valid' = valid \cup {repository}
  /\ tokens' = [tokens EXCEPT ![Host[repository]] = repository]
  /\ stage' = "retry"
  /\ UNCHANGED <<access, repository>>

\* The token service grants nothing for a repository that is closed, unless it
\* grants a token that gives no access to it.
GrantNothing ==
  /\ stage = "grant"
  /\ access[repository] = "closed"
  /\ Proceed("refused")

\* Mutant: every 401 is met with a new token.
RetryAgain ==
  /\ stage = "retry"
  /\ Proceed(CASE Status(BearerToken) = "ok"           -> "answered"
               [] Status(BearerToken) = "unauthorized" -> "challenge"
               [] OTHER                                -> "refused")

\* One retry: another 401 is an error.
Retry ==
  /\ stage = "retry"
  /\ Proceed(IF Status(BearerToken) = "ok" THEN "answered" ELSE "refused")

\* No connection, a malformed token response, an interrupted answer.
Break == stage \in Request /\ Proceed("broken")

Return == stage \in Outcome /\ Proceed("idle")

\* A token expires, but not between its grant and the retry.
Expire(r) ==
  /\ r \in valid
  /\ ~(stage = "retry" /\ r = repository)
  /\ valid' = valid \ {r}
  /\ UNCHANGED <<access, tokens, repository, stage>>

GetWithAuthRetry == FirstGet \/ ChallengeGet \/ Grant \/ GrantNothing \/ Retry

Next ==
  \/ \E r \in Repository : Call(r) \/ Expire(r)
  \/ GetWithAuthRetry
  \/ Break
  \/ Return

Spec == Init /\ [][Next]_vars

\* The servers answer; without that no call has to end, as there is no timeout.
FairSpec == Spec /\ WF_vars(GetWithAuthRetry)

-----------------------------------------------------------------------------
(***************************************************************************)
(* The tokens cannot be noticed: whatever was called before, and whichever *)
(* tokens have expired, a call is answered when its repository is public   *)
(* and refused when it is not.                                             *)
(***************************************************************************)
Abstract ==
  INSTANCE Exchange WITH
    public <- {r \in Repository : access[r] \in {"open", "token"}},
    status <- IF stage \in Request THEN "asked" ELSE stage

ImplementsExchange == Abstract!Spec

\* A request carries only tokens of the registry that it goes to.
TokensStayHome ==
  stage \in {"first", "retry"} =>
    BearerToken \in {None} \cup {r \in Repository : Host[r] = Host[repository]}

\* Every call ends: a 401 leads to a new token once, not again and again.
CallsEnd == stage \in Request ~> stage \in Outcome
=============================================================================
