---------------------------- MODULE ClientProofs -----------------------------
(***************************************************************************)
(* The client, whatever the registries, their repositories and the         *)
(* sequence of calls: the token cache cannot be noticed; and references    *)
(* are read as they were meant, whatever their words.                      *)
(***************************************************************************)
EXTENDS Client, TLAPS, SequenceTheorems

TypeOK ==
  /\ access \in [Repository -> Access]
  /\ valid \subseteq Repository
  /\ tokens \in [Registry -> Repository \cup {None}]
  /\ repository \in Repository
  /\ stage \in Request \cup Outcome \cup {"idle"}

\* What a call knows of its repository when it has come to a request.
CallOK ==
  /\ stage = "challenge" => access[repository] \in {"token", "closed", "foreign"}
  /\ stage \in {"grant", "retry"} => access[repository] \in {"token", "closed"}
  /\ stage = "retry" => /\ tokens[Host[repository]] = repository
                        /\ repository \in valid

\* A registry's token was granted for one of its repositories.
CacheOK == \A h \in Registry : tokens[h] # None => Host[tokens[h]] = h

IInv == TypeOK /\ CallOK /\ CacheOK

-----------------------------------------------------------------------------
LEMMA InitOK == Init => IInv
BY HostAssumption DEF Init, IInv, TypeOK, CallOK, CacheOK, Request

LEMMA StepKeeps == IInv /\ [Next]_vars => IInv'
<1> SUFFICES ASSUME IInv, [Next]_vars PROVE IInv'
  OBVIOUS
<1> USE DEF IInv, TypeOK, CallOK, CacheOK, Request, Outcome
<1>1. ASSUME NEW r \in Repository, Call(r) PROVE IInv'
  BY <1>1 DEF Call
<1>2. ASSUME NEW r \in Repository, Expire(r) PROVE IInv'
  BY <1>2 DEF Expire
<1>3. CASE FirstGet
  BY <1>3 DEF FirstGet, Proceed, Status, Access
<1>4. CASE ChallengeGet
  BY <1>4, HostAssumption DEF ChallengeGet, IsChallenged, IsBearer, Proceed, Status
<1>5. CASE Grant
  <2>1. Host[repository] \in Registry
    BY HostAssumption
  <2>2. TypeOK'
    BY <1>5, <2>1 DEF Grant
  <2>3. CallOK'
    BY <1>5, <2>1 DEF Grant
  <2>4. CacheOK'
    BY <1>5, <2>1 DEF Grant
  <2> QED
    BY <2>2, <2>3, <2>4
<1>6. CASE GrantNothing
  BY <1>6 DEF GrantNothing, Proceed
<1>7. CASE Retry
  BY <1>7 DEF Retry, Proceed
<1>8. CASE Break
  BY <1>8 DEF Break, Proceed
<1>9. CASE Return
  BY <1>9 DEF Return, Proceed
<1>10. CASE UNCHANGED vars
  BY <1>10 DEF vars
<1> QED
  BY <1>1, <1>2, <1>3, <1>4, <1>5, <1>6, <1>7, <1>8, <1>9, <1>10
     DEF Next, GetWithAuthRetry

\* The invariant holds in every reachable state.
THEOREM Inductive == Spec => []IInv
<1>1. Init => IInv
  BY InitOK
<1>2. IInv /\ [Next]_vars => IInv'
  BY StepKeeps
<1> QED
  BY <1>1, <1>2, PTL DEF Spec

\* A request carries only tokens of the registry that it goes to: the cache
\* holds no others.
THEOREM TokensAtHome == Spec => []TokensStayHome
<1>1. IInv => TokensStayHome
  BY HostAssumption DEF IInv, TypeOK, CacheOK, TokensStayHome, BearerToken
<1> QED
  BY <1>1, Inductive, PTL

-----------------------------------------------------------------------------

\* A step of a call is the reply to it, or none that the caller sees.
LEMMA StepSimulates == IInv /\ [Next]_vars => [Abstract!Next]_(Abstract!vars)
<1> SUFFICES ASSUME IInv, [Next]_vars PROVE [Abstract!Next]_(Abstract!vars)
  OBVIOUS
<1> USE DEF IInv, TypeOK, CallOK, Request, Outcome, Abstract!Next, Abstract!vars,
            Abstract!Outcome
<1>1. ASSUME NEW r \in Repository, Call(r) PROVE Abstract!Ask
  BY <1>1 DEF Call, Abstract!Ask
<1>2. ASSUME NEW r \in Repository, Expire(r) PROVE UNCHANGED Abstract!vars
  BY <1>2 DEF Expire
<1>3. CASE FirstGet
  BY <1>3 DEF FirstGet, Proceed, Status, Abstract!Reply
<1>4. CASE ChallengeGet
  BY <1>4, HostAssumption DEF ChallengeGet, IsChallenged, IsBearer, Proceed, Status, Abstract!Reply
<1>5. CASE Grant
  BY <1>5 DEF Grant
<1>6. CASE GrantNothing
  BY <1>6 DEF GrantNothing, Proceed, Abstract!Reply
<1>7. CASE Retry
  BY <1>7 DEF Retry, Proceed, Status, BearerToken, Abstract!Reply
<1>8. CASE Break
  BY <1>8 DEF Break, Proceed, Abstract!Reply
<1>9. CASE Return
  BY <1>9 DEF Return, Proceed, Abstract!Return
<1>10. CASE UNCHANGED vars
  BY <1>10 DEF vars
<1> QED
  BY <1>1, <1>2, <1>3, <1>4, <1>5, <1>6, <1>7, <1>8, <1>9, <1>10
     DEF Next, GetWithAuthRetry

\* The client implements Exchange: no call is refused, or answered, because of
\* the tokens that earlier calls have left.
THEOREM CacheIsTransparent == Spec => ImplementsExchange
<1>1. Init => Abstract!Init
  BY DEF Init, Abstract!Init, Request
<1>2. IInv /\ [Next]_vars => [Abstract!Next]_(Abstract!vars)
  BY StepSimulates
<1> QED
  BY <1>1, <1>2, Inductive, PTL DEF Spec, ImplementsExchange, Abstract!Spec

------------------------------------------------------------------------------
(***************************************************************************)
(* How texts are cut, and what the pieces of a reference are.              *)
(***************************************************************************)

Text == Seq(Symbol)

-----------------------------------------------------------------------------
(* Cutting a text. *)

\* t has the symbols of u, then s, then those of v.
Joins(t, u, s, v) ==
  /\ t \in Text
  /\ Len(u) \in Nat /\ Len(v) \in Nat /\ Len(t) = Len(u) + 1 + Len(v)
  /\ \A i \in 1..Len(u) : t[i] = u[i]
  /\ t[Len(u) + 1] = s
  /\ \A i \in 1..Len(v) : t[Len(u) + 1 + i] = v[i]

\* The parts of a text with a separator in it.
LEMMA Joined ==
  ASSUME NEW u \in Text, NEW v \in Text, NEW s \in Symbol
  PROVE  Joins(u \o (<<s>> \o v), u, s, v)
<1> DEFINE x == <<s>> \o v
           t == u \o x
<1>1. <<s>> \in Text /\ Len(<<s>>) = 1 /\ <<s>>[1] = s /\ Len(u) \in Nat /\ Len(v) \in Nat
  BY LenProperties DEF Text
<1>2. /\ x \in Text /\ Len(x) = 1 + Len(v)
      /\ \A i \in 1..(1 + Len(v)) : x[i] = IF i <= 1 THEN <<s>>[i] ELSE v[i - 1]
  BY <1>1, ConcatProperties DEF Text
<1>3. x[1] = s
  BY <1>1, <1>2
<1>4. \A i \in 1..Len(v) : x[1 + i] = v[i]
  <2> SUFFICES ASSUME NEW i \in 1..Len(v) PROVE x[1 + i] = v[i]
    OBVIOUS
  <2>1. 1 + i \in 1..(1 + Len(v)) /\ ~(1 + i <= 1) /\ (1 + i) - 1 = i
    BY <1>1
  <2> HIDE DEF x
  <2> QED
    BY <1>2, <2>1
<1> HIDE DEF x
<1>5. /\ t \in Text /\ Len(t) = Len(u) + Len(x)
      /\ \A i \in 1..(Len(u) + Len(x)) : t[i] = IF i <= Len(u) THEN u[i] ELSE x[i - Len(u)]
  BY <1>2, ConcatProperties DEF Text
<1> HIDE DEF t
<1>6. \A i \in 1..Len(u) : t[i] = u[i]
  BY <1>1, <1>2, <1>5
<1>7. \A i \in 1..Len(x) : t[Len(u) + i] = x[i]
  <2> SUFFICES ASSUME NEW i \in 1..Len(x) PROVE t[Len(u) + i] = x[i]
    OBVIOUS
  <2>1. /\ Len(u) + i \in 1..(Len(u) + Len(x)) /\ ~(Len(u) + i <= Len(u))
        /\ (Len(u) + i) - Len(u) = i
    BY <1>1, <1>2
  <2> QED
    BY <1>5, <2>1
<1>8. t[Len(u) + 1] = s
  BY <1>1, <1>2, <1>3, <1>7
<1>9. \A i \in 1..Len(v) : t[Len(u) + 1 + i] = v[i]
  <2> SUFFICES ASSUME NEW i \in 1..Len(v) PROVE t[Len(u) + 1 + i] = v[i]
    OBVIOUS
  <2>1. 1 + i \in 1..Len(x) /\ Len(u) + 1 + i = Len(u) + (1 + i)
    BY <1>1, <1>2
  <2>2. t[Len(u) + (1 + i)] = v[i]
    BY <1>4, <1>7, <2>1
  <2> QED
    BY <2>1, <2>2
<1>10. Len(t) = Len(u) + 1 + Len(v)
  BY <1>1, <1>2, <1>5
<1> QED
  BY <1>1, <1>5, <1>6, <1>8, <1>9, <1>10 DEF t, x, Joins

\* Cut at its separator, a text gives the two parts.
LEMMA Cut ==
  ASSUME NEW u \in Text, NEW v \in Text, NEW s \in Symbol
  PROVE  /\ Before(u \o (<<s>> \o v), Len(u) + 1) = u
         /\ Behind(u \o (<<s>> \o v), Len(u) + 1) = v
<1> DEFINE t == u \o (<<s>> \o v)
<1>1. /\ t \in Text
      /\ Len(u) \in Nat /\ Len(v) \in Nat /\ Len(t) = Len(u) + 1 + Len(v)
      /\ \A i \in 1..Len(u) : t[i] = u[i]
      /\ \A i \in 1..Len(v) : t[Len(u) + 1 + i] = v[i]
  <2>1. Joins(t, u, s, v)
    BY Joined, Zenon
  <2> QED
    BY <2>1 DEF Joins
<1> HIDE DEF t
<1>2. \A i \in 1..Len(t) : t[i] \in Symbol
  BY <1>1, ElementOfSeq DEF Text
<1>3. Before(t, Len(u) + 1) = u
  <2> DEFINE b == SubSeq(t, 1, Len(u))
  <2>1. b \in Seq(Symbol) /\ Len(b) = Len(u) /\ \A i \in 1..Len(u) : b[i] = u[i]
    <3>1. \A i \in 1..Len(u) : t[i] \in Symbol
      BY <1>1, <1>2
    <3>2. /\ b \in Seq(Symbol)
          /\ Len(b) = IF 1 <= Len(u) THEN Len(u) - 1 + 1 ELSE 0
          /\ \A i \in 1..(Len(u) - 1 + 1) : b[i] = t[1 + i - 1]
      BY <1>1, <3>1, SubSeqProperties
    <3>3. \A i \in 1..Len(u) : i \in 1..(Len(u) - 1 + 1) /\ 1 + i - 1 = i
      BY <1>1
    <3>4. \A i \in 1..Len(u) : b[i] = u[i]
      BY <1>1, <3>2, <3>3
    <3>5. Len(b) = Len(u)
      BY <1>1, <3>2
    <3> QED
      BY <3>2, <3>4, <3>5
  <2> HIDE DEF b
  <2>2. b = u
    BY <2>1, SeqEqual DEF Text
  <2>3. Len(u) + 1 # 0 /\ Len(u) + 1 - 1 = Len(u)
    BY <1>1
  <2> QED
    BY <2>2, <2>3 DEF Before, b
<1>4. Behind(t, Len(u) + 1) = v
  <2> DEFINE m == Len(u) + 2
             b == SubSeq(t, m, Len(t))
  <2>1. b \in Seq(Symbol) /\ Len(b) = Len(v) /\ \A i \in 1..Len(v) : b[i] = v[i]
    <3>1. \A i \in m..Len(t) : t[i] \in Symbol
      BY <1>1, <1>2
    <3>2. m \in Int /\ Len(t) \in Int
      BY <1>1
    <3> HIDE DEF m
    <3>3. /\ b \in Seq(Symbol)
          /\ Len(b) = IF m <= Len(t) THEN Len(t) - m + 1 ELSE 0
          /\ \A i \in 1..(Len(t) - m + 1) : b[i] = t[m + i - 1]
      BY <3>1, <3>2, SubSeqProperties
    <3>4. \A i \in 1..Len(v) : i \in 1..(Len(t) - m + 1) /\ m + i - 1 = Len(u) + 1 + i
      BY <1>1 DEF m
    <3>5. \A i \in 1..Len(v) : b[i] = v[i]
      BY <1>1, <3>3, <3>4
    <3>6. Len(b) = Len(v)
      BY <1>1, <3>3 DEF m
    <3> QED
      BY <3>3, <3>5, <3>6
  <2>2. Len(u) + 1 + 1 = m
    BY <1>1
  <2> HIDE DEF b, m
  <2>3. b = v
    BY <2>1, SeqEqual DEF Text
  <2> QED
    BY <2>2, <2>3 DEF Behind, b
<1> QED
  BY <1>3, <1>4 DEF t

LEMMA LastOfDef ==
  ASSUME NEW text, NEW s
  PROVE  LastOf(text, s) = LET I == {i \in 1..Len(text) : text[i] = s}
                           IN  IF I # {} THEN Max(I) ELSE 0
BY DEF LastOf, SelectLastInSeq

\* A text is cut at the last separator s if none is behind it.
LEMMA LastCut ==
  ASSUME NEW u \in Text, NEW v \in Text, NEW s \in Symbol, ~Has(v, {s})
  PROVE  LastOf(u \o (<<s>> \o v), s) = Len(u) + 1
<1> DEFINE t == u \o (<<s>> \o v)
           I == {i \in 1..Len(t) : t[i] = s}
           k == Len(u) + 1
<1>1. /\ Len(u) \in Nat /\ Len(v) \in Nat /\ Len(t) = Len(u) + 1 + Len(v)
      /\ t[k] = s
      /\ \A i \in 1..Len(v) : t[Len(u) + 1 + i] = v[i]
  <2>1. Joins(t, u, s, v)
    BY Joined, Zenon
  <2> QED
    BY <2>1 DEF Joins
<1> HIDE DEF t
<1>2. \A i \in 1..Len(t) : i > k => t[i] # s
  <2> SUFFICES ASSUME NEW i \in 1..Len(t), i > k PROVE t[i] # s
    OBVIOUS
  <2> DEFINE j == i - k
  <2>1. j \in 1..Len(v) /\ Len(u) + 1 + j = i
    BY <1>1
  <2>2. v[j] # s
    BY <2>1 DEF Has
  <2> HIDE DEF j
  <2> QED
    BY <1>1, <2>1, <2>2
<1>3. k \in I /\ \A i \in I : k >= i
  BY <1>1, <1>2
<1>4. \A x \in I : (\A y \in I : x >= y) => x = k
  BY <1>1, <1>3
<1>5. Max(I) = k
  BY <1>3, <1>4 DEF Max
<1> QED
  BY <1>3, <1>5, LastOfDef DEF t

\* A text without the separator is not cut.
LEMMA NoCut ==
  ASSUME NEW t \in Text, NEW s, ~Has(t, {s})
  PROVE  LastOf(t, s) = 0 /\ Before(t, 0) = t
BY LastOfDef DEF Has, Before

\* The first slash.
LEMMA FirstCut ==
  ASSUME NEW u \in Text, NEW v \in Text, ~Has(u, {"/"})
  PROVE  SelectInSeq(u \o (<<"/">> \o v), LAMBDA s : s = "/") = Len(u) + 1
<1> DEFINE t == u \o (<<"/">> \o v)
           I == {i \in 1..Len(t) : t[i] = "/"}
           k == Len(u) + 1
<1>1. /\ Len(u) \in Nat /\ Len(v) \in Nat /\ Len(t) = Len(u) + 1 + Len(v)
      /\ t[k] = "/"
      /\ \A i \in 1..Len(u) : t[i] = u[i]
  <2>1. "/" \in Symbol
    BY DEF Symbol, Separator
  <2>2. Joins(t, u, "/", v)
    BY <2>1, Joined, Zenon
  <2> QED
    BY <2>2 DEF Joins
<1> HIDE DEF t
<1>2. \A i \in 1..Len(t) : i < k => t[i] # "/"
  BY <1>1 DEF Has
<1>3. k \in I /\ \A i \in I : k <= i
  BY <1>1, <1>2
<1>4. \A x \in I : (\A y \in I : x <= y) => x = k
  BY <1>1, <1>3
<1>5. Min(I) = k
  BY <1>3, <1>4 DEF Min
<1> QED
  BY <1>3, <1>5 DEF SelectInSeq, t

LEMMA NoSlash ==
  ASSUME NEW t \in Text, ~Has(t, {"/"})
  PROVE  SelectInSeq(t, LAMBDA s : s = "/") = 0
BY DEF Has, SelectInSeq

\* What a text holds is in one of its parts.
LEMMA HasJoined ==
  ASSUME NEW u \in Text, NEW v \in Text, NEW s \in Symbol, NEW S
  PROVE  Has(u \o (<<s>> \o v), S) <=> Has(u, S) \/ s \in S \/ Has(v, S)
<1> DEFINE t == u \o (<<s>> \o v)
<1>1. /\ Len(u) \in Nat /\ Len(v) \in Nat /\ Len(t) = Len(u) + 1 + Len(v)
      /\ \A i \in 1..Len(u) : t[i] = u[i]
      /\ t[Len(u) + 1] = s
      /\ \A i \in 1..Len(v) : t[Len(u) + 1 + i] = v[i]
  <2>1. Joins(t, u, s, v)
    BY Joined, Zenon
  <2> QED
    BY <2>1 DEF Joins
<1> HIDE DEF t
<1>2. ASSUME Has(u, S) \/ s \in S \/ Has(v, S) PROVE Has(t, S)
  <2>1. CASE Has(u, S)
    <3>1. PICK i \in 1..Len(u) : u[i] \in S
      BY <2>1 DEF Has
    <3> QED
      BY <1>1, <3>1 DEF Has
  <2>2. CASE s \in S
    BY <1>1, <2>2 DEF Has
  <2>3. CASE Has(v, S)
    <3>1. PICK i \in 1..Len(v) : v[i] \in S
      BY <2>3 DEF Has
    <3>2. Len(u) + 1 + i \in 1..Len(t) /\ t[Len(u) + 1 + i] \in S
      BY <1>1, <3>1
    <3> QED
      BY <3>2 DEF Has
  <2> QED
    BY <1>2, <2>1, <2>2, <2>3
<1>3. ASSUME Has(t, S), ~(s \in S), ~Has(u, S) PROVE Has(v, S)
  <2>1. PICK i \in 1..Len(t) : t[i] \in S
    BY <1>3 DEF Has
  <2> DEFINE j == i - (Len(u) + 1)
  <2>2. i > Len(u) + 1
    BY <1>1, <1>3, <2>1 DEF Has
  <2>3. j \in 1..Len(v) /\ Len(u) + 1 + j = i
    BY <1>1, <2>1, <2>2
  <2> HIDE DEF j
  <2>4. v[j] \in S
    BY <1>1, <2>1, <2>3
  <2> QED
    BY <2>3, <2>4 DEF Has
<1> QED
  BY <1>2, <1>3 DEF t

-----------------------------------------------------------------------------
(* The parts of a reference. *)

RegistryOf(w) == w.host \o Optional(":", w.port)
PathOf(w)     == RegistryOf(w) \o (<<"/">> \o w.repository)
NameOf(w)     == PathOf(w) \o Optional(":", w.tag)

\* A text of words alone has no separator.
LEMMA WordsHold ==
  ASSUME NEW S, S \subseteq Separator,
         NEW W, W \subseteq Word \cup S, NEW t \in Seq(W)
  PROVE  /\ t \in Text
         /\ \A s \in Separator : s \notin S => ~Has(t, {s})
<1>1. \A i \in 1..Len(t) : t[i] \in Word \cup S
  BY ElementOfSeq
<1>2. t \in Text
  BY SeqMonotonic DEF Text, Symbol
<1>3. \A s \in Separator : s \notin S => ~Has(t, {s})
  BY <1>1, WordAssumption DEF Has
<1> QED
  BY <1>2, <1>3

LEMMA Parts ==
  ASSUME NEW w, IsWellFormed(w)
  PROVE  /\ {w.host, w.port, w.repository, w.tag, w.digest} \subseteq Text
         /\ \A s \in Separator :
              /\ ~Has(w.host, {s}) /\ ~Has(w.port, {s}) /\ ~Has(w.tag, {s})
              /\ s # "/" => ~Has(w.repository, {s})
              /\ s # ":" => ~Has(w.digest, {s})
         /\ w.host # NoText /\ w.repository # NoText
<1>1. w.host \in Seq(Word) /\ w.port \in Seq(Word) /\ w.tag \in Seq(Word)
  BY DEF IsWellFormed
<1>2. w.repository \in Seq(Word \cup {"/"}) /\ w.digest \in Seq(Word \cup {":"})
  BY DEF IsWellFormed
<1>3. {"/"} \subseteq Separator /\ {":"} \subseteq Separator /\ {} \subseteq Separator
  BY DEF Separator
<1>4. \A t \in Seq(Word) : t \in Text /\ \A s \in Separator : ~Has(t, {s})
  <2>1. \A S \in SUBSET Separator : \A t \in Seq(Word) :
          t \in Text /\ \A s \in Separator : s \notin S => ~Has(t, {s})
    BY WordsHold
  <2>2. {} \in SUBSET Separator /\ \A s \in Separator : s \notin {}
    OBVIOUS
  <2> QED
    BY <2>1, <2>2, Zenon
<1>5. /\ w.repository \in Text
      /\ \A s \in Separator : s \notin {"/"} => ~Has(w.repository, {s})
  BY <1>2, <1>3, WordsHold
<1>6. /\ w.digest \in Text
      /\ \A s \in Separator : s \notin {":"} => ~Has(w.digest, {s})
  BY <1>2, <1>3, WordsHold
<1> QED
  BY <1>1, <1>4, <1>5, <1>6 DEF IsWellFormed

\* A part that is there, behind its separator.
LEMMA WithPart ==
  ASSUME NEW u \in Text, NEW v \in Text, NEW s \in Symbol
  PROVE  /\ u \o Optional(s, v) \in Text
         /\ v = NoText => u \o Optional(s, v) = u
         /\ v # NoText => u \o Optional(s, v) = u \o (<<s>> \o v)
         /\ \A S : Has(u \o Optional(s, v), S) <=>
                    Has(u, S) \/ (v # NoText /\ (s \in S \/ Has(v, S)))
<1>1. u \o << >> = u
  BY ConcatEmptySeq DEF Text
<1>2. u \o (<<s>> \o v) \in Text
  BY Joined DEF Joins
<1>3. \A S : Has(u \o (<<s>> \o v), S) <=> Has(u, S) \/ s \in S \/ Has(v, S)
  BY HasJoined
<1> QED
  BY <1>1, <1>2, <1>3 DEF Optional, NoText

LEMMA Shape ==
  ASSUME NEW w, IsWellFormed(w)
  PROVE  /\ RegistryOf(w) \in Text /\ PathOf(w) \in Text /\ NameOf(w) \in Text
         /\ TextOf(w) = NameOf(w) \o Optional("@", w.digest)
<1>1. {":", "/", "@"} \subseteq Symbol /\ <<"/">> \in Seq(Symbol)
  BY DEF Symbol, Separator
<1>2. /\ w.host \in Text /\ w.port \in Text /\ w.repository \in Text
      /\ w.tag \in Text /\ w.digest \in Text
  BY Parts
<1>3. RegistryOf(w) \in Text
  BY <1>1, <1>2, WithPart DEF RegistryOf
<1>4. PathOf(w) \in Text
  BY <1>1, <1>2, <1>3, Joined DEF PathOf, Joins
<1>5. NameOf(w) \in Text
  BY <1>1, <1>2, <1>4, WithPart DEF NameOf
<1>6. RegistryOf(w) \o <<"/">> \o w.repository = PathOf(w)
  <2>1. \A r, s, t \in Seq(Symbol) : (r \o s) \o t = r \o (s \o t)
    BY ConcatAssociative
  <2>2. RegistryOf(w) \in Seq(Symbol) /\ w.repository \in Seq(Symbol)
    BY <1>2, <1>3 DEF Text
  <2> QED
    BY <1>1, <2>1, <2>2, Zenon DEF PathOf
<1>7. TextOf(w) = NameOf(w) \o Optional("@", w.digest)
  BY <1>6 DEF TextOf, NameOf, RegistryOf
<1> QED
  BY <1>3, <1>4, <1>5, <1>7

\* Where the separators are.
LEMMA Holds ==
  ASSUME NEW w, IsWellFormed(w)
  PROVE  /\ ~Has(RegistryOf(w), {"/"})
         /\ \A S : Has(RegistryOf(w), S) <=>
                    Has(w.host, S) \/ (w.port # NoText /\ (":" \in S \/ Has(w.port, S)))
         /\ \A S : Has(PathOf(w), S) <=>
                    Has(RegistryOf(w), S) \/ "/" \in S \/ Has(w.repository, S)
         /\ \A S : Has(NameOf(w), S) <=>
                    Has(PathOf(w), S) \/ (w.tag # NoText /\ (":" \in S \/ Has(w.tag, S)))
<1>1. {":", "/", "@"} \subseteq Symbol /\ {":", "/", "@"} = Separator
  BY DEF Symbol, Separator
<1>2. /\ w.host \in Text /\ w.port \in Text /\ w.repository \in Text
      /\ w.tag \in Text /\ w.digest \in Text
      /\ ~Has(w.host, {"/"}) /\ ~Has(w.port, {"/"})
  BY <1>1, Parts
<1>3. RegistryOf(w) \in Text /\ PathOf(w) \in Text
  BY Shape
<1>4. \A S : Has(RegistryOf(w), S) <=>
              Has(w.host, S) \/ (w.port # NoText /\ (":" \in S \/ Has(w.port, S)))
  BY <1>1, <1>2, WithPart DEF RegistryOf
<1>5. \A S : Has(PathOf(w), S) <=>
              Has(RegistryOf(w), S) \/ "/" \in S \/ Has(w.repository, S)
  BY <1>1, <1>2, <1>3, HasJoined DEF PathOf
<1>6. \A S : Has(NameOf(w), S) <=>
              Has(PathOf(w), S) \/ (w.tag # NoText /\ (":" \in S \/ Has(w.tag, S)))
  BY <1>1, <1>2, <1>3, WithPart DEF NameOf
<1>7. ~Has(RegistryOf(w), {"/"})
  BY <1>2, <1>4
<1> QED
  BY <1>4, <1>5, <1>6, <1>7

\* The digest is behind the last "@".
LEMMA NameIsCut ==
  ASSUME NEW w, IsWellFormed(w)
  PROVE  LET at == LastOf(TextOf(w), "@")
         IN  /\ Before(TextOf(w), at) = NameOf(w)
             /\ at = 0 <=> w.digest = NoText
             /\ w.digest # NoText => Behind(TextOf(w), at) = w.digest
<1>1. "@" \in Symbol /\ "@" \in Separator
  BY DEF Symbol, Separator
<1>2. /\ w.digest \in Text /\ NameOf(w) \in Text /\ Len(NameOf(w)) \in Nat
      /\ TextOf(w) = NameOf(w) \o Optional("@", w.digest)
  BY Parts, Shape, LenProperties DEF Text
<1>3. ~Has(w.digest, {"@"}) /\ ~Has(NameOf(w), {"@"})
  BY <1>1, Parts, Holds
<1>4. CASE w.digest = NoText
  <2>1. TextOf(w) = NameOf(w)
    BY <1>1, <1>2, <1>4, WithPart
  <2> QED
    BY <1>2, <1>3, <1>4, <2>1, NoCut
<1>5. CASE w.digest # NoText
  <2>1. TextOf(w) = NameOf(w) \o (<<"@">> \o w.digest)
    BY <1>2, <1>5 DEF Optional
  <2>2. LastOf(TextOf(w), "@") = Len(NameOf(w)) + 1
    BY <1>1, <1>2, <1>3, <2>1, LastCut
  <2>3. /\ Before(NameOf(w) \o (<<"@">> \o w.digest), Len(NameOf(w)) + 1) = NameOf(w)
        /\ Behind(NameOf(w) \o (<<"@">> \o w.digest), Len(NameOf(w)) + 1) = w.digest
    BY <1>1, <1>2, Cut
  <2>4. Len(NameOf(w)) + 1 # 0
    BY <1>2
  <2> QED
    BY <1>5, <2>1, <2>2, <2>3, <2>4
<1> QED
  BY <1>4, <1>5

\* The tag is behind the last ":" of the name, if the port is not.
LEMMA PathIsCut ==
  ASSUME NEW w, IsWellFormed(w), w.port = NoText \/ w.tag # NoText
  PROVE  LET colon == LastOf(NameOf(w), ":")
         IN  /\ Before(NameOf(w), colon) = PathOf(w)
             /\ colon = 0 <=> w.tag = NoText
             /\ w.tag # NoText => Behind(NameOf(w), colon) = w.tag
<1>1. ":" \in Symbol /\ ":" \in Separator
  BY DEF Symbol, Separator
<1>2. /\ w.tag \in Text /\ PathOf(w) \in Text /\ Len(PathOf(w)) \in Nat
      /\ NameOf(w) = PathOf(w) \o Optional(":", w.tag)
  BY Parts, Shape, LenProperties DEF Text, NameOf
<1>3. /\ ~Has(w.tag, {":"})
      /\ w.port = NoText => ~Has(PathOf(w), {":"})
  BY <1>1, Parts, Holds
<1>4. CASE w.tag = NoText
  <2>1. NameOf(w) = PathOf(w)
    BY <1>1, <1>2, <1>4, WithPart
  <2> QED
    BY <1>2, <1>3, <1>4, <2>1, NoCut
<1>5. CASE w.tag # NoText
  <2>1. NameOf(w) = PathOf(w) \o (<<":">> \o w.tag)
    BY <1>2, <1>5 DEF Optional
  <2>2. LastOf(NameOf(w), ":") = Len(PathOf(w)) + 1
    BY <1>1, <1>2, <1>3, <2>1, LastCut
  <2>3. /\ Before(PathOf(w) \o (<<":">> \o w.tag), Len(PathOf(w)) + 1) = PathOf(w)
        /\ Behind(PathOf(w) \o (<<":">> \o w.tag), Len(PathOf(w)) + 1) = w.tag
    BY <1>1, <1>2, Cut
  <2>4. Len(PathOf(w)) + 1 # 0
    BY <1>2
  <2> QED
    BY <1>5, <2>1, <2>2, <2>3, <2>4
<1> QED
  BY <1>4, <1>5

\* The registry is before the first "/" of the path.
LEMMA RegistryIsCut ==
  ASSUME NEW w, IsWellFormed(w)
  PROVE  LET slash == SelectInSeq(PathOf(w), LAMBDA s : s = "/")
         IN  /\ slash = Len(RegistryOf(w)) + 1
             /\ Before(PathOf(w), slash) = RegistryOf(w)
             /\ Behind(PathOf(w), slash) = w.repository
             /\ slash \notin {0, Len(PathOf(w))}
<1>1. "/" \in Symbol
  BY DEF Symbol, Separator
<1>2. /\ w.repository \in Text /\ w.repository # << >>
      /\ RegistryOf(w) \in Text /\ ~Has(RegistryOf(w), {"/"})
  BY Parts, Shape, Holds DEF NoText
<1>3. SelectInSeq(PathOf(w), LAMBDA s : s = "/") = Len(RegistryOf(w)) + 1
  BY <1>2, FirstCut DEF PathOf
<1>4. /\ Before(PathOf(w), Len(RegistryOf(w)) + 1) = RegistryOf(w)
      /\ Behind(PathOf(w), Len(RegistryOf(w)) + 1) = w.repository
  BY <1>1, <1>2, Cut DEF PathOf
<1>5. /\ Len(RegistryOf(w)) \in Nat /\ Len(w.repository) \in Nat
      /\ Len(PathOf(w)) = Len(RegistryOf(w)) + 1 + Len(w.repository)
  <2>1. Joins(PathOf(w), RegistryOf(w), "/", w.repository)
    BY <1>1, <1>2, Joined, Zenon DEF PathOf
  <2> QED
    BY <2>1 DEF Joins
<1>6. Len(w.repository) # 0
  BY <1>2, EmptySeq DEF Text
<1>7. Len(RegistryOf(w)) + 1 \notin {0, Len(PathOf(w))}
  <2>1. \A a, b \in Nat : b # 0 => a + 1 # 0 /\ a + 1 # a + 1 + b
    OBVIOUS
  <2> QED
    BY <1>5, <1>6, <2>1, Zenon
<1> QED
  BY <1>3, <1>4, <1>7

LEMMA RegistryIsExplicit ==
  ASSUME NEW w, IsWellFormed(w)
  PROVE  IsExplicit(RegistryOf(w))
<1>1. \A S : Has(RegistryOf(w), S) <=>
              Has(w.host, S) \/ (w.port # NoText /\ (":" \in S \/ Has(w.port, S)))
  BY Holds
<1>2. Has(w.host, Dotted) => Has(w.host, Dotted \cup {":"})
  BY DEF Has
<1>3. w.port = NoText => RegistryOf(w) = w.host
  <2>1. ":" \in Symbol
    BY DEF Symbol, Separator
  <2> QED
    BY <2>1, Parts, WithPart DEF RegistryOf
<1>4. ":" \in Dotted \cup {":"}
  OBVIOUS
<1> QED
  BY <1>1, <1>2, <1>3, <1>4 DEF IsWellFormed, IsExplicit

LEMMA SubHas ==
  ASSUME NEW t \in Text, NEW a \in Nat, NEW b \in 0..Len(t), 1 <= a, NEW S
  PROVE  Has(SubSeq(t, a, b), S) <=> \E j \in a..b : t[j] \in S
<1> DEFINE u == SubSeq(t, a, b)
<1>1. /\ u \in Seq(Symbol)
      /\ Len(u) = IF a <= b THEN b - a + 1 ELSE 0
      /\ \A i \in 1..(b - a + 1) : u[i] = t[a + i - 1]
  <2>1. \A i \in a..b : t[i] \in Symbol
    BY ElementOfSeq, LenProperties DEF Text
  <2> QED
    BY <2>1, SubSeqProperties DEF Text
<1> HIDE DEF u
<1>2. b \in Int
  BY LenProperties DEF Text
<1>3. ASSUME Has(u, S) PROVE \E j \in a..b : t[j] \in S
  <2>1. PICK i \in 1..Len(u) : u[i] \in S
    BY <1>3 DEF Has
  <2>2. i \in 1..(b - a + 1) /\ a + i - 1 \in a..b
    BY <1>1, <1>2, <2>1
  <2> QED
    BY <1>1, <2>1, <2>2
<1>4. ASSUME NEW j \in a..b, t[j] \in S PROVE Has(u, S)
  <2> DEFINE i == j - a + 1
  <2>1. i \in 1..(b - a + 1) /\ i \in 1..Len(u) /\ a + i - 1 = j
    BY <1>1, <1>2
  <2> HIDE DEF i
  <2>2. u[i] \in S
    BY <1>1, <1>4, <2>1
  <2> QED
    BY <2>1, <2>2 DEF Has
<1> QED
  BY <1>3, <1>4 DEF u

\* A port is alone when no tag is behind it.
LEMMA PortIsAlone ==
  ASSUME NEW w, IsWellFormed(w)
  PROVE  PortAlone(TextOf(w)) <=> w.port # NoText /\ w.tag = NoText
<1> DEFINE N == NameOf(w)
           R == RegistryOf(w)
           P == PathOf(w)
<1>1. PortAlone(TextOf(w)) <=>
        \E i \in 1..Len(N) : /\ N[i] = "/"
                             /\ Has(SubSeq(N, 1, i), {":"})
                             /\ ~Has(Behind(N, i), {":"})
  BY NameIsCut DEF PortAlone
<1>2. /\ N \in Text /\ Len(N) \in Nat /\ P \in Text /\ Len(P) \in Nat
      /\ R \in Text /\ Len(R) \in Nat /\ w.tag \in Text /\ w.repository \in Text
  BY Shape, Parts, LenProperties DEF Text
<1>3. /\ ":" \in Symbol /\ ":" \in Separator /\ "/" \in Symbol /\ "/" \in Separator
      /\ ":" # "/"
  BY DEF Symbol, Separator
<1>4. /\ N = P \o Optional(":", w.tag)
      /\ P = R \o (<<"/">> \o w.repository)
  BY DEF NameOf, PathOf
<1>5. /\ ~Has(w.tag, {"/"}) /\ ~Has(w.repository, {":"})
      /\ Has(R, {":"}) <=> w.port # NoText
      /\ Has(P, {":"}) <=> w.port # NoText
  BY <1>3, Parts, Holds
<1> HIDE DEF N, R, P
<1>6. ASSUME w.tag # NoText, NEW i \in 1..Len(N), N[i] = "/" PROVE Has(Behind(N, i), {":"})
  <2>1. N = P \o (<<":">> \o w.tag)
    BY <1>4, <1>6 DEF Optional
  <2> DEFINE k == Len(P) + 1
  <2>2. /\ Len(N) = Len(P) + 1 + Len(w.tag) /\ N[k] = ":" /\ Len(w.tag) \in Nat
        /\ \A j \in 1..Len(w.tag) : N[Len(P) + 1 + j] = w.tag[j]
    <3>1. Joins(N, P, ":", w.tag)
      BY <1>2, <1>3, <2>1, Joined, Zenon
    <3> QED
      BY <3>1 DEF Joins
  <2>a. Len(N) = Len(P) + 1 + Len(w.tag) /\ Len(P) \in Nat /\ Len(w.tag) \in Nat
    BY <1>2, <2>2
  <2>3. i <= Len(P)
    <3> SUFFICES ASSUME i > Len(P) PROVE FALSE
      BY <1>2
    <3> DEFINE j == i - k
    <3>1. i # k
      BY <1>3, <1>6, <2>2
    <3>2. j \in 1..Len(w.tag) /\ Len(P) + 1 + j = i
      <4>1. \A p, t \in Nat : \A x \in 1..(p + 1 + t) : x > p /\ x # p + 1 =>
              x - (p + 1) \in 1..t /\ p + 1 + (x - (p + 1)) = x
        OBVIOUS
      <4>2. i \in 1..(Len(P) + 1 + Len(w.tag))
        BY <2>a, Zenon
      <4> QED
        BY <2>a, <3>1, <4>1, <4>2, Zenon
    <3> HIDE DEF j
    <3>3. w.tag[j] = "/"
      BY <1>6, <2>2, <3>2
    <3> QED
      BY <1>5, <3>2, <3>3 DEF Has
  <2>4. i + 1 \in Nat /\ 1 <= i + 1 /\ Len(N) \in 0..Len(N) /\ k \in (i + 1)..Len(N)
    <3>1. \A p, t \in Nat : \A x \in 1..(p + 1 + t) : x <= p =>
            /\ x + 1 \in Nat /\ 1 <= x + 1 /\ p + 1 + t \in 0..(p + 1 + t)
            /\ p + 1 \in (x + 1)..(p + 1 + t)
      OBVIOUS
    <3>2. i \in 1..(Len(P) + 1 + Len(w.tag))
      BY <2>a, Zenon
    <3> QED
      BY <2>a, <2>3, <3>1, <3>2, Zenon
  <2> HIDE DEF k
  <2> QED
    BY <1>2, <2>2, <2>4, SubHas DEF Behind
<1>7. ASSUME w.tag = NoText PROVE N = P
  BY <1>2, <1>3, <1>4, <1>7, ConcatEmptySeq DEF Optional, Text, NoText
<1>8. ASSUME w.tag = NoText, w.port = NoText, NEW i \in 1..Len(N)
      PROVE  ~Has(SubSeq(N, 1, i), {":"})
  <2>1. \A j \in 1..Len(N) : N[j] # ":"
    BY <1>5, <1>7, <1>8 DEF Has
  <2>2. i \in 0..Len(N) /\ \A j \in 1..i : j \in 1..Len(N)
    BY <1>2
  <2> QED
    BY <1>2, <2>1, <2>2, SubHas
<1>9. ASSUME w.tag = NoText, w.port # NoText
      PROVE  LET i == Len(R) + 1
             IN  /\ i \in 1..Len(N) /\ N[i] = "/"
                 /\ Has(SubSeq(N, 1, i), {":"}) /\ ~Has(Behind(N, i), {":"})
  <2> DEFINE i == Len(R) + 1
  <2>1. N = R \o (<<"/">> \o w.repository)
    BY <1>4, <1>7, <1>9
  <2>2. /\ Len(N) = Len(R) + 1 + Len(w.repository) /\ Len(w.repository) \in Nat
        /\ N[i] = "/"
        /\ \A j \in 1..Len(R) : N[j] = R[j]
    <3>1. Joins(N, R, "/", w.repository)
      BY <1>2, <1>3, <2>1, Joined, Zenon
    <3> QED
      BY <3>1 DEF Joins
  <2>a. /\ Len(N) = Len(R) + 1 + Len(w.repository)
        /\ Len(R) \in Nat /\ Len(w.repository) \in Nat
    BY <1>2, <2>2
  <2>3. Behind(N, i) = w.repository
    BY <1>2, <1>3, <2>1, Cut
  <2>4. PICK j \in 1..Len(R) : R[j] = ":"
    BY <1>5, <1>9 DEF Has
  <2>5. i \in 1..Len(N) /\ i \in 0..Len(N) /\ j \in 1..i
    <3>1. \A p, t \in Nat : \A x \in 1..p :
            /\ p + 1 \in 1..(p + 1 + t) /\ p + 1 \in 0..(p + 1 + t)
            /\ x \in 1..(p + 1)
      OBVIOUS
    <3> QED
      BY <2>a, <3>1, Zenon
  <2> HIDE DEF i
  <2>6. Has(SubSeq(N, 1, i), {":"})
    <3>1. N[j] \in {":"}
      BY <2>2, <2>4
    <3> QED
      BY <1>2, <2>5, <3>1, SubHas
  <2> QED
    BY <1>5, <2>2, <2>3, <2>5, <2>6 DEF i
<1> QED
  BY <1>1, <1>6, <1>8, <1>9

\* A text that is written by the grammar is read as it is meant, or refused for
\* a port without a tag.
LEMMA Understood ==
  ASSUME NEW w, IsWellFormed(w)
  PROVE  ReadsAs(TextOf(w), Intended(w))
<1> DEFINE T == TextOf(w)
           N == NameOf(w)
           P == PathOf(w)
           R == RegistryOf(w)
           at == LastOf(T, "@")
           colon == LastOf(N, ":")
<1>1. /\ Before(T, at) = N
      /\ at = 0 <=> w.digest = NoText
      /\ w.digest # NoText => Behind(T, at) = w.digest
  BY NameIsCut
<1>2. PortAlone(T) <=> w.port # NoText /\ w.tag = NoText
  BY PortIsAlone
<1>3. CASE PortAlone(T)
  <2> DEFINE v == w.port \o (<<"/">> \o w.repository)
             slash == SelectInSeq(w.host, LAMBDA s : s = "/")
  <2>1. /\ ":" \in Symbol /\ ":" \in Separator /\ "/" \in Symbol /\ "/" \in Separator
        /\ ":" # "/"
    BY DEF Symbol, Separator
  <2>2. /\ w.host \in Text /\ w.port \in Text /\ w.repository \in Text
        /\ ~Has(w.host, {"/"}) /\ ~Has(w.port, {":"}) /\ ~Has(w.repository, {":"})
    BY <2>1, Parts
  <2>3. v \in Text /\ ~Has(v, {":"})
    <3>1. Joins(v, w.port, "/", w.repository)
      BY <2>1, <2>2, Joined, Zenon
    <3>2. Has(v, {":"}) <=> Has(w.port, {":"}) \/ "/" \in {":"} \/ Has(w.repository, {":"})
      BY <2>1, <2>2, HasJoined
    <3> QED
      BY <2>1, <2>2, <3>1, <3>2 DEF Joins
  <2>4. N = w.host \o (<<":">> \o v)
    <3> DEFINE Associates(x, y, z) == (x \o y) \o z = x \o (y \o z)
    <3>1. \A x, y, z \in Seq(Symbol) : Associates(x, y, z)
      BY ConcatAssociative
    <3>2. /\ R = w.host \o (<<":">> \o w.port) /\ P = R \o (<<"/">> \o w.repository)
      BY <1>2, <1>3 DEF RegistryOf, PathOf, Optional
    <3>3. P \in Text /\ N = P \o << >>
      BY <1>2, <1>3, Shape DEF NameOf, Optional, NoText
    <3>4. N = P
      BY <3>3, ConcatEmptySeq DEF Text
    <3>5. /\ <<":">> \in Seq(Symbol) /\ <<"/">> \in Seq(Symbol)
          /\ <<"/">> \o w.repository \in Seq(Symbol)
          /\ <<":">> \o w.port \in Seq(Symbol)
          /\ w.host \in Seq(Symbol) /\ w.port \in Seq(Symbol)
          /\ w.repository \in Seq(Symbol)
      BY <2>1, <2>2, ConcatProperties DEF Text
    <3>6. P = w.host \o ((<<":">> \o w.port) \o (<<"/">> \o w.repository))
      <4>1. Associates(w.host, <<":">> \o w.port, <<"/">> \o w.repository)
        <5> HIDE DEF Associates
        <5> QED
          BY <3>1, <3>5, Zenon
      <4> QED
        BY <3>2, <4>1
    <3>7. (<<":">> \o w.port) \o (<<"/">> \o w.repository) = <<":">> \o v
      <4>1. Associates(<<":">>, w.port, <<"/">> \o w.repository)
        <5> HIDE DEF Associates
        <5> QED
          BY <3>1, <3>5, Zenon
      <4> QED
        BY <4>1 DEF v
    <3> QED
      BY <3>4, <3>6, <3>7, Zenon
  <2> HIDE DEF v
  <2>5. colon = Len(w.host) + 1 /\ Before(N, colon) = w.host
    <3>1. LastOf(w.host \o (<<":">> \o v), ":") = Len(w.host) + 1
      BY <2>1, <2>2, <2>3, LastCut
    <3>2. Before(w.host \o (<<":">> \o v), Len(w.host) + 1) = w.host
      BY <2>1, <2>2, <2>3, Cut
    <3> QED
      BY <2>4, <3>1, <3>2, Zenon
  <2>6. slash = 0
    BY <2>2, NoSlash
  <2>7. Parse(T) \in Errors
    BY <1>1, <2>5, <2>6 DEF Parse, Errors
  <2> QED
    BY <1>3, <2>7 DEF ReadsAs
<1>4. CASE ~PortAlone(T)
  <2> DEFINE slash == SelectInSeq(P, LAMBDA s : s = "/")
  <2>1. /\ Before(N, colon) = P
        /\ colon = 0 <=> w.tag = NoText
        /\ w.tag # NoText => Behind(N, colon) = w.tag
    BY <1>2, <1>4, PathIsCut
  <2>2. /\ Before(P, slash) = R /\ Behind(P, slash) = w.repository
        /\ slash \notin {0, Len(P)}
    BY RegistryIsCut
  <2>3. IsExplicit(R)
    BY RegistryIsExplicit
  <2>4. Parse(T) = [registry   |-> Before(P, slash),
                    repository |-> Behind(P, slash),
                    specifier  |->
                      IF at # 0 THEN [kind |-> "digest", text |-> Behind(T, at)]
                      ELSE [kind |-> "tag",
                            text |-> IF colon = 0 THEN <<"latest">>
                                     ELSE Behind(N, colon)]]
    BY <1>1, <2>1, <2>2, <2>3 DEF Parse
  <2>5. Parse(T) = Intended(w)
    <3> HIDE DEF slash, at, colon, T, N, P
    <3> QED
      BY <1>1, <2>1, <2>2, <2>4 DEF Intended, RegistryOf
  <2> QED
    BY <1>4, <2>5 DEF ReadsAs
<1> QED
  BY <1>3, <1>4

\* What is displayed of a reference is written by the grammar, and means the
\* same: a tag is not there beside a digest, and is otherwise never left out.
LEMMA Displayed ==
  ASSUME NEW w, IsWellFormed(w)
  PROVE  \E x : /\ IsWellFormed(x)
               /\ TextOf(x) = Display(Intended(w))
               /\ Intended(x) = Intended(w)
<1> DEFINE tag == IF w.digest # NoText THEN NoText
                  ELSE IF w.tag = NoText THEN <<"latest">> ELSE w.tag
           x == [host |-> w.host, port |-> w.port, repository |-> w.repository,
                 tag |-> tag, digest |-> w.digest]
           R == RegistryOf(w)
<1>1. tag \in Seq(Word)
  <2>1. <<"latest">> \in Seq(Word)
    BY WordAssumption
  <2> QED
    BY <2>1 DEF IsWellFormed, NoText
<1>2. w.digest = NoText => tag # NoText
  BY DEF NoText
<1> HIDE DEF tag
<1>3. IsWellFormed(x)
  BY <1>1 DEF IsWellFormed
<1>4. Intended(x) = Intended(w)
  BY <1>2 DEF Intended, tag
<1>5. TextOf(x) = Display(Intended(w))
  <2>1. RegistryOf(x) = R /\ RegistryOf(x) \in Seq(Symbol) /\ PathOf(x) \in Seq(Symbol)
    BY <1>3, Shape DEF RegistryOf, Text
  <2>2. TextOf(x) = (((R \o <<"/">>) \o w.repository) \o Optional(":", tag))
                       \o Optional("@", w.digest)
    BY DEF TextOf, RegistryOf
  <2> DEFINE B == (R \o <<"/">>) \o w.repository
  <2>3. B \in Seq(Symbol)
    <3>1. <<"/">> \in Seq(Symbol)
      BY DEF Symbol, Separator
    <3>2. R \o <<"/">> \in Seq(Symbol)
      BY <2>1, <3>1, ConcatProperties
    <3>3. w.repository \in Seq(Symbol)
      BY Parts DEF Text
    <3> QED
      BY <3>2, <3>3, ConcatProperties
  <2>4. Display(Intended(w)) =
          (B \o <<IF w.digest # NoText THEN "@" ELSE ":">>)
            \o IF w.digest # NoText THEN w.digest ELSE tag
    BY DEF Display, Intended, RegistryOf, tag
  <2> HIDE DEF B
  <2>5. /\ <<":">> \in Seq(Symbol) /\ <<"@">> \in Seq(Symbol)
        /\ tag \in Seq(Symbol) /\ w.digest \in Seq(Symbol)
    <3>1. x.tag \in Text /\ w.digest \in Text
      BY <1>3, Parts
    <3> QED
      BY <3>1 DEF Symbol, Separator, Text
  <2>6. \A s, t, u \in Seq(Symbol) : (s \o t) \o u = s \o (t \o u)
    BY ConcatAssociative
  <2>7. \A s \in Seq(Symbol) : s \o << >> = s
    BY ConcatEmptySeq
  <2>8. CASE w.digest # NoText
    <3>1. TextOf(x) = (B \o << >>) \o (<<"@">> \o w.digest)
      BY <2>2, <2>8 DEF Optional, NoText, tag, B
    <3>2. TextOf(x) = B \o (<<"@">> \o w.digest)
      BY <2>3, <2>7, <3>1
    <3> QED
      BY <2>3, <2>4, <2>5, <2>6, <2>8, <3>2
  <2>9. CASE w.digest = NoText
    <3>1. TextOf(x) = (B \o (<<":">> \o tag)) \o << >>
      BY <1>2, <2>2, <2>9 DEF Optional, NoText, B
    <3>2. B \o (<<":">> \o tag) \in Seq(Symbol)
      BY <2>3, <2>5, ConcatProperties
    <3>3. TextOf(x) = B \o (<<":">> \o tag)
      BY <2>7, <3>1, <3>2
    <3> QED
      BY <2>3, <2>4, <2>5, <2>6, <2>9, <3>3
  <2> QED
    BY <2>8, <2>9
<1> QED
  BY <1>3, <1>4, <1>5

-----------------------------------------------------------------------------
\* Every text of the grammar is read by Reference::parse as it is meant, or
\* refused when its port has no tag behind it; and the same goes for what
\* Display writes of it.
THEOREM GrammarIsRead ==
  ASSUME NEW w, IsWellFormed(w)
  PROVE  ReadsAs(TextOf(w), Intended(w)) /\ ReadsAgain(TextOf(w), Intended(w))
<1>1. ReadsAs(TextOf(w), Intended(w))
  BY Understood
<1>2. ASSUME Parse(TextOf(w)) \notin Errors
      PROVE  ReadsAs(Display(Parse(TextOf(w))), Intended(w))
  <2>1. Parse(TextOf(w)) = Intended(w)
    BY <1>1, <1>2 DEF ReadsAs
  <2>2. PICK x : /\ IsWellFormed(x)
                 /\ TextOf(x) = Display(Intended(w))
                 /\ Intended(x) = Intended(w)
    BY Displayed
  <2>3. ReadsAs(TextOf(x), Intended(x))
    BY <2>2, Understood
  <2> QED
    BY <2>1, <2>2, <2>3
<1> QED
  BY <1>1, <1>2 DEF ReadsAgain

\* The repository of a call is the one that was meant, whatever texts may be
\* typed for it.
THEOREM TextsAreRead == Spec => []ReadsAsIntended
<1>1. ReadsAsIntended
  BY WrittenAssumption, GrammarIsRead DEF ReadsAsIntended
<1> QED
  BY <1>1, PTL
==============================================================================
