------------------------------ MODULE Reference ------------------------------
(***************************************************************************)
(* Image references: what Reference::parse makes of the text on a command  *)
(* line, and how Display writes it again.                                  *)
(*                                                                         *)
(* A text is a sequence of words and separators.  A word stands for a run  *)
(* of other characters; those in Dotted have a dot in them.                *)
(***************************************************************************)
EXTENDS SequencesExt

CONSTANTS
  Word,      \* the words of a text, "localhost" and "latest" among them
  Dotted,    \* those with a dot
  Written    \* what may be typed: see Intended

Separator == {":", "/", "@"}

Symbol == Word \cup Separator

ASSUME WordAssumption ==
  /\ {"localhost", "latest"} \subseteq Word
  /\ Dotted \subseteq Word
  /\ Word \cap Separator = {}

NoText == << >>

\* "image reference must include an explicit registry",
\* "image repository is missing"
NoRegistry   == [error |-> "registry"]
NoRepository == [error |-> "repository"]

-----------------------------------------------------------------------------
\* str::rsplit_once, with NoText for a separator that is not there; what is
\* before the last separator, and what is behind it.
LastOf(text, separator) == SelectLastInSeq(text, LAMBDA s : s = separator)

Before(text, i) == IF i = 0 THEN text ELSE SubSeq(text, 1, i - 1)

Behind(text, i) == SubSeq(text, i + 1, Len(text))

Has(text, symbols) == \E i \in 1..Len(text) : text[i] \in symbols

IsExplicit(registry) ==
  Has(registry, Dotted \cup {":"}) \/ registry = <<"localhost">>

\* Mutant: the tag begins at the first colon.
ParseFromLeft(text) ==
  LET at     == LastOf(text, "@")
      name   == Before(text, at)
      colon  == SelectInSeq(name, LAMBDA s : s = ":")
      path   == Before(name, colon)
      slash  == SelectInSeq(path, LAMBDA s : s = "/")
  IN  CASE ~IsExplicit(Before(path, slash)) -> NoRegistry
        [] IsExplicit(Before(path, slash)) /\ slash \in {0, Len(path)} ->
             NoRepository
        [] OTHER ->
             [registry   |-> Before(path, slash),
              repository |-> Behind(path, slash),
              specifier  |->
                IF at # 0 THEN [kind |-> "digest", text |-> Behind(text, at)]
                ELSE [kind |-> "tag",
                      text |-> IF colon = 0 THEN <<"latest">>
                               ELSE Behind(name, colon)]]

(***************************************************************************)
(* Reference::parse: the digest is behind the last "@", the tag behind the *)
(* last ":" of the rest, the registry before the first "/" of what is left.*)
(***************************************************************************)
Parse(text) ==
  LET at     == LastOf(text, "@")
      name   == Before(text, at)
      colon  == LastOf(name, ":")
      path   == Before(name, colon)
      slash  == SelectInSeq(path, LAMBDA s : s = "/")
  IN  CASE ~IsExplicit(Before(path, slash)) -> NoRegistry
        [] IsExplicit(Before(path, slash)) /\ slash \in {0, Len(path)} ->
             NoRepository
        [] OTHER ->
             [registry   |-> Before(path, slash),
              repository |-> Behind(path, slash),
              specifier  |->
                IF at # 0 THEN [kind |-> "digest", text |-> Behind(text, at)]
                ELSE [kind |-> "tag",
                      text |-> IF colon = 0 THEN <<"latest">>
                               ELSE Behind(name, colon)]]

\* Display: a tag is not kept beside a digest.
Display(ref) ==
  ref.registry \o <<"/">> \o ref.repository \o
    <<IF ref.specifier.kind = "digest" THEN "@" ELSE ":">> \o ref.specifier.text

-----------------------------------------------------------------------------
(***************************************************************************)
(* A reference as somebody means it, by the grammar of OCI references:     *)
(* host[:port]/name{/name}[:tag][@algorithm:hex].  What is not there is    *)
(* NoText.                                                                 *)
(***************************************************************************)
Optional(separator, part) == IF part = NoText THEN NoText ELSE <<separator>> \o part

TextOf(w) ==
  w.host \o Optional(":", w.port) \o <<"/">> \o w.repository
    \o Optional(":", w.tag) \o Optional("@", w.digest)

Intended(w) ==
  [registry   |-> w.host \o Optional(":", w.port),
   repository |-> w.repository,
   specifier  |->
     IF w.digest # NoText THEN [kind |-> "digest", text |-> w.digest]
     ELSE [kind |-> "tag", text |-> IF w.tag = NoText THEN <<"latest">> ELSE w.tag]]

\* The parts have no separators but these; what comes first is a host as
\* "explicit registry" means it.
IsWellFormed(w) ==
  /\ w.host \in Seq(Word) \ {NoText}
  /\ w.port \in Seq(Word)
  /\ w.repository \in Seq(Word \cup {"/"}) \ {NoText}
  /\ w.tag \in Seq(Word)
  /\ w.digest \in Seq(Word \cup {":"})
  /\ w.port # NoText \/ Has(w.host, Dotted) \/ w.host = <<"localhost">>

ASSUME WrittenAssumption == \A w \in Written : IsWellFormed(w)

-----------------------------------------------------------------------------
\* The one text that is not understood: a port, and no tag behind it.
PortAlone(text) ==
  LET name == Before(text, LastOf(text, "@"))
  IN  \E i \in 1..Len(name) :
        /\ name[i] = "/"
        /\ Has(SubSeq(name, 1, i), {":"})
        /\ ~Has(Behind(name, i), {":"})

Errors == {NoRegistry, NoRepository}

\* The text is read as it was meant, and so is what is displayed of it when
\* somebody types that; but a port alone is refused.
ReadsAs(text, ref) ==
  IF PortAlone(text) THEN Parse(text) \in Errors ELSE Parse(text) = ref

ReadsAgain(text, ref) ==
  Parse(text) \notin Errors => ReadsAs(Display(Parse(text)), ref)
=============================================================================
