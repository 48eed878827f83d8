--------------------------- MODULE PublishingProofs ---------------------------
(***************************************************************************)
(* The calls of StorageMutable are atomic: Publishing implements Catalog.  *)
(* The argument is that temporary/ is empty whenever a call begins, so     *)
(* that what is staged holds nothing but what this call has written.       *)
(***************************************************************************)
EXTENDS Publishing, TLAPS

ContainerParts == {"manifest_digest", "reference"}

\* What is published is complete.
PublishedOK ==
  /\ published \in [Place -> Entry \cup {None}]
  /\ \A c \in Container : published[c] \in [ContainerParts -> Value] \cup {None}

\* How far the current call has come with what it stages.
StagedOK ==
  /\ call \in C!ContainerCall =>
       \/ /\ todo = <<"manifest_digest", "reference">>
          /\ StagedParts \subseteq {"manifest_digest"}
       \/ /\ todo = <<"reference">>
          /\ "manifest_digest" \in StagedParts
          /\ Staged["manifest_digest"] = call.contents["manifest_digest"]
          /\ StagedParts \subseteq ContainerParts
       \/ todo = << >> /\ Staged = call.contents
  /\ call \in C!FileCall =>
       \/ todo = <<"self">> /\ StagedParts \subseteq {"self"}
       \/ todo = << >> /\ Staged = call.contents

\* Nothing is in temporary/ but what the current call has put there.
TemporaryOK ==
  /\ temporary \in [Name -> Entry \cup {None}]
  /\ step \in {"ready", "remove"} => \A n \in Name : temporary[n] = None
  /\ step \in {"stage", "delete"} =>
       \A n \in Name : n # StagingName(call) => temporary[n] = None

IInv ==
  /\ PublishedOK
  /\ TemporaryOK
  /\ call \in C!Call
  /\ step = "stage" =>
       /\ call \in C!ContainerCall \cup C!FileCall
       /\ call.op = "write_container_manifest_digest" => published[call.place] # None
       /\ StagedOK
  /\ step \in {"remove", "delete"} => call \in C!RemoveCall

USE PlaceAssumption

\* The kinds of calls are told apart by their operation.
LEMMA Calls ==
  /\ \A c \in C!ContainerCall :
       /\ c.op = "write_container" /\ c.place \in Container
       /\ c.contents \in [ContainerParts -> Value]
       /\ StagingName(c) = c.place
  /\ \A c \in C!FileCall :
       /\ c.contents \in [{"self"} -> Value]
       /\ \/ /\ c.op = "write_manifest" /\ c.place \in Manifest
             /\ StagingName(c) = c.place
          \/ /\ c.op = "write_container_manifest_digest" /\ c.place \in Container
             /\ StagingName(c) = "manifest_digest"
  /\ \A c \in C!RemoveCall :
       /\ c.op \in {"remove_container", "remove_manifest"} /\ c.place \in Place
       /\ StagingName(c) = c.place
  /\ \A c \in C!Call : c.place \in Place /\ StagingName(c) \in Name
BY DEF C!Call, C!ContainerCall, C!FileCall, C!RemoveCall, StagingName, Place, Name,
       ContainerParts

\* Whatever holds values at some parts is an entry.
LEMMA Entries ==
  /\ \A S \in SUBSET Part : [S -> Value \cup {Torn}] \subseteq Entry
  /\ [ContainerParts -> Value] \subseteq Entry
  /\ [{"self"} -> Value] \subseteq Entry
  /\ \A e \in Entry : DOMAIN e \subseteq Part /\ e # None
  /\ \A e \in Entry : e \in [DOMAIN e -> Value \cup {Torn}]
<1>1. \A S \in SUBSET Part : [S -> Value \cup {Torn}] \subseteq Entry
  BY DEF Entry
<1>2. ContainerParts \in SUBSET Part /\ {"self"} \in SUBSET Part
  BY DEF ContainerParts, Part
<1>3. \A S : [S -> Value] \subseteq [S -> Value \cup {Torn}]
  OBVIOUS
<1>4. \A e \in Entry : /\ DOMAIN e \subseteq Part /\ e # None
                       /\ e \in [DOMAIN e -> Value \cup {Torn}]
  BY DEF Entry
<1> QED BY <1>1, <1>2, <1>3, <1>4

\* The invariant holds of an empty storage.
LEMMA PublishingInit == Init => IInv
BY Calls DEF Init, IInv, PublishedOK, TemporaryOK, C!Call, Place

\* Deleting never puts anything into temporary/.
LEMMA DeletePieceOK ==
  ASSUME TemporaryOK, NEW n \in Name, temporary[n] # None, DeletePiece(n)
  PROVE  /\ temporary' \in [Name -> Entry \cup {None}]
         /\ \A m \in Name : m # n => temporary'[m] = temporary[m]
<1>1. temporary \in [Name -> Entry \cup {None}] /\ temporary[n] \in Entry
  BY DEF TemporaryOK
<1>2. ASSUME NEW part \in DOMAIN temporary[n],
             temporary' = [temporary EXCEPT ![n] = [q \in DOMAIN @ \ {part} |-> @[q]]]
      PROVE  temporary' \in [Name -> Entry \cup {None}]
  <2> DEFINE S == DOMAIN temporary[n] \ {part}
             e == [q \in S |-> temporary[n][q]]
  <2>1. S \in SUBSET Part /\ temporary[n] \in [DOMAIN temporary[n] -> Value \cup {Torn}]
    BY <1>1, Entries
  <2>2. e \in [S -> Value \cup {Torn}]
    BY <2>1
  <2>3. e \in Entry
    BY <2>1, <2>2, Entries
  <2> QED BY <1>1, <1>2, <2>3
<1>3. \A m \in Name : m # n => temporary'[m] = temporary[m]
  BY <1>1 DEF DeletePiece
<1> QED BY <1>1, <1>2, <1>3 DEF DeletePiece

-----------------------------------------------------------------------------
\* Writing a file brings the call one part further.
LEMMA WriteOK ==
  ASSUME IInv, OpenFile \/ FillFile
  PROVE  IInv'
<1> DEFINE n == StagingName(call)
           part == Head(todo)
           v == IF OpenFile THEN Torn ELSE call.contents[part]
<1>1. /\ step = "stage" /\ step' = step /\ todo # << >>
      /\ UNCHANGED <<published, call>>
      /\ call \in C!ContainerCall \cup C!FileCall
      /\ n \in Name
      /\ StagedOK
      /\ temporary \in [Name -> Entry \cup {None}]
  BY Calls DEF OpenFile, FillFile, IInv, TemporaryOK, C!Call
<1>2. /\ part \in Part
      /\ part \in IF call \in C!ContainerCall THEN ContainerParts ELSE {"self"}
      /\ v \in Value \cup {Torn}
      /\ StagedParts \subseteq Part
      /\ Staged # None => Staged \in [StagedParts -> Value \cup {Torn}]
  BY <1>1, Calls, Entries
     DEF StagedOK, StagedParts, Staged, Part, ContainerParts
<1>3. /\ temporary' = StagedWith(part, v)
      /\ todo' = IF OpenFile THEN todo ELSE Tail(todo)
      /\ ~OpenFile => IsTorn(part)
  BY DEF OpenFile, FillFile
<1> DEFINE e == [q \in StagedParts \cup {part} |-> IF q = part THEN v ELSE Staged[q]]
<1>4. e \in Entry
  <2>1. e \in [StagedParts \cup {part} -> Value \cup {Torn}]
    BY <1>2 DEF StagedParts
  <2> QED BY <1>2, <2>1, Entries
<1>5. /\ temporary' = [temporary EXCEPT ![n] = e]
      /\ temporary'[n] = e
      /\ temporary' \in [Name -> Entry \cup {None}]
      /\ \A m \in Name : m # n => temporary'[m] = temporary[m]
  BY <1>1, <1>3, <1>4 DEF StagedWith
<1>6. TemporaryOK'
  BY <1>1, <1>5 DEF IInv, TemporaryOK, StagingName
<1>7. Staged' = e /\ StagedParts' = StagedParts \cup {part} /\ call' = call
  BY <1>1, <1>4, <1>5, Entries DEF Staged, StagedParts, StagingName
<1>8. StagedOK'
  <2>1. CASE OpenFile
    BY <1>1, <1>2, <1>3, <1>7, <2>1, Calls DEF StagedOK, ContainerParts
  <2>2. CASE ~OpenFile
    <3>1. part \in StagedParts /\ StagedParts' = StagedParts
      BY <1>3, <1>7, <2>2 DEF IsTorn
    <3>2. CASE call \in C!FileCall
      <4>1. todo = <<"self">> /\ todo' = << >> /\ StagedParts' = {"self"}
        <5>1. todo = <<"self">> /\ StagedParts \subseteq {"self"}
          BY <1>1, <3>2, Calls DEF StagedOK
        <5>2. part = "self" /\ Tail(todo) = << >>
          BY <5>1
        <5> QED BY <1>3, <2>2, <3>1, <5>1, <5>2
      <4>2. Staged' = call.contents
        BY <1>7, <2>2, <3>2, <4>1, Calls
      <4> QED BY <1>7, <3>2, <4>1, <4>2, Calls DEF StagedOK
    <3>3. CASE call \in C!ContainerCall
      <4>1. CASE todo = <<"manifest_digest", "reference">>
        <5>1. todo' = <<"reference">> /\ StagedParts' = {"manifest_digest"}
          BY <1>1, <1>3, <2>2, <3>1, <3>3, <4>1 DEF StagedOK
        <5>2. Staged'["manifest_digest"] = call.contents["manifest_digest"]
          BY <1>7, <2>2, <4>1, <5>1
        <5> QED BY <1>7, <3>3, <5>1, <5>2, Calls DEF StagedOK, ContainerParts
      <4>2. CASE todo = <<"reference">>
        <5>1. /\ todo' = << >> /\ StagedParts' = ContainerParts
              /\ Staged["manifest_digest"] = call.contents["manifest_digest"]
          BY <1>1, <1>3, <2>2, <3>1, <3>3, <4>2 DEF StagedOK, ContainerParts
        <5>2. Staged' = call.contents
          BY <1>7, <2>2, <3>3, <4>2, <5>1, Calls DEF ContainerParts
        <5> QED BY <1>7, <3>3, <5>1, <5>2, Calls DEF StagedOK
      <4> QED BY <1>1, <3>3, <4>1, <4>2 DEF StagedOK
    <3> QED BY <1>1, <3>2, <3>3
  <2> QED BY <2>1, <2>2
<1> QED BY <1>1, <1>6, <1>8 DEF IInv, PublishedOK

\* Every step keeps the invariant.
LEMMA PublishingNext ==
  ASSUME IInv, [Next]_vars
  PROVE  IInv'
<1>0. /\ PublishedOK /\ TemporaryOK
      /\ temporary \in [Name -> Entry \cup {None}]
      /\ call.place \in Place /\ StagingName(call) \in Name
      /\ Place \subseteq Name
  BY Calls DEF IInv, TemporaryOK, Name
<1>1. CASE Open \/ Close \/ UNCHANGED vars
  BY <1>1 DEF Open, Close, vars, IInv, PublishedOK, TemporaryOK, StagedOK, Staged,
     StagedParts, StagingName
<1>2. CASE ClearTemporary
  <2>1. temporary' \in [Name -> Entry \cup {None}]
    BY <1>0, <1>2, DeletePieceOK DEF ClearTemporary
  <2> QED BY <1>2, <2>1 DEF ClearTemporary, IInv, PublishedOK, TemporaryOK
<1>3. ASSUME NEW c \in C!Call, Begin(c) PROVE IInv'
  <2>1. /\ call' = c /\ UNCHANGED <<published, temporary>>
        /\ \A n \in Name : temporary[n] = None
        /\ IsPossible(c)
    BY <1>3 DEF Begin, IInv, TemporaryOK
  <2>2. c \in C!ContainerCall \cup C!FileCall \cup C!RemoveCall
    BY DEF C!Call
  <2>3. /\ c \in C!ContainerCall => todo' = <<"manifest_digest", "reference">>
        /\ c \in C!FileCall => todo' = <<"self">>
        /\ step' = IF c \in C!RemoveCall THEN "remove" ELSE "stage"
    BY <1>3, Calls DEF Begin
  <2>4. StagedParts' = {}
    BY <2>1, Calls DEF StagedParts, Staged
  <2> QED BY <1>3, <2>1, <2>2, <2>3, <2>4, Calls
          DEF IInv, PublishedOK, TemporaryOK, StagedOK, IsPossible
<1>4. CASE MakeDirectory
  <2>1. << >> \in Entry
    <3>1. << >> \in [{} -> Value \cup {Torn}]
      OBVIOUS
    <3> QED BY <3>1, Entries
  <2>2. temporary' = [temporary EXCEPT ![StagingName(call)] = << >>]
    BY <1>4 DEF MakeDirectory
  <2>3. TemporaryOK'
    BY <1>0, <1>4, <2>1, <2>2 DEF MakeDirectory, TemporaryOK, StagingName
  <2>4. Staged = None /\ Staged' = << >> /\ UNCHANGED <<call, todo, published, step>>
    BY <1>0, <1>4, <2>2 DEF MakeDirectory, Staged, StagingName
  <2>5. StagedParts = {} /\ StagedParts' = {}
    BY <2>4 DEF StagedParts
  <2>6. StagedOK'
    BY <1>4, <2>4, <2>5, Calls, Entries
       DEF IInv, StagedOK, MakeDirectory
  <2> QED BY <1>4, <2>3, <2>4, <2>6 DEF IInv, PublishedOK, MakeDirectory
<1>5. CASE OpenFile \/ FillFile
  BY <1>5, WriteOK
<1>6. CASE Publish
  <2>1. /\ step = "stage" /\ todo = << >> /\ step' = "ready"
        /\ published' = [published EXCEPT ![call.place] = Renamed]
        /\ temporary' = [temporary EXCEPT ![StagingName(call)] = None]
        /\ call' = call
    BY <1>6 DEF Publish
  <2>2. /\ call \in C!ContainerCall \cup C!FileCall
        /\ Staged = call.contents
        /\ call.op = "write_container_manifest_digest" => published[call.place] # None
    BY <2>1 DEF IInv, StagedOK
  <2>3. /\ Renamed \in Entry
        /\ call.place \in Container => Renamed \in [ContainerParts -> Value]
    <3>1. CASE call.op = "write_container_manifest_digest"
      <4>1. /\ call.place \in Container
            /\ published[call.place] \in [ContainerParts -> Value]
            /\ Staged["self"] \in Value
        BY <1>0, <2>2, <3>1, Calls DEF PublishedOK
      <4>2. Renamed \in [ContainerParts -> Value]
        BY <3>1, <4>1 DEF Renamed
      <4> QED BY <4>1, <4>2, Entries
    <3>2. CASE call.op # "write_container_manifest_digest"
      <4>1. Renamed = call.contents
        BY <2>2, <3>2 DEF Renamed
      <4> QED BY <2>2, <3>2, <4>1, Calls, Entries
    <3> QED BY <3>1, <3>2
  <2>4. PublishedOK'
    BY <1>0, <2>1, <2>3 DEF PublishedOK, Place
  <2>5. TemporaryOK'
    BY <1>0, <2>1 DEF TemporaryOK
  <2> QED BY <2>1, <2>4, <2>5 DEF IInv
<1>7. CASE MoveAway
  <2>1. /\ step = "remove" /\ call \in C!RemoveCall
        /\ \A n \in Name : temporary[n] = None
        /\ StagingName(call) = call.place
    BY <1>7, Calls DEF MoveAway, IInv, TemporaryOK
  <2>2. /\ temporary' = [temporary EXCEPT ![call.place] = published[call.place]]
        /\ published' = [published EXCEPT ![call.place] = None]
        /\ step' = "delete" /\ call' = call
    BY <1>0, <1>7, <2>1 DEF MoveAway, Staged
  <2>3. published[call.place] \in Entry \cup {None}
    BY <1>0 DEF PublishedOK
  <2>4. PublishedOK'
    BY <1>0, <2>2 DEF PublishedOK, Place
  <2>5. TemporaryOK'
    BY <1>0, <2>1, <2>2, <2>3 DEF TemporaryOK, StagingName
  <2> QED BY <2>1, <2>2, <2>4, <2>5 DEF IInv
<1>8. CASE Delete
  <2>1. /\ step = "delete" /\ call \in C!RemoveCall /\ StagingName(call) = call.place
        /\ UNCHANGED <<published, call>>
    BY <1>8, Calls DEF Delete, IInv
  <2>2. TemporaryOK'
    <3>1. CASE Staged # None
      BY <1>0, <1>8, <2>1, <3>1, DeletePieceOK DEF Delete, Staged, TemporaryOK, StagingName
    <3>2. CASE Staged = None
      BY <1>0, <1>8, <2>1, <3>2 DEF Delete, Staged, TemporaryOK
    <3> QED BY <3>1, <3>2
  <2> QED BY <1>8, <2>1, <2>2 DEF Delete, IInv, PublishedOK
<1> QED BY <1>1, <1>2, <1>3, <1>4, <1>5, <1>6, <1>7, <1>8 DEF Next

-----------------------------------------------------------------------------
\* What is published is complete, and only the current call has anything staged.
THEOREM Inductive == Spec => []IInv
BY PublishingInit, PublishingNext, PTL DEF Spec

\* Every call takes effect at its rename, as a whole, or not at all
\* (ImplementsCatalog).
THEOREM CallsAreAtomic == Spec => ImplementsCatalog
<1>1. Init => C!Init
  BY DEF Init, C!Init, Place
<1>2. IInv /\ [Next]_vars => [C!Next]_(C!vars)
  <2> SUFFICES ASSUME IInv, [Next]_vars
               PROVE  C!Next \/ UNCHANGED <<published, call>>
    BY DEF C!vars
  <2>1. CASE \E c \in C!Call : Begin(c)
    BY <2>1 DEF Begin, C!Next, C!Ask
  <2>2. CASE Publish
    <3>1. /\ step = "stage" /\ todo = << >> /\ call' = call
          /\ published' = [published EXCEPT ![call.place] = Renamed]
      BY <2>2 DEF Publish
    <3>2. call \in C!ContainerCall \cup C!FileCall /\ Staged = call.contents
      BY <3>1 DEF IInv, StagedOK
    <3>3. CASE call.op = "write_container_manifest_digest"
      BY <3>1, <3>2, <3>3 DEF Renamed, C!Next, C!Amend, C!Becomes
    <3>4. CASE call.op # "write_container_manifest_digest"
      BY <3>1, <3>2, <3>4, Calls DEF Renamed, C!Next, C!Put, C!Becomes
    <3> QED BY <3>3, <3>4
  <2>3. CASE MoveAway
    <3>1. call \in C!RemoveCall
      BY <2>3 DEF MoveAway, IInv
    <3> QED BY <2>3, <3>1, Calls DEF MoveAway, C!Next, C!Drop, C!Becomes
  <2>4. CASE Open \/ ClearTemporary \/ MakeDirectory \/ OpenFile \/ FillFile
    BY <2>4 DEF Open, ClearTemporary, MakeDirectory, OpenFile, FillFile
  <2>5. CASE Delete \/ Close \/ UNCHANGED vars
    BY <2>5 DEF Delete, Close, vars
  <2> QED BY <2>1, <2>2, <2>3, <2>4, <2>5 DEF Next
<1> QED BY <1>1, <1>2, Inductive, PTL DEF Spec, C!Spec, ImplementsCatalog

\* No leftover is ever in the way of a call (StagingIsFree).
THEOREM NothingInTheWay == Spec => StagingIsFree
<1>1. IInv /\ [Next]_vars =>
        [step = "ready" /\ step' \in {"stage", "remove"} =>
           temporary[StagingName(call')] = None]_vars
  <2> SUFFICES ASSUME IInv, Next, step = "ready", step' \in {"stage", "remove"}
               PROVE  temporary[StagingName(call')] = None
    OBVIOUS
  <2>1. PICK c \in C!Call : Begin(c)
    BY DEF Next, Open, ClearTemporary, MakeDirectory, OpenFile, FillFile, Publish,
       MoveAway, Delete, Close
  <2> QED BY <2>1, Calls DEF Begin, IInv, TemporaryOK
<1> QED BY <1>1, Inductive, PTL DEF Spec, StagingIsFree
=============================================================================
