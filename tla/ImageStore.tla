------------------------------ MODULE ImageStore ------------------------------
(***************************************************************************)
(* What the storage promises to its users, without files, processes, locks *)
(* or layers: a set of complete images, and for every container the image  *)
(* it stands for.  An image is stored as a whole or not at all, only a     *)
(* stored image can be given to a container, and it stays until no         *)
(* container stands for it.                                                *)
(***************************************************************************)
CONSTANTS Container, Image, None

VARIABLES
  stored,    \* the images that are complete
  current    \* container -> its image or None

Init ==
  /\ stored = {}
  /\ current = [c \in Container |-> None]

Store(i) ==
  /\ stored' = stored \cup {i}
  /\ UNCHANGED current

Discard(i) ==
  /\ \A c \in Container : current[c] # i
  /\ stored' = stored \ {i}
  /\ UNCHANGED current

Use(c, i) ==
  /\ i \in stored
  /\ current' = [current EXCEPT ![c] = i]
  /\ UNCHANGED stored

Forget(c) ==
  /\ current' = [current EXCEPT ![c] = None]
  /\ UNCHANGED stored

Next ==
  \/ \E i \in Image : Store(i) \/ Discard(i)
  \/ \E c \in Container : Forget(c) \/ \E i \in Image : Use(c, i)

Spec == Init /\ [][Next]_<<stored, current>>
=============================================================================
