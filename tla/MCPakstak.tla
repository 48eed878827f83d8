------------------------------ MODULE MCPakstak ------------------------------
(***************************************************************************)
(* Instances of Pakstak for TLC.                                           *)
(***************************************************************************)
EXTENDS Images, Corruption, Inductive, TLC

(* One index, two images, one on the other's layer, one digest (a1) that    *)
(* is another name for the image d1.                                        *)
MCTag == {"latest"}
MCBlob == {"image1", "image2", "index"}
MCLayer == {"base", "one"}
MCLayersOf == [image1 |-> <<"base", "one">>, image2 |-> <<"base">>]
MCDenotes ==
  [d1 |-> "image1", a1 |-> "image1", d2 |-> "image2", dx |-> "index"]
MCDigest == DOMAIN MCDenotes
MCEntriesOf ==
  [index |-> << [digest |-> "d1", native |-> FALSE],
                [digest |-> "d2", native |-> TRUE] >>]

(* One image of one layer, for the runs that are about locks.               *)
OneTag == {}
OneBlob == {"image"}
OneLayer == {"base"}
OneLayersOf == [image |-> <<"base">>]
OneDenotes == [d |-> "image"]
OneDigest == DOMAIN OneDenotes
OneEntriesOf == << >>

(* Two images, one on top of the other's layer.                             *)
TwoBlob == {"image1", "image2"}
TwoLayer == {"one", "two"}
TwoLayersOf == [image1 |-> <<"one", "two">>, image2 |-> <<"two">>]
TwoDenotes == [d1 |-> "image1", d2 |-> "image2"]
TwoDigest == DOMAIN TwoDenotes

(* The same, and bytes that are no manifest.                                *)
JunkBlob == TwoBlob \cup {"junk"}
JunkDenotes == [d1 |-> "image1", d2 |-> "image2", dj |-> "junk"]
JunkDigest == DOMAIN JunkDenotes

Symmetry ==
  Permutations(Container) \cup Permutations(Mutator) \cup Permutations(Runner)
=============================================================================
