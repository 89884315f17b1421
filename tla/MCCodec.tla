------------------------------ MODULE MCCodec ------------------------------
(***************************************************************************)
(* An instance of Codec with the flags of both codecs and one that neither   *)
(* knows, as the codecs have them: the four letters in network order.      *)
(***************************************************************************)
EXTENDS Codec

comp == 1668246896
addf == 1633969254
addg == 1633969255
appl == 1634758764
qury == 1903522425
none == 1852796517

\* A frame longer than one byte of its length can say.
LongFrame == [flag |-> appl, id |-> 300, image |-> [k \in 1 .. 250 |-> k % 256]]

\* Few bytes of image otherwise, ids of either sign.
SomeFrames ==
  {[flag |-> comp, id |-> 0, image |-> <<>>],
   [flag |-> comp, id |-> 0, image |-> <<7, 8, 9>>],
   [flag |-> addf, id |-> -5, image |-> <<6, 7>>],
   [flag |-> qury, id |-> 70000, image |-> <<>>],
   [flag |-> none, id |-> 0, image |-> <<>>],
   LongFrame}

\* A long frame is the only one that is sent.
LongAlone == LongFrame \in Range(sent') => Len(sent') = 1

CompareImageOnly == {comp}
BothIdAndImage == {addf, addg, appl}
GuestIdOnly == {qury}

\* A client need not send more.
AllRead ==
  /\ wire = <<>>
  /\ UNCHANGED vars

MCSpec == Init /\ [][(Next /\ LongAlone) \/ AllRead]_vars

MCFairSpec == MCSpec /\ Fairness
=============================================================================
