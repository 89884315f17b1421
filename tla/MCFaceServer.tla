---------------------------- MODULE MCFaceServer ----------------------------
(***************************************************************************)
(* Instances of FaceServer.  The requests of each are those that take a    *)
(* path of their own: a face that may be a user's, one that may be a       *)
(* guest's, a picture without a face, one that is no picture, a user with  *)
(* a row and one without.                                                  *)
(***************************************************************************)
EXTENDS FaceServer, TLC

CONSTANTS alice, bob

SomeModels == {alice, bob}

Comp(pic) == [kind |-> "comp", id |-> 1, pic |-> pic]
AddU(id, pic) == [kind |-> "addu", id |-> id, pic |-> pic]
AddG(id, pic) == [kind |-> "addg", id |-> id, pic |-> pic]

\* Those that meet at the locks and the engines.
Contending == {Comp(bob), AddU(1, bob), AddG(2, bob)}

\* With one that may match anybody and one that returns early.
Overlapping == Contending \cup {Comp(NoFace), Comp(Unreadable)}

\* Those whose answer depends on what was stored before.
Remembering == {Comp(alice), Comp(bob), AddU(1, alice), AddU(2, bob), AddG(2, bob)}

ThreadSymmetry == Permutations(Threads)

\* When every request of the run is answered the system rests.
AllServed ==
  /\ received = MaxRequests
  /\ \A t \in Threads : pc[t] = "idle"
  /\ UNCHANGED vars

MCSpec == Init /\ [][Next \/ AllServed]_vars

\* Who waits for whom does not depend on the engines that started nor on the
\* database, so the fair runs start in one of these states.
MCFairInit == Init /\ ready = Engines /\ ~connected

MCFairSpec == MCFairInit /\ [][Next \/ AllServed]_vars /\ Fairness
=============================================================================
