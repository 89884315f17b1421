---------------------------- MODULE MCGuestServer ----------------------------
(***************************************************************************)
(* Instances of GuestServer with a day of a few seconds.                   *)
(***************************************************************************)
EXTENDS GuestServer, TLC

Symmetry == Permutations(Threads) \cup Permutations(Blocks)
BlockSymmetry == Permutations(Blocks)

\* When every request of the run is answered and the clock is at its bound the
\* system rests.
AllServed ==
  /\ received = MaxRequests
  /\ now = MaxNow
  /\ \A t \in Threads : pc[t] = "idle"
  /\ UNCHANGED vars

MCSpec == Init /\ [][Next \/ AllServed]_vars

MCFairSpec == MCSpec /\ Fairness
=============================================================================
