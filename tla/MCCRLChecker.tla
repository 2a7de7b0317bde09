---------------------------- MODULE MCCRLChecker ----------------------------
(* Instances of CRLChecker for TLC. *)
EXTENDS CRLChecker, TLC

CONSTANTS c1, c2, c3, u1, u2, x1, x2

\* x1 names u1; x2 has no distribution point.
MCPoints == (x1 :> u1) @@ (x2 :> NoURL)
MCOnePoint == x1 :> u1
MCNoPoint  == x2 :> NoURL

MCAnyList == SUBSET Certs

CallSymmetry == Permutations(Calls)
=============================================================================
