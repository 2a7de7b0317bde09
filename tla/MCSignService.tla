---------------------------- MODULE MCSignService ----------------------------
(* An instance of SignService for TLC: one request in a changing world. *)
EXTENDS SignService, TLC

CONSTANTS r1, d1, d2, a, b, n1, n2

\* A certificate with its renewal.
MCTwins == (a :> n1) @@ (b :> n1)
=============================================================================
