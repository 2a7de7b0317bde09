---------------------------- MODULE MCSignRequests ----------------------------
(***************************************************************************)
(* An instance of SignService for TLC.  A behaviour is of one of two parts:*)
(* "two" requests for certificates of two people, on a day when nothing    *)
(* expires; or "one" raw request over a store with all that can be in its  *)
(* way.                                                                    *)
(***************************************************************************)
EXTENDS SignService, TLC

CONSTANTS r1, r2, d1, a, b, c, e, k, n1, n2

VARIABLE part

\* Three certificates of one person and one of another.
MCNames == (a :> n1) @@ (b :> n1) @@ (c :> n1) @@ (e :> n2)

RequestSymmetry == Permutations(Requests)

Held  == IF part = "two" THEN {a, e} ELSE {a, b, c, k}
Dated == IF part = "two" THEN {} ELSE {a, b, c}

Sent == {r \in Requests : pc[r] # "idle"}

Confined ==
    /\ \A x \in Aliases \ Held : store[x] = "absent"
    /\ expired \subseteq Dated
    /\ part = "one" => /\ \A u \in URLs : doc[u] = 1
                       /\ \A r, q \in Sent : r = q /\ ask[r].format = "raw" /\ ask[r].dn = n1

MCInit ==
    /\ part \in {"one", "two"}
    /\ Init
    /\ early \subseteq Dated \cap {a}
    /\ Confined

\* In the part of one request the other is never sent.
OneFinished == part = "one" /\ (\E r \in Requests : pc[r] = "done") /\ UNCHANGED vars

MCNext == UNCHANGED part /\ (Next \/ OneFinished) /\ Confined'

MCSpec == MCInit /\ [][MCNext]_<<part, vars>>
===============================================================================
