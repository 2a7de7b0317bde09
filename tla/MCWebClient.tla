----------------------------- MODULE MCWebClient -----------------------------
(***************************************************************************)
(* Instances for TLC of the requests of any page and of the sample page.     *)
(***************************************************************************)
EXTENDS WebClient, TLC

CONSTANTS r1, r2, r3, a, b, c, d1, d2

VARIABLE page       \* which of the two pages a behaviour is of

\* Two certificates of one subject and one of another.
MCNames == (a :> 1) @@ (b :> 1) @@ (c :> 2)

\* Requests are alike: they are made in this order.
Order   == <<r1, r2, r3>>
InOrder == \A i \in 2..3 : kind'[Order[i]] # "none" => kind'[Order[i - 1]] # "none"

MCInit ==
    /\ PageInit
    /\ \/ page = "sample"
       \/ page = "any" /\ store = {}

MCNext ==
    /\ \/ page = "sample" /\ PageNext /\ UNCHANGED page
       \/ page = "any" /\ RequestsNext /\ UNCHANGED <<page, pageVars>>
    /\ InOrder

MCSpec ==
    /\ MCInit /\ [][MCNext]_<<page, allVars>>
    /\ WF_<<page, allVars>>(page = "sample" /\ (CallBack \/ EndCall) /\ UNCHANGED page)
    /\ \A r \in Requests : WF_<<page, allVars>>(page = "sample" /\ (Arrive(r) \/ Lost(r)) /\ UNCHANGED page)
==============================================================================
