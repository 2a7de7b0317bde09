------------------------- MODULE RevocationContract -------------------------
(***************************************************************************)
(* What a caller of the CRL check may rely on, whatever the checker caches *)
(* and however calls interleave: each question gets at most one answer,    *)
(* the answer never changes, and it is "valid" only if some CRL published  *)
(* so far at the location asked does not list the certificate.  Refusing   *)
(* is always allowed: the check fails closed.                              *)
(***************************************************************************)
EXTENDS Integers, Sequences

CONSTANTS Calls, URLs, NoURL, Certs, NoQuestion

VARIABLES
    published,      \* the CRLs published at each URL, in order
    question,       \* what each call asks: a location and a certificate
    verdict         \* "pending", "valid" or "refused"

cvars == <<published, question, verdict>>

Init ==
    /\ \A u \in URLs : published[u] \in Seq([stamp : Nat, revoked : SUBSET Certs])
    /\ \A u \in URLs : Len(published[u]) = 1
    /\ question = [c \in Calls |-> NoQuestion]
    /\ verdict = [c \in Calls |-> "pending"]

\* A published CRL is never withdrawn or altered.
Publish ==
    /\ \E u \in URLs :
          /\ Len(published'[u]) = Len(published[u]) + 1
          /\ \A v \in 1..Len(published[u]) : published'[u][v] = published[u][v]
          /\ \A w \in URLs \ {u} : published'[w] = published[w]
    /\ UNCHANGED <<question, verdict>>

Ask(c) ==
    /\ question[c] = NoQuestion
    /\ \E u \in URLs \cup {NoURL}, x \in Certs :
          question' = [question EXCEPT ![c] = <<u, x>>]
    /\ UNCHANGED <<published, verdict>>

Pending(c) == question[c] # NoQuestion /\ verdict[c] = "pending"

Accept(c) ==
    /\ Pending(c)
    /\ \E u \in URLs, x \in Certs :
          /\ question[c] = <<u, x>>
          /\ \E v \in 1..Len(published[u]) : x \notin published[u][v].revoked
    /\ verdict' = [verdict EXCEPT ![c] = "valid"]
    /\ UNCHANGED <<published, question>>

Refuse(c) ==
    /\ Pending(c)
    /\ verdict' = [verdict EXCEPT ![c] = "refused"]
    /\ UNCHANGED <<published, question>>

Next == Publish \/ \E c \in Calls : Ask(c) \/ Accept(c) \/ Refuse(c)

Spec == Init /\ [][Next]_cvars
=============================================================================
