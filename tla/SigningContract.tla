--------------------------- MODULE SigningContract ---------------------------
(***************************************************************************)
(* What a web page that sends signing requests may rely on: a request has  *)
(* at most one answer; a signature is made with one usable certificate of  *)
(* the subject asked and its own key, over a version of the document asked *)
(* that was served while the request was open.  Failing is always allowed. *)
(***************************************************************************)
EXTENDS Integers

CONSTANTS Requests, URLs, Certs, None, DNs, DN, Unsized

VARIABLES
    doc,            \* version served at each URL
    lost,           \* certificates expired or removed: there is no way back
    early,          \* certificates not valid yet
    request,        \* what each request asked, None = nothing yet
    response        \* pending, failed or a signature

cvars == <<doc, lost, early, request, response>>

Init ==
    /\ doc \in [URLs -> Nat]
    /\ lost \subseteq Certs
    /\ early \subseteq Certs
    /\ request = [r \in Requests |-> None]
    /\ response = [r \in Requests |-> [kind |-> "pending"]]

Change ==
    /\ \A u \in URLs : doc'[u] >= doc[u]
    /\ lost \subseteq lost'
    /\ early' \subseteq early
    /\ UNCHANGED <<request, response>>

Ask(r) ==
    /\ request[r] = None
    /\ \E auth \in BOOLEAN, f \in {"raw", "xades"}, u \in URLs, dn \in DNs :
          request' = [request EXCEPT ![r] =
              [auth |-> auth, format |-> f, url |-> u, dn |-> dn, since |-> doc[u], lost |-> lost,
               early |-> early]]
    /\ UNCHANGED <<doc, lost, early, response>>

Open(r) == request[r] # None /\ response[r].kind = "pending"

Fail(r) ==
    /\ Open(r)
    /\ response' = [response EXCEPT ![r] = [kind |-> "failed"]]
    /\ UNCHANGED <<doc, lost, early, request>>

Sign(r) ==
    /\ Open(r)
    /\ request[r].auth
    /\ \E c \in Certs, v \in request[r].since .. doc[request[r].url], whole \in BOOLEAN :
          /\ DN[c] = request[r].dn
          /\ c \notin request[r].lost \cup early
          /\ whole \/ (request[r].url \in Unsized /\ request[r].format = "raw")
          /\ response' = [response EXCEPT ![r] =
                 [kind |-> "signed", url |-> request[r].url, version |-> v, whole |-> whole,
                  cert |-> c, key |-> c]]
    /\ UNCHANGED <<doc, lost, early, request>>

Next == Change \/ \E r \in Requests : Ask(r) \/ Fail(r) \/ Sign(r)

Spec == Init /\ [][Next]_cvars
=============================================================================
