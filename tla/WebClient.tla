------------------------------- MODULE WebClient -------------------------------
(***************************************************************************)
(* The sample page (cryptoapplet-client.js) over the API (cryptoapplet.js):  *)
(* when it is ready it asks the service for the certificates and lists them; *)
(* each click asks for a signature, and each answer is written into one      *)
(* field.  All its requests are JSONP by script elements, over Ajax; the     *)
(* page aborts none, and its functions do not throw.                         *)
(*                                                                          *)
(* The service is what SigningContract says of it: it signs with some        *)
(* certificate of the subject asked, or fails, which the page sees as a      *)
(* script that cannot be loaded.  The serial number the page sends it is not *)
(* read there.                                                               *)
(***************************************************************************)
EXTENDS Ajax

CONSTANTS
    Certs,          \* the user's certificates
    DN,             \* their subjects
    Docs            \* what the field inputUrl may hold

ASSUME PageKind == "script" \in Kinds

VARIABLES
    store,          \* the certificates in the user's keystores now
    asked,          \* what each request of the page asks
    served,         \* what the service answered to each
    listed,         \* the certificates the page lists
    result,         \* the field: the request whose function wrote it, and what it wrote
    shown           \* history: requests whose answers were written there

pageVars == <<store, asked, served, listed, result, shown>>
allVars  == <<requestVars, pageVars>>

Nothing == [what |-> "nothing", certs |-> {}, doc |-> None]
TheList == [Nothing EXCEPT !.what = "list"]
Signature(c, d) == [what |-> "signature", certs |-> {c}, doc |-> d]

PageInit ==
    /\ RequestsInit
    /\ store \in SUBSET Certs
    /\ asked = [r \in Requests |-> Nothing]
    /\ served = [r \in Requests |-> Nothing]
    /\ listed = {}
    /\ result = [by |-> None, value |-> Nothing]
    /\ shown = {}

\* The user inserts and removes cards, at least until the page listed them.
ChangeStore ==
    /\ \E r \in Requests : asked[r] = Nothing
    /\ \E s \in SUBSET Certs : store' = s /\ s # store
    /\ UNCHANGED <<requestVars, asked, served, listed, result, shown>>

\* $(document).ready: API.getCertificates.
Ready(r) ==
    /\ \A q \in Requests : asked[q] = Nothing
    /\ Send(r, "script")
    /\ asked' = [asked EXCEPT ![r] = TheList]
    /\ UNCHANGED <<store, served, listed, result, shown>>

\* A click on a certificate of the list: API.signReference.
Click(r, c, d) ==
    /\ stack = <<>>
    /\ c \in listed
    /\ Send(r, "script")
    /\ asked' = [asked EXCEPT ![r] = Signature(c, d)]
    /\ UNCHANGED <<store, served, listed, result, shown>>

\* The service answers.
Serve(r) ==
    /\ net[r] = "sent"
    /\ served[r] = Nothing
    /\ IF asked[r] = TheList
       THEN served' = [served EXCEPT ![r] = [TheList EXCEPT !.certs = store]]
       ELSE \E c \in store, a \in asked[r].certs :
                DN[c] = DN[a] /\ served' = [served EXCEPT ![r] = Signature(c, asked[r].doc)]
    /\ UNCHANGED <<requestVars, store, asked, listed, result, shown>>

Arrive(r) ==
    /\ served[r] # Nothing
    /\ ScriptRuns(r, TRUE)
    /\ UNCHANGED pageVars

\* An error of the service, or of the network.
Lost(r) == ScriptLost(r) /\ UNCHANGED pageVars

\* Seeded fault: what the click was on is kept in variables all clicks share.
CallBackShared ==
    LET r == Top
        v == served[got[r]]
        clicked == {q \in Requests : asked[q].what = "signature"}
    IN  /\ Complete
        /\ IF outcome[r] = "success"
           THEN IF asked[r] = TheList
                THEN listed' = v.certs /\ UNCHANGED <<result, shown>>
                ELSE \E q \in clicked : /\ result' = [by |-> q, value |-> v]
                                         /\ shown' = shown \cup {r}
                                         /\ UNCHANGED listed
           ELSE UNCHANGED <<listed, result, shown>>
        /\ UNCHANGED <<store, asked, served>>

\* The page's function for success, or its error function, which only logs.
CallBack ==
    LET r == Top
        v == served[got[r]]
    IN  /\ Complete
        /\ IF outcome[r] = "success"
           THEN IF asked[r] = TheList
                THEN listed' = v.certs /\ UNCHANGED <<result, shown>>
                ELSE /\ result' = [by |-> r, value |-> v]
                     /\ shown' = shown \cup {r}
                     /\ UNCHANGED listed
           ELSE UNCHANGED <<listed, result, shown>>
        /\ UNCHANGED <<store, asked, served>>

EndCall == Finish /\ UNCHANGED pageVars

Over ==
    /\ stack = <<>>
    /\ \A r \in Requests : kind[r] # "none" => net[r] = "gone"
    /\ UNCHANGED allVars

PageNext ==
    \/ ChangeStore
    \/ \E r \in Requests : Ready(r) \/ \E c \in Certs, d \in Docs : Click(r, c, d)
    \/ \E r \in Requests : Serve(r) \/ Arrive(r) \/ Lost(r)
    \/ CallBack \/ EndCall \/ Over

\* The engine runs the page's functions to their end; a request that was sent is
\* answered or lost.
PageSpec ==
    /\ PageInit /\ [][PageNext]_allVars
    /\ WF_allVars(CallBack \/ EndCall)
    /\ \A r \in Requests : WF_allVars(Arrive(r) \/ Lost(r))

-------------------------------------------------------------------------------
\* What stands in the field is a signature of the document and by the subject of
\* the very click whose function wrote it, whatever other answers arrived before
\* or are on their way under the same names (signReference, the jsonp prefilter).
ShownWasAsked ==
    result.by # None =>
        LET ask == asked[result.by]
        IN  /\ result.value.what = "signature"
            /\ result.value.doc = ask.doc
            /\ {DN[c] : c \in result.value.certs} = {DN[c] : c \in ask.certs}

\* The answer to a click is shown in the end, unless it could not be loaded: then
\* nothing ever tells the page (getJSON, script transport).
EveryAnswerIsShown ==
    \A r \in Requests :
        asked[r].what = "signature" ~> (r \in shown \/ (net[r] = "gone" /\ outcome[r] = "none"))
===============================================================================
