---------------------------- MODULE WebClientProofs ----------------------------
(***************************************************************************)
(* Proofs about the sample page, for any number of requests, certificates,   *)
(* subjects and documents.  Its requests are those of any page (AjaxProofs)  *)
(* of which none is aborted, so each is given its own answer; the page then  *)
(* shows what the service signed for that very request.                      *)
(***************************************************************************)
EXTENDS WebClient, AjaxProofs

Answers == [what : {"nothing", "list", "signature"}, certs : SUBSET Certs, doc : Docs \cup {None}]

PageTypes ==
    /\ store \subseteq Certs
    /\ listed \subseteq Certs
    /\ asked \in [Requests -> Answers]
    /\ served \in [Requests -> Answers]
    /\ result \in [by : Nullable, value : Answers]

\* The page aborts nothing, and makes scripts only.
OnlyScripts ==
    \A r \in Requests :
        /\ kind[r] \in {"none", "script"}
        /\ kind[r] = "none" <=> asked[r].what = "nothing"
        /\ outcome[r] # "aborted"

Subjects(cs) == {DN[c] : c \in cs}

\* The answer v is to the question q.
Fits(v, q) ==
    /\ v.what = q.what /\ q.what # "nothing"
    /\ q.what = "signature" => v.doc = q.doc /\ Subjects(v.certs) = Subjects(q.certs)

\* What the page asks is the list, or a signature by one certificate.
Asking(q) == q = TheList \/ \E c \in Certs, d \in Docs : q = Signature(c, d)

\* What was served was asked by that request, and what a request was given was served.
ServedRight ==
    \A r \in Requests :
        /\ asked[r] = Nothing \/ Asking(asked[r])
        /\ served[r] # Nothing => Fits(served[r], asked[r])
        /\ outcome[r] = "success" => served[r] # Nothing

ShownRight ==
    result.by # None => asked[result.by].what = "signature" /\ Fits(result.value, asked[result.by])

PageInv == IInv /\ PageTypes /\ OnlyScripts /\ ServedRight /\ ShownRight

-------------------------------------------------------------------------------
(* The records of questions and answers. *)

LEMMA NothingIs == Nothing \in Answers /\ Nothing.what = "nothing"
  BY DEF Nothing, Answers

LEMMA ListsAre ==
  ASSUME NEW s \in SUBSET Certs
  PROVE  [TheList EXCEPT !.certs = s] \in Answers /\ [TheList EXCEPT !.certs = s].what = "list"
  BY DEF Nothing, TheList, Answers

LEMMA TheListIs == TheList \in Answers /\ TheList.what = "list"
  BY DEF Nothing, TheList, Answers

LEMMA SignaturesAre ==
  ASSUME NEW c \in Certs, NEW d \in Docs \cup {None}
  PROVE  /\ Signature(c, d) \in Answers /\ Signature(c, d).what = "signature"
         /\ Signature(c, d).doc = d /\ Signature(c, d).certs = {c}
  <1>1. Signature(c, d) = [what |-> "signature", certs |-> {c}, doc |-> d]
    BY DEF Signature
  <1> QED
    BY <1>1 DEF Answers

LEMMA FieldsAre ==
  ASSUME NEW v \in Answers
  PROVE  v.what \in {"nothing", "list", "signature"} /\ v.certs \subseteq Certs /\ v.doc \in Docs \cup {None}
  BY DEF Answers

LEMMA AskingIs ==
  ASSUME NEW q, Asking(q)
  PROVE  q \in Answers /\ q.what \in {"list", "signature"} /\ (q.what = "list" => q = TheList)
  BY TheListIs, SignaturesAre DEF Asking

-------------------------------------------------------------------------------
(* The invariant is inductive. *)

LEMMA PageInitInv ==
  ASSUME PageInit
  PROVE  PageInv
  <1>1. IInv
    BY InitInv DEF PageInit
  <1>2. PageTypes
    BY NothingIs DEF PageInit, PageTypes, Nullable
  <1>3. OnlyScripts /\ ServedRight /\ ShownRight
    BY NothingIs DEF PageInit, RequestsInit, OnlyScripts, ServedRight, ShownRight
  <1> QED
    BY <1>1, <1>2, <1>3 DEF PageInv

\* A new request: what it asks was not asked before, so what is shown stays right.
LEMMA AskKeeps ==
  ASSUME PageInv, NEW r \in Requests, NEW q \in Answers,
         Asking(q),
         Send(r, "script"), asked' = [asked EXCEPT ![r] = q],
         UNCHANGED <<store, served, listed, result>>
  PROVE  PageInv'
  <1> USE DEF PageInv
  <1>1. IInv'
    BY PageKind, SendKeeps
  <1>2. kind[r] = "none" /\ kind' = [kind EXCEPT ![r] = "script"] /\ UNCHANGED outcome
    BY DEF Send
  <1>3. kind'[r] = "script" /\ \A x \in Requests : x # r => kind'[x] = kind[x]
    BY <1>2 DEF IInv, Types
  <1>4. asked[r].what = "nothing" /\ asked'[r] = q /\ \A x \in Requests : x # r => asked'[x] = asked[x]
    BY <1>2 DEF PageTypes, OnlyScripts
  <1>5. q.what # "nothing"
    BY AskingIs
  <1>6. PageTypes'
    BY DEF PageTypes
  <1>7. OnlyScripts'
    BY <1>2, <1>3, <1>4, <1>5 DEF OnlyScripts
  <1>8. ServedRight'
    <2>1. served[r] = Nothing
      BY <1>4 DEF ServedRight, Fits
    <2> QED
      BY <1>2, <1>4, <2>1 DEF ServedRight
  <1>9. ShownRight'
    <2>1. result.by # None => result.by \in Requests /\ result.by # r
      BY <1>4 DEF PageTypes, ShownRight, Nullable
    <2> QED
      BY <1>4, <2>1 DEF ShownRight
  <1> QED
    BY <1>1, <1>6, <1>7, <1>8, <1>9

LEMMA ReadyKeeps ==
  ASSUME PageInv, NEW r \in Requests, Ready(r)
  PROVE  PageInv'
  BY TheListIs, AskKeeps DEF Ready, Asking

LEMMA ClickKeeps ==
  ASSUME PageInv, NEW r \in Requests, NEW c \in Certs, NEW d \in Docs, Click(r, c, d)
  PROVE  PageInv'
  BY SignaturesAre, AskKeeps DEF Click, Asking

LEMMA ChangeStoreKeeps ==
  ASSUME PageInv, ChangeStore
  PROVE  PageInv'
  <1>1. store' \subseteq Certs /\ UNCHANGED <<requestVars, asked, served, listed, result>>
    BY DEF ChangeStore
  <1>2. IInv'
    BY <1>1, NextKeeps DEF PageInv
  <1> QED
    BY <1>1, <1>2 DEF PageInv, PageTypes, OnlyScripts, ServedRight, ShownRight, requestVars

\* The service answers the request with what it asked.
LEMMA ServeKeeps ==
  ASSUME PageInv, NEW r \in Requests, Serve(r)
  PROVE  PageInv'
  <1> USE DEF PageInv
  <1>1. served[r] = Nothing /\ UNCHANGED <<requestVars, store, asked, listed, result>>
    BY DEF Serve
  <1>2. IInv'
    BY <1>1, NextKeeps
  <1>3. PICK v \in Answers : served' = [served EXCEPT ![r] = v] /\ Fits(v, asked[r])
    <2>1. CASE asked[r] = TheList
      <3>1. served' = [served EXCEPT ![r] = [TheList EXCEPT !.certs = store]]
        BY <2>1 DEF Serve
      <3>2. [TheList EXCEPT !.certs = store] \in Answers /\ [TheList EXCEPT !.certs = store].what = "list"
        BY ListsAre DEF PageTypes
      <3> QED
        BY <2>1, <3>1, <3>2, TheListIs DEF Fits
    <2>2. CASE asked[r] # TheList
      <3>1. PICK c \in store, a \in asked[r].certs :
                 DN[c] = DN[a] /\ served' = [served EXCEPT ![r] = Signature(c, asked[r].doc)]
        BY <2>2 DEF Serve
      <3>2. PICK b \in Certs, d \in Docs : asked[r] = Signature(b, d)
        BY <2>2, <3>1 DEF ServedRight, Asking, Nothing
      <3>3. asked[r].doc = d /\ asked[r].certs = {b} /\ asked[r].what = "signature"
        BY <3>2, SignaturesAre
      <3>4. c \in Certs /\ DN[c] = DN[b]
        BY <3>1, <3>3 DEF PageTypes
      <3>5. /\ Signature(c, d) \in Answers /\ Signature(c, d).what = "signature"
            /\ Signature(c, d).doc = d /\ Signature(c, d).certs = {c}
        BY <3>4, SignaturesAre
      <3>6. Fits(Signature(c, d), asked[r])
        BY <3>3, <3>4, <3>5 DEF Fits, Subjects
      <3> QED
        BY <3>1, <3>3, <3>5, <3>6
    <2> QED
      BY <2>1, <2>2
  <1>4. served'[r] = v /\ \A x \in Requests : x # r => served'[x] = served[x]
    BY <1>3 DEF PageTypes
  <1>5. PageTypes'
    BY <1>1, <1>3 DEF PageTypes
  <1>6. OnlyScripts' /\ ShownRight'
    BY <1>1 DEF OnlyScripts, ShownRight, requestVars
  <1>7. ServedRight'
    BY <1>1, <1>3, <1>4 DEF ServedRight, requestVars, Fits
  <1> QED
    BY <1>2, <1>5, <1>6, <1>7

\* A request of the page that is over was not aborted, so it was given its own answer.
LEMMA OwnOnly ==
  ASSUME PageInv, NEW r \in Requests, outcome[r] = "success"
  PROVE  got[r] = r /\ kind[r] = "script" /\ Fits(served[r], asked[r])
  <1>1. kind[r] = "script"
    BY DEF PageInv, OnlyScripts, IInv, Lives
  <1>2. got[r] \in Requests /\ Suits(got[r], r)
    BY <1>1 DEF PageInv, IInv, GotRight
  <1>3. got[r] = r
    BY <1>2 DEF PageInv, OnlyScripts, Suits
  <1> QED
    BY <1>1, <1>3 DEF PageInv, ServedRight

\* A request is told success only when the script arrived, with what the service said.
LEMMA ArriveKeeps ==
  ASSUME PageInv, NEW r \in Requests, Arrive(r)
  PROVE  PageInv'
  <1> USE DEF PageInv
  <1>1. IInv'
    BY ScriptRunsKeeps DEF Arrive
  <1>2. UNCHANGED <<kind, pageVars>>
    BY DEF Arrive, ScriptRuns, Done
  <1>3. served[r] # Nothing
    BY DEF Arrive
  <1>4. \/ UNCHANGED outcome
        \/ \E told \in {"success", "error"} : outcome' = [outcome EXCEPT ![r] = told]
    BY DEF Arrive, ScriptRuns, Done, Told
  <1>5. \A q \in Requests : outcome'[q] = outcome[q] \/ (q = r /\ outcome'[q] \in {"success", "error"})
    BY <1>4 DEF IInv, Types
  <1>6. PageTypes' /\ ShownRight'
    BY <1>2 DEF PageTypes, ShownRight, pageVars
  <1>7. OnlyScripts'
    BY <1>2, <1>5 DEF OnlyScripts, pageVars
  <1>8. ServedRight'
    BY <1>2, <1>3, <1>5 DEF ServedRight, pageVars
  <1> QED
    BY <1>1, <1>6, <1>7, <1>8

LEMMA LostKeeps ==
  ASSUME PageInv, NEW r \in Requests, Lost(r)
  PROVE  PageInv'
  <1>1. IInv'
    BY ScriptLostKeeps DEF PageInv, Lost
  <1>2. UNCHANGED <<kind, outcome, pageVars>>
    BY DEF Lost, ScriptLost
  <1> QED
    BY <1>1, <1>2 DEF PageInv, PageTypes, OnlyScripts, ServedRight, ShownRight, pageVars

\* What is written is the answer of the request whose function writes.
LEMMA CallBackKeeps ==
  ASSUME PageInv, CallBack
  PROVE  PageInv'
  <1> USE DEF PageInv
  <1>1. IInv'
    BY CompleteKeeps DEF CallBack
  <1>2. PICK r \in Requests : r = Top
    BY TopIs DEF CallBack, Complete
  <1>3. UNCHANGED <<kind, outcome, store, asked, served>>
    BY DEF CallBack, Complete
  <1>4. OnlyScripts' /\ ServedRight'
    BY <1>3 DEF OnlyScripts, ServedRight
  <1>5. PageTypes' /\ ShownRight'
    <2>1. CASE UNCHANGED <<listed, result>>
      BY <1>3, <2>1 DEF PageTypes, ShownRight
    <2>2. CASE outcome[r] = "success" /\ asked[r] = TheList
      <3>1. listed' = served[r].certs /\ UNCHANGED result
        BY <1>2, <2>2, OwnOnly DEF CallBack
      <3>2. listed' \subseteq Certs
        BY <3>1, FieldsAre DEF PageTypes
      <3> QED
        BY <1>3, <3>1, <3>2 DEF PageTypes, ShownRight
    <2>3. CASE outcome[r] = "success" /\ asked[r] # TheList
      <3>1. result' = [by |-> r, value |-> served[r]] /\ UNCHANGED listed
        BY <1>2, <2>3, OwnOnly DEF CallBack
      <3>2. result' \in [by : Nullable, value : Answers] /\ result'.by = r /\ result'.value = served[r]
        BY <3>1 DEF PageTypes, Nullable
      <3>3. Fits(served[r], asked[r])
        BY <2>3, OwnOnly
      <3>4. asked[r].what = "signature"
        <4>1. asked[r].what # "nothing"
          BY <2>3, OwnOnly DEF OnlyScripts
        <4> QED
          BY <2>3, <4>1, AskingIs, NothingIs DEF ServedRight
      <3> QED
        BY <1>3, <3>1, <3>2, <3>3, <3>4 DEF PageTypes, ShownRight
    <2> QED
      BY <1>2, <2>1, <2>2, <2>3 DEF CallBack
  <1> QED
    BY <1>1, <1>4, <1>5

LEMMA EndCallKeeps ==
  ASSUME PageInv, EndCall
  PROVE  PageInv'
  <1>1. IInv'
    BY FinishKeeps DEF PageInv, EndCall
  <1>2. UNCHANGED <<kind, outcome, pageVars>>
    BY DEF EndCall, Finish
  <1> QED
    BY <1>1, <1>2 DEF PageInv, PageTypes, OnlyScripts, ServedRight, ShownRight, pageVars

-------------------------------------------------------------------------------
(* The theorems. *)

LEMMA PageNextKeeps ==
  ASSUME PageInv, [PageNext]_allVars
  PROVE  PageInv'
  <1>1. CASE ChangeStore
    BY <1>1, ChangeStoreKeeps
  <1>2. ASSUME NEW r \in Requests, Ready(r) PROVE PageInv'
    BY <1>2, ReadyKeeps
  <1>3. ASSUME NEW r \in Requests, NEW c \in Certs, NEW d \in Docs, Click(r, c, d) PROVE PageInv'
    BY <1>3, ClickKeeps
  <1>4. ASSUME NEW r \in Requests, Serve(r) PROVE PageInv'
    BY <1>4, ServeKeeps
  <1>5. ASSUME NEW r \in Requests, Arrive(r) PROVE PageInv'
    BY <1>5, ArriveKeeps
  <1>6. ASSUME NEW r \in Requests, Lost(r) PROVE PageInv'
    BY <1>6, LostKeeps
  <1>7. CASE CallBack
    BY <1>7, CallBackKeeps
  <1>8. CASE EndCall
    BY <1>8, EndCallKeeps
  <1>9. CASE UNCHANGED allVars
    <2>1. UNCHANGED requestVars /\ UNCHANGED pageVars
      BY <1>9 DEF allVars
    <2>2. IInv'
      BY <2>1, NextKeeps DEF PageInv
    <2> QED
      BY <2>1, <2>2 DEF PageInv, PageTypes, OnlyScripts, ServedRight, ShownRight, requestVars, pageVars
  <1>10. CASE Over
    BY <1>9, <1>10 DEF Over
  <1> QED
    BY <1>1, <1>2, <1>3, <1>4, <1>5, <1>6, <1>7, <1>8, <1>9, <1>10 DEF PageNext

\* Where the page, the service's answers and every request stand is kept by every step.
THEOREM PageInductive == PageSpec => []PageInv
  <1>1. PageInit => PageInv
    BY PageInitInv
  <1>2. PageInv /\ [PageNext]_allVars => PageInv'
    BY PageNextKeeps
  <1> QED
    BY <1>1, <1>2, PTL DEF PageSpec

\* For any number of clicks, documents and certificates, whatever order the answers
\* come in: the field shows a signature of the document and by the subject of the
\* click whose function wrote it (signReference).
THEOREM TheClickIsAnswered == PageSpec => []ShownWasAsked
  <1>1. ASSUME PageInv PROVE ShownWasAsked
    BY <1>1 DEF PageInv, ShownRight, ShownWasAsked, Fits, Subjects
  <1> QED
    BY <1>1, PageInductive, PTL

\* The page takes no name from a request that is open, and each of its requests is
\* given its own answer, without the exception other pages must live with.
THEOREM PageAnswersAreOwn ==
  PageSpec => [](NamesOwned /\ \A r \in Requests : outcome[r] = "success" => got[r] = r)
  <1>1. ASSUME PageInv PROVE \A r \in Requests : outcome[r] = "success" => got[r] = r
    BY <1>1, OwnOnly
  <1>2. ASSUME PageInv PROVE NamesOwned
    BY <1>2, NamesAreOwned DEF PageInv
  <1> QED
    BY <1>1, <1>2, PageInductive, PTL
===============================================================================
